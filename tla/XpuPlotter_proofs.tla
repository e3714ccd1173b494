-------------------------- MODULE XpuPlotter_proofs --------------------------
(***************************************************************************)
(* Proofs about XpuPlotter, for every number of paths, warps, files, CPU    *)
(* threads and GPUs, any sizes of tasks and buffers, any stop and any I/O   *)
(* errors: no hasher holds a task while the plot buffer is not the          *)
(* scheduler's, and files hold the right warps up to their markers.         *)
(***************************************************************************)
EXTENDS XpuPlotter, FiniteSetTheorems, FunctionTheorems, WellFoundedInduction, TLAPS

-----------------------------------------------------------------------------
(* Numbers. *)

\* A set of naturals has a least element.
LEMMA LeastNat ==
  ASSUME NEW T \in SUBSET Nat, T # {}
  PROVE  \E x \in T : \A y \in T : x <= y
<1>1. \A x, y \in Nat : <<x, y>> \in OpToRel(<, Nat) <=> x < y
  BY DEF OpToRel
<1>2. \E x \in T : \A y \in T : ~ (<<y, x>> \in OpToRel(<, Nat))
  BY WFMin, NatLessThanWellFounded, Zenon
<1>3. \E x \in T : \A y \in T : ~ (y < x)
  BY <1>1, <1>2, Zenon
<1> QED
  BY <1>3

\* A bounded set of naturals has a greatest element.
LEMMA GreatestNat ==
  ASSUME NEW n \in Nat, NEW T \in SUBSET (0 .. n), T # {}
  PROVE  \E x \in T : \A y \in T : y <= x
<1> DEFINE U == {n - d : d \in T}
<1>0. \A d \in T : n - d \in Nat /\ d \in Int
  OBVIOUS
<1>1. U \in SUBSET Nat /\ U # {}
  BY <1>0
<1>2. PICK u \in U : \A v \in U : u <= v
  BY <1>1, LeastNat
<1>3. PICK x \in T : u = n - x
  OBVIOUS
<1>4. \A y \in T : n - x <= n - y
  BY <1>2, <1>3
<1>5. \A y \in T : y <= x
  BY <1>4, <1>0
<1> QED
  BY <1>5

\* a rows of n fit below b rows with one to spare.
LEMMA RowBelow ==
  ASSUME NEW a \in Nat, NEW b \in Nat, NEW n \in Nat, a < b
  PROVE  a * n + n <= b * n
<1>1. (a + 1) * n <= b * n
  <2>1. a + 1 <= b
    OBVIOUS
  <2> QED
    BY <2>1
<1>2. (a + 1) * n = a * n + n
  OBVIOUS
<1> QED
  BY <1>1, <1>2

-----------------------------------------------------------------------------
(* Sums.  The scheduler compares the sum of what it was reported with the   *)
(* size of the buffer.  Sums are counted here, not folded: f adds up to the *)
(* number of units under its graph.                                         *)

Units(f) == UNION {{i} \X (1 .. f[i]) : i \in DOMAIN f}
Sum(f) == Cardinality(Units(f))
Others(f, i) == Units(f) \ ({i} \X (1 .. f[i]))

\* What the units are.
LEMMA UnitsAre ==
  ASSUME NEW D, NEW f \in [D -> Nat]
  PROVE  \A x : x \in Units(f) <=> \E i \in D : \E k \in 1 .. f[i] : x = <<i, k>>
BY DEF Units

\* The units of one index, without those of the others.
LEMMA UnitsOfOne ==
  ASSUME NEW i, NEW n \in Nat
  PROVE  IsFiniteSet({i} \X (1 .. n)) /\ Cardinality({i} \X (1 .. n)) = n
<1>1. IsFiniteSet({i}) /\ Cardinality({i}) = 1
  BY FS_Singleton
<1>2. IsFiniteSet(1 .. n) /\ Cardinality(1 .. n) = n
  BY FS_Interval
<1> DEFINE S == {i}
           T == 1 .. n
<1> HIDE DEF S, T
<1>3. IsFiniteSet(S \X T) /\ Cardinality(S \X T) = Cardinality(S) * Cardinality(T)
  BY <1>1, <1>2, FS_Product, Zenon DEF S, T
<1>4. Cardinality(S \X T) = 1 * n
  BY <1>1, <1>2, <1>3, Zenon DEF S, T
<1>5. 1 * n = n
  OBVIOUS
<1> QED
  BY <1>3, <1>4, <1>5, Zenon DEF S, T

\* The units of finitely many indices are finitely many.
LEMMA UnitsFinite ==
  ASSUME NEW D, IsFiniteSet(D), NEW f \in [D -> Nat]
  PROVE  IsFiniteSet(Units(f)) /\ Sum(f) \in Nat
<1> DEFINE Row(i) == {i} \X (1 .. f[i])
           Rows == {Row(i) : i \in D}
           row == [i \in D |-> Row(i)]
<1>1. row \in Surjection(D, Rows)
  BY DEF Surjection
<1>2. IsFiniteSet(Rows)
  BY <1>1, FS_Surjection, Zenon
<1>3. ASSUME NEW R \in Rows PROVE IsFiniteSet(R)
  <2>1. PICK i \in D : R = Row(i)
    OBVIOUS
  <2>2. f[i] \in Nat
    OBVIOUS
  <2> QED
    BY <2>1, <2>2, UnitsOfOne
<1>4. Units(f) = UNION Rows
  BY DEF Units
<1>5. IsFiniteSet(UNION Rows)
  <2> HIDE DEF Rows
  <2> QED
    BY <1>2, <1>3, FS_UNION, Zenon
<1> QED
  BY <1>4, <1>5, FS_CardinalityType, Zenon DEF Sum

\* The sum is one number and the rest.
LEMMA SumApart ==
  ASSUME NEW D, IsFiniteSet(D), NEW f \in [D -> Nat], NEW i \in D
  PROVE  /\ IsFiniteSet(Others(f, i))
         /\ Cardinality(Others(f, i)) \in Nat
         /\ Sum(f) = f[i] + Cardinality(Others(f, i))
<1> DEFINE Row == {i} \X (1 .. f[i])
<1>1. IsFiniteSet(Units(f)) /\ Sum(f) \in Nat /\ f[i] \in Nat
  BY UnitsFinite
<1>2. Row \subseteq Units(f)
  BY DEF Units
<1>3. Units(f) \cap Row = Row
  BY <1>2
<1>4. Cardinality(Row) = f[i]
  BY <1>1, UnitsOfOne
<1>5. Others(f, i) = Units(f) \ Row
  BY DEF Others
<1> HIDE DEF Row
<1>6. /\ IsFiniteSet(Units(f) \ Row)
      /\ Cardinality(Units(f) \ Row) = Cardinality(Units(f)) - Cardinality(Units(f) \cap Row)
  BY <1>1, FS_Difference
<1>7. Cardinality(Units(f) \ Row) \in Nat
  BY <1>6, FS_CardinalityType
<1>8. Cardinality(Units(f) \ Row) = Sum(f) - f[i]
  BY <1>3, <1>4, <1>6, Zenon DEF Sum
<1>9. Sum(f) = f[i] + Cardinality(Units(f) \ Row)
  BY <1>1, <1>7, <1>8
<1> QED
  BY <1>5, <1>6, <1>7, <1>9, Zenon

\* Changing one number changes the sum by as much.
LEMMA SumChange ==
  ASSUME NEW D, IsFiniteSet(D), NEW f \in [D -> Nat], NEW g \in [D -> Nat], NEW i \in D,
         \A j \in D : j # i => g[j] = f[j]
  PROVE  Sum(g) = Sum(f) - f[i] + g[i]
<1> DEFINE rf == Others(f, i)
           rg == Others(g, i)
<1>1. rf = rg
  <2>1. \A x : x \in rf <=> \E j \in D : \E k \in 1 .. f[j] : j # i /\ x = <<j, k>>
    BY UnitsAre DEF Others
  <2>2. \A x : x \in rg <=> \E j \in D : \E k \in 1 .. g[j] : j # i /\ x = <<j, k>>
    BY UnitsAre DEF Others
  <2> QED
    BY <2>1, <2>2
<1>2. Cardinality(rf) \in Nat /\ Sum(f) = f[i] + Cardinality(rf)
  BY SumApart
<1>3. Sum(g) = g[i] + Cardinality(rg)
  BY SumApart
<1>4. f[i] \in Nat /\ g[i] \in Nat
  OBVIOUS
<1> HIDE DEF rf, rg
<1> QED
  BY <1>1, <1>2, <1>3, <1>4

\* Taking out number i of m + 1 numbers; read the other way, putting one in.
LEMMA SumInsert ==
  ASSUME NEW m \in Nat, NEW f \in [1 .. m + 1 -> Nat], NEW g \in [1 .. m -> Nat],
         NEW i \in 1 .. m + 1,
         \A j \in 1 .. m : g[j] = IF j < i THEN f[j] ELSE f[j + 1]
  PROVE  Sum(f) = Sum(g) + f[i]
<1> DEFINE rest == Others(f, i)
           Up(x) == <<IF x[1] < i THEN x[1] ELSE x[1] + 1, x[2]>>
           up == [x \in Units(g) |-> Up(x)]
<1>0. IsFiniteSet(1 .. m) /\ IsFiniteSet(1 .. m + 1) /\ 1 .. m \subseteq Int
  BY FS_Interval
<1>1. \A x : x \in rest <=> \E j \in 1 .. m + 1 : \E k \in 1 .. f[j] : j # i /\ x = <<j, k>>
  <2>1. \A x : x \in Units(f) <=> \E j \in 1 .. m + 1 : \E k \in 1 .. f[j] : x = <<j, k>>
    BY DEF Units
  <2> QED
    BY <2>1 DEF Others
<1>2. \A x : x \in Units(g) <=> \E j \in 1 .. m : \E k \in 1 .. g[j] : x = <<j, k>>
  BY SMTT(20) DEF Units
<1>3. up \in [Units(g) -> rest]
  <2> SUFFICES ASSUME NEW x \in Units(g) PROVE Up(x) \in rest
    OBVIOUS
  <2>1a. PICK j \in 1 .. m : \E k \in 1 .. g[j] : x = <<j, k>>
    BY <1>2
  <2>1. PICK k \in 1 .. g[j] : x = <<j, k>>
    BY <2>1a
  <2>2. CASE j < i
    <3>1. j \in 1 .. m + 1 /\ j # i /\ k \in 1 .. f[j] /\ Up(x) = <<j, k>>
      BY <2>1, <2>2
    <3> HIDE DEF Up
    <3> QED
      BY <3>1, <1>1
  <2>3. CASE ~(j < i)
    <3>1. j + 1 \in 1 .. m + 1 /\ j + 1 # i /\ k \in 1 .. f[j + 1] /\ Up(x) = <<j + 1, k>>
      BY <2>1, <2>3
    <3> HIDE DEF Up
    <3> QED
      BY <3>1, <1>1
  <2> QED
    BY <2>2, <2>3
<1>4. ASSUME NEW x \in Units(g), NEW y \in Units(g), up[x] = up[y] PROVE x = y
  <2>1a. PICK j \in 1 .. m : \E k \in 1 .. g[j] : x = <<j, k>>
    BY <1>2
  <2>1. PICK k \in 1 .. g[j] : x = <<j, k>>
    BY <2>1a
  <2>2a. PICK l \in 1 .. m : \E n \in 1 .. g[l] : y = <<l, n>>
    BY <1>2
  <2>2. PICK n \in 1 .. g[l] : y = <<l, n>>
    BY <2>2a
  <2>3. (IF j < i THEN j ELSE j + 1) = (IF l < i THEN l ELSE l + 1) /\ k = n
    BY <1>4, <2>1, <2>2
  <2>4. j = l
    BY <2>3
  <2> QED
    BY <2>1, <2>2, <2>3, <2>4
<1>5. ASSUME NEW y \in rest PROVE \E x \in Units(g) : up[x] = y
  <2>1a. PICK j \in 1 .. m + 1 : \E k \in 1 .. f[j] : j # i /\ y = <<j, k>>
    BY <1>1
  <2>1. PICK k \in 1 .. f[j] : j # i /\ y = <<j, k>>
    BY <2>1a
  <2>2. CASE j < i
    <3>1. j \in 1 .. m /\ k \in 1 .. g[j]
      BY <2>1, <2>2
    <3>2. <<j, k>> \in Units(g) /\ Up(<<j, k>>) = <<j, k>>
      BY <3>1, <2>2, <1>2
    <3> QED
      BY <3>2, <2>1
  <2>3. CASE j > i
    <3>1. j - 1 \in 1 .. m /\ k \in 1 .. g[j - 1]
      BY <2>1, <2>3
    <3>2. <<j - 1, k>> \in Units(g) /\ Up(<<j - 1, k>>) = <<j, k>>
      BY <3>1, <2>3, <1>2
    <3> QED
      BY <3>2, <2>1
  <2>4. j < i \/ j > i
    BY <2>1
  <2> QED
    BY <2>2, <2>3, <2>4, Zenon
<1>6. up \in Bijection(Units(g), rest)
  BY <1>3, <1>4, <1>5, Fun_IsBij
<1>7. IsFiniteSet(Units(g)) /\ Sum(g) \in Nat
  BY <1>0, UnitsFinite
<1>8. Cardinality(rest) = Cardinality(Units(g))
  BY <1>6, <1>7, FS_Bijection DEF ExistsBijection
<1>9. Sum(f) = f[i] + Cardinality(rest)
  BY <1>0, SumApart, ZenonT(30)
<1>10. f[i] \in Nat
  OBVIOUS
<1> HIDE DEF rest
<1> QED
  BY <1>7, <1>8, <1>9, <1>10 DEF Sum

\* A sum is zero when all its numbers are.
LEMMA SumZero ==
  ASSUME NEW D, IsFiniteSet(D), NEW f \in [D -> Nat]
  PROVE  Sum(f) = 0 <=> \A i \in D : f[i] = 0
<1>1. ASSUME Sum(f) = 0, NEW i \in D PROVE f[i] = 0
  <2>1. Sum(f) = f[i] + Cardinality(Others(f, i)) /\ Cardinality(Others(f, i)) \in Nat
    BY SumApart
  <2>2. f[i] \in Nat
    OBVIOUS
  <2> QED
    BY <1>1, <2>1, <2>2
<1>2. ASSUME \A i \in D : f[i] = 0 PROVE Sum(f) = 0
  <2>1. Units(f) = {}
    BY <1>2 DEF Units
  <2> QED
    BY <2>1, FS_EmptySet, Zenon DEF Sum
<1> QED
  BY <1>1, <1>2

\* m + 1 marks that ascend, and the steps from each to the next.
Ascending(mark, m) == \A i, j \in 1 .. m + 1 : i <= j => mark[i] <= mark[j]
StepsOf(mark, m) == [i \in 1 .. m |-> mark[i + 1] - mark[i]]

\* The steps add up to the way from the first mark to the last.
LEMMA SumOfSteps ==
  ASSUME NEW m \in Nat, NEW mark \in [1 .. m + 1 -> Nat], NEW f \in [1 .. m -> Nat],
         Ascending(mark, m), f = StepsOf(mark, m)
  PROVE  Sum(f) = mark[m + 1] - mark[1]
<1> DEFINE At(x) == mark[x[1]] + x[2]
           at == [x \in Units(f) |-> At(x)]
           Way == mark[1] + 1 .. mark[m + 1]
<1>0. /\ 1 \in 1 .. m + 1 /\ m + 1 \in 1 .. m + 1
      /\ \A i \in 1 .. m : i \in 1 .. m + 1 /\ i + 1 \in 1 .. m + 1
      /\ \A i \in 1 .. m + 1 : mark[i] \in Nat
  OBVIOUS
<1>u. \A i, j \in 1 .. m + 1 : i <= j => mark[i] <= mark[j]
  BY DEF Ascending
<1>s. \A i \in 1 .. m : f[i] \in Nat /\ f[i] = mark[i + 1] - mark[i]
  BY DEF StepsOf
<1>1. \A x : x \in Units(f) <=> \E j \in 1 .. m : \E k \in 1 .. f[j] : x = <<j, k>>
  <2>1. DOMAIN f = 1 .. m
    OBVIOUS
  <2>2. Units(f) = UNION {{i} \X (1 .. f[i]) : i \in 1 .. m}
    BY <2>1, Zenon DEF Units
  <2> QED
    BY <2>2
<1>2. ASSUME NEW j \in 1 .. m, NEW k \in 1 .. f[j]
      PROVE  /\ mark[j] < mark[j] + k /\ mark[j] + k <= mark[j + 1]
             /\ mark[j] + k \in Way
  <2>1. mark[1] <= mark[j] /\ mark[j + 1] <= mark[m + 1]
    BY <1>0, <1>u
  <2>2. f[j] = mark[j + 1] - mark[j] /\ f[j] \in Nat
    BY <1>s
  <2>3. /\ mark[1] \in Nat /\ mark[j] \in Nat /\ mark[j + 1] \in Nat /\ mark[m + 1] \in Nat
        /\ k \in Int /\ 1 <= k /\ k <= f[j]
    BY <1>0
  <2>4. mark[j] + k <= mark[j + 1] /\ mark[j] + 1 <= mark[j] + k /\ mark[j] + k \in Int
    BY <2>2, <2>3, SMTT(20)
  <2> QED
    BY <2>1, <2>3, <2>4, SMTT(20)
<1>3. at \in [Units(f) -> Way]
  <2> SUFFICES ASSUME NEW x \in Units(f) PROVE At(x) \in Way
    OBVIOUS
  <2>1. PICK j \in 1 .. m : \E k \in 1 .. f[j] : x = <<j, k>>
    BY <1>1
  <2>2. PICK k \in 1 .. f[j] : x = <<j, k>>
    BY <2>1
  <2>3. At(x) = mark[j] + k
    BY <2>2
  <2> QED
    BY <2>3, <1>2
<1>4. ASSUME NEW x \in Units(f), NEW y \in Units(f), at[x] = at[y] PROVE x = y
  <2>1. PICK j \in 1 .. m : \E k \in 1 .. f[j] : x = <<j, k>>
    BY <1>1
  <2>2. PICK k \in 1 .. f[j] : x = <<j, k>>
    BY <2>1
  <2>3. PICK l \in 1 .. m : \E n \in 1 .. f[l] : y = <<l, n>>
    BY <1>1
  <2>4. PICK n \in 1 .. f[l] : y = <<l, n>>
    BY <2>3
  <2>5. mark[j] + k = mark[l] + n
    BY <1>4, <2>2, <2>4
  <2>6. /\ mark[j] < mark[j] + k /\ mark[j] + k <= mark[j + 1]
        /\ mark[l] < mark[l] + n /\ mark[l] + n <= mark[l + 1]
    BY <1>2
  <2>t. /\ mark[j] \in Nat /\ mark[j + 1] \in Nat /\ mark[l] \in Nat /\ mark[l + 1] \in Nat
        /\ k \in Int /\ n \in Int
    BY <1>0, SMTT(20)
  <2>7. ~(j < l)
    <3>1. SUFFICES ASSUME j < l PROVE FALSE
      OBVIOUS
    <3>2. mark[j + 1] <= mark[l]
      BY <3>1, <1>0, <1>u
    <3> QED
      BY <3>2, <2>5, <2>6, <2>t, SMTT(20)
  <2>8. ~(l < j)
    <3>1. SUFFICES ASSUME l < j PROVE FALSE
      OBVIOUS
    <3>2. mark[l + 1] <= mark[j]
      BY <3>1, <1>0, <1>u
    <3> QED
      BY <3>2, <2>5, <2>6, <2>t, SMTT(20)
  <2>9. j = l
    BY <2>7, <2>8
  <2>10. k = n
    BY <2>9, <2>5, <1>0
  <2> QED
    BY <2>9, <2>10, <2>2, <2>4
<1>5. ASSUME NEW y \in Way PROVE \E x \in Units(f) : at[x] = y
  <2> DEFINE Below == {i \in 1 .. m + 1 : mark[i] < y}
  <2>1. 1 \in Below /\ m + 1 \notin Below /\ y \in Nat
    BY <1>0
  <2>2. PICK i \in Below : \A j \in Below : j <= i
    <3>1. Below \in SUBSET (0 .. m + 1)
      OBVIOUS
    <3>2. Below # {} /\ m + 1 \in Nat
      BY <2>1
    <3> HIDE DEF Below
    <3> QED
      BY <3>1, <3>2, GreatestNat, Zenon
  <2>3. i \in 1 .. m
    <3>1. i \in 1 .. m + 1 /\ i # m + 1
      BY <2>1
    <3> QED
      BY <3>1
  <2>4. mark[i] < y /\ y <= mark[i + 1]
    <3>1. i + 1 \notin Below
      BY <2>2, <2>3
    <3> QED
      BY <3>1, <2>1, <2>3, <1>0
  <2>5. y - mark[i] \in 1 .. f[i]
    <3>1. f[i] = mark[i + 1] - mark[i] /\ mark[i] \in Nat /\ mark[i + 1] \in Nat
      BY <2>3, <1>0, <1>s
    <3> QED
      BY <2>1, <2>4, <3>1, SMTT(20)
  <2>6. <<i, y - mark[i]>> \in Units(f)
    BY <2>3, <2>5, <1>1
  <2>7. At(<<i, y - mark[i]>>) = y
    BY <2>1, <2>3, <1>0
  <2> QED
    BY <2>6, <2>7
<1>6. at \in Bijection(Units(f), Way)
  BY <1>3, <1>4, <1>5, Fun_IsBij
<1>7. IsFiniteSet(Units(f))
  BY UnitsFinite, FS_Interval, SMTT(20)
<1>8. Cardinality(Way) = Sum(f)
  BY <1>6, <1>7, FS_Bijection DEF ExistsBijection, Sum
<1>9. Cardinality(Way) = mark[m + 1] - mark[1]
  <2>1. mark[1] <= mark[m + 1]
    BY <1>0, <1>u
  <2>2. mark[1] + 1 \in Int /\ mark[m + 1] \in Int
    BY <1>0
  <2>3. Cardinality(Way) = IF mark[1] + 1 > mark[m + 1] THEN 0
                           ELSE mark[m + 1] - (mark[1] + 1) + 1
    BY <2>2, FS_Interval
  <2> QED
    BY <2>1, <2>3, <1>0
<1> QED
  BY <1>8, <1>9

-----------------------------------------------------------------------------
(* Types. *)

AnySeeds == Paths \X Nat
Cells == (AnySeeds \cup {NoTask.seed}) \X Nat
PlotContents == [Slots -> Cells]
Pieces == [seed : AnySeeds, start : Nat, chunk : Nat, n : Nat]
QueuedTasks == Pieces \cup {EndTask}
BufferTasks == [seed : AnySeeds, start : Nat, n : Nat]
Msgs == [type : {"hashed"}, n : Nat] \cup [type : {"cpu"}] \cup [type : {"gpu"}, id : GpuIds]
GpuStates == [pc : {"recv", "work", "ended"}, first : BOOLEAN, buffer : {0, 1},
              task : Pieces \cup {NoTask}, last : Pieces \cup {NoTask},
              seed : AnySeeds \cup {NoTask.seed},
              dev : [{0, 1} -> BufferTasks \cup {NoTask}]]

TypeOK ==
    /\ mpc \in {"setup", "join", "done"}
    /\ warps \in [Paths -> Nat]
    /\ plots \in [Paths -> Nat]
    /\ given \in Leftovers
    /\ spc \in {"down", "take", "control", "handover", "next", "ended"}
    /\ pointer \in Paths
    /\ seeds \in [Paths -> AnySeeds] /\ \A p \in Paths : seeds[p][1] = p
    /\ hashed \in [Paths -> Nat]
    /\ filesHashed \in [Paths -> Nat]
    /\ requested \in Nat
    /\ processed \in Nat
    /\ rx \in Seq(Msgs)
    /\ cpuTasks \in Seq(Pieces)
    /\ cpuIdle \in Nat
    /\ gpuQueue \in [GpuIds -> Seq(QueuedTasks)]
    /\ gpu \in [GpuIds -> GpuStates]
    /\ plot \in PlotContents
    /\ plotAt \in {"empty", "scheduler", "compressor", "lost"}
    /\ handed \in BufferTasks \cup {NoTask}
    /\ cpc \in {"down", "recv", "buffer", "send", "end", "ended", "panicked"}
    /\ ctask \in BufferTasks \cup {NoTask}

\* Before the threads are created nothing is planned; a path is never hashed
\* beyond the end of its file.
Planned ==
    /\ mpc = "setup" => /\ spc = "down" /\ ctask = NoTask /\ warps = Warps
                        /\ hashed = [p \in Paths |-> 0]
    /\ \A p \in Paths : hashed[p] <= warps[p]

-----------------------------------------------------------------------------
(* The plot buffer has one owner. *)

CompressorHolds == cpc \in {"buffer", "send"} \/ (cpc = "end" /\ ctask # NoTask)

OneOwner ==
    /\ plotAt = "scheduler" <=> spc \in {"control", "handover"}
    /\ handed # NoTask => plotAt = "compressor" /\ ~CompressorHolds
    /\ CompressorHolds => plotAt = "compressor"

-----------------------------------------------------------------------------
(* The nonces that are with the hashers or in messages to the scheduler.    *)

TaskSizes(s) == [i \in 1 .. Len(s) |-> IF s[i].n > 0 THEN s[i].n ELSE 0]
MsgSizes(s) == [i \in 1 .. Len(s) |-> IF s[i].type = "hashed" THEN s[i].n ELSE 0]
InWork(me) == IF me.pc = "work" THEN me.task.n ELSE 0
InDevice(me) == IF me.first THEN 0 ELSE me.last.n
GpuLoad(queue, me) == Sum(TaskSizes(queue)) + InWork(me) + InDevice(me)
GpuLoads(queues, states) == [g \in GpuIds |-> GpuLoad(queues[g], states[g])]
Underway(msgs, tasks, queues, states) ==
    Sum(MsgSizes(msgs)) + Sum(TaskSizes(tasks)) + Sum(GpuLoads(queues, states))

Counted ==
    /\ spc = "control" => /\ requested = processed + Underway(rx, cpuTasks, gpuQueue, gpu)
                          /\ requested <= BufferNonces
    /\ spc = "handover" => requested = BufferNonces
    /\ spc # "control" => Underway(rx, cpuTasks, gpuQueue, gpu) = 0

\* A piece of the buffer that holds size nonces of a seed, from number base.
PieceOf(t, seed, base, size) ==
    t \in Pieces /\ t.seed = seed /\ t.start = base + t.chunk /\ t.chunk + t.n <= size

QueueRight(queue, seed, base, size) ==
    \A i \in 1 .. Len(queue) : queue[i].n > 0 => PieceOf(queue[i], seed, base, size)

\* What a GPU works on and what it still holds in its other device buffer.
GpuRight(me, seed, base, size) ==
    /\ me.pc = "work" => IF me.task.n = 0 THEN ~me.first
                                          ELSE PieceOf(me.task, seed, base, size)
    /\ ~me.first => /\ me.last.n > 0
                    /\ PieceOf(me.last, seed, base, size)
                    /\ me.seed = seed
                    /\ me.dev[1 - me.buffer] = [seed |-> seed, start |-> me.last.start,
                                                n |-> me.last.n]

PiecesRight(tasks, queues, states, seed, base, size) ==
    /\ \A i \in 1 .. Len(tasks) : tasks[i].n > 0 /\ PieceOf(tasks[i], seed, base, size)
    /\ \A g \in GpuIds : QueueRight(queues[g], seed, base, size)
    /\ \A g \in GpuIds : GpuRight(states[g], seed, base, size)

-----------------------------------------------------------------------------
(* The content of the plot buffer.                                          *)

Covers(t, k) == t.n > 0 /\ t.chunk <= k /\ k < t.chunk + t.n

\* Slot k belongs to a piece whose nonces are not in the plot buffer yet.
Pending(tasks, queues, states, k) ==
    \/ \E i \in 1 .. Len(tasks) : Covers(tasks[i], k)
    \/ \E g \in GpuIds :
         \/ \E i \in 1 .. Len(queues[g]) : Covers(queues[g][i], k)
         \/ states[g].pc = "work" /\ Covers(states[g].task, k)
         \/ ~states[g].first /\ Covers(states[g].last, k)

Filled(content, tasks, queues, states, n, seed, base) ==
    \A k \in 0 .. n - 1 :
        content[k] = <<seed, base + k>> \/ Pending(tasks, queues, states, k)

\* The nonces of the warps of task t are in the plot buffer.
InPlot(t, content) ==
    /\ t.n <= Escalate
    /\ \A k \in 0 .. t.n * Nonces - 1 : content[k] = <<t.seed, Nonces * t.start + k>>

Seed == seeds[pointer]
Base == Nonces * hashed[pointer]

HashersRight ==
    /\ PiecesRight(cpuTasks, gpuQueue, gpu, Seed, Base, BufferNonces)
    /\ spc \in {"control", "handover"} =>
           Filled(plot, cpuTasks, gpuQueue, gpu, requested, Seed, Base)

TasksInPlot ==
    /\ handed # NoTask => InPlot(handed, plot)
    /\ cpc \in {"buffer", "send"} => ctask # NoTask /\ InPlot(ctask, plot)

-----------------------------------------------------------------------------
(* Write buffers and files. *)

Datas == UNION {[0 .. n - 1 -> Cells] : n \in 0 .. Escalate}
WriteTasks == [seed : AnySeeds, start : Nat, n : Nat, size : Nat, data : Datas]

DataRight(t) == t # EndTask => \A i \in 0 .. t.n - 1 : t.data[i] = <<t.seed, t.start + i>>

WritesRight ==
    /\ wqueue \in [Paths -> Seq(WriteTasks \cup {EndTask})]
    /\ wtask \in [Paths -> WriteTasks \cup {EndTask, NoTask}]
    /\ wpc \in [Paths -> {"recv", "write", "recycle", "ended", "failed"}]
    /\ \A p \in Paths : \A i \in 1 .. Len(wqueue[p]) : DataRight(wqueue[p][i])
    /\ \A p \in Paths : wpc[p] = "write" => wtask[p] \in WriteTasks /\ DataRight(wtask[p])

FileRight(s, f) ==
    /\ DOMAIN f = {"size", "marker", "finished", "data"}
    /\ f.size \in Nat /\ f.marker \in 0 .. f.size
    /\ DOMAIN f.data = 0 .. f.size - 1
    /\ \A w \in 0 .. f.marker - 1 : f.data[w] = <<s, w>>
FilesInv ==
    /\ files = [s \in Seeds |-> files[s]]
    /\ \A s \in Seeds : FileRight(s, files[s])

-----------------------------------------------------------------------------
(* Lemmas on the sums of tasks and messages.                                *)

NonNegative(n) == IF n > 0 THEN n ELSE 0

\* Every task and every message has a size.
LEMMA SizesAreNat ==
  ASSUME NEW s
  PROVE  /\ s \in Seq(QueuedTasks) => /\ TaskSizes(s) \in [1 .. Len(s) -> Nat]
                                      /\ Sum(TaskSizes(s)) \in Nat
         /\ s \in Seq(Msgs) => /\ MsgSizes(s) \in [1 .. Len(s) -> Nat]
                               /\ Sum(MsgSizes(s)) \in Nat
<1>1. ASSUME s \in Seq(QueuedTasks)
      PROVE  TaskSizes(s) \in [1 .. Len(s) -> Nat] /\ Sum(TaskSizes(s)) \in Nat
  <2>1. ASSUME NEW i \in 1 .. Len(s)
        PROVE  (IF s[i].n > 0 THEN s[i].n ELSE 0) \in Nat
    <3>1. s[i] \in QueuedTasks
      BY <1>1
    <3>2. s[i].n \in Int
      BY <3>1 DEF QueuedTasks, Pieces, EndTask
    <3> QED
      BY <3>2
  <2>2. TaskSizes(s) \in [1 .. Len(s) -> Nat]
    BY <2>1 DEF TaskSizes
  <2>3. IsFiniteSet(1 .. Len(s))
    BY <1>1, FS_Interval
  <2> QED
    BY <2>2, <2>3, UnitsFinite
<1>2. ASSUME s \in Seq(Msgs)
      PROVE  MsgSizes(s) \in [1 .. Len(s) -> Nat] /\ Sum(MsgSizes(s)) \in Nat
  <2>1. ASSUME NEW i \in 1 .. Len(s)
        PROVE  (IF s[i].type = "hashed" THEN s[i].n ELSE 0) \in Nat
    <3>1. s[i] \in Msgs
      BY <1>2
    <3> QED
      BY <3>1 DEF Msgs
  <2>2. MsgSizes(s) \in [1 .. Len(s) -> Nat]
    BY <2>1 DEF MsgSizes
  <2>3. IsFiniteSet(1 .. Len(s))
    BY <1>2, FS_Interval
  <2> QED
    BY <2>2, <2>3, UnitsFinite
<1> QED
  BY <1>1, <1>2

\* An appended task adds its size.
LEMMA AppendedTask ==
  ASSUME NEW s \in Seq(QueuedTasks), NEW t \in QueuedTasks
  PROVE  /\ Append(s, t) \in Seq(QueuedTasks)
         /\ Sum(TaskSizes(Append(s, t))) = Sum(TaskSizes(s)) + NonNegative(t.n)
<1> DEFINE a == Append(s, t)
           f == TaskSizes(a)
           g == TaskSizes(s)
<1>1. /\ a \in Seq(QueuedTasks) /\ Len(a) = Len(s) + 1 /\ Len(s) \in Nat
      /\ \A i \in 1 .. Len(s) : a[i] = s[i]
      /\ a[Len(s) + 1] = t
  OBVIOUS
<1>2. f \in [1 .. Len(s) + 1 -> Nat] /\ g \in [1 .. Len(s) -> Nat]
  BY <1>1, SizesAreNat
<1>3. \A j \in 1 .. Len(s) : g[j] = IF j < Len(s) + 1 THEN f[j] ELSE f[j + 1]
  BY <1>1 DEF TaskSizes
<1>4. f[Len(s) + 1] = NonNegative(t.n)
  BY <1>1 DEF TaskSizes, NonNegative
<1>5. Len(s) + 1 \in 1 .. Len(s) + 1
  BY <1>1
<1>6. Sum(f) = Sum(g) + f[Len(s) + 1]
  <2> HIDE DEF f, g
  <2> QED
    BY <1>1, <1>2, <1>3, <1>5, SumInsert
<1> QED
  BY <1>1, <1>4, <1>6

\* A task that is taken out takes its size with it.
LEMMA TaskWithout ==
  ASSUME NEW s \in Seq(QueuedTasks), NEW r \in Seq(QueuedTasks), NEW i \in 1 .. Len(s),
         Len(r) = Len(s) - 1,
         \A j \in 1 .. Len(s) - 1 : r[j] = IF j < i THEN s[j] ELSE s[j + 1]
  PROVE  Sum(TaskSizes(s)) = Sum(TaskSizes(r)) + NonNegative(s[i].n)
<1> DEFINE m == Len(s) - 1
           f == TaskSizes(s)
           g == TaskSizes(r)
<1>1. m \in Nat /\ Len(s) = m + 1 /\ i \in 1 .. m + 1
  OBVIOUS
<1>2. f \in [1 .. m + 1 -> Nat] /\ g \in [1 .. m -> Nat]
  BY <1>1, SizesAreNat
<1>3. ASSUME NEW j \in 1 .. m PROVE g[j] = IF j < i THEN f[j] ELSE f[j + 1]
  <2>1. j \in 1 .. Len(s) /\ j + 1 \in 1 .. Len(s) /\ j \in 1 .. Len(r)
    BY <1>1
  <2> QED
    BY <2>1 DEF TaskSizes
<1>4. f[i] = NonNegative(s[i].n)
  BY DEF TaskSizes, NonNegative
<1>5. Sum(f) = Sum(g) + f[i]
  <2> HIDE DEF f, g, m
  <2> QED
    BY <1>1, <1>2, <1>3, SumInsert
<1> QED
  BY <1>4, <1>5

\* The first task of a queue.
LEMMA FirstTaskOff ==
  ASSUME NEW s \in Seq(QueuedTasks), s # <<>>
  PROVE  /\ Tail(s) \in Seq(QueuedTasks)
         /\ Head(s) \in QueuedTasks
         /\ Sum(TaskSizes(s)) = Sum(TaskSizes(Tail(s))) + NonNegative(Head(s).n)
<1>1. /\ Tail(s) \in Seq(QueuedTasks) /\ Len(Tail(s)) = Len(s) - 1
      /\ Head(s) = s[1] /\ 1 \in 1 .. Len(s)
      /\ \A j \in 1 .. Len(s) - 1 : Tail(s)[j] = s[j + 1]
  OBVIOUS
<1>2. \A j \in 1 .. Len(s) - 1 : Tail(s)[j] = IF j < 1 THEN s[j] ELSE s[j + 1]
  BY <1>1
<1>3. s[1] \in QueuedTasks
  BY <1>1
<1> QED
  BY <1>1, <1>2, <1>3, TaskWithout

\* Messages come and go with their sizes.
LEMMA AppendedMsg ==
  ASSUME NEW s \in Seq(Msgs), NEW t \in Msgs
  PROVE  /\ Append(s, t) \in Seq(Msgs)
         /\ Sum(MsgSizes(Append(s, t))) =
                Sum(MsgSizes(s)) + (IF t.type = "hashed" THEN t.n ELSE 0)
<1> DEFINE a == Append(s, t)
           f == MsgSizes(a)
           g == MsgSizes(s)
<1>1. /\ a \in Seq(Msgs) /\ Len(a) = Len(s) + 1 /\ Len(s) \in Nat
      /\ \A i \in 1 .. Len(s) : a[i] = s[i]
      /\ a[Len(s) + 1] = t
  OBVIOUS
<1>2. f \in [1 .. Len(s) + 1 -> Nat] /\ g \in [1 .. Len(s) -> Nat]
  BY <1>1, SizesAreNat
<1>3. \A j \in 1 .. Len(s) : g[j] = IF j < Len(s) + 1 THEN f[j] ELSE f[j + 1]
  BY <1>1 DEF MsgSizes
<1>4. f[Len(s) + 1] = IF t.type = "hashed" THEN t.n ELSE 0
  BY <1>1 DEF MsgSizes
<1>5. Len(s) + 1 \in 1 .. Len(s) + 1
  BY <1>1
<1>6. Sum(f) = Sum(g) + f[Len(s) + 1]
  <2> HIDE DEF f, g
  <2> QED
    BY <1>1, <1>2, <1>3, <1>5, SumInsert
<1> QED
  BY <1>1, <1>4, <1>6

\* Taking the first message takes its nonces.
LEMMA FirstMsgOff ==
  ASSUME NEW s \in Seq(Msgs), s # <<>>
  PROVE  /\ Tail(s) \in Seq(Msgs)
         /\ Head(s) \in Msgs
         /\ Sum(MsgSizes(s)) =
                Sum(MsgSizes(Tail(s))) + (IF Head(s).type = "hashed" THEN Head(s).n ELSE 0)
<1> DEFINE m == Len(s) - 1
           f == MsgSizes(s)
           g == MsgSizes(Tail(s))
<1>1. /\ Tail(s) \in Seq(Msgs) /\ Len(Tail(s)) = m /\ m \in Nat /\ Len(s) = m + 1
      /\ Head(s) = s[1] /\ 1 \in 1 .. m + 1
      /\ \A j \in 1 .. m : Tail(s)[j] = s[j + 1]
  OBVIOUS
<1>2. f \in [1 .. m + 1 -> Nat] /\ g \in [1 .. m -> Nat]
  BY <1>1, SizesAreNat
<1>3. ASSUME NEW j \in 1 .. m PROVE g[j] = IF j < 1 THEN f[j] ELSE f[j + 1]
  <2>1. j + 1 \in 1 .. Len(s) /\ j \in 1 .. Len(Tail(s)) /\ ~(j < 1)
    BY <1>1
  <2> QED
    BY <2>1, <1>1 DEF MsgSizes
<1>4. f[1] = IF Head(s).type = "hashed" THEN Head(s).n ELSE 0
  BY <1>1 DEF MsgSizes
<1>5. Sum(f) = Sum(g) + f[1]
  <2> HIDE DEF f, g, m
  <2> QED
    BY <1>1, <1>2, <1>3, SumInsert
<1>6. s[1] \in Msgs
  BY <1>1
<1> QED
  BY <1>1, <1>4, <1>5, <1>6

\* What a GPU works on and what it holds.
LEMMA GpuHolds ==
  ASSUME NEW me \in GpuStates
  PROVE  InWork(me) \in Nat /\ InDevice(me) \in Nat
<1>1. me.task.n \in Nat /\ me.last.n \in Nat
  BY DEF GpuStates, Pieces, NoTask
<1> QED
  BY <1>1 DEF InWork, InDevice

\* What is with each GPU.
LEMMA LoadsAreNat ==
  ASSUME NEW queues \in [GpuIds -> Seq(QueuedTasks)], NEW states \in [GpuIds -> GpuStates]
  PROVE  /\ IsFiniteSet(GpuIds)
         /\ \A g \in GpuIds : GpuLoad(queues[g], states[g]) \in Nat
         /\ GpuLoads(queues, states) \in [GpuIds -> Nat]
         /\ Sum(GpuLoads(queues, states)) \in Nat
<1>1. IsFiniteSet(GpuIds)
  BY XpuAssumption, FS_Interval DEF XpuAssumption, GpuIds
<1>2. ASSUME NEW g \in GpuIds PROVE GpuLoad(queues[g], states[g]) \in Nat
  <2>1. Sum(TaskSizes(queues[g])) \in Nat
    BY SizesAreNat
  <2>2. states[g] \in GpuStates
    OBVIOUS
  <2>3. InWork(states[g]) \in Nat /\ InDevice(states[g]) \in Nat
    BY <2>2, GpuHolds
  <2> QED
    BY <2>1, <2>3 DEF GpuLoad
<1>3. GpuLoads(queues, states) \in [GpuIds -> Nat]
  BY <1>2 DEF GpuLoads
<1> QED
  BY <1>1, <1>2, <1>3, UnitsFinite

\* A number for each GPU, of which one changes.
LEMMA GpuSumChange ==
  ASSUME NEW x \in [GpuIds -> Nat], NEW y \in [GpuIds -> Nat], NEW g \in GpuIds,
         \A h \in GpuIds : h # g => y[h] = x[h]
  PROVE  Sum(y) = Sum(x) - x[g] + y[g]
<1>1. IsFiniteSet(GpuIds)
  BY XpuAssumption, FS_Interval DEF XpuAssumption, GpuIds
<1> QED
  BY <1>1, SumChange

\* When one GPU's load changes so does the sum.
LEMMA LoadChanges ==
  ASSUME NEW queues \in [GpuIds -> Seq(QueuedTasks)], NEW states \in [GpuIds -> GpuStates],
         NEW queues2 \in [GpuIds -> Seq(QueuedTasks)], NEW states2 \in [GpuIds -> GpuStates],
         NEW g \in GpuIds,
         \A h \in GpuIds : h # g => queues2[h] = queues[h] /\ states2[h] = states[h]
  PROVE  Sum(GpuLoads(queues2, states2)) =
           Sum(GpuLoads(queues, states)) - GpuLoad(queues[g], states[g])
                                         + GpuLoad(queues2[g], states2[g])
<1>1. PICK x \in [GpuIds -> Nat] : x = GpuLoads(queues, states)
  BY LoadsAreNat
<1>2. PICK y \in [GpuIds -> Nat] : y = GpuLoads(queues2, states2)
  BY LoadsAreNat
<1>3. x[g] = GpuLoad(queues[g], states[g]) /\ y[g] = GpuLoad(queues2[g], states2[g])
  BY <1>1, <1>2 DEF GpuLoads
<1>4. \A h \in GpuIds : h # g => y[h] = x[h]
  BY <1>1, <1>2 DEF GpuLoads
<1>5. Sum(y) = Sum(x) - x[g] + y[g]
  BY <1>4, GpuSumChange, Zenon
<1> QED
  BY <1>1, <1>2, <1>3, <1>5, Zenon

\* All that is underway.
LEMMA UnderwayIsNat ==
  ASSUME NEW msgs \in Seq(Msgs), NEW tasks \in Seq(Pieces),
         NEW queues \in [GpuIds -> Seq(QueuedTasks)], NEW states \in [GpuIds -> GpuStates]
  PROVE  /\ tasks \in Seq(QueuedTasks)
         /\ Sum(MsgSizes(msgs)) \in Nat
         /\ Sum(TaskSizes(tasks)) \in Nat
         /\ Sum(GpuLoads(queues, states)) \in Nat
         /\ Underway(msgs, tasks, queues, states) \in Nat
<1>1. tasks \in Seq(QueuedTasks)
  <2>1. Pieces \subseteq QueuedTasks
    BY DEF QueuedTasks
  <2> HIDE DEF Pieces, QueuedTasks
  <2> QED
    BY <2>1
<1>2. Sum(MsgSizes(msgs)) \in Nat
  BY SizesAreNat
<1>3. Sum(TaskSizes(tasks)) \in Nat
  BY <1>1, SizesAreNat
<1>4. Sum(GpuLoads(queues, states)) \in Nat
  BY LoadsAreNat
<1> QED
  BY <1>1, <1>2, <1>3, <1>4 DEF Underway

\* No hasher has a piece left to do.
Quiet(tasks, queues, states) ==
    /\ tasks = <<>>
    /\ \A g \in GpuIds : \A i \in 1 .. Len(queues[g]) : queues[g][i].n <= 0
    /\ \A g \in GpuIds : states[g].first /\ states[g].pc # "work"

\* When nothing is underway the hashers are quiet.
LEMMA NothingUnderway ==
  ASSUME NEW msgs \in Seq(Msgs), NEW tasks \in Seq(Pieces),
         NEW queues \in [GpuIds -> Seq(QueuedTasks)], NEW states \in [GpuIds -> GpuStates],
         NEW seed, NEW base, NEW size,
         PiecesRight(tasks, queues, states, seed, base, size),
         Underway(msgs, tasks, queues, states) = 0
  PROVE  Quiet(tasks, queues, states)
<1>1. /\ Sum(MsgSizes(msgs)) \in Nat /\ Sum(TaskSizes(tasks)) \in Nat
      /\ Sum(GpuLoads(queues, states)) \in Nat /\ tasks \in Seq(QueuedTasks)
  BY UnderwayIsNat
<1>2. Sum(TaskSizes(tasks)) = 0 /\ Sum(GpuLoads(queues, states)) = 0
  BY <1>1 DEF Underway
<1>3. tasks = <<>>
  <2> SUFFICES ASSUME tasks # <<>> PROVE FALSE
    OBVIOUS
  <2>1. Sum(TaskSizes(tasks)) = Sum(TaskSizes(Tail(tasks))) + NonNegative(Head(tasks).n)
        /\ Tail(tasks) \in Seq(QueuedTasks)
    BY <1>1, FirstTaskOff
  <2>2. Sum(TaskSizes(Tail(tasks))) \in Nat
    BY <2>1, SizesAreNat
  <2>3. Head(tasks).n \in Nat /\ Head(tasks).n > 0
    <3>1. 1 \in 1 .. Len(tasks) /\ Head(tasks) = tasks[1] /\ Head(tasks) \in Pieces
      OBVIOUS
    <3> QED
      BY <3>1 DEF PiecesRight, Pieces
  <2> QED
    BY <1>2, <2>1, <2>2, <2>3 DEF NonNegative
<1>4. ASSUME NEW g \in GpuIds PROVE GpuLoad(queues[g], states[g]) = 0
  <2> DEFINE e == GpuLoads(queues, states)
  <2>1. IsFiniteSet(GpuIds) /\ e \in [GpuIds -> Nat]
    BY LoadsAreNat
  <2>2. e[g] = GpuLoad(queues[g], states[g])
    BY DEF GpuLoads
  <2>3. e[g] = 0
    <3> HIDE DEF e
    <3>1. Sum(e) = 0
      BY <1>2 DEF e
    <3> QED
      BY <2>1, <3>1, SumZero
  <2> QED
    BY <2>2, <2>3
<1>5. ASSUME NEW g \in GpuIds
      PROVE  /\ Sum(TaskSizes(queues[g])) = 0
             /\ states[g].pc = "work" => states[g].task.n = 0
             /\ ~states[g].first => states[g].last.n = 0
  <2>1. Sum(TaskSizes(queues[g])) \in Nat
    BY SizesAreNat
  <2>2. InWork(states[g]) \in Nat /\ InDevice(states[g]) \in Nat
    BY GpuHolds
  <2>3. GpuLoad(queues[g], states[g]) = 0
    BY <1>4
  <2>4. Sum(TaskSizes(queues[g])) = 0 /\ InWork(states[g]) = 0 /\ InDevice(states[g]) = 0
    BY <2>1, <2>2, <2>3 DEF GpuLoad
  <2> QED
    BY <2>4 DEF InWork, InDevice
<1>6. ASSUME NEW g \in GpuIds PROVE states[g].first /\ states[g].pc # "work"
  <2>1. GpuRight(states[g], seed, base, size)
    BY DEF PiecesRight
  <2>2. states[g].first \in BOOLEAN
    BY DEF GpuStates
  <2>3. states[g].first
    BY <1>5, <2>1, <2>2 DEF GpuRight
  <2> QED
    BY <1>5, <2>1, <2>3 DEF GpuRight
<1>7. ASSUME NEW g \in GpuIds, NEW i \in 1 .. Len(queues[g]) PROVE queues[g][i].n <= 0
  <2> DEFINE q == queues[g]
             f == TaskSizes(q)
  <2>1. q \in Seq(QueuedTasks) /\ q[i] \in QueuedTasks
    OBVIOUS
  <2>2. f \in [1 .. Len(q) -> Nat] /\ Sum(f) = 0 /\ IsFiniteSet(1 .. Len(q))
    BY <1>5, <2>1, SizesAreNat, FS_Interval
  <2>3. f[i] = 0
    <3> HIDE DEF f, q
    <3> QED
      BY <2>2, SumZero DEF q
  <2>4. q[i].n \in Int
    BY <2>1 DEF QueuedTasks, Pieces, EndTask
  <2>5. f[i] = IF q[i].n > 0 THEN q[i].n ELSE 0
    BY DEF TaskSizes
  <2> QED
    BY <2>3, <2>4, <2>5
<1> QED
  BY <1>3, <1>6, <1>7 DEF Quiet

\* Quiet hashers have no piece of any buffer, nor any slot of it to fill.
LEMMA QuietIsRight ==
  ASSUME NEW tasks, NEW states, NEW queues \in [GpuIds -> Seq(QueuedTasks)],
         Quiet(tasks, queues, states), NEW seed, NEW base, NEW size
  PROVE  /\ PiecesRight(tasks, queues, states, seed, base, size)
         /\ \A k : ~Pending(tasks, queues, states, k)
<1>1. tasks = <<>> /\ Len(tasks) = 0 /\ 1 .. 0 = {}
  BY DEF Quiet
<1>2. ASSUME NEW g \in GpuIds, NEW i \in 1 .. Len(queues[g]) PROVE ~(queues[g][i].n > 0)
  <2>1. queues[g][i] \in QueuedTasks
    OBVIOUS
  <2>2. queues[g][i].n \in Int
    BY <2>1 DEF QueuedTasks, Pieces, EndTask
  <2> QED
    BY <2>2 DEF Quiet
<1>3. PiecesRight(tasks, queues, states, seed, base, size)
  BY <1>1, <1>2 DEF PiecesRight, QueueRight, GpuRight, Quiet
<1>4. ASSUME NEW k PROVE ~Pending(tasks, queues, states, k)
  BY <1>1, <1>2 DEF Pending, Covers, Quiet
<1> QED
  BY <1>3, <1>4

-----------------------------------------------------------------------------
(* The invariant holds at the start.                                        *)

XpuInv ==
    /\ TypeOK
    /\ Planned
    /\ OneOwner
    /\ Counted
    /\ HashersRight
    /\ TasksInPlot
    /\ WritesRight
    /\ FilesInv

\* The size of the buffer the scheduler works on.
LEMMA BufferFacts ==
  ASSUME TypeOK, Planned
  PROVE  /\ Nonces \in Nat \ {0} /\ Escalate \in Nat \ {0}
         /\ pointer \in Paths /\ hashed[pointer] \in Nat /\ warps[pointer] \in Nat
         /\ Seed \in AnySeeds /\ Seed[1] = pointer
         /\ Base \in Nat
         /\ BufferNonces \in Nat /\ BufferNonces <= Escalate * Nonces
         /\ BufferNonces \div Nonces \in Nat
         /\ BufferNonces \div Nonces <= Escalate
         /\ hashed[pointer] + BufferNonces \div Nonces <= warps[pointer]
         /\ (BufferNonces \div Nonces) * Nonces = BufferNonces
<1>1. /\ Nonces \in Nat \ {0} /\ Escalate \in Nat \ {0}
      /\ pointer \in Paths /\ hashed[pointer] \in Nat /\ warps[pointer] \in Nat
      /\ hashed[pointer] <= warps[pointer]
      /\ Seed \in AnySeeds /\ Seed[1] = pointer
  BY XpuAssumption DEF XpuAssumption, TypeOK, Planned, Seed
<1> DEFINE m == Min2(Escalate, warps[pointer] - hashed[pointer])
<1>2. m \in Nat /\ m <= Escalate /\ hashed[pointer] + m <= warps[pointer]
  BY <1>1 DEF Min2
<1>3. BufferNonces = Nonces * m
  BY DEF BufferNonces
<1> HIDE DEF m
<1>4. Nonces * m \in Nat /\ (Nonces * m) \div Nonces = m
  BY <1>1, <1>2
<1>5. Nonces * m <= Escalate * Nonces /\ m * Nonces = Nonces * m
  BY <1>1, <1>2
<1>6. Base \in Nat
  BY <1>1 DEF Base
<1>7. /\ BufferNonces \in Nat /\ BufferNonces <= Escalate * Nonces
      /\ BufferNonces \div Nonces = m
  BY <1>3, <1>4, <1>5
<1>8. (BufferNonces \div Nonces) * Nonces = BufferNonces
  BY <1>3, <1>5, <1>7
<1> QED
  BY <1>1, <1>2, <1>6, <1>7, <1>8

\* Unless the scheduler is in its control loop the hashers are quiet.
LEMMA QuietOutside ==
  ASSUME TypeOK, Counted, HashersRight, spc # "control"
  PROVE  Quiet(cpuTasks, gpuQueue, gpu)
<1>1. /\ rx \in Seq(Msgs) /\ cpuTasks \in Seq(Pieces) /\ gpuQueue \in [GpuIds -> Seq(QueuedTasks)]
      /\ gpu \in [GpuIds -> GpuStates]
  BY DEF TypeOK
<1>2. PiecesRight(cpuTasks, gpuQueue, gpu, Seed, Base, BufferNonces)
  BY DEF HashersRight
<1>3. Underway(rx, cpuTasks, gpuQueue, gpu) = 0
  BY DEF Counted
<1> QED
  BY <1>1, <1>2, <1>3, NothingUnderway, Zenon

\* Nothing is underway at first.
LEMMA NoLoads ==
  ASSUME NEW queues \in [GpuIds -> Seq(QueuedTasks)], NEW states \in [GpuIds -> GpuStates],
         \A g \in GpuIds : queues[g] = <<>> /\ states[g].first /\ states[g].pc # "work"
  PROVE  Underway(<<>>, <<>>, queues, states) = 0
<1>0. IsFiniteSet(1 .. 0)
  BY FS_Interval
<1>1. IsFiniteSet(1 .. 0) /\ IsFiniteSet(GpuIds) /\ GpuLoads(queues, states) \in [GpuIds -> Nat]
  BY <1>0, LoadsAreNat
<1>2. TaskSizes(<<>>) \in [1 .. 0 -> Nat] /\ MsgSizes(<<>>) \in [1 .. 0 -> Nat]
  BY DEF TaskSizes, MsgSizes
<1>3. \A i \in 1 .. 0 : FALSE
  OBVIOUS
<1>4. Sum(TaskSizes(<<>>)) = 0 /\ Sum(MsgSizes(<<>>)) = 0
  BY <1>1, <1>2, <1>3, SumZero
<1>5. \A g \in GpuIds : GpuLoads(queues, states)[g] = 0
  BY <1>4 DEF GpuLoads, GpuLoad, InWork, InDevice
<1>6. Sum(GpuLoads(queues, states)) = 0
  BY <1>1, <1>5, SumZero
<1> QED
  BY <1>4, <1>6 DEF Underway

\* At the start nothing is planned, no work is underway, and a file is right up
\* to the marker it was left with.
LEMMA InitInv == Init => XpuInv
<1> SUFFICES ASSUME Init PROVE XpuInv
  OBVIOUS
<1>1. TypeOK
  <2>1. 0 \in Paths
    BY XpuAssumption DEF XpuAssumption, Paths
  <2>2. /\ gpuQueue \in [GpuIds -> Seq(QueuedTasks)]
        /\ rx \in Seq(Msgs) /\ cpuTasks \in Seq(Pieces)
    BY DEF Init
  <2>3. gpu \in [GpuIds -> GpuStates]
    <3> DEFINE dev == [b \in {0, 1} |-> NoTask]
               me == [pc |-> "recv", first |-> TRUE, buffer |-> 0, task |-> NoTask,
                      last |-> NoTask, seed |-> <<-1, -1>>, dev |-> dev]
    <3>1. dev \in [{0, 1} -> BufferTasks \cup {NoTask}]
      OBVIOUS
    <3>2. NoTask.seed = <<-1, -1>>
      BY DEF NoTask
    <3>3. gpu = [g \in GpuIds |-> me]
      BY DEF Init
    <3> HIDE DEF dev
    <3>4. me \in GpuStates
      BY <3>1, <3>2 DEF GpuStates
    <3> HIDE DEF me
    <3> QED
      BY <3>3, <3>4
  <2>4. plot \in PlotContents
    BY DEF Init, PlotContents, Cells, Junk, NoTask
  <2>5. seeds \in [Paths -> AnySeeds] /\ \A p \in Paths : seeds[p][1] = p
    BY DEF Init, AnySeeds
  <2>6. warps \in [Paths -> Nat] /\ plots \in [Paths -> Nat]
    BY XpuAssumption DEF XpuAssumption, Init
  <2> QED
    BY <2>1, <2>2, <2>3, <2>4, <2>5, <2>6 DEF Init, TypeOK
<1>2. Planned
  BY XpuAssumption DEF XpuAssumption, Planned, Init
<1>3. OneOwner
  BY DEF OneOwner, Init, CompressorHolds
<1>4. Quiet(cpuTasks, gpuQueue, gpu)
  BY DEF Init, Quiet
<1>5. Underway(rx, cpuTasks, gpuQueue, gpu) = 0
  <2>1. \A g \in GpuIds : gpuQueue[g] = <<>> /\ gpu[g].first /\ gpu[g].pc # "work"
    BY DEF Init
  <2>2. /\ gpuQueue \in [GpuIds -> Seq(QueuedTasks)] /\ gpu \in [GpuIds -> GpuStates]
        /\ rx = <<>> /\ cpuTasks = <<>>
    BY <1>1 DEF Init, TypeOK
  <2> QED
    BY <2>1, <2>2, NoLoads
<1>6. Counted
  BY <1>5 DEF Counted, Init
<1>7. HashersRight
  <2>1. gpuQueue \in [GpuIds -> Seq(QueuedTasks)]
    BY <1>1 DEF TypeOK
  <2>2. PiecesRight(cpuTasks, gpuQueue, gpu, Seed, Base, BufferNonces)
    BY <2>1, <1>4, QuietIsRight
  <2> QED
    BY <2>2 DEF HashersRight, Init
<1>8. TasksInPlot
  BY DEF TasksInPlot, Init
<1>9. WritesRight
  BY DEF WritesRight, Init
<1>10. FilesInv
  <2>0. files = [s \in Seeds |-> files[s]]
    BY DEF Init
  <2> SUFFICES ASSUME NEW s \in Seeds PROVE FileRight(s, files[s])
    BY <2>0 DEF FilesInv
  <2>1. CASE s = <<0, 0>> /\ given > 0
    <3>1. files[s] = Partial(s, Warps[0], given)
      BY <2>1 DEF Init
    <3>2. Warps[0] \in Nat /\ given \in 0 .. Warps[0]
      BY <2>1, XpuAssumption DEF XpuAssumption, Init, NoSeed, Paths
    <3> QED
      BY <3>1, <3>2 DEF FileRight, Partial
  <2>2. CASE ~(s = <<0, 0>> /\ given > 0)
    <3>1. files[s] = NoFile
      BY <2>2 DEF Init
    <3> QED
      BY <3>1 DEF FileRight, NoFile
  <2> QED
    BY <2>1, <2>2
<1> QED
  BY <1>1, <1>2, <1>3, <1>6, <1>7, <1>8, <1>9, <1>10 DEF XpuInv

-----------------------------------------------------------------------------
(* Steps of the main thread, the user and the writers.                      *)

\* What the scheduler and the hashers keep is kept when they do nothing.
LEMMA WorkFrame ==
  ASSUME Counted, HashersRight,
         UNCHANGED <<spc, requested, processed, rx, cpuTasks, gpuQueue, gpu, plot,
                     pointer, seeds, hashed, warps>>
  PROVE  Counted' /\ HashersRight'
<1>1. BufferNonces' = BufferNonces /\ Seed' = Seed /\ Base' = Base
  BY DEF BufferNonces, Seed, Base
<1>2. Counted'
  BY <1>1 DEF Counted
<1>3. HashersRight'
  BY <1>1 DEF HashersRight
<1> QED
  BY <1>2, <1>3

\* So are types and the owner of the plot buffer.
LEMMA OwnerFrame ==
  ASSUME TypeOK, Planned, OneOwner, TasksInPlot, mpc # "setup",
         mpc' \in {"join", "done"},
         UNCHANGED <<warps, plots, given, schedVars, hashVars, plotAt, handed, cpc, ctask>>
  PROVE  TypeOK' /\ Planned' /\ OneOwner' /\ TasksInPlot'
<1>1. UNCHANGED <<warps, plots, given, spc, pointer, seeds, hashed, filesHashed, requested,
                  processed, rx, cpuTasks, cpuIdle, gpuQueue, gpu, plot, plotAt, handed,
                  cpc, ctask>>
  BY DEF schedVars, hashVars
<1>2. TypeOK'
  BY <1>1 DEF TypeOK
<1>3. Planned' /\ OneOwner'
  BY <1>1 DEF Planned, OneOwner, CompressorHolds
<1>4. TasksInPlot'
  BY <1>1 DEF TasksInPlot
<1> QED
  BY <1>2, <1>3, <1>4

\* Steps that leave the writers alone.
LEMMA WritesFrame ==
  ASSUME WritesRight, UNCHANGED writeVars
  PROVE  WritesRight'
BY DEF WritesRight, writeVars

\* Steps that leave the files alone.
LEMMA FilesFrame ==
  ASSUME FilesInv, UNCHANGED files
  PROVE  FilesInv'
BY DEF FilesInv

\* Joining a writer, or returning.
LEMMA JoinKeeps ==
  ASSUME XpuInv, Join
  PROVE  XpuInv'
<1>1. /\ mpc # "setup" /\ mpc' \in {"join", "done"}
      /\ UNCHANGED <<warps, plots, given, schedVars, hashVars, plotAt, handed, cpc, ctask,
                     writeVars, files>>
  BY DEF Join, Return, compVars, envVars
<1>2. UNCHANGED <<spc, requested, processed, rx, cpuTasks, gpuQueue, gpu, plot, pointer,
                  seeds, hashed, warps>>
  BY <1>1 DEF schedVars, hashVars
<1> QED
  BY <1>1, <1>2, WorkFrame, OwnerFrame, WritesFrame, FilesFrame, Zenon DEF XpuInv

\* The user requests a stop.
LEMMA RequestStopKeeps ==
  ASSUME XpuInv, RequestStop
  PROVE  XpuInv'
<1>1. /\ mpc # "setup" /\ mpc' \in {"join", "done"}
      /\ UNCHANGED <<warps, plots, given, schedVars, hashVars, plotAt, handed, cpc, ctask,
                     writeVars, files>>
  BY DEF RequestStop, Running, compVars, mainVars
<1>2. UNCHANGED <<spc, requested, processed, rx, cpuTasks, gpuQueue, gpu, plot, pointer,
                  seeds, hashed, warps>>
  BY <1>1 DEF schedVars, hashVars
<1> QED
  BY <1>1, <1>2, WorkFrame, OwnerFrame, WritesFrame, FilesFrame, Zenon DEF XpuInv

\* A writer's steps: only WriterWrite changes a file.
LEMMA WriterLeaves ==
  ASSUME NEW p \in Paths, Writer(p)
  PROVE  /\ mpc # "setup" /\ mpc' \in {"join", "done"}
         /\ UNCHANGED <<warps, plots, given, schedVars, hashVars, plotAt, handed, cpc, ctask>>
         /\ UNCHANGED <<spc, requested, processed, rx, cpuTasks, gpuQueue, gpu, plot, pointer,
                        seeds, hashed, warps>>
<1>1. /\ mpc = "join" /\ UNCHANGED <<mainVars, schedVars, hashVars, plotAt, compVars, given>>
  BY DEF Writer, WriterTake, WriterWrite, WriterRecycle, Running, envVars
<1>2. UNCHANGED <<mpc, warps, plots, handed, cpc, ctask>>
  BY <1>1 DEF mainVars, compVars
<1>3. UNCHANGED <<spc, requested, processed, rx, cpuTasks, gpuQueue, gpu, plot, pointer,
                  seeds, hashed>>
  BY <1>1 DEF schedVars, hashVars
<1> QED
  BY <1>1, <1>2, <1>3

\* A writer takes the tasks of its channel as they are.
LEMMA WriterTakeKeeps ==
  ASSUME WritesRight, NEW p \in Paths, WriterTake(p)
  PROVE  WritesRight'
<1> DEFINE T == WriteTasks \cup {EndTask}
           At == {"recv", "write", "recycle", "ended", "failed"}
<1>1. /\ wqueue \in [Paths -> Seq(T)] /\ wtask \in [Paths -> T \cup {NoTask}]
      /\ wpc \in [Paths -> At]
  BY DEF WritesRight
<1>2. CASE wqueue[p] # <<>>
  <2>1. /\ wqueue' = [wqueue EXCEPT ![p] = Tail(wqueue[p])]
        /\ wtask' = [wtask EXCEPT ![p] = Head(wqueue[p])]
        /\ wpc' = [wpc EXCEPT ![p] = IF Head(wqueue[p]) = EndTask THEN "ended" ELSE "write"]
    BY <1>2 DEF WriterTake
  <2>2. /\ wqueue[p] \in Seq(T) /\ Tail(wqueue[p]) \in Seq(T) /\ Head(wqueue[p]) \in T
        /\ Len(Tail(wqueue[p])) = Len(wqueue[p]) - 1 /\ Len(wqueue[p]) \in Nat \ {0}
        /\ \A i \in 1 .. Len(wqueue[p]) - 1 : Tail(wqueue[p])[i] = wqueue[p][i + 1]
        /\ Head(wqueue[p]) = wqueue[p][1]
    <3> HIDE DEF T
    <3>1. wqueue[p] \in Seq(T)
      BY <1>1
    <3> QED
      BY <3>1, <1>2
  <2>3. wqueue' \in [Paths -> Seq(T)] /\ wtask' \in [Paths -> T \cup {NoTask}]
    <3> HIDE DEF T
    <3> QED
      BY <1>1, <2>1, <2>2
  <2>4. ASSUME NEW q \in Paths, NEW i \in 1 .. Len(wqueue'[q]) PROVE DataRight(wqueue'[q][i])
    <3>1. CASE q = p
      <4>1. wqueue'[q] = Tail(wqueue[p])
        BY <1>1, <2>1, <3>1
      <4>2. i \in 1 .. Len(wqueue[p]) - 1
        BY <4>1, <2>2
      <4>3. i + 1 \in 1 .. Len(wqueue[p]) /\ wqueue'[q][i] = wqueue[p][i + 1]
        BY <4>1, <4>2, <2>2
      <4> QED
        BY <4>3, Zenon DEF WritesRight
    <3>2. CASE q # p
      <4>1. wqueue'[q] = wqueue[q]
        BY <1>1, <2>1, <3>2
      <4> QED
        BY <4>1 DEF WritesRight
    <3> QED
      BY <3>1, <3>2
  <2>5. ASSUME NEW q \in Paths, wpc'[q] = "write"
        PROVE  wtask'[q] \in WriteTasks /\ DataRight(wtask'[q])
    <3>1. CASE q = p
      <4>1. wtask'[q] = wqueue[p][1] /\ 1 \in 1 .. Len(wqueue[p])
        BY <1>1, <2>1, <2>2, <3>1
      <4>2. Head(wqueue[p]) # EndTask
        BY <1>1, <2>1, <2>5, <3>1
      <4>3. wqueue[p][1] \in WriteTasks
        BY <4>2, <2>2
      <4>4. DataRight(wqueue[p][1])
        BY <4>1, Zenon DEF WritesRight
      <4> QED
        BY <4>1, <4>3, <4>4, Zenon
    <3>2. CASE q # p
      <4>1. wtask'[q] = wtask[q]
        BY <1>1, <2>1, <3>2
      <4>2. wpc[q] = "write"
        BY <2>1, <2>5, <3>2
      <4> QED
        BY <4>1, <4>2 DEF WritesRight
    <3> QED
      BY <3>1, <3>2
  <2>6. wpc' \in [Paths -> At]
    BY <1>1, <2>1
  <2> QED
    BY <2>3, <2>4, <2>5, <2>6 DEF WritesRight
<1>3. CASE wqueue[p] = <<>>
  <2>1. wqueue' = wqueue /\ wtask' = wtask /\ wpc' = [wpc EXCEPT ![p] = "ended"]
    BY <1>3 DEF WriterTake
  <2>2. \A q \in Paths : wpc'[q] = "write" => wpc[q] = "write"
    BY <2>1
  <2>3. wpc' \in [Paths -> At]
    BY <1>1, <2>1
  <2> QED
    BY <2>1, <2>2, <2>3 DEF WritesRight
<1> QED
  BY <1>2, <1>3

\* A writer writes what follows on the warps the file holds.
LEMMA WriterWriteKeeps ==
  ASSUME WritesRight, FilesInv, NEW p \in Paths, WriterWrite(p)
  PROVE  WritesRight' /\ FilesInv'
<1> DEFINE t == wtask[p]
           f == Opened(t)
           end == t.start + t.n
<1>1. wpc[p] = "write" /\ UNCHANGED <<wqueue, wtask>>
  BY DEF WriterWrite
<1>2. /\ t.seed \in AnySeeds /\ t.start \in Nat /\ t.n \in Nat /\ t.size \in Nat
      /\ t # EndTask
      /\ \A i \in 0 .. t.n - 1 : t.data[i] = <<t.seed, t.start + i>>
  <2>1. t \in WriteTasks /\ DataRight(t)
    BY <1>1, Zenon DEF WritesRight
  <2>2. t # EndTask
    BY <2>1 DEF WriteTasks, EndTask
  <2> HIDE DEF t
  <2> QED
    BY <2>1, <2>2 DEF WriteTasks, DataRight
<1>3. WritesRight'
  <2>1. \E at \in {"recycle", "failed"} : wpc' = [wpc EXCEPT ![p] = at]
    BY DEF WriterWrite
  <2>2. PICK at \in {"recycle", "failed"} : wpc' = [wpc EXCEPT ![p] = at]
    BY <2>1
  <2>3. \A q \in Paths : wpc'[q] = "write" => wpc[q] = "write"
    BY <2>2
  <2>4. wpc' \in [Paths -> {"recv", "write", "recycle", "ended", "failed"}]
    BY <2>2 DEF WritesRight
  <2> QED
    BY <1>1, <2>3, <2>4 DEF WritesRight
<1>4. CASE UNCHANGED files
  BY <1>3, <1>4, FilesFrame
<1>5. CASE files' # files
  <2> DEFINE new == [f EXCEPT !.marker = end, !.finished = (end = f.size),
                              !.data = [w \in DOMAIN f.data |->
                                           IF w \in t.start .. end - 1
                                           THEN t.data[w - t.start] ELSE f.data[w]]]
  <2>1. WriteAllowed(t) /\ files' = [files EXCEPT ![t.seed] = new]
    BY <1>5 DEF WriterWrite
  <2>0. files' = [s \in Seeds |-> files'[s]]
    BY <2>1 DEF FilesInv
  <2> SUFFICES ASSUME NEW s \in Seeds PROVE FileRight(s, files'[s])
    BY <1>3, <2>0 DEF FilesInv
  <2>2. CASE s # t.seed
    <3>1. files'[s] = files[s]
      BY <2>1, <2>2
    <3> QED
      BY <3>1 DEF FilesInv
  <2>3. CASE s = t.seed
    <3>1. FileRight(s, f)
      <4>1. CASE t.start = 0
        <5>1. f = Partial(t.seed, t.size, 0)
          BY <4>1 DEF Opened
        <5> HIDE DEF f
        <5> QED
          BY <5>1, <1>2 DEF FileRight, Partial
      <4>2. CASE t.start # 0
        <5>1. f = files[s]
          BY <4>2, <2>3 DEF Opened
        <5> QED
          BY <5>1 DEF FilesInv
      <4> QED
        BY <4>1, <4>2
    <3>2. t.start = f.marker /\ end <= f.size
      BY <2>1 DEF WriteAllowed
    <3>3. /\ f.size \in Nat /\ f.marker \in 0 .. f.size /\ DOMAIN f.data = 0 .. f.size - 1
          /\ \A w \in 0 .. f.marker - 1 : f.data[w] = <<s, w>>
      BY <3>1 DEF FileRight
    <3>4. files'[s] = new
      <4>1. DOMAIN files = Seeds
        BY Zenon DEF FilesInv
      <4> QED
        BY <4>1, <2>1, <2>3
    <3>5. /\ new.size = f.size /\ new.marker = end
          /\ new.data = [w \in DOMAIN f.data |-> IF w \in t.start .. end - 1
                                                 THEN t.data[w - t.start] ELSE f.data[w]]
          /\ DOMAIN new = {"size", "marker", "finished", "data"}
      <4> DEFINE d == [w \in DOMAIN f.data |-> IF w \in t.start .. end - 1
                                               THEN t.data[w - t.start] ELSE f.data[w]]
                 full == end = f.size
      <4>1. DOMAIN f = {"size", "marker", "finished", "data"}
        BY <3>1 DEF FileRight
      <4> HIDE DEF f, end, d, full
      <4>2. LET g == [f EXCEPT !.marker = end, !.finished = full, !.data = d] IN
            /\ g.size = f.size /\ g.marker = end /\ g.data = d
            /\ DOMAIN g = {"size", "marker", "finished", "data"}
        BY <4>1
      <4> QED
        BY <4>2, Zenon DEF d, full
    <3>6. end \in 0 .. f.size
      BY <1>2, <3>2, <3>3
    <3>7. DOMAIN new.data = 0 .. f.size - 1
      BY <3>3, <3>5
    <3>8. ASSUME NEW w \in 0 .. end - 1 PROVE new.data[w] = <<s, w>>
      <4>1. w \in DOMAIN f.data
        BY <3>3, <3>6, <1>2
      <4>2. CASE w >= t.start
        <5>1. w - t.start \in 0 .. t.n - 1 /\ t.start + (w - t.start) = w
          BY <4>2, <1>2
        <5>2. w \in t.start .. end - 1
          BY <4>2, <1>2
        <5>3. new.data[w] = t.data[w - t.start]
          BY <3>5, <4>1, <5>2
        <5>4. t.data[w - t.start] = <<t.seed, t.start + (w - t.start)>>
          BY <5>1, <1>2
        <5> QED
          BY <5>1, <5>3, <5>4, <2>3
      <4>3. CASE w < t.start
        <5>1. w \in 0 .. f.marker - 1 /\ w \notin t.start .. end - 1
          BY <4>3, <1>2, <3>2
        <5>2. new.data[w] = f.data[w]
          BY <3>5, <4>1, <5>1
        <5> QED
          BY <5>1, <5>2, <3>3
      <4>4. w \in Int /\ (w >= t.start \/ w < t.start)
        BY <1>2
      <4> QED
        BY <4>2, <4>3, <4>4, Zenon
    <3>9. FileRight(s, new)
      <4> HIDE DEF new, f, end
      <4> QED
        BY <3>3, <3>5, <3>6, <3>7, <3>8 DEF FileRight
    <3> QED
      BY <3>4, <3>9, <1>5
  <2> QED
    BY <2>2, <2>3
<1> QED
  BY <1>3, <1>4, <1>5

\* A writer gives its write buffer back.
LEMMA WriterRecycleKeeps ==
  ASSUME WritesRight, NEW p \in Paths, WriterRecycle(p)
  PROVE  WritesRight'
<1>1. /\ wpc' = [wpc EXCEPT ![p] = "recv"]
      /\ wtask' = [wtask EXCEPT ![p] = NoTask]
      /\ wqueue' = wqueue
  BY DEF WriterRecycle
<1>2. \A q \in Paths : wpc'[q] = "write" => wpc[q] = "write" /\ wtask'[q] = wtask[q]
  BY <1>1 DEF WritesRight
<1>3. /\ wtask' \in [Paths -> WriteTasks \cup {EndTask, NoTask}]
      /\ wpc' \in [Paths -> {"recv", "write", "recycle", "ended", "failed"}]
  BY <1>1 DEF WritesRight
<1> QED
  BY <1>1, <1>2, <1>3 DEF WritesRight

\* Every step of a writer.
LEMMA WriterKeeps ==
  ASSUME XpuInv, NEW p \in Paths, Writer(p)
  PROVE  XpuInv'
<1>1. TypeOK' /\ Planned' /\ OneOwner' /\ TasksInPlot' /\ Counted' /\ HashersRight'
  BY WriterLeaves, OwnerFrame, WorkFrame, Zenon DEF XpuInv
<1>2. CASE WriterTake(p)
  <2>1. UNCHANGED files
    BY <1>2 DEF WriterTake
  <2> QED
    BY <1>1, <1>2, <2>1, WriterTakeKeeps, FilesFrame, Zenon DEF XpuInv
<1>3. CASE WriterWrite(p)
  BY <1>1, <1>3, WriterWriteKeeps, Zenon DEF XpuInv
<1>4. CASE WriterRecycle(p)
  <2>1. UNCHANGED files
    BY <1>4 DEF WriterRecycle
  <2> QED
    BY <1>1, <1>4, <2>1, WriterRecycleKeeps, FilesFrame, Zenon DEF XpuInv
<1> QED
  BY <1>2, <1>3, <1>4 DEF Writer

-----------------------------------------------------------------------------
(* Steps of the compressor.                                                 *)

\* The compressor touches neither the plan nor the work of the hashers.
LEMMA CompressorLeaves ==
  ASSUME Compressor
  PROVE  /\ mpc = "join" /\ mpc' = "join"
         /\ UNCHANGED <<warps, plots, given, spc, pointer, seeds, hashed, filesHashed,
                        requested, processed, rx, cpuTasks, cpuIdle, gpuQueue, gpu, plot>>
         /\ UNCHANGED <<wtask, wpc, files>>
<1>1. /\ mpc = "join"
      /\ UNCHANGED <<mainVars, schedVars, hashVars, wpc, wtask, envVars, files>>
  BY DEF Compressor, CompressorTake, CompressorBuffer, CompressorSend, CompressorEnd,
         Running, writeVars
<1> QED
  BY <1>1 DEF mainVars, schedVars, hashVars, envVars

\* The types of the compressor's own state.
LEMMA CompressorTypes ==
  ASSUME TypeOK, Planned, Compressor,
         plotAt' \in {"empty", "scheduler", "compressor", "lost"},
         handed' \in BufferTasks \cup {NoTask}, ctask' \in BufferTasks \cup {NoTask},
         cpc' \in {"down", "recv", "buffer", "send", "end", "ended", "panicked"}
  PROVE  TypeOK' /\ Planned'
BY CompressorLeaves DEF TypeOK, Planned

\* A warp of a right task is compressed to that warp of its file.
LEMMA CompressedRight ==
  ASSUME NEW t \in BufferTasks, InPlot(t, plot), NEW i \in 0 .. t.n - 1
  PROVE  Compress(i) = <<t.seed, t.start + i>>
<1>1. /\ Nonces \in Nat \ {0} /\ t.n \in Nat /\ t.start \in Nat /\ i \in Nat /\ i < t.n
  BY XpuAssumption DEF XpuAssumption, BufferTasks
<1>2. ASSUME NEW j \in 0 .. Nonces - 1
      PROVE  plot[i * Nonces + j] = <<t.seed, (t.start + i) * Nonces + j>>
  <2>1. i * Nonces + Nonces <= t.n * Nonces
    BY <1>1, RowBelow
  <2>2. /\ i * Nonces \in Nat /\ t.n * Nonces \in Nat /\ t.start * Nonces \in Nat
        /\ Nonces * t.start = t.start * Nonces
        /\ (t.start + i) * Nonces = t.start * Nonces + i * Nonces
    BY <1>1
  <2>3. i * Nonces + j \in 0 .. t.n * Nonces - 1
    BY <1>1, <2>1, <2>2
  <2>4. plot[i * Nonces + j] = <<t.seed, Nonces * t.start + (i * Nonces + j)>>
    BY <2>3 DEF InPlot
  <2>5. Nonces * t.start + (i * Nonces + j) = (t.start + i) * Nonces + j
    BY <2>2, <1>1
  <2> QED
    BY <2>4, <2>5
<1> DEFINE s == plot[i * Nonces][1]
           w == plot[i * Nonces][2] \div Nonces
<1>3. plot[i * Nonces] = <<t.seed, (t.start + i) * Nonces>>
  <2>1. 0 \in 0 .. Nonces - 1 /\ i * Nonces \in Nat /\ (t.start + i) * Nonces \in Nat
    BY <1>1
  <2>2. i * Nonces + 0 = i * Nonces /\ (t.start + i) * Nonces + 0 = (t.start + i) * Nonces
    BY <2>1
  <2> QED
    BY <1>2, <2>1, <2>2
<1>4. s = t.seed /\ w = t.start + i
  <2> DEFINE m == t.start + i
  <2>1. m \in Nat
    BY <1>1
  <2> HIDE DEF m
  <2>2. (m * Nonces) \div Nonces = m
    BY <1>1, <2>1
  <2> QED
    BY <2>2, <1>3 DEF m
<1>5. \A j \in 0 .. Nonces - 1 : plot[i * Nonces + j] = <<s, w * Nonces + j>>
  BY <1>2, <1>4
<1> HIDE DEF s, w
<1>6. Compress(i) = <<s, w>>
  BY <1>5, Zenon DEF Compress, s, w
<1> QED
  BY <1>4, <1>6

\* What is sent to a writer is right.
LEMMA ProcessedRight ==
  ASSUME TypeOK, ctask # NoTask, InPlot(ctask, plot)
  PROVE  ProcessTask(ctask) \in WriteTasks /\ DataRight(ProcessTask(ctask))
<1>1. /\ ctask \in BufferTasks /\ warps \in [Paths -> Nat]
  BY DEF TypeOK
<1> DEFINE t == ctask
           d == [i \in 0 .. t.n - 1 |-> Compress(i)]
<1>2. /\ t.seed \in AnySeeds /\ t.start \in Nat /\ t.n \in Nat /\ t.seed[1] \in Paths
  BY <1>1 DEF BufferTasks, AnySeeds
<1>3. \A i \in 0 .. t.n - 1 : Compress(i) = <<t.seed, t.start + i>>
  BY <1>1, CompressedRight
<1>4. d \in Datas
  <2>1. \A i \in 0 .. t.n - 1 : Compress(i) \in Cells
    BY <1>2, <1>3 DEF Cells
  <2>2. d \in [0 .. t.n - 1 -> Cells]
    BY <2>1
  <2>3. t.n \in 0 .. Escalate
    BY <1>2, XpuAssumption DEF InPlot, XpuAssumption
  <2> QED
    BY <2>2, <2>3 DEF Datas
<1>5. warps[t.seed[1]] \in Nat
  BY <1>1, <1>2
<1>6. ProcessTask(t) = [seed |-> t.seed, start |-> t.start, n |-> t.n,
                        size |-> warps[t.seed[1]], data |-> d]
  BY DEF ProcessTask
<1>7. \A i \in 0 .. t.n - 1 : d[i] = <<t.seed, t.start + i>>
  BY <1>3
<1> HIDE DEF d
<1> QED
  BY <1>2, <1>4, <1>5, <1>6, <1>7 DEF WriteTasks, DataRight

\* A task put into a writer's channel.
LEMMA ChannelGrows ==
  ASSUME WritesRight, NEW p \in Paths, NEW t \in WriteTasks \cup {EndTask}, DataRight(t),
         wqueue' = [wqueue EXCEPT ![p] = Append(wqueue[p], t)], UNCHANGED <<wtask, wpc>>
  PROVE  WritesRight'
<1> DEFINE T == WriteTasks \cup {EndTask}
<1>1. wqueue \in [Paths -> Seq(T)]
  BY DEF WritesRight
<1>2. /\ wqueue[p] \in Seq(T) /\ Append(wqueue[p], t) \in Seq(T)
      /\ Len(Append(wqueue[p], t)) = Len(wqueue[p]) + 1 /\ Len(wqueue[p]) \in Nat
      /\ \A i \in 1 .. Len(wqueue[p]) : Append(wqueue[p], t)[i] = wqueue[p][i]
      /\ Append(wqueue[p], t)[Len(wqueue[p]) + 1] = t
  <2> HIDE DEF T
  <2>1. wqueue[p] \in Seq(T) /\ t \in T
    BY <1>1 DEF T
  <2> QED
    BY <2>1
<1>3. wqueue' \in [Paths -> Seq(T)]
  <2> HIDE DEF T
  <2> QED
    BY <1>1, <1>2
<1>4. ASSUME NEW q \in Paths, NEW i \in 1 .. Len(wqueue'[q]) PROVE DataRight(wqueue'[q][i])
  <2>1. CASE q # p
    <3>1. wqueue'[q] = wqueue[q]
      BY <1>1, <2>1
    <3> QED
      BY <3>1 DEF WritesRight
  <2>2. CASE q = p
    <3>1. wqueue'[q] = Append(wqueue[p], t)
      BY <1>1, <2>2
    <3>2. CASE i \in 1 .. Len(wqueue[p])
      <4>1. wqueue'[q][i] = wqueue[p][i]
        BY <1>2, <3>1, <3>2
      <4> QED
        BY <4>1, <3>2, Zenon DEF WritesRight
    <3>3. CASE i \notin 1 .. Len(wqueue[p])
      <4>1. i = Len(wqueue[p]) + 1
        BY <1>2, <3>1, <3>3
      <4>2. wqueue'[q][i] = t
        BY <1>2, <3>1, <4>1
      <4> QED
        BY <4>2
    <3> QED
      BY <3>2, <3>3
  <2> QED
    BY <2>1, <2>2
<1> QED
  BY <1>3, <1>4 DEF WritesRight

\* The compressor takes the buffer that was handed over, or ends.
LEMMA CompressorTakeKeeps ==
  ASSUME XpuInv, CompressorTake
  PROVE  TypeOK' /\ Planned' /\ OneOwner' /\ TasksInPlot' /\ WritesRight'
<1>0. TypeOK /\ Planned /\ OneOwner /\ TasksInPlot /\ WritesRight
  BY DEF XpuInv
<1>1. /\ cpc = "recv" /\ UNCHANGED <<plotAt, writeVars, spc, plot>>
      /\ \/ handed # NoTask /\ ctask' = handed /\ handed' = NoTask /\ cpc' = "buffer"
         \/ handed = NoTask /\ cpc' = "ended" /\ UNCHANGED <<ctask, handed>>
  BY DEF CompressorTake, schedVars, hashVars
<1>2. /\ handed' \in BufferTasks \cup {NoTask} /\ ctask' \in BufferTasks \cup {NoTask}
      /\ plotAt' \in {"empty", "scheduler", "compressor", "lost"}
      /\ cpc' \in {"down", "recv", "buffer", "send", "end", "ended", "panicked"}
  BY <1>0, <1>1 DEF TypeOK
<1>3. TypeOK' /\ Planned'
  BY <1>0, <1>2, CompressorTypes DEF Compressor
<1>4. OneOwner'
  BY <1>0, <1>1 DEF OneOwner, CompressorHolds
<1>5. TasksInPlot'
  <2>1. CASE handed # NoTask
    <3>1. InPlot(ctask', plot') /\ ctask' # NoTask /\ handed' = NoTask
      BY <1>0, <1>1, <2>1 DEF TasksInPlot
    <3> QED
      BY <3>1 DEF TasksInPlot
  <2>2. CASE handed = NoTask
    BY <1>1, <2>2 DEF TasksInPlot
  <2> QED
    BY <2>1, <2>2
<1> QED
  BY <1>0, <1>1, <1>3, <1>4, <1>5, WritesFrame

\* Waiting for a write buffer, the compressor keeps the plot buffer, or panics
\* and nobody has it any more.
LEMMA CompressorBufferKeeps ==
  ASSUME XpuInv, CompressorBuffer
  PROVE  TypeOK' /\ Planned' /\ OneOwner' /\ TasksInPlot' /\ WritesRight'
<1>0. TypeOK /\ Planned /\ OneOwner /\ TasksInPlot /\ WritesRight
  BY DEF XpuInv
<1>1. /\ cpc = "buffer" /\ UNCHANGED <<handed, ctask, writeVars, spc, plot>>
      /\ \/ cpc' = "send" /\ UNCHANGED plotAt
         \/ cpc' = "panicked" /\ plotAt' = "lost"
  BY DEF CompressorBuffer, Panic, schedVars, hashVars
<1>2. /\ handed' \in BufferTasks \cup {NoTask} /\ ctask' \in BufferTasks \cup {NoTask}
      /\ plotAt' \in {"empty", "scheduler", "compressor", "lost"}
      /\ cpc' \in {"down", "recv", "buffer", "send", "end", "ended", "panicked"}
  BY <1>0, <1>1 DEF TypeOK
<1>3. TypeOK' /\ Planned'
  BY <1>0, <1>2, CompressorTypes DEF Compressor
<1>4. OneOwner'
  BY <1>0, <1>1 DEF OneOwner, CompressorHolds
<1>5. TasksInPlot'
  BY <1>0, <1>1 DEF TasksInPlot
<1> QED
  BY <1>0, <1>1, <1>3, <1>4, <1>5, WritesFrame

\* The compressor sends what it made of the plot buffer and gives that back.
LEMMA CompressorSendKeeps ==
  ASSUME XpuInv, CompressorSend
  PROVE  TypeOK' /\ Planned' /\ OneOwner' /\ TasksInPlot' /\ WritesRight'
<1>0. TypeOK /\ Planned /\ OneOwner /\ TasksInPlot /\ WritesRight
  BY DEF XpuInv
<1> DEFINE p == ctask.seed[1]
<1>1. /\ cpc = "send" /\ UNCHANGED <<handed, ctask, wtask, wpc, spc, plot>>
      /\ \/ cpc' = "panicked" /\ plotAt' = "lost" /\ UNCHANGED wqueue
         \/ /\ wqueue' = [wqueue EXCEPT ![p] = Append(wqueue[p], ProcessTask(ctask))]
            /\ \/ cpc' = "end" /\ UNCHANGED plotAt
               \/ cpc' = "recv" /\ plotAt' = "empty"
  BY DEF CompressorSend, Panic, schedVars, hashVars
<1>2. ctask # NoTask /\ InPlot(ctask, plot) /\ CompressorHolds
  BY <1>0, <1>1 DEF TasksInPlot, CompressorHolds
<1>3. /\ handed' \in BufferTasks \cup {NoTask} /\ ctask' \in BufferTasks \cup {NoTask}
      /\ plotAt' \in {"empty", "scheduler", "compressor", "lost"}
      /\ cpc' \in {"down", "recv", "buffer", "send", "end", "ended", "panicked"}
  BY <1>0, <1>1 DEF TypeOK
<1>4. TypeOK' /\ Planned'
  BY <1>0, <1>3, CompressorTypes DEF Compressor
<1>5. OneOwner'
  BY <1>0, <1>1, <1>2 DEF OneOwner, CompressorHolds
<1>6. TasksInPlot'
  BY <1>0, <1>1 DEF TasksInPlot
<1>7. WritesRight'
  <2>1. CASE UNCHANGED wqueue
    BY <1>0, <1>1, <2>1, WritesFrame DEF writeVars
  <2>2. CASE wqueue' = [wqueue EXCEPT ![p] = Append(wqueue[p], ProcessTask(ctask))]
    <3>1. p \in Paths
      BY <1>0, <1>2 DEF TypeOK, BufferTasks, AnySeeds
    <3>2. ProcessTask(ctask) \in WriteTasks /\ DataRight(ProcessTask(ctask))
      BY <1>0, <1>2, ProcessedRight
    <3> HIDE DEF p
    <3> QED
      BY <1>0, <1>1, <2>2, <3>1, <3>2, ChannelGrows
  <2> QED
    BY <1>1, <2>1, <2>2
<1> QED
  BY <1>4, <1>5, <1>6, <1>7

\* The compressor tells the writers that it ends.
LEMMA CompressorEndKeeps ==
  ASSUME XpuInv, CompressorEnd
  PROVE  TypeOK' /\ Planned' /\ OneOwner' /\ TasksInPlot' /\ WritesRight'
<1>0. TypeOK /\ Planned /\ OneOwner /\ TasksInPlot /\ WritesRight
  BY DEF XpuInv
<1>1. /\ cpc = "end" /\ UNCHANGED <<handed, ctask, wtask, wpc, spc, plot>>
      /\ \/ UNCHANGED <<cpc, plotAt>>
         \/ cpc' = "ended" /\ plotAt' = IF ctask = NoTask THEN plotAt ELSE "empty"
      /\ \/ UNCHANGED wqueue
         \/ wqueue' = [wqueue EXCEPT ![endTo] = Append(wqueue[endTo], EndTask)]
  BY DEF CompressorEnd, schedVars, hashVars
<1>2. /\ handed' \in BufferTasks \cup {NoTask} /\ ctask' \in BufferTasks \cup {NoTask}
      /\ plotAt' \in {"empty", "scheduler", "compressor", "lost"}
      /\ cpc' \in {"down", "recv", "buffer", "send", "end", "ended", "panicked"}
  BY <1>0, <1>1 DEF TypeOK
<1>3. TypeOK' /\ Planned'
  BY <1>0, <1>2, CompressorTypes DEF Compressor
<1>4. OneOwner'
  BY <1>0, <1>1 DEF OneOwner, CompressorHolds
<1>5. TasksInPlot'
  BY <1>0, <1>1 DEF TasksInPlot
<1>6. WritesRight'
  <2>1. CASE UNCHANGED wqueue
    BY <1>0, <1>1, <2>1, WritesFrame DEF writeVars
  <2>2. CASE wqueue' = [wqueue EXCEPT ![endTo] = Append(wqueue[endTo], EndTask)]
    <3>1. CASE endTo \in Paths
      <4>1. DataRight(EndTask)
        BY DEF DataRight
      <4> QED
        BY <1>0, <1>1, <2>2, <3>1, <4>1, ChannelGrows
    <3>2. CASE endTo \notin Paths
      <4>1. DOMAIN wqueue = Paths /\ wqueue = [q \in Paths |-> wqueue[q]]
        BY <1>0 DEF WritesRight
      <4>2. wqueue' = wqueue
        BY <2>2, <3>2, <4>1
      <4> QED
        BY <2>1, <4>2
    <3> QED
      BY <3>1, <3>2
  <2> QED
    BY <1>1, <2>1, <2>2
<1> QED
  BY <1>3, <1>4, <1>5, <1>6

\* The steps of the compressor keep the invariant.
LEMMA CompressorKeeps ==
  ASSUME XpuInv, Compressor
  PROVE  XpuInv'
<1>1. TypeOK' /\ Planned' /\ OneOwner' /\ TasksInPlot' /\ WritesRight'
  BY CompressorTakeKeeps, CompressorBufferKeeps, CompressorSendKeeps, CompressorEndKeeps,
     Zenon DEF Compressor
<1>2. /\ UNCHANGED <<spc, requested, processed, rx, cpuTasks, gpuQueue, gpu, plot, pointer,
                     seeds, hashed, warps>>
      /\ UNCHANGED files
  BY CompressorLeaves
<1>3. Counted' /\ HashersRight'
  BY <1>2, WorkFrame DEF XpuInv
<1>4. FilesInv'
  BY <1>2, FilesFrame DEF XpuInv
<1> QED
  BY <1>1, <1>3, <1>4 DEF XpuInv
-----------------------------------------------------------------------------
(* The plan.                                                                *)

\* What PlanOK lets through has a size and a number of files.
LEMMA PlanIsNat ==
  ASSUME NEW p \in Paths, NEW n \in Nat, NEW left \in Nat, PlanOK(p, n, left)
  PROVE  /\ PlannedWarps(p, n) \in Nat /\ PlannedPlots(p, n) \in Nat
         /\ Warps[p] <= PlannedWarps(p, n)
<1>1. Warps[p] \in Nat /\ Space[p] \in Nat
  BY XpuAssumption DEF XpuAssumption
<1>2. CASE Warps[p] = 0
  <2>1. n > 0
    BY <1>2 DEF PlanOK
  <2>2. Space[p] \div n \in Nat
    BY <1>1, <2>1
  <2> QED
    BY <1>2, <2>1, <2>2 DEF PlannedWarps, PlannedPlots
<1>3. CASE Warps[p] # 0
  <2>1. Space[p] \div Warps[p] \in Nat
    BY <1>1, <1>3
  <2> QED
    BY <1>1, <1>3, <2>1 DEF PlannedWarps, PlannedPlots
<1> QED
  BY <1>2, <1>3

\* The state Setup leaves, whichever way it goes.
LEMMA SetupResult ==
  ASSUME TypeOK, Planned, Setup
  PROVE  /\ mpc' \in {"join", "done"}
         /\ warps' \in [Paths -> Nat] /\ plots' \in [Paths -> Nat]
         /\ seeds' \in [Paths -> AnySeeds] /\ \A p \in Paths : seeds'[p][1] = p
         /\ hashed' \in [Paths -> Nat] /\ \A p \in Paths : hashed'[p] <= warps'[p]
         /\ \/ UNCHANGED <<spc, cpc>>
            \/ spc' = "take" /\ cpc' \in {"end", "recv"}
<1>1. /\ mpc = "setup" /\ warps = Warps /\ hashed = [p \in Paths |-> 0]
      /\ plots \in [Paths -> Nat] /\ seeds \in [Paths -> AnySeeds]
      /\ \A p \in Paths : seeds[p][1] = p
      /\ given \in {NoSeed} \cup (0 .. Warps[0])
      /\ 0 \in Paths
      /\ Warps \in [Paths -> Nat] /\ Plots \in [Paths -> Nat]
  <2>1. mpc = "setup"
    BY Zenon DEF Setup
  <2>2. 0 \in Paths
    BY XpuAssumption DEF XpuAssumption, Paths
  <2>3. /\ Leftovers \subseteq {NoSeed} \cup (0 .. Warps[0])
        /\ Warps \in [Paths -> Nat] /\ Plots \in [Paths -> Nat]
    BY XpuAssumption DEF XpuAssumption
  <2>4. warps = Warps /\ hashed = [p \in Paths |-> 0]
    BY <2>1 DEF Planned
  <2>5. /\ given \in Leftovers /\ plots \in [Paths -> Nat] /\ seeds \in [Paths -> AnySeeds]
        /\ \A p \in Paths : seeds[p][1] = p
    BY Zenon DEF TypeOK
  <2> QED
    BY <2>1, <2>2, <2>3, <2>4, <2>5
<1> DEFINE n == IF KillWindow THEN [Plots EXCEPT ![0] = @ - 1] ELSE Plots
           left == IF KillWindow \/ given = NoSeed THEN 0 ELSE given
<1>2. n \in [Paths -> Nat]
  <2>1. CASE KillWindow
    <3>1. Plots[0] \in Nat /\ Plots[0] >= 1
      BY <1>1, <2>1 DEF KillWindow
    <3>2. Plots[0] - 1 \in Nat
      BY <3>1
    <3>3. [Plots EXCEPT ![0] = Plots[0] - 1] \in [Paths -> Nat]
      BY <1>1, <3>2
    <3> QED
      BY <2>1, <3>3
  <2>2. CASE ~KillWindow
    BY <1>1, <2>2
  <2> QED
    BY <2>1, <2>2
<1>3. left \in Nat /\ left <= Warps[0]
  <2>1. Warps[0] \in Nat
    BY <1>1
  <2> QED
    BY <1>1, <2>1 DEF NoSeed
<1>4. \/ /\ mpc' = "done" /\ UNCHANGED <<warps, seeds, hashed, spc, cpc>>
         /\ plots' = n \/ plots' = plots
      \/ /\ \A p \in Paths : PlanOK(p, n[p], left)
         /\ warps' = [p \in Paths |-> PlannedWarps(p, n[p])]
         /\ plots' = [p \in Paths |-> PlannedPlots(p, n[p])]
         /\ seeds' = seeds \/ seeds' = [seeds EXCEPT ![0] = <<0, 0>>]
         /\ hashed' = [hashed EXCEPT ![0] = left]
         /\ spc' = "take" /\ cpc' \in {"end", "recv"} /\ mpc' = "join"
  BY Zenon DEF Setup, Return
<1> HIDE DEF n, left
<1>5. CASE mpc' = "done" /\ UNCHANGED <<warps, seeds, hashed, spc, cpc>>
           /\ (plots' = n \/ plots' = plots)
  <2>1. \A p \in Paths : hashed[p] <= warps[p]
    BY DEF Planned
  <2> QED
    BY <1>1, <1>2, <1>5, <2>1
<1>6. CASE /\ \A p \in Paths : PlanOK(p, n[p], left)
           /\ warps' = [p \in Paths |-> PlannedWarps(p, n[p])]
           /\ plots' = [p \in Paths |-> PlannedPlots(p, n[p])]
           /\ seeds' = seeds \/ seeds' = [seeds EXCEPT ![0] = <<0, 0>>]
           /\ hashed' = [hashed EXCEPT ![0] = left]
           /\ spc' = "take" /\ cpc' \in {"end", "recv"} /\ mpc' = "join"
  <2>1. \A p \in Paths : /\ PlannedWarps(p, n[p]) \in Nat /\ PlannedPlots(p, n[p]) \in Nat
                         /\ Warps[p] <= PlannedWarps(p, n[p])
    BY <1>2, <1>3, <1>6, PlanIsNat
  <2>2. warps' \in [Paths -> Nat] /\ plots' \in [Paths -> Nat]
    BY <1>6, <2>1
  <2>3. <<0, 0>> \in AnySeeds /\ <<0, 0>>[1] = 0
    BY <1>1 DEF AnySeeds
  <2>4. seeds' \in [Paths -> AnySeeds] /\ \A p \in Paths : seeds'[p][1] = p
    <3> HIDE DEF AnySeeds
    <3> QED
      BY <1>1, <1>6, <2>3
  <2>5. hashed' \in [Paths -> Nat]
    BY <1>1, <1>3, <1>6
  <2>6. ASSUME NEW p \in Paths PROVE hashed'[p] <= warps'[p]
    <3>1. warps'[p] = PlannedWarps(p, n[p]) /\ warps'[p] \in Nat
      BY <1>6, <2>2
    <3>2. CASE p = 0
      <4>1. hashed'[p] = left /\ Warps[p] \in Nat /\ Warps[p] <= warps'[p]
        BY <1>1, <1>6, <2>1, <3>1, <3>2
      <4> QED
        BY <1>3, <3>1, <3>2, <4>1
    <3>3. CASE p # 0
      <4>1. hashed'[p] = 0
        BY <1>1, <1>6, <3>3
      <4> QED
        BY <3>1, <4>1
    <3> QED
      BY <3>2, <3>3
  <2> QED
    BY <1>6, <2>2, <2>4, <2>5, <2>6
<1> QED
  BY <1>4, <1>5, <1>6, Zenon

\* Planning keeps the invariant: the threads start with nothing to do.
LEMMA SetupKeeps ==
  ASSUME XpuInv, Setup
  PROVE  XpuInv'
<1>0. TypeOK /\ Planned /\ OneOwner /\ TasksInPlot /\ WritesRight /\ FilesInv
      /\ Counted /\ HashersRight
  BY DEF XpuInv
<1>1. /\ mpc = "setup"
      /\ UNCHANGED <<pointer, filesHashed, requested, processed, rx, cpuTasks, cpuIdle,
                     gpuQueue, gpu, plot, plotAt, handed, ctask, writeVars, given>>
      /\ files' = files \/ files' = [files EXCEPT ![<<0, 0>>].finished = TRUE]
  BY DEF Setup, hashVars, envVars
<1>2. spc = "down" /\ ctask = NoTask
  BY <1>0, <1>1 DEF Planned
<1>3. /\ mpc' \in {"join", "done"}
      /\ warps' \in [Paths -> Nat] /\ plots' \in [Paths -> Nat]
      /\ seeds' \in [Paths -> AnySeeds] /\ \A p \in Paths : seeds'[p][1] = p
      /\ hashed' \in [Paths -> Nat] /\ \A p \in Paths : hashed'[p] <= warps'[p]
      /\ \/ UNCHANGED <<spc, cpc>>
         \/ spc' = "take" /\ cpc' \in {"end", "recv"}
  BY <1>0, SetupResult
<1>4. TypeOK' /\ Planned'
  BY <1>0, <1>1, <1>3 DEF TypeOK, Planned
<1>5. OneOwner' /\ TasksInPlot'
  BY <1>0, <1>1, <1>2, <1>3 DEF OneOwner, TasksInPlot, CompressorHolds
<1>6. Quiet(cpuTasks, gpuQueue, gpu) /\ Underway(rx, cpuTasks, gpuQueue, gpu) = 0
  BY <1>0, <1>2, QuietOutside DEF Counted
<1>7. spc' \in {"down", "take"}
  BY <1>2, <1>3
<1>8. Counted'
  BY <1>1, <1>6, <1>7 DEF Counted
<1>9. PiecesRight(cpuTasks, gpuQueue, gpu, Seed', Base', BufferNonces')
  BY <1>0, <1>6, QuietIsRight DEF TypeOK
<1>10. HashersRight'
  BY <1>1, <1>7, <1>9 DEF HashersRight
<1>11. FilesInv'
  <2>1. CASE files' = files
    BY <1>0, <2>1, FilesFrame
  <2>2. CASE files' = [files EXCEPT ![<<0, 0>>].finished = TRUE]
    <3>1. files' = [s \in Seeds |-> files'[s]]
      BY <1>0, <2>2 DEF FilesInv
    <3>2. ASSUME NEW s \in Seeds PROVE FileRight(s, files'[s])
      <4>1. FileRight(s, files[s])
        BY <1>0 DEF FilesInv
      <4>2. CASE s = <<0, 0>>
        <5>1. files'[s] = [files[s] EXCEPT !.finished = TRUE]
          BY <1>0, <2>2, <4>2 DEF FilesInv
        <5>2. /\ files'[s].size = files[s].size /\ files'[s].marker = files[s].marker
              /\ files'[s].data = files[s].data /\ DOMAIN files'[s] = DOMAIN files[s]
          BY <4>1, <5>1 DEF FileRight
        <5> QED
          BY <4>1, <5>2 DEF FileRight
      <4>3. CASE s # <<0, 0>>
        <5>1. files'[s] = files[s]
          BY <1>0, <2>2, <4>3 DEF FilesInv
        <5> QED
          BY <4>1, <5>1
      <4> QED
        BY <4>2, <4>3
    <3> QED
      BY <3>1, <3>2 DEF FilesInv
  <2> QED
    BY <1>1, <2>1, <2>2
<1>12. WritesRight'
  BY <1>0, <1>1, WritesFrame
<1> QED
  BY <1>4, <1>5, <1>8, <1>10, <1>11, <1>12 DEF XpuInv
-----------------------------------------------------------------------------
(* Steps of the scheduler: handing over, going on, ending.                  *)

\* What the scheduler leaves alone.
LEMMA SchedulerLeaves ==
  ASSUME Scheduler
  PROVE  /\ mpc = "join"
         /\ UNCHANGED <<mpc, warps, plots, given, cpuIdle, gpu, plot, cpc, ctask>>
         /\ UNCHANGED writeVars
         /\ UNCHANGED files
<1>1. /\ mpc = "join"
      /\ UNCHANGED <<mainVars, gpu, plot, cpc, ctask, cpuIdle, writeVars, envVars, files>>
  BY DEF Scheduler, TakeBuffer, Control, HandOver, Advance, Running, compVars, hashVars
<1> QED
  BY <1>1 DEF mainVars, envVars

\* The plot buffer is handed over when every slot of it is filled.
LEMMA HandOverKeeps ==
  ASSUME XpuInv, HandOver
  PROVE  XpuInv'
<1>0. TypeOK /\ Planned /\ OneOwner /\ TasksInPlot /\ WritesRight /\ FilesInv
      /\ Counted /\ HashersRight
  BY DEF XpuInv
<1>1. /\ spc = "handover" /\ spc' = "next" /\ handed = NoTask
      /\ UNCHANGED <<pointer, seeds, filesHashed, requested, processed, rx, cpuTasks,
                     gpuQueue>>
      /\ handed' = [seed |-> seeds[pointer], start |-> hashed[pointer],
                    n |-> BufferNonces \div Nonces]
      /\ plotAt' = "compressor"
      /\ hashed' = [hashed EXCEPT ![pointer] = hashed[pointer] + BufferNonces \div Nonces]
  BY DEF HandOver, hashVars
<1>2. /\ mpc = "join"
      /\ UNCHANGED <<mpc, warps, plots, given, cpuIdle, gpu, plot, cpc, ctask>>
      /\ UNCHANGED writeVars /\ UNCHANGED files
  BY SchedulerLeaves DEF Scheduler
<1>3. /\ pointer \in Paths /\ hashed[pointer] \in Nat /\ Seed \in AnySeeds
      /\ BufferNonces \div Nonces \in Nat /\ BufferNonces \div Nonces <= Escalate
      /\ hashed[pointer] + BufferNonces \div Nonces <= warps[pointer]
      /\ (BufferNonces \div Nonces) * Nonces = BufferNonces
      /\ Nonces \in Nat \ {0}
  BY <1>0, BufferFacts
<1> DEFINE m == BufferNonces \div Nonces
<1> HIDE DEF m
<1>4. handed' \in BufferTasks /\ handed'.n = m /\ handed'.seed = Seed
      /\ handed'.start = hashed[pointer]
  BY <1>1, <1>3 DEF BufferTasks, Seed, m
<1>5. hashed' \in [Paths -> Nat] /\ \A p \in Paths : hashed'[p] <= warps'[p]
  <2>1. hashed[pointer] + m \in Nat /\ hashed[pointer] + m <= warps[pointer]
    BY <1>3 DEF m
  <2>2. hashed' = [hashed EXCEPT ![pointer] = hashed[pointer] + m] /\ warps' = warps
    BY <1>1, <1>2 DEF m
  <2>3. hashed \in [Paths -> Nat] /\ \A p \in Paths : hashed[p] <= warps[p]
    BY <1>0 DEF TypeOK, Planned
  <2> QED
    BY <1>3, <2>1, <2>2, <2>3
<1>6. TypeOK'
  BY <1>0, <1>1, <1>2, <1>4, <1>5 DEF TypeOK
<1>7. Planned'
  BY <1>2, <1>5 DEF Planned
<1>8. OneOwner' /\ ~CompressorHolds
  BY <1>0, <1>1, <1>2 DEF OneOwner, CompressorHolds
<1>9. Quiet(cpuTasks, gpuQueue, gpu) /\ Underway(rx, cpuTasks, gpuQueue, gpu) = 0
      /\ requested = BufferNonces
  BY <1>0, <1>1, QuietOutside DEF Counted
<1>10. Counted'
  BY <1>1, <1>2, <1>9 DEF Counted
<1>11. /\ PiecesRight(cpuTasks, gpuQueue, gpu, Seed', Base', BufferNonces')
       /\ \A k : ~Pending(cpuTasks, gpuQueue, gpu, k)
  BY <1>0, <1>9, QuietIsRight DEF TypeOK
<1>12. HashersRight'
  BY <1>1, <1>2, <1>11 DEF HashersRight
<1>13. InPlot(handed', plot)
  <2>1. Filled(plot, cpuTasks, gpuQueue, gpu, BufferNonces, Seed, Base)
    BY <1>0, <1>1, <1>9 DEF HashersRight
  <2>2. \A k \in 0 .. BufferNonces - 1 : plot[k] = <<Seed, Base + k>>
    BY <1>11, <2>1, Zenon DEF Filled
  <2>3. m * Nonces = BufferNonces /\ m <= Escalate
    BY <1>3 DEF m
  <2> QED
    BY <1>4, <2>2, <2>3 DEF InPlot, Base
<1>14. TasksInPlot'
  BY <1>2, <1>8, <1>13 DEF TasksInPlot, CompressorHolds
<1> QED
  BY <1>0, <1>2, <1>6, <1>7, <1>8, <1>10, <1>12, <1>14, WritesFrame, FilesFrame DEF XpuInv

\* The last task sent to the GPUs is no work.
LEMMA EndTaskIsNoWork ==
  ASSUME NEW msgs \in Seq(Msgs), NEW tasks \in Seq(Pieces),
         NEW queues \in [GpuIds -> Seq(QueuedTasks)], NEW states \in [GpuIds -> GpuStates],
         Quiet(tasks, queues, states), Underway(msgs, tasks, queues, states) = 0
  PROVE  LET ended == [g \in GpuIds |-> Append(queues[g], EndTask)] IN
         /\ ended \in [GpuIds -> Seq(QueuedTasks)]
         /\ Quiet(tasks, ended, states)
         /\ Underway(msgs, tasks, ended, states) = 0
<1> DEFINE ended == [g \in GpuIds |-> Append(queues[g], EndTask)]
<1>1. EndTask \in QueuedTasks /\ EndTask.n = -1 /\ NonNegative(-1) = 0
  BY DEF QueuedTasks, EndTask, NonNegative
<1>2. ASSUME NEW g \in GpuIds
      PROVE  /\ ended[g] \in Seq(QueuedTasks)
             /\ Sum(TaskSizes(ended[g])) = Sum(TaskSizes(queues[g]))
             /\ \A i \in 1 .. Len(ended[g]) : ended[g][i].n <= 0
  <2>1. queues[g] \in Seq(QueuedTasks) /\ ended[g] = Append(queues[g], EndTask)
    OBVIOUS
  <2>2. /\ ended[g] \in Seq(QueuedTasks)
        /\ Sum(TaskSizes(ended[g])) = Sum(TaskSizes(queues[g])) + NonNegative(EndTask.n)
    BY <1>1, <2>1, AppendedTask
  <2>3. Sum(TaskSizes(queues[g])) \in Nat
    BY <2>1, SizesAreNat
  <2>4. ASSUME NEW i \in 1 .. Len(ended[g]) PROVE ended[g][i].n <= 0
    <3> HIDE DEF ended
    <3>1. /\ Len(ended[g]) = Len(queues[g]) + 1 /\ Len(queues[g]) \in Nat
          /\ ended[g][Len(queues[g]) + 1] = EndTask
          /\ \A j \in 1 .. Len(queues[g]) : ended[g][j] = queues[g][j]
      BY <2>1
    <3>2. \A j \in 1 .. Len(queues[g]) : queues[g][j].n <= 0
      BY Zenon DEF Quiet
    <3>3. CASE i = Len(queues[g]) + 1
      BY <1>1, <3>1, <3>3
    <3>4. CASE i # Len(queues[g]) + 1
      <4>1. i \in 1 .. Len(queues[g])
        BY <3>1, <3>4
      <4> QED
        BY <3>1, <3>2, <4>1
    <3> QED
      BY <3>3, <3>4
  <2>5. Sum(TaskSizes(ended[g])) = Sum(TaskSizes(queues[g]))
    BY <1>1, <2>2, <2>3
  <2> QED
    BY <2>2, <2>4, <2>5
<1>3. ended \in [GpuIds -> Seq(QueuedTasks)]
  <2>1. \A g \in GpuIds : Append(queues[g], EndTask) \in Seq(QueuedTasks)
    BY <1>2
  <2> QED
    BY <2>1, Zenon
<1>4. Quiet(tasks, ended, states)
  BY <1>2 DEF Quiet
<1>5. GpuLoads(ended, states) = GpuLoads(queues, states)
  <2>1. \A g \in GpuIds : GpuLoad(ended[g], states[g]) = GpuLoad(queues[g], states[g])
    BY <1>2 DEF GpuLoad
  <2> HIDE DEF ended
  <2> QED
    BY <2>1 DEF GpuLoads
<1>6. Underway(msgs, tasks, ended, states) = 0
  BY <1>5 DEF Underway
<1> QED
  BY <1>3, <1>4, <1>6

\* There is a nearest path among those that have files left.
LEMMA NextActiveIsActive ==
  ASSUME TypeOK, NEW done, ActivePaths(done) # {}
  PROVE  NextActive(done) \in Paths
<1> DEFINE A == ActivePaths(done)
           Distance(p) == (p - pointer - 1) % NumPaths
           D == {Distance(p) : p \in A}
<1>1. /\ A \subseteq Paths /\ NumPaths \in Nat \ {0} /\ Paths \subseteq Int
      /\ pointer \in Int
  BY XpuAssumption DEF XpuAssumption, TypeOK, ActivePaths, Paths
<1>2. \A p \in A : Distance(p) \in Nat
  <2> HIDE DEF A
  <2> QED
    BY <1>1
<1>3. D \in SUBSET Nat /\ D # {}
  <2> HIDE DEF Distance
  <2> QED
    BY <1>2
<1>4. \E d \in D : \A e \in D : d <= e
  <2> HIDE DEF D
  <2> QED
    BY <1>3, LeastNat
<1>5. \E p \in A : \A q \in A : Distance(p) <= Distance(q)
  <2> HIDE DEF Distance, A
  <2> QED
    BY <1>4
<1>6. NextActive(done) \in A
  BY <1>5, Zenon DEF NextActive
<1> QED
  BY <1>1, <1>6

\* What Advance does to the scheduler's state.
LEMMA AdvanceResult ==
  ASSUME TypeOK, Planned, Advance
  PROVE  /\ spc = "next" /\ spc' \in {"take", "ended"}
         /\ gpuQueue' = gpuQueue \/ gpuQueue' = ToGpus(EndTask)
         /\ UNCHANGED <<requested, processed, rx, cpuTasks, plotAt, handed>>
         /\ pointer' \in Paths
         /\ filesHashed' \in [Paths -> Nat]
         /\ hashed' \in [Paths -> Nat] /\ \A p \in Paths : hashed'[p] <= warps[p]
         /\ seeds' \in [Paths -> AnySeeds] /\ \A p \in Paths : seeds'[p][1] = p
<1>0. /\ pointer \in Paths /\ filesHashed \in [Paths -> Nat] /\ hashed \in [Paths -> Nat]
      /\ warps \in [Paths -> Nat]
      /\ seeds \in [Paths -> AnySeeds] /\ \A p \in Paths : seeds[p][1] = p
      /\ \A p \in Paths : hashed[p] <= warps[p]
  BY DEF TypeOK, Planned
<1> DEFINE complete == hashed[pointer] = warps[pointer]
           done == IF complete THEN [filesHashed EXCEPT ![pointer] = @ + 1] ELSE filesHashed
<1>1. /\ spc = "next" /\ spc' \in {"take", "ended"}
      /\ gpuQueue' = gpuQueue \/ gpuQueue' = ToGpus(EndTask)
      /\ UNCHANGED <<requested, processed, rx, cpuTasks, plotAt, handed>>
      /\ filesHashed' = done
      /\ hashed' = hashed \/ hashed' = [hashed EXCEPT ![pointer] = 0]
      /\ seeds' = seeds \/ seeds' = [seeds EXCEPT ![pointer] = <<pointer, seeds[pointer][2] + 1>>]
      /\ pointer' = pointer \/ (ActivePaths(done) # {} /\ pointer' = NextActive(done))
  BY DEF Advance, EndScheduler, compVars
<1>2. filesHashed' \in [Paths -> Nat]
  <2>1. filesHashed[pointer] + 1 \in Nat
    BY <1>0
  <2>2. [filesHashed EXCEPT ![pointer] = filesHashed[pointer] + 1] \in [Paths -> Nat]
    BY <1>0, <2>1
  <2> QED
    BY <1>0, <1>1, <2>2
<1>3. pointer' \in Paths
  <2> HIDE DEF done
  <2> QED
    BY <1>0, <1>1, NextActiveIsActive
<1>4. hashed' \in [Paths -> Nat] /\ \A p \in Paths : hashed'[p] <= warps[p]
  BY <1>0, <1>1
<1>5. seeds' \in [Paths -> AnySeeds] /\ \A p \in Paths : seeds'[p][1] = p
  <2> DEFINE new == <<pointer, seeds[pointer][2] + 1>>
  <2>1. new \in AnySeeds /\ new[1] = pointer
    <3>1. seeds[pointer] \in AnySeeds
      BY <1>0
    <3>2. seeds[pointer][2] \in Nat
      BY <3>1 DEF AnySeeds
    <3> QED
      BY <1>0, <3>2 DEF AnySeeds
  <2> HIDE DEF new
  <2>2. seeds' = seeds \/ seeds' = [seeds EXCEPT ![pointer] = new]
    BY <1>1 DEF new
  <2> HIDE DEF AnySeeds
  <2> QED
    BY <1>0, <2>1, <2>2
<1> QED
  BY <1>1, <1>2, <1>3, <1>4, <1>5

\* With quiet hashers nothing is counted and nothing is to be right.
LEMMA QuietKeeps ==
  ASSUME TypeOK, Counted, HashersRight, spc # "control",
         spc' \in {"take", "next", "ended"},
         UNCHANGED <<requested, processed, rx, cpuTasks, gpu, plot>>,
         gpuQueue' = gpuQueue \/ gpuQueue' = ToGpus(EndTask)
  PROVE  /\ gpuQueue' \in [GpuIds -> Seq(QueuedTasks)]
         /\ Counted' /\ HashersRight'
<1>1. /\ Quiet(cpuTasks, gpuQueue, gpu) /\ Underway(rx, cpuTasks, gpuQueue, gpu) = 0
      /\ rx \in Seq(Msgs) /\ cpuTasks \in Seq(Pieces)
      /\ gpuQueue \in [GpuIds -> Seq(QueuedTasks)] /\ gpu \in [GpuIds -> GpuStates]
  BY QuietOutside DEF Counted, TypeOK
<1>2. /\ gpuQueue' \in [GpuIds -> Seq(QueuedTasks)]
      /\ Quiet(cpuTasks, gpuQueue', gpu)
      /\ Underway(rx, cpuTasks, gpuQueue', gpu) = 0
  <2>1. CASE gpuQueue' = gpuQueue
    BY <1>1, <2>1
  <2>2. CASE gpuQueue' = ToGpus(EndTask)
    <3> DEFINE ended == [g \in GpuIds |-> Append(gpuQueue[g], EndTask)]
    <3>1. gpuQueue' = ended
      BY <2>2 DEF ToGpus
    <3>2. /\ ended \in [GpuIds -> Seq(QueuedTasks)]
          /\ Quiet(cpuTasks, ended, gpu)
          /\ Underway(rx, cpuTasks, ended, gpu) = 0
      BY <1>1, EndTaskIsNoWork
    <3> QED
      BY <3>1, <3>2, Zenon
  <2> QED
    BY <2>1, <2>2
<1>3. Counted'
  BY <1>2 DEF Counted
<1>4. PiecesRight(cpuTasks, gpuQueue', gpu, Seed', Base', BufferNonces')
  BY <1>2, QuietIsRight
<1>5. HashersRight'
  BY <1>4 DEF HashersRight
<1> QED
  BY <1>2, <1>3, <1>5

\* Going on to the next file and the next path.
LEMMA AdvanceKeeps ==
  ASSUME XpuInv, Advance
  PROVE  XpuInv'
<1>0. TypeOK /\ Planned /\ OneOwner /\ TasksInPlot /\ WritesRight /\ FilesInv
      /\ Counted /\ HashersRight
  BY DEF XpuInv
<1>1. /\ spc = "next" /\ spc' \in {"take", "ended"}
      /\ gpuQueue' = gpuQueue \/ gpuQueue' = ToGpus(EndTask)
      /\ UNCHANGED <<requested, processed, rx, cpuTasks, plotAt, handed>>
      /\ pointer' \in Paths
      /\ filesHashed' \in [Paths -> Nat]
      /\ hashed' \in [Paths -> Nat] /\ \A p \in Paths : hashed'[p] <= warps[p]
      /\ seeds' \in [Paths -> AnySeeds] /\ \A p \in Paths : seeds'[p][1] = p
  BY <1>0, AdvanceResult
<1>2. /\ mpc = "join"
      /\ UNCHANGED <<mpc, warps, plots, given, cpuIdle, gpu, plot, cpc, ctask>>
      /\ UNCHANGED writeVars /\ UNCHANGED files
  BY SchedulerLeaves DEF Scheduler
<1>3. gpuQueue' \in [GpuIds -> Seq(QueuedTasks)] /\ Counted' /\ HashersRight'
  BY <1>0, <1>1, <1>2, QuietKeeps
<1>4. TypeOK' /\ Planned'
  BY <1>0, <1>1, <1>2, <1>3 DEF TypeOK, Planned
<1>5. OneOwner' /\ TasksInPlot'
  BY <1>0, <1>1, <1>2 DEF OneOwner, TasksInPlot, CompressorHolds
<1> QED
  BY <1>0, <1>2, <1>3, <1>4, <1>5, WritesFrame, FilesFrame DEF XpuInv

\* Ending instead of taking the plot buffer.
LEMMA TakeNothingKeeps ==
  ASSUME XpuInv, TakeBuffer, ~(plotAt = "empty" /\ ~stop)
  PROVE  XpuInv'
<1>0. TypeOK /\ Planned /\ OneOwner /\ TasksInPlot /\ WritesRight /\ FilesInv
      /\ Counted /\ HashersRight
  BY DEF XpuInv
<1>1. /\ spc = "take" /\ spc' = "ended" /\ gpuQueue' = ToGpus(EndTask)
      /\ UNCHANGED <<requested, processed, rx, cpuTasks, plotAt, handed, pointer,
                     filesHashed, hashed, seeds>>
  BY DEF TakeBuffer, EndScheduler, compVars
<1>2. /\ mpc = "join"
      /\ UNCHANGED <<mpc, warps, plots, given, cpuIdle, gpu, plot, cpc, ctask>>
      /\ UNCHANGED writeVars /\ UNCHANGED files
  BY SchedulerLeaves DEF Scheduler
<1>3. gpuQueue' \in [GpuIds -> Seq(QueuedTasks)] /\ Counted' /\ HashersRight'
  BY <1>0, <1>1, <1>2, QuietKeeps
<1>4. TypeOK' /\ Planned'
  BY <1>0, <1>1, <1>2, <1>3 DEF TypeOK, Planned
<1>5. OneOwner' /\ TasksInPlot'
  BY <1>0, <1>1, <1>2 DEF OneOwner, TasksInPlot, CompressorHolds
<1> QED
  BY <1>0, <1>2, <1>3, <1>4, <1>5, WritesFrame, FilesFrame DEF XpuInv
-----------------------------------------------------------------------------
(* The first tasks of a buffer.                                             *)

Hashers == 1 .. Gpus + CpuThreads
Marks == 1 .. Gpus + CpuThreads + 1

\* Where the hashers' first tasks would begin in a buffer without end.
Rung(i) == IF i <= Gpus THEN (i - 1) * WorkSize
           ELSE Gpus * WorkSize + (i - 1 - Gpus) * CpuTaskSize

\* No first task is empty there.
LEMMA RungsRise ==
  /\ Gpus \in Nat /\ CpuThreads \in Nat
  /\ \A i \in Marks : Rung(i) \in Nat
  /\ \A i, j \in Marks : i < j => Rung(i) < Rung(j)
  /\ Rung(1) = 0
<1>1. /\ Gpus \in Nat /\ CpuThreads \in Nat
      /\ WorkSize \in Nat \ {0} /\ CpuTaskSize \in Nat \ {0}
  BY XpuAssumption DEF XpuAssumption
<1>2. Gpus * WorkSize \in Nat
  BY <1>1
<1>3. ASSUME NEW i \in Marks
      PROVE  /\ Rung(i) \in Nat
             /\ i <= Gpus => i - 1 \in Nat /\ (i - 1) * WorkSize \in Nat
                             /\ Rung(i) = (i - 1) * WorkSize
             /\ i > Gpus => i - 1 - Gpus \in Nat /\ (i - 1 - Gpus) * CpuTaskSize \in Nat
                            /\ Rung(i) = Gpus * WorkSize + (i - 1 - Gpus) * CpuTaskSize
  <2>1. CASE i <= Gpus
    <3>1. i - 1 \in Nat
      BY <1>1 DEF Marks
    <3>2. (i - 1) * WorkSize \in Nat
      BY <1>1, <3>1
    <3> QED
      BY <2>1, <3>1, <3>2, <1>1 DEF Rung, Marks
  <2>2. CASE i > Gpus
    <3>1. i - 1 - Gpus \in Nat
      BY <1>1, <2>2 DEF Marks
    <3>2. (i - 1 - Gpus) * CpuTaskSize \in Nat
      BY <1>1, <3>1
    <3> QED
      BY <2>2, <3>1, <3>2, <1>1, <1>2 DEF Rung, Marks
  <2>3. i <= Gpus \/ i > Gpus
    BY <1>1 DEF Marks
  <2> QED
    BY <2>1, <2>2, <2>3
<1>4. ASSUME NEW i \in Marks, NEW j \in Marks, i < j PROVE Rung(i) < Rung(j)
  <2>0. i \in Int /\ j \in Int
    BY DEF Marks
  <2>1. CASE j <= Gpus
    <3>1. i <= Gpus /\ i - 1 < j - 1
      BY <1>1, <1>4, <2>0, <2>1
    <3>2. (i - 1) * WorkSize + WorkSize <= (j - 1) * WorkSize
      BY <1>1, <1>3, <2>1, <3>1, RowBelow
    <3> QED
      BY <1>1, <1>3, <2>1, <3>1, <3>2
  <2>2. CASE i <= Gpus /\ j > Gpus
    <3>1. i - 1 < Gpus
      BY <1>1, <2>0, <2>2
    <3>2. (i - 1) * WorkSize + WorkSize <= Gpus * WorkSize
      BY <1>1, <1>3, <2>2, <3>1, RowBelow
    <3> QED
      BY <1>1, <1>2, <1>3, <2>2, <3>2
  <2>3. CASE i > Gpus
    <3>1. j > Gpus /\ i - 1 - Gpus < j - 1 - Gpus
      BY <1>1, <1>4, <2>0, <2>3
    <3>2. (i - 1 - Gpus) * CpuTaskSize + CpuTaskSize <= (j - 1 - Gpus) * CpuTaskSize
      BY <1>1, <1>3, <2>3, <3>1, RowBelow
    <3> QED
      BY <1>1, <1>2, <1>3, <2>3, <3>1, <3>2
  <2> QED
    BY <1>1, <2>0, <2>1, <2>2, <2>3
<1>5. Rung(1) = 0
  BY <1>1 DEF Rung
<1> QED
  BY <1>1, <1>3, <1>4, <1>5

\* A ladder cut off at the end of the buffer rises up to there.
LEMMA CutOff ==
  ASSUME NEW b \in Nat, NEW x \in Nat, NEW y \in Nat, x < y
  PROVE  /\ Min2(b, x) \in Nat /\ Min2(b, x) <= b
         /\ Min2(b, x) <= Min2(b, y)
         /\ Min2(b, x) < Min2(b, y) <=> x < b
         /\ x >= b => Min2(b, x) = b /\ Min2(b, y) = b
BY DEF Min2

\* The shares of the hashers lie one after the other; the first of them have one,
\* the others none.
LEMMA GrantedFacts ==
  ASSUME TypeOK, Planned
  PROVE  /\ Granted(1) = 0
         /\ \A i \in Marks : Granted(i) \in Nat /\ Granted(i) <= BufferNonces
         /\ \A i, j \in Marks : i <= j => Granted(i) <= Granted(j)
         /\ \A i, j \in Hashers :
              i <= j /\ Granted(j) < Granted(j + 1) => Granted(i) < Granted(i + 1)
         /\ \A i \in Hashers : ~(Granted(i) < Granted(i + 1)) =>
              Granted(i) = Granted(Gpus + CpuThreads + 1)
<1> DEFINE B == BufferNonces
           last == Gpus + CpuThreads + 1
<1>1. B \in Nat
  BY BufferFacts
<1>2. \A i : Granted(i) = Min2(B, Rung(i))
  BY DEF Granted, Rung
<1> HIDE DEF B
<1>3. /\ Gpus \in Nat /\ CpuThreads \in Nat
      /\ \A i \in Marks : Rung(i) \in Nat
      /\ \A i, j \in Marks : i < j => Rung(i) < Rung(j)
      /\ Rung(1) = 0
  BY RungsRise
<1>4. 1 \in Marks /\ last \in Marks /\ \A i \in Hashers : i \in Marks /\ i + 1 \in Marks
  BY <1>3 DEF Marks, Hashers
<1>5. Granted(1) = 0
  BY <1>1, <1>2, <1>3 DEF Min2
<1>6. ASSUME NEW i \in Marks PROVE Granted(i) \in Nat /\ Granted(i) <= B
  BY <1>1, <1>2, <1>3 DEF Min2
<1>7. ASSUME NEW i \in Marks, NEW j \in Marks, i < j
      PROVE  /\ Granted(i) <= Granted(j)
             /\ Granted(i) < Granted(j) <=> Rung(i) < B
             /\ Rung(i) >= B => Granted(i) = B /\ Granted(j) = B
  BY <1>1, <1>2, <1>3, <1>7, CutOff
<1>8. ASSUME NEW i \in Marks, NEW j \in Marks, i <= j PROVE Granted(i) <= Granted(j)
  <2>1. i = j \/ i < j
    BY <1>8 DEF Marks
  <2> QED
    BY <2>1, <1>6, <1>7
<1>9. \A i \in Hashers : i < i + 1 /\ i < last /\ i \in Int
  BY <1>3 DEF Hashers
<1>10. ASSUME NEW i \in Hashers, NEW j \in Hashers, i <= j, Granted(j) < Granted(j + 1)
       PROVE  Granted(i) < Granted(i + 1)
  <2>1. Rung(j) < B
    BY <1>4, <1>7, <1>9, <1>10
  <2>2. Rung(i) <= Rung(j)
    BY <1>3, <1>4, <1>9, <1>10
  <2>3. Rung(i) < B
    BY <1>1, <1>3, <1>4, <2>1, <2>2
  <2> QED
    BY <1>4, <1>7, <1>9, <2>3
<1>11. ASSUME NEW i \in Hashers, ~(Granted(i) < Granted(i + 1))
       PROVE  Granted(i) = Granted(last)
  <2>1. ~(Rung(i) < B)
    BY <1>4, <1>7, <1>9, <1>11
  <2>2. Rung(i) >= B
    BY <1>1, <1>3, <1>4, <2>1
  <2> QED
    BY <1>4, <1>7, <1>9, <2>2
<1> QED
  BY <1>5, <1>6, <1>8, <1>10, <1>11 DEF B

\* The share between two marks.
LEMMA ShareBetween ==
  ASSUME NEW a \in Nat, NEW b \in Nat, a <= b
  PROVE  b - a \in Nat /\ (b - a > 0 <=> a < b) /\ a + (b - a) = b
OBVIOUS

\* The first tasks are pieces of the buffer.
LEMMA FirstTasksAre ==
  ASSUME TypeOK, Planned, NEW i \in Hashers
  PROVE  /\ FirstTask(i) \in Pieces
         /\ FirstTask(i).n = Granted(i + 1) - Granted(i)
         /\ FirstTask(i).n \in Nat
         /\ FirstTask(i).chunk = Granted(i)
         /\ FirstTask(i).n > 0 <=> Granted(i) < Granted(i + 1)
         /\ PieceOf(FirstTask(i), Seed, Base, BufferNonces)
<1>1. i \in Marks /\ i + 1 \in Marks /\ i <= i + 1
  BY RungsRise DEF Hashers, Marks
<1>2. /\ Granted(i) \in Nat /\ Granted(i + 1) \in Nat
      /\ Granted(i + 1) <= BufferNonces /\ Granted(i) <= Granted(i + 1)
  BY <1>1, GrantedFacts
<1> DEFINE a == Granted(i)
           b == Granted(i + 1)
<1>3. FirstTask(i) = [seed |-> Seed, start |-> Base + a, chunk |-> a, n |-> b - a]
  BY DEF FirstTask, TaskAt, HashTask, Seed, Base
<1>4. Seed \in AnySeeds /\ Base \in Nat /\ BufferNonces \in Nat
  BY BufferFacts
<1> HIDE DEF a, b
<1>5. /\ a \in Nat /\ b \in Nat /\ b <= BufferNonces /\ a <= b
      /\ a = Granted(i) /\ b = Granted(i + 1)
  BY <1>2 DEF a, b
<1>6. b - a \in Nat /\ Base + a \in Nat /\ (b - a > 0 <=> a < b) /\ a + (b - a) <= BufferNonces
  <2>1. b - a \in Nat /\ (b - a > 0 <=> a < b) /\ a + (b - a) = b
    BY <1>5, ShareBetween
  <2>2. Base + a \in Nat
    BY <1>4, <1>5
  <2> QED
    BY <2>1, <2>2, <1>5
<1>7. FirstTask(i) \in Pieces
  BY <1>3, <1>4, <1>5, <1>6 DEF Pieces
<1> QED
  BY <1>3, <1>5, <1>6, <1>7 DEF PieceOf

\* The CPU threads that get a first task are the first ones, and what they do not
\* get nobody gets.
LEMMA BusyThreads ==
  ASSUME TypeOK, Planned
  PROVE  LET busy == {i \in Hashers : FirstTask(i).n > 0} IN
         \E c \in 0 .. CpuThreads :
             /\ Cardinality(busy \ GpuIds) = c
             /\ \A i \in Hashers \ GpuIds : i \in busy <=> i <= Gpus + c
             /\ Granted(Gpus + c + 1) = Granted(Gpus + CpuThreads + 1)
<1> DEFINE busy == {i \in Hashers : FirstTask(i).n > 0}
           D == busy \ GpuIds
           N == Gpus + CpuThreads
<1>1. Gpus \in Nat /\ CpuThreads \in Nat
  BY RungsRise
<1>2. \A i \in Hashers : i \in busy <=> Granted(i) < Granted(i + 1)
  BY FirstTasksAre
<1>3. \A i, j \in Hashers : i <= j /\ j \in busy => i \in busy
  BY <1>2, GrantedFacts, Zenon
<1>4. \A i \in Hashers : i \notin busy => Granted(i) = Granted(N + 1)
  BY <1>2, GrantedFacts
<1>5. D \subseteq Gpus + 1 .. N /\ Hashers \ GpuIds = Gpus + 1 .. N
  BY <1>1 DEF Hashers, GpuIds
<1>6. CASE D = {}
  <2>1. Cardinality(D) = 0
    BY <1>6, FS_EmptySet
  <2>2. \A i \in Hashers \ GpuIds : i \in busy <=> i <= Gpus + 0
    BY <1>1, <1>5, <1>6
  <2>3. Granted(Gpus + 0 + 1) = Granted(N + 1)
    <3>1. CASE CpuThreads = 0
      BY <1>1, <3>1
    <3>2. CASE CpuThreads # 0
      <4>1. Gpus + 1 \in Hashers /\ Gpus + 1 \notin D /\ Gpus + 1 \notin GpuIds
        BY <1>1, <1>6, <3>2 DEF Hashers, GpuIds
      <4>2. Granted(Gpus + 1) = Granted(N + 1)
        BY <1>4, <4>1
      <4> QED
        BY <1>1, <4>2
    <3> QED
      BY <3>1, <3>2
  <2>4. 0 \in 0 .. CpuThreads
    BY <1>1
  <2> QED
    BY <2>1, <2>2, <2>3, <2>4
<1>7. CASE D # {}
  <2>1. D \in SUBSET (0 .. N) /\ N \in Nat
    BY <1>1, <1>5
  <2>2. PICK x \in D : \A y \in D : y <= x
    <3> HIDE DEF D, N
    <3> QED
      BY <1>7, <2>1, GreatestNat
  <2>3. x \in Gpus + 1 .. N /\ x \in Hashers \ GpuIds /\ x \in busy
    BY <1>5, <2>2
  <2>4. \A i \in Hashers \ GpuIds : i \in busy <=> i <= x
    <3>1. ASSUME NEW i \in Hashers \ GpuIds, i \in busy PROVE i <= x
      BY <2>2, <3>1
    <3>2. ASSUME NEW i \in Hashers \ GpuIds, i <= x PROVE i \in busy
      <4> HIDE DEF busy
      <4> QED
        BY <1>3, <2>3, <3>2
    <3> QED
      BY <3>1, <3>2
  <2>5. D = Gpus + 1 .. x
    <3> HIDE DEF busy
    <3> QED
      BY <1>1, <1>5, <2>3, <2>4
  <2> DEFINE c == x - Gpus
  <2>6. c \in 0 .. CpuThreads /\ Gpus + c = x /\ Gpus + 1 \in Int /\ x \in Int /\ Gpus + 1 <= x
        /\ x - (Gpus + 1) + 1 = c
    BY <1>1, <2>3
  <2>7. Cardinality(D) = c
    <3>1. Cardinality(Gpus + 1 .. x) =
            IF Gpus + 1 > x THEN 0 ELSE x - (Gpus + 1) + 1
      BY <2>6, FS_Interval
    <3>2. ~(Gpus + 1 > x)
      BY <1>1, <2>6
    <3> HIDE DEF D, c
    <3> QED
      BY <2>5, <2>6, <3>1, <3>2
  <2>8. Granted(x + 1) = Granted(N + 1)
    <3>1. CASE x = N
      BY <3>1
    <3>2. CASE x # N
      <4>1. x + 1 \in Hashers \ GpuIds /\ ~(x + 1 <= x)
        BY <1>1, <1>5, <2>3, <3>2
      <4>2. x + 1 \notin busy
        BY <2>4, <4>1
      <4> QED
        BY <1>4, <4>1, <4>2
    <3> QED
      BY <3>1, <3>2
  <2> HIDE DEF D, busy, c
  <2>9. Gpus + c + 1 = x + 1
    BY <2>6
  <2>10. Granted(Gpus + c + 1) = Granted(N + 1)
    BY <2>8, <2>9, Zenon
  <2> QED
    BY <2>4, <2>6, <2>7, <2>10 DEF D, busy
<1> QED
  BY <1>6, <1>7

\* The tasks of the CPU threads hold what lies between their marks.
LEMMA CpuShare ==
  ASSUME TypeOK, Planned, NEW c \in 0 .. CpuThreads
  PROVE  LET tasks == [i \in 1 .. c |-> FirstTask(Gpus + i)] IN
         /\ tasks \in Seq(Pieces)
         /\ Sum(TaskSizes(tasks)) = Granted(Gpus + c + 1) - Granted(Gpus + 1)
<1> DEFINE tasks == [i \in 1 .. c |-> FirstTask(Gpus + i)]
           mark == [i \in 1 .. c + 1 |-> Granted(Gpus + i)]
           f == TaskSizes(tasks)
<1>1. Gpus \in Nat /\ CpuThreads \in Nat /\ c \in Nat
  BY RungsRise
<1>2. \A i \in 1 .. c : Gpus + i \in Hashers
  BY <1>1 DEF Hashers
<1>3. \A i \in 1 .. c + 1 : Gpus + i \in Marks
  BY <1>1 DEF Marks
<1>4. ASSUME NEW i \in 1 .. c
      PROVE  /\ FirstTask(Gpus + i) \in Pieces
             /\ FirstTask(Gpus + i).n \in Nat
             /\ FirstTask(Gpus + i).n = Granted(Gpus + i + 1) - Granted(Gpus + i)
  BY <1>2, FirstTasksAre
<1>5. tasks \in Seq(Pieces) /\ Len(tasks) = c
  BY <1>1, <1>4
<1>6. mark \in [1 .. c + 1 -> Nat]
  BY <1>3, GrantedFacts
<1>7. Ascending(mark, c)
  <2>1. ASSUME NEW i \in 1 .. c + 1, NEW j \in 1 .. c + 1, i <= j
        PROVE  Granted(Gpus + i) <= Granted(Gpus + j)
    <3>1. Gpus + i <= Gpus + j
      BY <1>1, <2>1
    <3> QED
      BY <1>3, <3>1, GrantedFacts
  <2> QED
    BY <2>1 DEF Ascending
<1>8. f = StepsOf(mark, c)
  <2>1. ASSUME NEW i \in 1 .. c
        PROVE  (IF tasks[i].n > 0 THEN tasks[i].n ELSE 0) = mark[i + 1] - mark[i]
    <3>1. tasks[i] = FirstTask(Gpus + i)
      OBVIOUS
    <3>2. i \in 1 .. c + 1 /\ i + 1 \in 1 .. c + 1 /\ Gpus + (i + 1) = Gpus + i + 1
      BY <1>1
    <3>3. mark[i] = Granted(Gpus + i) /\ mark[i + 1] = Granted(Gpus + i + 1)
      BY <3>2
    <3> HIDE DEF tasks, mark
    <3>4. (IF tasks[i].n > 0 THEN tasks[i].n ELSE 0) = FirstTask(Gpus + i).n
      BY <1>4, <3>1
    <3> QED
      BY <1>4, <3>3, <3>4
  <2> HIDE DEF tasks, mark
  <2> QED
    BY <1>5, <2>1 DEF TaskSizes, StepsOf
<1>9. f \in [1 .. c -> Nat]
  <2>1. tasks \in Seq(QueuedTasks)
    <3>1. Pieces \subseteq QueuedTasks
      BY DEF QueuedTasks
    <3> HIDE DEF tasks, Pieces, QueuedTasks
    <3> QED
      BY <1>5, <3>1
  <2> HIDE DEF tasks
  <2> QED
    BY <1>5, <2>1, SizesAreNat
<1>10. Sum(f) = mark[c + 1] - mark[1]
  <2> HIDE DEF f, mark
  <2> QED
    BY <1>1, <1>6, <1>7, <1>8, <1>9, SumOfSteps
<1>11. mark[c + 1] = Granted(Gpus + c + 1) /\ mark[1] = Granted(Gpus + 1)
  <2>1. c + 1 \in 1 .. c + 1 /\ 1 \in 1 .. c + 1 /\ Gpus + (c + 1) = Gpus + c + 1
    BY <1>1
  <2> QED
    BY <2>1
<1> QED
  BY <1>5, <1>10, <1>11

\* The GPUs' queues with the first tasks of a buffer.
FirstQueues ==
    [g \in GpuIds |-> IF FirstTask(g).n > 0 THEN Append(gpuQueue[g], FirstTask(g))
                                            ELSE gpuQueue[g]]

\* A GPU's first task is all it has to do.
LEMMA FirstOfGpu ==
  ASSUME TypeOK, Planned, Quiet(cpuTasks, gpuQueue, gpu), NEW g \in GpuIds
  PROVE  /\ FirstQueues[g] \in Seq(QueuedTasks)
         /\ GpuLoad(FirstQueues[g], gpu[g]) = Granted(g + 1) - Granted(g)
         /\ QueueRight(FirstQueues[g], Seed, Base, BufferNonces)
         /\ FirstTask(g).n > 0 =>
                \E i \in 1 .. Len(FirstQueues[g]) : FirstQueues[g][i] = FirstTask(g)
<1> DEFINE t == FirstTask(g)
           q == gpuQueue[g]
<1>1. g \in Hashers
  BY RungsRise DEF GpuIds, Hashers
<1>2. /\ t \in Pieces /\ t.n = Granted(g + 1) - Granted(g) /\ t.n \in Nat
      /\ PieceOf(t, Seed, Base, BufferNonces)
  BY <1>1, FirstTasksAre
<1>3. q \in Seq(QueuedTasks) /\ gpu[g] \in GpuStates
  BY DEF TypeOK
<1>4. /\ \A i \in 1 .. Len(q) : q[i].n <= 0
      /\ gpu[g].first /\ gpu[g].pc # "work"
  BY DEF Quiet
<1>5. \A i \in 1 .. Len(q) : ~(q[i].n > 0)
  <2>1. ASSUME NEW i \in 1 .. Len(q) PROVE ~(q[i].n > 0)
    <3>1. q[i] \in QueuedTasks /\ q[i].n <= 0
      BY <1>3, <1>4
    <3>2. q[i].n \in Int
      BY <3>1 DEF QueuedTasks, Pieces, EndTask
    <3> QED
      BY <3>1, <3>2
  <2> QED
    BY <2>1
<1>6. Sum(TaskSizes(q)) = 0
  <2> DEFINE f == TaskSizes(q)
  <2>1. f \in [1 .. Len(q) -> Nat] /\ IsFiniteSet(1 .. Len(q))
    <3> HIDE DEF q
    <3>1. TaskSizes(q) \in [1 .. Len(q) -> Nat]
      BY <1>3, SizesAreNat, Zenon
    <3>2. Len(q) \in Int
      BY <1>3
    <3> QED
      BY <3>1, <3>2, FS_Interval
  <2>2. \A i \in 1 .. Len(q) : f[i] = 0
    BY <1>5 DEF TaskSizes
  <2> HIDE DEF f
  <2>3. Sum(f) = 0
    BY <2>1, <2>2, SumZero
  <2> QED
    BY <2>3 DEF f
<1>7. InWork(gpu[g]) = 0 /\ InDevice(gpu[g]) = 0
  BY <1>4 DEF InWork, InDevice
<1>8. CASE t.n > 0
  <2>1. FirstQueues[g] = Append(q, t)
    BY <1>8 DEF FirstQueues
  <2>2. t \in QueuedTasks
    BY <1>2 DEF QueuedTasks
  <2>3. /\ Append(q, t) \in Seq(QueuedTasks)
        /\ Sum(TaskSizes(Append(q, t))) = Sum(TaskSizes(q)) + NonNegative(t.n)
    BY <1>3, <2>2, AppendedTask
  <2>4. Sum(TaskSizes(Append(q, t))) = t.n
    BY <1>2, <1>6, <1>8, <2>3 DEF NonNegative
  <2>5. GpuLoad(Append(q, t), gpu[g]) = t.n
    BY <1>2, <1>7, <2>4 DEF GpuLoad
  <2>6. /\ Len(Append(q, t)) = Len(q) + 1 /\ Len(q) \in Nat
        /\ Append(q, t)[Len(q) + 1] = t
        /\ \A i \in 1 .. Len(q) : Append(q, t)[i] = q[i]
    <3> HIDE DEF q, t
    <3> QED
      BY <1>3
  <2>7. QueueRight(Append(q, t), Seed, Base, BufferNonces)
    <3> DEFINE a == Append(q, t)
    <3> HIDE DEF a, q, t
    <3>0. /\ Len(a) = Len(q) + 1 /\ Len(q) \in Nat /\ a[Len(q) + 1] = t
          /\ \A i \in 1 .. Len(q) : a[i] = q[i]
      BY <2>6 DEF a
    <3>1. ASSUME NEW i \in 1 .. Len(a), a[i].n > 0
          PROVE  PieceOf(a[i], Seed, Base, BufferNonces)
      <4>1. CASE i \in 1 .. Len(q)
        BY <1>5, <3>0, <3>1, <4>1
      <4>2. CASE i \notin 1 .. Len(q)
        <5>1. i = Len(q) + 1
          BY <3>0, <4>2
        <5> QED
          BY <1>2, <3>0, <5>1
      <4> QED
        BY <4>1, <4>2
    <3>2. QueueRight(a, Seed, Base, BufferNonces)
      BY <3>1, Zenon DEF QueueRight
    <3> QED
      BY <3>2 DEF a
  <2>8. \E i \in 1 .. Len(Append(q, t)) : Append(q, t)[i] = t
    <3>1. Len(q) + 1 \in 1 .. Len(Append(q, t))
      BY <2>6
    <3> QED
      BY <2>6, <3>1, Zenon
  <2> HIDE DEF q
  <2> QED
    BY <1>2, <2>1, <2>3, <2>5, <2>7, <2>8, Zenon
<1>9. CASE ~(t.n > 0)
  <2>1. FirstQueues[g] = q
    BY <1>9 DEF FirstQueues
  <2>2. t.n = 0
    BY <1>2, <1>9
  <2>3. GpuLoad(q, gpu[g]) = 0
    BY <1>6, <1>7 DEF GpuLoad
  <2>4. QueueRight(q, Seed, Base, BufferNonces)
    BY <1>5 DEF QueueRight
  <2> QED
    BY <1>2, <1>3, <1>9, <2>1, <2>2, <2>3, <2>4
<1> QED
  BY <1>8, <1>9

\* The GPUs' first tasks hold what lies before the mark of the first CPU thread.
LEMMA GpuShareIs ==
  ASSUME TypeOK, Planned, Quiet(cpuTasks, gpuQueue, gpu)
  PROVE  /\ FirstQueues \in [GpuIds -> Seq(QueuedTasks)]
         /\ Sum(GpuLoads(FirstQueues, gpu)) = Granted(Gpus + 1)
<1> DEFINE mark == [i \in 1 .. Gpus + 1 |-> Granted(i)]
           f == GpuLoads(FirstQueues, gpu)
<1>1. FirstQueues \in [GpuIds -> Seq(QueuedTasks)]
  <2>1. FirstQueues = [g \in GpuIds |-> FirstQueues[g]]
    BY DEF FirstQueues
  <2>2. \A g \in GpuIds : FirstQueues[g] \in Seq(QueuedTasks)
    BY FirstOfGpu
  <2> QED
    BY <2>1, <2>2
<1>2. f \in [GpuIds -> Nat]
  BY <1>1, LoadsAreNat DEF TypeOK
<1>3. Gpus \in Nat /\ GpuIds = 1 .. Gpus /\ 1 .. Gpus + 1 \subseteq Marks
  BY RungsRise DEF GpuIds, Marks
<1>4. mark \in [1 .. Gpus + 1 -> Nat] /\ Ascending(mark, Gpus)
  <2>1. \A i \in 1 .. Gpus + 1 : Granted(i) \in Nat
    BY <1>3, GrantedFacts
  <2>2. \A i, j \in 1 .. Gpus + 1 : i <= j => Granted(i) <= Granted(j)
    BY <1>3, GrantedFacts
  <2> QED
    BY <2>1, <2>2 DEF Ascending
<1>5. f = StepsOf(mark, Gpus)
  <2>1. ASSUME NEW g \in GpuIds PROVE f[g] = mark[g + 1] - mark[g]
    <3>1. g \in 1 .. Gpus + 1 /\ g + 1 \in 1 .. Gpus + 1
      BY <1>3
    <3>2. mark[g] = Granted(g) /\ mark[g + 1] = Granted(g + 1)
      BY <3>1
    <3>3. f[g] = GpuLoad(FirstQueues[g], gpu[g])
      BY DEF GpuLoads
    <3> QED
      BY <3>2, <3>3, FirstOfGpu
  <2> HIDE DEF f, mark
  <2> QED
    BY <1>2, <1>3, <2>1 DEF StepsOf
<1>6. Sum(f) = mark[Gpus + 1] - mark[1]
  <2> HIDE DEF f, mark
  <2> QED
    BY <1>2, <1>3, <1>4, <1>5, SumOfSteps
<1>7. mark[Gpus + 1] = Granted(Gpus + 1) /\ mark[1] = 0 /\ Granted(Gpus + 1) \in Nat
  <2>1. Gpus + 1 \in 1 .. Gpus + 1 /\ 1 \in 1 .. Gpus + 1
    BY <1>3
  <2> QED
    BY <1>3, <2>1, GrantedFacts
<1> QED
  BY <1>1, <1>6, <1>7

\* Every slot that was granted belongs to the first task of some hasher.
LEMMA FirstTasksCover ==
  ASSUME TypeOK, Planned, NEW k \in 0 .. Granted(Gpus + CpuThreads + 1) - 1
  PROVE  \E i \in Hashers : FirstTask(i).n > 0 /\ Covers(FirstTask(i), k)
<1> DEFINE N == Gpus + CpuThreads
           Below == {i \in Hashers : Granted(i) <= k}
<1>1. N \in Nat /\ N > 0 /\ N + 1 \in Marks /\ 1 \in Hashers
      /\ \A i \in Hashers : i \in Marks /\ i + 1 \in Marks
  BY RungsRise, XpuAssumption DEF XpuAssumption, Hashers, Marks
<1>2. Granted(N + 1) \in Nat /\ k \in Nat /\ k < Granted(N + 1)
  BY <1>1, GrantedFacts
<1>3. 1 \in Below
  BY <1>1, <1>2, GrantedFacts
<1>4. Below \in SUBSET (0 .. N)
  BY DEF Hashers
<1>5. PICK i \in Below : \A j \in Below : j <= i
  <2> HIDE DEF Below, N
  <2> QED
    BY <1>1, <1>3, <1>4, GreatestNat
<1>6. i \in Hashers /\ Granted(i) <= k /\ Granted(i) \in Nat /\ Granted(i + 1) \in Nat
  BY <1>1, <1>5, GrantedFacts
<1>7. k < Granted(i + 1)
  <2>1. CASE i = N
    BY <1>2, <2>1
  <2>2. CASE i # N
    <3>1. i + 1 \in Hashers /\ ~(i + 1 <= i)
      BY <1>1, <1>6, <2>2 DEF Hashers
    <3>2. i + 1 \notin Below
      BY <1>5, <3>1
    <3>3. ~(Granted(i + 1) <= k)
      BY <3>1, <3>2
    <3> HIDE DEF Below, N
    <3> QED
      BY <1>2, <1>6, <3>3
  <2> QED
    BY <2>1, <2>2
<1>8. Granted(i) < Granted(i + 1)
  <2> HIDE DEF Below, N
  <2> QED
    BY <1>2, <1>6, <1>7
<1>9. /\ FirstTask(i).n > 0 /\ FirstTask(i).chunk = Granted(i)
      /\ FirstTask(i).n = Granted(i + 1) - Granted(i)
  BY <1>6, <1>8, FirstTasksAre
<1>10. Granted(i) + (Granted(i + 1) - Granted(i)) = Granted(i + 1)
  <2> HIDE DEF Below, N
  <2> QED
    BY <1>6, <1>8, ShareBetween
<1>11. Covers(FirstTask(i), k)
  BY <1>6, <1>7, <1>9, <1>10 DEF Covers
<1> QED
  BY <1>6, <1>9, <1>11

\* What TakeBuffer does when it takes the plot buffer.
LEMMA TakeResult ==
  ASSUME TypeOK, Planned, TakeBuffer, plotAt = "empty", ~stop, cpuTasks = <<>>
  PROVE  /\ spc = "take" /\ spc' = "control" /\ plotAt' = "scheduler"
         /\ requested' = Granted(Gpus + CpuThreads + 1) /\ processed' = 0
         /\ UNCHANGED <<pointer, seeds, hashed, filesHashed, rx, handed>>
         /\ gpuQueue' = FirstQueues
         /\ \E c \in 0 .. CpuThreads :
              /\ cpuTasks' = [i \in 1 .. c |-> FirstTask(Gpus + i)]
              /\ \A i \in Hashers \ GpuIds : FirstTask(i).n > 0 => i <= Gpus + c
              /\ \A i \in 1 .. c : FirstTask(Gpus + i).n > 0
              /\ Granted(Gpus + c + 1) = Granted(Gpus + CpuThreads + 1)
<1> DEFINE busy == {i \in Hashers : FirstTask(i).n > 0}
           Share(c) == [i \in 1 .. c |-> FirstTask(Gpus + i)]
<1>1. /\ spc = "take" /\ spc' = "control" /\ plotAt' = "scheduler"
      /\ requested' = Granted(Gpus + CpuThreads + 1) /\ processed' = 0
      /\ UNCHANGED <<pointer, seeds, hashed, filesHashed, rx, handed>>
      /\ gpuQueue' = [g \in GpuIds |-> IF g \in busy THEN Append(gpuQueue[g], FirstTask(g))
                                                     ELSE gpuQueue[g]]
      /\ cpuTasks' = cpuTasks \o Share(Cardinality(busy \ GpuIds))
  BY Zenon DEF TakeBuffer, Hashers, compVars
<1>2. GpuIds \subseteq Hashers /\ Gpus \in Nat /\ CpuThreads \in Nat
  BY RungsRise DEF GpuIds, Hashers
<1>3. gpuQueue' = FirstQueues
  BY <1>1, <1>2 DEF FirstQueues
<1>4. PICK c \in 0 .. CpuThreads :
         /\ Cardinality(busy \ GpuIds) = c
         /\ \A i \in Hashers \ GpuIds : i \in busy <=> i <= Gpus + c
         /\ Granted(Gpus + c + 1) = Granted(Gpus + CpuThreads + 1)
  BY BusyThreads
<1>5. cpuTasks' = Share(c)
  <2> HIDE DEF Share
  <2>1. cpuTasks' = <<>> \o Share(c)
    BY <1>1, <1>4
  <2>2. Share(c) \in Seq(Pieces)
    <3>1. [i \in 1 .. c |-> FirstTask(Gpus + i)] \in Seq(Pieces)
      BY CpuShare
    <3> QED
      BY <3>1, Zenon DEF Share
  <2> QED
    BY <2>1, <2>2
<1>6. ASSUME NEW i \in 1 .. c PROVE FirstTask(Gpus + i).n > 0
  <2>1. Gpus + i \in Hashers \ GpuIds /\ Gpus + i <= Gpus + c
    BY <1>2 DEF Hashers, GpuIds
  <2>2. Gpus + i \in busy
    <3> HIDE DEF busy
    <3> QED
      BY <1>4, <2>1
  <2> QED
    BY <2>2
<1>7. ASSUME NEW i \in Hashers \ GpuIds, FirstTask(i).n > 0 PROVE i <= Gpus + c
  BY <1>4, <1>7
<1> QED
  BY <1>1, <1>3, <1>4, <1>5, <1>6, <1>7

\* Taking the plot buffer: what is requested is with the hashers, piece by piece.
LEMMA TakeBufferKeeps ==
  ASSUME XpuInv, TakeBuffer, plotAt = "empty", ~stop
  PROVE  XpuInv'
<1>0. TypeOK /\ Planned /\ OneOwner /\ TasksInPlot /\ WritesRight /\ FilesInv
      /\ Counted /\ HashersRight
  BY DEF XpuInv
<1>1. /\ mpc = "join"
      /\ UNCHANGED <<mpc, warps, plots, given, cpuIdle, gpu, plot, cpc, ctask>>
      /\ UNCHANGED writeVars /\ UNCHANGED files
  BY SchedulerLeaves DEF Scheduler
<1>2. spc = "take"
  BY DEF TakeBuffer
<1>3. /\ Quiet(cpuTasks, gpuQueue, gpu) /\ cpuTasks = <<>>
      /\ Underway(rx, cpuTasks, gpuQueue, gpu) = 0
  BY <1>0, <1>2, QuietOutside DEF Quiet, Counted
<1>4. /\ spc' = "control" /\ plotAt' = "scheduler"
      /\ requested' = Granted(Gpus + CpuThreads + 1) /\ processed' = 0
      /\ UNCHANGED <<pointer, seeds, hashed, filesHashed, rx, handed>>
      /\ gpuQueue' = FirstQueues
  BY <1>0, <1>3, TakeResult
<1>5. PICK c \in 0 .. CpuThreads :
         /\ cpuTasks' = [i \in 1 .. c |-> FirstTask(Gpus + i)]
         /\ \A i \in Hashers \ GpuIds : FirstTask(i).n > 0 => i <= Gpus + c
         /\ \A i \in 1 .. c : FirstTask(Gpus + i).n > 0
         /\ Granted(Gpus + c + 1) = Granted(Gpus + CpuThreads + 1)
  BY <1>0, <1>3, TakeResult
<1>6. Gpus \in Nat /\ CpuThreads \in Nat /\ \A i \in 1 .. c : Gpus + i \in Hashers
  BY RungsRise DEF Hashers
<1>7. /\ cpuTasks' \in Seq(Pieces)
      /\ Sum(TaskSizes(cpuTasks')) = Granted(Gpus + c + 1) - Granted(Gpus + 1)
  BY <1>0, <1>5, CpuShare
<1>8. /\ gpuQueue' \in [GpuIds -> Seq(QueuedTasks)]
      /\ Sum(GpuLoads(gpuQueue', gpu)) = Granted(Gpus + 1)
  BY <1>0, <1>3, <1>4, GpuShareIs
<1>9. /\ Granted(Gpus + 1) \in Nat /\ requested' \in Nat /\ requested' <= BufferNonces
  <2>1. Gpus + 1 \in Marks /\ Gpus + CpuThreads + 1 \in Marks
    BY <1>6 DEF Marks
  <2> QED
    BY <1>0, <1>4, <2>1, GrantedFacts
<1>10. TypeOK' /\ Planned'
  BY <1>0, <1>1, <1>4, <1>7, <1>8, <1>9 DEF TypeOK, Planned
<1>11. OneOwner' /\ TasksInPlot'
  BY <1>0, <1>1, <1>2, <1>4 DEF OneOwner, TasksInPlot, CompressorHolds
<1>12. Seed' = Seed /\ Base' = Base /\ BufferNonces' = BufferNonces
  BY <1>1, <1>4 DEF Seed, Base, BufferNonces
<1>13. Counted'
  <2>1. Sum(MsgSizes(rx)) = 0
    <3>1. /\ Sum(MsgSizes(rx)) \in Nat /\ Sum(TaskSizes(cpuTasks)) \in Nat
          /\ Sum(GpuLoads(gpuQueue, gpu)) \in Nat
      BY <1>0, UnderwayIsNat DEF TypeOK
    <3> QED
      BY <1>3, <3>1 DEF Underway
  <2>2. Underway(rx, cpuTasks', gpuQueue', gpu) = requested'
    BY <1>4, <1>5, <1>7, <1>8, <1>9, <2>1 DEF Underway
  <2>3. requested' = processed' + Underway(rx, cpuTasks', gpuQueue', gpu)
    BY <1>4, <1>9, <2>2
  <2> QED
    BY <1>1, <1>4, <1>9, <1>12, <2>3 DEF Counted
<1>14. PiecesRight(cpuTasks', gpuQueue', gpu, Seed, Base, BufferNonces)
  <2>1. Len(cpuTasks') = c /\ \A i \in 1 .. c : cpuTasks'[i] = FirstTask(Gpus + i)
    BY <1>5
  <2>2. ASSUME NEW i \in 1 .. Len(cpuTasks')
        PROVE  cpuTasks'[i].n > 0 /\ PieceOf(cpuTasks'[i], Seed, Base, BufferNonces)
    BY <1>0, <1>5, <1>6, <2>1, FirstTasksAre
  <2>3. ASSUME NEW g \in GpuIds PROVE QueueRight(gpuQueue'[g], Seed, Base, BufferNonces)
    BY <1>0, <1>3, <1>4, FirstOfGpu
  <2>4. ASSUME NEW g \in GpuIds PROVE GpuRight(gpu[g], Seed, Base, BufferNonces)
    BY <1>0 DEF HashersRight, PiecesRight
  <2> QED
    BY <2>2, <2>3, <2>4, Zenon DEF PiecesRight
<1>15. Filled(plot, cpuTasks', gpuQueue', gpu, requested', Seed, Base)
  <2> SUFFICES ASSUME NEW k \in 0 .. requested' - 1 PROVE Pending(cpuTasks', gpuQueue', gpu, k)
    BY DEF Filled
  <2>1. PICK i \in Hashers : FirstTask(i).n > 0 /\ Covers(FirstTask(i), k)
    BY <1>0, <1>4, FirstTasksCover
  <2>2. CASE i \in GpuIds
    <3>1. \E j \in 1 .. Len(gpuQueue'[i]) : gpuQueue'[i][j] = FirstTask(i)
      BY <1>0, <1>3, <1>4, <2>1, <2>2, FirstOfGpu
    <3> QED
      BY <2>1, <2>2, <3>1, Zenon DEF Pending
  <2>3. CASE i \notin GpuIds
    <3>1. i <= Gpus + c
      BY <1>5, <2>1, <2>3
    <3>2. i - Gpus \in 1 .. c /\ Gpus + (i - Gpus) = i
      BY <1>6, <2>3, <3>1 DEF Hashers, GpuIds
    <3>3. i - Gpus \in 1 .. Len(cpuTasks') /\ cpuTasks'[i - Gpus] = FirstTask(i)
      BY <1>5, <3>2
    <3> QED
      BY <2>1, <3>3, Zenon DEF Pending
  <2> QED
    BY <2>2, <2>3
<1>16. HashersRight'
  BY <1>1, <1>12, <1>14, <1>15 DEF HashersRight
<1> QED
  BY <1>0, <1>1, <1>10, <1>11, <1>13, <1>16, WritesFrame, FilesFrame DEF XpuInv
-----------------------------------------------------------------------------
(* Steps of the scheduler: the control loop.                                *)

\* All tasks of s are in t.
Within(s, t) == \A i \in 1 .. Len(s) : \E j \in 1 .. Len(t) : t[j] = s[i]

\* With more tasks no slot stops being pending.
LEMMA PendingStays ==
  ASSUME NEW tasks, NEW tasks2, NEW queues, NEW queues2, NEW states,
         Within(tasks, tasks2), \A g \in GpuIds : Within(queues[g], queues2[g]),
         NEW k, Pending(tasks, queues, states, k)
  PROVE  Pending(tasks2, queues2, states, k)
<1>1. CASE \E i \in 1 .. Len(tasks) : Covers(tasks[i], k)
  <2>1. PICK i \in 1 .. Len(tasks) : Covers(tasks[i], k)
    BY <1>1
  <2>2. PICK j \in 1 .. Len(tasks2) : tasks2[j] = tasks[i]
    BY DEF Within
  <2> QED
    BY <2>1, <2>2, Zenon DEF Pending
<1>2. ASSUME NEW g \in GpuIds, NEW i \in 1 .. Len(queues[g]), Covers(queues[g][i], k)
      PROVE  Pending(tasks2, queues2, states, k)
  <2>1. PICK j \in 1 .. Len(queues2[g]) : queues2[g][j] = queues[g][i]
    BY DEF Within
  <2> QED
    BY <1>2, <2>1, Zenon DEF Pending
<1>3. ASSUME NEW g \in GpuIds,
             \/ states[g].pc = "work" /\ Covers(states[g].task, k)
             \/ ~states[g].first /\ Covers(states[g].last, k)
      PROVE  Pending(tasks2, queues2, states, k)
  BY <1>3, Zenon DEF Pending
<1> QED
  BY <1>1, <1>2, <1>3, Zenon DEF Pending

\* Slots requested since the last time are pending.
LEMMA FilledFurther ==
  ASSUME NEW tasks, NEW tasks2, NEW queues, NEW queues2, NEW states,
         Within(tasks, tasks2), \A g \in GpuIds : Within(queues[g], queues2[g]),
         NEW content, NEW seed, NEW base, NEW r \in Nat, NEW n \in Nat,
         Filled(content, tasks, queues, states, r, seed, base),
         \A k \in r .. r + n - 1 : Pending(tasks2, queues2, states, k)
  PROVE  Filled(content, tasks2, queues2, states, r + n, seed, base)
<1> SUFFICES ASSUME NEW k \in 0 .. r + n - 1
             PROVE  content[k] = <<seed, base + k>> \/ Pending(tasks2, queues2, states, k)
  BY DEF Filled
<1>1. CASE k < r
  <2>1. k \in 0 .. r - 1
    BY <1>1
  <2>2. content[k] = <<seed, base + k>> \/ Pending(tasks, queues, states, k)
    BY <2>1, Zenon DEF Filled
  <2> QED
    BY <2>2, PendingStays, Zenon
<1>2. CASE k >= r
  BY <1>2
<1> QED
  BY <1>1, <1>2

\* An appended sequence holds the old tasks and the new one.
LEMMA AppendWithin ==
  ASSUME NEW S, NEW s \in Seq(S), NEW t \in S
  PROVE  /\ Within(s, s) /\ Within(s, Append(s, t))
         /\ Len(s) + 1 \in 1 .. Len(Append(s, t))
         /\ Append(s, t)[Len(s) + 1] = t
         /\ \A i \in 1 .. Len(Append(s, t)) :
              Append(s, t)[i] = t \/ \E j \in 1 .. Len(s) : Append(s, t)[i] = s[j]
<1>1. /\ Len(Append(s, t)) = Len(s) + 1 /\ Len(s) \in Nat
      /\ Append(s, t)[Len(s) + 1] = t
      /\ \A i \in 1 .. Len(s) : Append(s, t)[i] = s[i]
  OBVIOUS
<1> DEFINE a == Append(s, t)
<1>2. /\ Len(a) = Len(s) + 1 /\ Len(s) \in Nat /\ a[Len(s) + 1] = t
      /\ \A i \in 1 .. Len(s) : a[i] = s[i]
  BY <1>1
<1> HIDE DEF a
<1>3. Within(s, s) /\ Within(s, a) /\ Len(s) + 1 \in 1 .. Len(a)
  BY <1>2 DEF Within
<1>4. ASSUME NEW i \in 1 .. Len(a) PROVE a[i] = t \/ \E j \in 1 .. Len(s) : a[i] = s[j]
  <2>1. i \in 1 .. Len(s) \/ i = Len(s) + 1
    BY <1>2
  <2> QED
    BY <1>2, <2>1
<1> QED
  BY <1>2, <1>3, <1>4 DEF a

\* The next task of the buffer.
LEMMA RequestedTask ==
  ASSUME TypeOK, Planned, requested <= BufferNonces, NEW n \in 0 .. Rest
  PROVE  /\ TaskAt(requested, n) \in Pieces
         /\ TaskAt(requested, n).n = n /\ n \in Nat
         /\ PieceOf(TaskAt(requested, n), Seed, Base, BufferNonces)
         /\ requested + n <= BufferNonces
         /\ \A k \in requested .. requested + n - 1 : Covers(TaskAt(requested, n), k)
<1>1. Seed \in AnySeeds /\ Base \in Nat /\ BufferNonces \in Nat /\ requested \in Nat
  BY BufferFacts DEF TypeOK
<1>2. TaskAt(requested, n) = [seed |-> Seed, start |-> Base + requested, chunk |-> requested,
                              n |-> n]
  BY DEF TaskAt, HashTask, Seed, Base
<1>3. PICK r \in Nat, b \in Nat : r = requested /\ b = BufferNonces
  BY <1>1
<1>4. n \in 0 .. b - r /\ r <= b
  BY <1>3 DEF Rest
<1>5. n \in Nat /\ r + n <= b
  BY <1>4
<1>6. TaskAt(requested, n) \in Pieces
  BY <1>1, <1>2, <1>5 DEF Pieces
<1>7. PieceOf(TaskAt(requested, n), Seed, Base, BufferNonces)
  BY <1>2, <1>3, <1>5, <1>6 DEF PieceOf
<1>8. ASSUME NEW k \in r .. r + n - 1 PROVE Covers(TaskAt(requested, n), k)
  <2>1. n > 0 /\ r <= k /\ k < r + n
    BY <1>5
  <2> QED
    BY <1>2, <1>3, <2>1 DEF Covers
<1> QED
  BY <1>2, <1>3, <1>5, <1>6, <1>7, <1>8

\* What a hasher that asks is given is within the rest of the buffer.
LEMMA SharesAre ==
  ASSUME TypeOK, Planned, requested <= BufferNonces
  PROVE  Min2(CpuTaskSize, Rest) \in 0 .. Rest /\ GpuShare \in 0 .. Rest
<1>1. /\ BufferNonces \in Nat /\ requested \in Nat
      /\ CpuTaskSize \in Nat \ {0} /\ WorkSize \in Nat \ {0}
  BY BufferFacts, XpuAssumption DEF TypeOK, XpuAssumption
<1>2. Rest \in Nat
  BY <1>1 DEF Rest
<1>3. PICK r \in Nat : r = Rest
  BY <1>2
<1>4. PICK m \in 0 .. r : m = Min2(WorkSize, Rest)
  BY <1>1, <1>3 DEF Min2
<1>5. m \div 2 \in 0 .. r
  BY <1>4
<1>6. GpuShare \in 0 .. r
  BY <1>3, <1>4, <1>5 DEF GpuShare
<1>7. Min2(CpuTaskSize, Rest) \in 0 .. r
  BY <1>1, <1>3 DEF Min2
<1> QED
  BY <1>3, <1>6, <1>7

\* What holds in the control loop, given what was requested and reported.
InControl(msgs, tasks, queues, r, d) ==
    /\ msgs \in Seq(Msgs)
    /\ tasks \in Seq(Pieces)
    /\ queues \in [GpuIds -> Seq(QueuedTasks)]
    /\ r \in Nat /\ d \in Nat
    /\ r = d + Underway(msgs, tasks, queues, gpu)
    /\ r <= BufferNonces
    /\ PiecesRight(tasks, queues, gpu, Seed, Base, BufferNonces)
    /\ Filled(plot, tasks, queues, gpu, r, Seed, Base)

\* A CPU thread's request is answered with the next piece, or dropped.
LEMMA CpuAnswered ==
  ASSUME TypeOK, Planned, InControl(rx, cpuTasks, gpuQueue, requested, processed),
         rx # <<>>, Head(rx).type = "cpu", NEW n \in 0 .. Rest
  PROVE  InControl(Tail(rx), IF n > 0 THEN Append(cpuTasks, TaskAt(requested, n)) ELSE cpuTasks,
                   gpuQueue, requested + n, processed)
<1> DEFINE t == TaskAt(requested, n)
           tasks == IF n > 0 THEN Append(cpuTasks, t) ELSE cpuTasks
<1>0. /\ rx \in Seq(Msgs) /\ cpuTasks \in Seq(Pieces)
      /\ gpuQueue \in [GpuIds -> Seq(QueuedTasks)] /\ gpu \in [GpuIds -> GpuStates]
      /\ requested \in Nat /\ processed \in Nat
      /\ requested = processed + Underway(rx, cpuTasks, gpuQueue, gpu)
      /\ requested <= BufferNonces
      /\ PiecesRight(cpuTasks, gpuQueue, gpu, Seed, Base, BufferNonces)
      /\ Filled(plot, cpuTasks, gpuQueue, gpu, requested, Seed, Base)
  BY DEF TypeOK, InControl
<1>2. /\ t \in Pieces /\ t.n = n /\ n \in Nat
      /\ PieceOf(t, Seed, Base, BufferNonces)
      /\ requested + n <= BufferNonces
      /\ \A k \in requested .. requested + n - 1 : Covers(t, k)
  BY <1>0, RequestedTask
<1>3. /\ cpuTasks \in Seq(QueuedTasks) /\ t \in QueuedTasks
      /\ Sum(MsgSizes(rx)) \in Nat /\ Sum(TaskSizes(cpuTasks)) \in Nat
      /\ Sum(GpuLoads(gpuQueue, gpu)) \in Nat
  BY <1>0, <1>2, UnderwayIsNat DEF QueuedTasks
<1>4. /\ Tail(rx) \in Seq(Msgs) /\ Sum(MsgSizes(Tail(rx))) \in Nat
      /\ Sum(MsgSizes(rx)) = Sum(MsgSizes(Tail(rx)))
  <2>1. /\ Tail(rx) \in Seq(Msgs)
        /\ Sum(MsgSizes(rx)) = Sum(MsgSizes(Tail(rx))) + 0
    BY <1>0, FirstMsgOff
  <2>2. Sum(MsgSizes(Tail(rx))) \in Nat
    BY <2>1, SizesAreNat
  <2> QED
    BY <2>1, <2>2
<1>5. /\ tasks \in Seq(Pieces)
      /\ Sum(TaskSizes(tasks)) = Sum(TaskSizes(cpuTasks)) + n
  <2>1. CASE n > 0
    <3>1. Append(cpuTasks, t) \in Seq(Pieces)
      <4> HIDE DEF t
      <4> QED
        BY <1>0, <1>2
    <3>2. Sum(TaskSizes(Append(cpuTasks, t))) = Sum(TaskSizes(cpuTasks)) + NonNegative(t.n)
      BY <1>3, AppendedTask
    <3>3. NonNegative(t.n) = n
      BY <1>2, <2>1 DEF NonNegative
    <3> QED
      BY <2>1, <3>1, <3>2, <3>3
  <2>2. CASE ~(n > 0)
    <3>1. n = 0
      BY <1>2, <2>2
    <3> QED
      BY <1>0, <1>3, <2>2, <3>1
  <2> QED
    BY <2>1, <2>2
<1>6. requested + n = processed + Underway(Tail(rx), tasks, gpuQueue, gpu)
  <2> HIDE DEF tasks
  <2>1. requested = processed + (Sum(MsgSizes(Tail(rx))) + Sum(TaskSizes(cpuTasks))
                                 + Sum(GpuLoads(gpuQueue, gpu)))
    BY <1>0, <1>4, Zenon DEF Underway
  <2>2. requested + n = processed + (Sum(MsgSizes(Tail(rx))) + (Sum(TaskSizes(cpuTasks)) + n)
                                     + Sum(GpuLoads(gpuQueue, gpu)))
    <3>1. /\ requested \in Nat /\ processed \in Nat /\ n \in Nat
          /\ Sum(MsgSizes(Tail(rx))) \in Nat /\ Sum(TaskSizes(cpuTasks)) \in Nat
          /\ Sum(GpuLoads(gpuQueue, gpu)) \in Nat
      BY <1>0, <1>2, <1>3, <1>4, Zenon
    <3> DEFINE m == Sum(MsgSizes(Tail(rx)))
               s == Sum(TaskSizes(cpuTasks))
               l == Sum(GpuLoads(gpuQueue, gpu))
    <3>2. /\ m \in Nat /\ s \in Nat /\ l \in Nat /\ requested \in Nat /\ processed \in Nat
          /\ n \in Nat /\ requested = processed + (m + s + l)
      BY <2>1, <3>1
    <3> HIDE DEF m, s, l
    <3>3. requested + n = processed + (m + (s + n) + l)
      BY <3>2
    <3> QED
      BY <3>3 DEF m, s, l
  <2> QED
    BY <1>5, <2>2, Zenon DEF Underway
<1>7. /\ Within(cpuTasks, tasks)
      /\ \A i \in 1 .. Len(tasks) :
           (n > 0 /\ tasks[i] = t) \/ \E j \in 1 .. Len(cpuTasks) : tasks[i] = cpuTasks[j]
      /\ n > 0 => \E i \in 1 .. Len(tasks) : tasks[i] = t
  <2>1. CASE n > 0
    <3>1. tasks = Append(cpuTasks, t)
      BY <2>1
    <3> HIDE DEF tasks, t
    <3>2. /\ Within(cpuTasks, Append(cpuTasks, t))
          /\ Len(cpuTasks) + 1 \in 1 .. Len(Append(cpuTasks, t))
          /\ Append(cpuTasks, t)[Len(cpuTasks) + 1] = t
          /\ \A i \in 1 .. Len(Append(cpuTasks, t)) :
               \/ Append(cpuTasks, t)[i] = t
               \/ \E j \in 1 .. Len(cpuTasks) : Append(cpuTasks, t)[i] = cpuTasks[j]
      <4>1. cpuTasks \in Seq(Pieces) /\ t \in Pieces
        BY <1>0, <1>2, Zenon
      <4> QED
        BY <4>1, AppendWithin
    <3> QED
      BY <2>1, <3>1, <3>2, Zenon
  <2>2. CASE ~(n > 0)
    <3>1. tasks = cpuTasks
      BY <2>2
    <3> HIDE DEF tasks, t
    <3> QED
      BY <2>2, <3>1 DEF Within
  <2> QED
    BY <2>1, <2>2
<1> HIDE DEF tasks, t
<1>8. PiecesRight(tasks, gpuQueue, gpu, Seed, Base, BufferNonces)
  <2>1. ASSUME NEW i \in 1 .. Len(tasks)
        PROVE  tasks[i].n > 0 /\ PieceOf(tasks[i], Seed, Base, BufferNonces)
    <3>1. CASE n > 0 /\ tasks[i] = t
      BY <1>2, <3>1
    <3>2. ASSUME NEW j \in 1 .. Len(cpuTasks), tasks[i] = cpuTasks[j]
          PROVE  tasks[i].n > 0 /\ PieceOf(tasks[i], Seed, Base, BufferNonces)
      BY <1>0, <3>2, Zenon DEF PiecesRight
    <3> QED
      BY <1>7, <3>1, <3>2
  <2> QED
    BY <1>0, <2>1, Zenon DEF PiecesRight
<1>9. Filled(plot, tasks, gpuQueue, gpu, requested + n, Seed, Base)
  <2>1. ASSUME NEW k \in requested .. requested + n - 1
        PROVE  Pending(tasks, gpuQueue, gpu, k)
    <3>1. n > 0 /\ Covers(t, k)
      BY <1>0, <1>2
    <3> QED
      BY <1>7, <3>1, Zenon DEF Pending
  <2>2. \A g \in GpuIds : Within(gpuQueue[g], gpuQueue[g])
    BY DEF Within
  <2> QED
    <3>1. /\ Within(cpuTasks, tasks) /\ requested \in Nat /\ n \in Nat
          /\ Filled(plot, cpuTasks, gpuQueue, gpu, requested, Seed, Base)
      BY <1>0, <1>2, <1>7, Zenon
    <3>2. \A k \in requested .. requested + n - 1 : Pending(tasks, gpuQueue, gpu, k)
      BY <2>1, Zenon
    <3> QED
      BY <2>2, <3>1, <3>2, FilledFurther, Zenon
<1>10. requested + n \in Nat
  BY <1>0, <1>2
<1> QED
  BY <1>0, <1>2, <1>4, <1>5, <1>6, <1>8, <1>9, <1>10 DEF InControl, tasks, t

\* A GPU's request is answered with the next piece, which may be empty.
LEMMA GpuAnswered ==
  ASSUME TypeOK, Planned, InControl(rx, cpuTasks, gpuQueue, requested, processed),
         rx # <<>>, Head(rx).type = "gpu", NEW n \in 0 .. Rest, NEW id \in GpuIds
  PROVE  InControl(Tail(rx), cpuTasks,
                   [gpuQueue EXCEPT ![id] = Append(gpuQueue[id], TaskAt(requested, n))],
                   requested + n, processed)
<1> DEFINE t == TaskAt(requested, n)
           q == Append(gpuQueue[id], t)
           queues == [gpuQueue EXCEPT ![id] = q]
<1>1. /\ rx \in Seq(Msgs) /\ cpuTasks \in Seq(Pieces)
      /\ gpuQueue \in [GpuIds -> Seq(QueuedTasks)] /\ gpu \in [GpuIds -> GpuStates]
      /\ requested \in Nat /\ processed \in Nat
      /\ requested = processed + Underway(rx, cpuTasks, gpuQueue, gpu)
      /\ requested <= BufferNonces
      /\ PiecesRight(cpuTasks, gpuQueue, gpu, Seed, Base, BufferNonces)
      /\ Filled(plot, cpuTasks, gpuQueue, gpu, requested, Seed, Base)
  BY DEF TypeOK, InControl
<1>2. /\ t \in Pieces /\ t.n = n /\ n \in Nat
      /\ PieceOf(t, Seed, Base, BufferNonces)
      /\ requested + n <= BufferNonces
      /\ \A k \in requested .. requested + n - 1 : Covers(t, k)
  BY <1>1, RequestedTask
<1>3. /\ gpuQueue[id] \in Seq(QueuedTasks) /\ gpu[id] \in GpuStates /\ t \in QueuedTasks
  BY <1>1, <1>2 DEF QueuedTasks
<1>4. /\ Tail(rx) \in Seq(Msgs) /\ Sum(MsgSizes(Tail(rx))) \in Nat
      /\ Sum(MsgSizes(rx)) = Sum(MsgSizes(Tail(rx)))
  <2>1. /\ Tail(rx) \in Seq(Msgs)
        /\ Sum(MsgSizes(rx)) = Sum(MsgSizes(Tail(rx))) + 0
    BY <1>1, FirstMsgOff
  <2>2. Sum(MsgSizes(Tail(rx))) \in Nat
    BY <2>1, SizesAreNat
  <2> QED
    BY <2>1, <2>2
<1>5. /\ q \in Seq(QueuedTasks)
      /\ GpuLoad(q, gpu[id]) = GpuLoad(gpuQueue[id], gpu[id]) + n
      /\ GpuLoad(gpuQueue[id], gpu[id]) \in Nat
  <2>1. /\ q \in Seq(QueuedTasks)
        /\ Sum(TaskSizes(q)) = Sum(TaskSizes(gpuQueue[id])) + NonNegative(t.n)
    BY <1>3, AppendedTask
  <2>2. NonNegative(t.n) = n
    BY <1>2 DEF NonNegative
  <2>3. /\ Sum(TaskSizes(gpuQueue[id])) \in Nat
        /\ InWork(gpu[id]) \in Nat /\ InDevice(gpu[id]) \in Nat
    BY <1>3, SizesAreNat, GpuHolds
  <2>4. GpuLoad(gpuQueue[id], gpu[id]) \in Nat
    BY <2>3 DEF GpuLoad
  <2> HIDE DEF q
  <2>5. Sum(TaskSizes(q)) = Sum(TaskSizes(gpuQueue[id])) + n
    BY <2>1, <2>2 DEF q
  <2>6. GpuLoad(q, gpu[id]) = GpuLoad(gpuQueue[id], gpu[id]) + n
    BY <1>2, <2>3, <2>5 DEF GpuLoad
  <2> QED
    BY <2>1, <2>4, <2>6 DEF q
<1> HIDE DEF t
<1>6. /\ queues \in [GpuIds -> Seq(QueuedTasks)] /\ queues[id] = q
      /\ \A g \in GpuIds : g # id => queues[g] = gpuQueue[g]
  <2> HIDE DEF q
  <2> QED
    BY <1>1, <1>5
<1> HIDE DEF queues
<1>7. Sum(GpuLoads(queues, gpu)) = Sum(GpuLoads(gpuQueue, gpu)) + n
  <2>1. Sum(GpuLoads(queues, gpu)) =
          Sum(GpuLoads(gpuQueue, gpu)) - GpuLoad(gpuQueue[id], gpu[id]) + GpuLoad(queues[id], gpu[id])
    <3>1. /\ gpuQueue \in [GpuIds -> Seq(QueuedTasks)] /\ queues \in [GpuIds -> Seq(QueuedTasks)]
          /\ gpu \in [GpuIds -> GpuStates]
          /\ \A g \in GpuIds : g # id => queues[g] = gpuQueue[g] /\ gpu[g] = gpu[g]
      BY <1>1, <1>6
    <3> QED
      BY <3>1, LoadChanges, ZenonT(60)
  <2>2. Sum(GpuLoads(gpuQueue, gpu)) \in Nat
    BY <1>1, LoadsAreNat
  <2> DEFINE l == GpuLoad(gpuQueue[id], gpu[id])
             l2 == GpuLoad(queues[id], gpu[id])
             s == Sum(GpuLoads(gpuQueue, gpu))
  <2>3. l \in Nat /\ s \in Nat /\ n \in Nat /\ l2 = l + n /\ Sum(GpuLoads(queues, gpu)) = s - l + l2
    BY <1>2, <1>5, <1>6, <2>1, <2>2
  <2> HIDE DEF l, l2, s
  <2>4. Sum(GpuLoads(queues, gpu)) = s + n
    BY <2>3
  <2> QED
    BY <2>4 DEF s
<1>8. requested + n = processed + Underway(Tail(rx), cpuTasks, queues, gpu)
  <2>1. requested = processed + (Sum(MsgSizes(Tail(rx))) + Sum(TaskSizes(cpuTasks))
                                 + Sum(GpuLoads(gpuQueue, gpu)))
    BY <1>1, <1>4, Zenon DEF Underway
  <2> DEFINE m == Sum(MsgSizes(Tail(rx)))
             s == Sum(TaskSizes(cpuTasks))
             l == Sum(GpuLoads(gpuQueue, gpu))
  <2>2. /\ m \in Nat /\ s \in Nat /\ l \in Nat /\ requested \in Nat /\ processed \in Nat
        /\ n \in Nat /\ requested = processed + (m + s + l)
    BY <1>1, <1>2, <1>4, <2>1, UnderwayIsNat
  <2> HIDE DEF m, s, l
  <2>3. requested + n = processed + (m + s + (l + n))
    BY <2>2
  <2> QED
    BY <1>7, <2>3 DEF Underway, m, s, l
<1>9. /\ Within(gpuQueue[id], q)
      /\ \E i \in 1 .. Len(q) : q[i] = t
      /\ \A i \in 1 .. Len(q) : q[i] = t \/ \E j \in 1 .. Len(gpuQueue[id]) : q[i] = gpuQueue[id][j]
  <2> HIDE DEF q, t
  <2>1. gpuQueue[id] \in Seq(QueuedTasks) /\ t \in QueuedTasks
    BY <1>2, <1>3
  <2>2. /\ Within(gpuQueue[id], Append(gpuQueue[id], t))
        /\ Len(gpuQueue[id]) + 1 \in 1 .. Len(Append(gpuQueue[id], t))
        /\ Append(gpuQueue[id], t)[Len(gpuQueue[id]) + 1] = t
        /\ \A i \in 1 .. Len(Append(gpuQueue[id], t)) :
             \/ Append(gpuQueue[id], t)[i] = t
             \/ \E j \in 1 .. Len(gpuQueue[id]) : Append(gpuQueue[id], t)[i] = gpuQueue[id][j]
    BY <2>1, AppendWithin
  <2>3. q = Append(gpuQueue[id], t)
    BY Zenon DEF q
  <2> QED
    BY <2>2, <2>3, Zenon
<1> HIDE DEF q
<1>10. PiecesRight(cpuTasks, queues, gpu, Seed, Base, BufferNonces)
  <2>1. ASSUME NEW g \in GpuIds PROVE QueueRight(queues[g], Seed, Base, BufferNonces)
    <3>1. QueueRight(gpuQueue[g], Seed, Base, BufferNonces)
      BY <1>1, Zenon DEF PiecesRight
    <3>2. CASE g = id
      <4>1. ASSUME NEW i \in 1 .. Len(q), q[i].n > 0
            PROVE  PieceOf(q[i], Seed, Base, BufferNonces)
        <5>1. CASE q[i] = t
          BY <1>2, <5>1
        <5>2. ASSUME NEW j \in 1 .. Len(gpuQueue[id]), q[i] = gpuQueue[id][j]
              PROVE  PieceOf(q[i], Seed, Base, BufferNonces)
          BY <3>1, <3>2, <4>1, <5>2, Zenon DEF QueueRight
        <5> QED
          BY <1>9, <5>1, <5>2, Zenon
      <4>2. QueueRight(q, Seed, Base, BufferNonces)
        BY <4>1, Zenon DEF QueueRight
      <4> QED
        BY <1>6, <3>2, <4>2
    <3>3. CASE g # id
      BY <1>6, <3>1, <3>3
    <3> QED
      BY <3>2, <3>3
  <2> QED
    BY <1>1, <2>1, Zenon DEF PiecesRight
<1>11. Filled(plot, cpuTasks, queues, gpu, requested + n, Seed, Base)
  <2>1. ASSUME NEW k \in requested .. requested + n - 1
        PROVE  Pending(cpuTasks, queues, gpu, k)
    <3>1. Covers(t, k)
      BY <1>2
    <3>2. \E i \in 1 .. Len(queues[id]) : Covers(queues[id][i], k)
      BY <1>6, <1>9, <3>1
    <3> QED
      BY <3>2, Zenon DEF Pending
  <2>2. Within(cpuTasks, cpuTasks)
    BY DEF Within
  <2>3. ASSUME NEW g \in GpuIds PROVE Within(gpuQueue[g], queues[g])
    <3>1. CASE g = id
      BY <1>6, <1>9, <3>1
    <3>2. CASE g # id
      BY <1>6, <3>2 DEF Within
    <3> QED
      BY <3>1, <3>2
  <2>4. /\ requested \in Nat /\ n \in Nat
        /\ Filled(plot, cpuTasks, gpuQueue, gpu, requested, Seed, Base)
    BY <1>1, <1>2, Zenon
  <2>5. \A k \in requested .. requested + n - 1 : Pending(cpuTasks, queues, gpu, k)
    BY <2>1, Zenon
  <2> QED
    BY <2>2, <2>3, <2>4, <2>5, FilledFurther, Zenon
<1>12. requested + n \in Nat
  BY <1>1, <1>2
<1> QED
  BY <1>1, <1>2, <1>4, <1>6, <1>8, <1>10, <1>11, <1>12 DEF InControl, queues, q, t

\* Reported nonces are processed.
LEMMA HashedCounted ==
  ASSUME TypeOK, InControl(rx, cpuTasks, gpuQueue, requested, processed),
         rx # <<>>, Head(rx).type = "hashed"
  PROVE  InControl(Tail(rx), cpuTasks, gpuQueue, requested, processed + Head(rx).n)
<1>1. /\ rx \in Seq(Msgs) /\ cpuTasks \in Seq(Pieces)
      /\ gpuQueue \in [GpuIds -> Seq(QueuedTasks)] /\ gpu \in [GpuIds -> GpuStates]
      /\ requested \in Nat /\ processed \in Nat
      /\ requested = processed + Underway(rx, cpuTasks, gpuQueue, gpu)
  BY DEF TypeOK, InControl
<1>2. /\ Tail(rx) \in Seq(Msgs) /\ Head(rx) \in Msgs
      /\ Sum(MsgSizes(rx)) = Sum(MsgSizes(Tail(rx))) + Head(rx).n
  BY <1>1, FirstMsgOff
<1>3. Head(rx).n \in Nat
  BY <1>2 DEF Msgs
<1>4. Sum(MsgSizes(Tail(rx))) \in Nat
  BY <1>2, SizesAreNat
<1>5. requested = processed + Head(rx).n + Underway(Tail(rx), cpuTasks, gpuQueue, gpu)
  <2>1. requested = processed + ((Sum(MsgSizes(Tail(rx))) + Head(rx).n)
                                 + Sum(TaskSizes(cpuTasks)) + Sum(GpuLoads(gpuQueue, gpu)))
    BY <1>1, <1>2, Zenon DEF Underway
  <2> DEFINE m == Sum(MsgSizes(Tail(rx)))
             s == Sum(TaskSizes(cpuTasks))
             l == Sum(GpuLoads(gpuQueue, gpu))
             n == Head(rx).n
  <2>2. /\ m \in Nat /\ s \in Nat /\ l \in Nat /\ requested \in Nat /\ processed \in Nat
        /\ n \in Nat /\ requested = processed + ((m + n) + s + l)
    BY <1>1, <1>3, <1>4, <2>1, UnderwayIsNat
  <2> HIDE DEF m, s, l, n
  <2>3. requested = processed + n + (m + s + l)
    BY <2>2
  <2> QED
    BY <2>3 DEF Underway, m, s, l, n
<1>6. processed + Head(rx).n \in Nat
  BY <1>1, <1>3
<1> QED
  BY <1>1, <1>2, <1>5, <1>6 DEF InControl

\* Whatever the message, the control loop keeps its books.
LEMMA ControlResult ==
  ASSUME TypeOK, Planned, Counted, HashersRight, Control
  PROVE  /\ spc = "control"
         /\ spc' = IF processed' = BufferNonces THEN "handover" ELSE "control"
         /\ UNCHANGED <<pointer, seeds, hashed, filesHashed, plotAt, handed>>
         /\ InControl(rx', cpuTasks', gpuQueue', requested', processed')
<1>1. /\ spc = "control" /\ rx # <<>> /\ rx' = Tail(rx)
      /\ spc' = IF processed' = BufferNonces THEN "handover" ELSE spc
      /\ UNCHANGED <<pointer, seeds, hashed, filesHashed, plotAt, handed>>
  BY Zenon DEF Control, compVars
<1>2. InControl(rx, cpuTasks, gpuQueue, requested, processed)
  BY <1>1 DEF TypeOK, Counted, HashersRight, InControl
<1>3. requested <= BufferNonces /\ Head(rx) \in Msgs
  BY <1>1, FirstMsgOff DEF Counted, TypeOK
<1>4. Head(rx).type \in {"cpu", "gpu", "hashed"}
  BY <1>3 DEF Msgs
<1>5. CASE Head(rx).type = "cpu"
  <2> DEFINE n == Min2(CpuTaskSize, Rest)
  <2>1. /\ cpuTasks' = IF n > 0 THEN Append(cpuTasks, TaskAt(requested, n)) ELSE cpuTasks
        /\ requested' = requested + n
        /\ UNCHANGED <<gpuQueue, processed>>
    BY <1>5, Zenon DEF Control
  <2>2. n \in 0 .. Rest
    BY <1>3, SharesAre
  <2> HIDE DEF n
  <2>3. InControl(Tail(rx), IF n > 0 THEN Append(cpuTasks, TaskAt(requested, n)) ELSE cpuTasks,
                  gpuQueue, requested + n, processed)
    BY <1>1, <1>2, <1>5, <2>2, CpuAnswered
  <2> QED
    BY <1>1, <2>1, <2>3
<1>6. CASE Head(rx).type = "gpu"
  <2> DEFINE n == GpuShare
  <2>1. /\ gpuQueue' = [gpuQueue EXCEPT ![Head(rx).id] =
                           Append(gpuQueue[Head(rx).id], TaskAt(requested, n))]
        /\ requested' = requested + n
        /\ UNCHANGED <<cpuTasks, processed>>
    <3>1. ~(Head(rx).type = "cpu")
      BY <1>6
    <3>2. /\ AnswerGpu(Head(rx).id)
          /\ requested' = requested + n
          /\ UNCHANGED <<cpuTasks, processed>>
      BY <1>6, <3>1 DEF Control
    <3> QED
      BY <3>2 DEF AnswerGpu
  <2>2. n \in 0 .. Rest
    BY <1>3, SharesAre
  <2>3. Head(rx).id \in GpuIds
    BY <1>3, <1>6 DEF Msgs
  <2> HIDE DEF n
  <2>4. InControl(Tail(rx), cpuTasks,
                  [gpuQueue EXCEPT ![Head(rx).id] =
                      Append(gpuQueue[Head(rx).id], TaskAt(requested, n))],
                  requested + n, processed)
    BY <1>1, <1>2, <1>6, <2>2, <2>3, GpuAnswered
  <2> QED
    BY <1>1, <2>1, <2>4
<1>7. CASE Head(rx).type = "hashed"
  <2>1. /\ processed' = processed + Head(rx).n
        /\ UNCHANGED <<cpuTasks, gpuQueue, requested>>
    <3>1. ~(Head(rx).type = "cpu") /\ ~(Head(rx).type = "gpu")
      BY <1>7
    <3> QED
      BY <1>7, <3>1 DEF Control
  <2>2. InControl(Tail(rx), cpuTasks, gpuQueue, requested, processed + Head(rx).n)
    BY <1>1, <1>2, <1>7, HashedCounted
  <2> QED
    BY <1>1, <2>1, <2>2
<1>8. InControl(rx', cpuTasks', gpuQueue', requested', processed')
  BY <1>4, <1>5, <1>6, <1>7
<1> QED
  BY <1>1, <1>8

\* What was requested and reported is not underway.
LEMMA AllReported ==
  ASSUME NEW u \in Nat, NEW r \in Nat, NEW d \in Nat, r = d + u, r <= d
  PROVE  u = 0 /\ r = d
OBVIOUS

\* When as many nonces were reported as the buffer has, none is underway.
LEMMA ControlKeeps ==
  ASSUME XpuInv, Control
  PROVE  XpuInv'
<1>0. TypeOK /\ Planned /\ OneOwner /\ TasksInPlot /\ WritesRight /\ FilesInv
      /\ Counted /\ HashersRight
  BY DEF XpuInv
<1>1. /\ mpc = "join"
      /\ UNCHANGED <<mpc, warps, plots, given, cpuIdle, gpu, plot, cpc, ctask>>
      /\ UNCHANGED writeVars /\ UNCHANGED files
  BY SchedulerLeaves DEF Scheduler
<1>2. /\ spc = "control"
      /\ spc' = IF processed' = BufferNonces THEN "handover" ELSE "control"
      /\ UNCHANGED <<pointer, seeds, hashed, filesHashed, plotAt, handed>>
      /\ InControl(rx', cpuTasks', gpuQueue', requested', processed')
  BY <1>0, ControlResult
<1>3. /\ rx' \in Seq(Msgs) /\ cpuTasks' \in Seq(Pieces)
      /\ gpuQueue' \in [GpuIds -> Seq(QueuedTasks)]
      /\ requested' \in Nat /\ processed' \in Nat
      /\ requested' = processed' + Underway(rx', cpuTasks', gpuQueue', gpu)
      /\ requested' <= BufferNonces
      /\ PiecesRight(cpuTasks', gpuQueue', gpu, Seed, Base, BufferNonces)
      /\ Filled(plot, cpuTasks', gpuQueue', gpu, requested', Seed, Base)
  BY <1>2 DEF InControl
<1>4. TypeOK' /\ Planned'
  BY <1>0, <1>1, <1>2, <1>3 DEF TypeOK, Planned
<1>5. OneOwner' /\ TasksInPlot'
  BY <1>0, <1>1, <1>2 DEF OneOwner, TasksInPlot, CompressorHolds
<1>6. Seed' = Seed /\ Base' = Base /\ BufferNonces' = BufferNonces
  BY <1>1, <1>2 DEF Seed, Base, BufferNonces
<1>7. Counted'
  <2>1. Underway(rx', cpuTasks', gpuQueue', gpu) \in Nat
    BY <1>0, <1>3, UnderwayIsNat DEF TypeOK
  <2>2. CASE processed' = BufferNonces
    <3> DEFINE u == Underway(rx', cpuTasks', gpuQueue', gpu)
    <3>1. /\ u \in Nat /\ requested' \in Nat /\ processed' \in Nat
          /\ requested' = processed' + u /\ requested' <= processed'
      BY <1>3, <2>1, <2>2
    <3> HIDE DEF u
    <3>2. u = 0 /\ requested' = processed'
      BY <3>1, AllReported
    <3> QED
      BY <1>1, <1>2, <1>6, <2>2, <3>2 DEF Counted, u
  <2>3. CASE processed' # BufferNonces
    BY <1>1, <1>2, <1>3, <1>6, <2>3 DEF Counted
  <2> QED
    BY <2>2, <2>3
<1>8. HashersRight'
  BY <1>1, <1>3, <1>6 DEF HashersRight
<1> QED
  BY <1>0, <1>1, <1>4, <1>5, <1>7, <1>8, WritesFrame, FilesFrame DEF XpuInv

\* The steps of the scheduler keep the invariant.
LEMMA SchedulerKeeps ==
  ASSUME XpuInv, Scheduler
  PROVE  XpuInv'
<1>1. CASE TakeBuffer
  BY <1>1, TakeBufferKeeps, TakeNothingKeeps, Zenon
<1> QED
  BY <1>1, ControlKeeps, HandOverKeeps, AdvanceKeeps, Zenon DEF Scheduler
-----------------------------------------------------------------------------
(* Steps of the hashers.                                                    *)

\* What the hashers leave alone.
LEMMA HasherLeaves ==
  ASSUME Hasher
  PROVE  /\ mpc = "join"
         /\ UNCHANGED <<mpc, warps, plots, given, spc, pointer, seeds, hashed, filesHashed,
                        requested, processed, plotAt, handed, cpc, ctask>>
         /\ UNCHANGED writeVars
         /\ UNCHANGED files
<1>1. /\ mpc = "join"
      /\ UNCHANGED <<mainVars, schedVars, plotAt, compVars, writeVars, envVars, files>>
  BY DEF Hasher, CpuHash, CpuRequest, GpuTake, GpuWork, Running
<1> QED
  BY <1>1 DEF mainVars, schedVars, compVars, envVars

\* A step of a hasher that loses no nonces and writes none to wrong slots.
LEMMA HasherFrame ==
  ASSUME XpuInv, Hasher,
         rx' \in Seq(Msgs), cpuTasks' \in Seq(Pieces), cpuIdle' \in Nat,
         gpuQueue' \in [GpuIds -> Seq(QueuedTasks)], gpu' \in [GpuIds -> GpuStates],
         plot' \in PlotContents, plot' = plot \/ spc = "control",
         Underway(rx', cpuTasks', gpuQueue', gpu') = Underway(rx, cpuTasks, gpuQueue, gpu),
         PiecesRight(cpuTasks', gpuQueue', gpu', Seed, Base, BufferNonces),
         spc \in {"control", "handover"} =>
             Filled(plot', cpuTasks', gpuQueue', gpu', requested, Seed, Base)
  PROVE  XpuInv'
<1>0. TypeOK /\ Planned /\ OneOwner /\ TasksInPlot /\ WritesRight /\ FilesInv
      /\ Counted /\ HashersRight
  BY DEF XpuInv
<1>1. /\ mpc = "join"
      /\ UNCHANGED <<mpc, warps, plots, given, spc, pointer, seeds, hashed, filesHashed,
                     requested, processed, plotAt, handed, cpc, ctask>>
      /\ UNCHANGED writeVars /\ UNCHANGED files
  BY HasherLeaves
<1>2. TypeOK' /\ Planned' /\ OneOwner'
  BY <1>0, <1>1 DEF TypeOK, Planned, OneOwner, CompressorHolds
<1>3. TasksInPlot'
  <2>1. CASE plot' = plot
    BY <1>0, <1>1, <2>1 DEF TasksInPlot
  <2>2. CASE spc = "control"
    BY <1>0, <1>1, <2>2 DEF OneOwner, CompressorHolds, TasksInPlot
  <2> QED
    BY <2>1, <2>2
<1>4. Seed' = Seed /\ Base' = Base /\ BufferNonces' = BufferNonces
  BY <1>1 DEF Seed, Base, BufferNonces
<1>5. Counted'
  BY <1>0, <1>1, <1>4 DEF Counted
<1>6. HashersRight'
  BY <1>1, <1>4 DEF HashersRight
<1> QED
  BY <1>0, <1>1, <1>2, <1>3, <1>5, <1>6, WritesFrame, FilesFrame DEF XpuInv

\* A CPU thread's request carries no nonces.
LEMMA CpuRequestKeeps ==
  ASSUME XpuInv, CpuRequest
  PROVE  XpuInv'
<1>0. TypeOK /\ Counted /\ HashersRight /\ Hasher
  BY DEF XpuInv, Hasher
<1>1. /\ cpuIdle > 0 /\ cpuIdle' = cpuIdle - 1
      /\ UNCHANGED <<cpuTasks, gpuQueue, gpu, plot>>
      /\ rx' = rx \/ rx' = rx \o <<CpuRequestForWork>>
  BY DEF CpuRequest, Report
<1>2. /\ rx \in Seq(Msgs) /\ cpuTasks \in Seq(Pieces) /\ cpuIdle \in Nat
      /\ gpuQueue \in [GpuIds -> Seq(QueuedTasks)] /\ gpu \in [GpuIds -> GpuStates]
      /\ plot \in PlotContents
  BY <1>0 DEF TypeOK
<1>3. rx' \in Seq(Msgs) /\ Sum(MsgSizes(rx')) = Sum(MsgSizes(rx))
  <2>1. CASE rx' = rx
    BY <1>2, <2>1
  <2>2. CASE rx' = rx \o <<CpuRequestForWork>>
    <3>1. CpuRequestForWork \in Msgs /\ CpuRequestForWork.type # "hashed"
      BY DEF CpuRequestForWork, Msgs
    <3>2. rx' = Append(rx, CpuRequestForWork)
      <4> HIDE DEF Msgs
      <4> QED
        BY <1>2, <2>2, <3>1
    <3>3. /\ Append(rx, CpuRequestForWork) \in Seq(Msgs)
          /\ Sum(MsgSizes(Append(rx, CpuRequestForWork))) = Sum(MsgSizes(rx)) + 0
      BY <1>2, <3>1, AppendedMsg
    <3>4. Sum(MsgSizes(rx)) \in Nat
      BY <1>2, SizesAreNat
    <3> QED
      BY <3>2, <3>3, <3>4
  <2> QED
    BY <1>1, <2>1, <2>2
<1>4. cpuIdle' \in Nat
  BY <1>1, <1>2
<1>5. Underway(rx', cpuTasks', gpuQueue', gpu') = Underway(rx, cpuTasks, gpuQueue, gpu)
  BY <1>1, <1>3 DEF Underway
<1>6. /\ PiecesRight(cpuTasks', gpuQueue', gpu', Seed, Base, BufferNonces)
      /\ spc \in {"control", "handover"} =>
             Filled(plot', cpuTasks', gpuQueue', gpu', requested, Seed, Base)
  BY <1>0, <1>1 DEF HashersRight
<1> QED
  BY <1>0, <1>1, <1>2, <1>3, <1>4, <1>5, <1>6, HasherFrame

\* The nonces of a right piece are written to their slots.
LEMMA ScatterRight ==
  ASSUME TypeOK, Planned, requested <= BufferNonces,
         NEW chunk \in Nat, NEW n \in Nat,
         NEW tasks, NEW tasks2, NEW queues, NEW queues2, NEW states, NEW states2,
         Filled(plot, tasks, queues, states, requested, Seed, Base),
         \A k \in Nat : Pending(tasks, queues, states, k) =>
                            \/ Pending(tasks2, queues2, states2, k)
                            \/ chunk <= k /\ k < chunk + n
  PROVE  LET new == Scatter(Seed, Base + chunk, chunk, n) IN
         /\ new \in PlotContents
         /\ Filled(new, tasks2, queues2, states2, requested, Seed, Base)
<1> DEFINE new == Scatter(Seed, Base + chunk, chunk, n)
<1>1. /\ Seed \in AnySeeds /\ Base \in Nat /\ requested \in Nat /\ BufferNonces \in Nat
      /\ BufferNonces <= Escalate * Nonces /\ Escalate * Nonces \in Nat
      /\ plot \in [Slots -> Cells]
  <2>1. /\ Seed \in AnySeeds /\ Base \in Nat /\ BufferNonces \in Nat
        /\ BufferNonces <= Escalate * Nonces
        /\ Nonces \in Nat \ {0} /\ Escalate \in Nat \ {0}
    BY BufferFacts, Zenon
  <2>2. Escalate * Nonces \in Nat
    BY <2>1
  <2>3. requested \in Nat /\ plot \in [Slots -> Cells]
    BY Zenon DEF TypeOK, PlotContents
  <2> QED
    BY <2>1, <2>2, <2>3, Zenon
<1>2. new = [i \in Slots |-> IF i \in chunk .. chunk + n - 1
                             THEN <<Seed, Base + chunk + i - chunk>> ELSE plot[i]]
  BY DEF Scatter
<1>3. ASSUME NEW i \in Int, i >= chunk PROVE Base + chunk + i - chunk = Base + i /\ Base + i \in Nat
  BY <1>1, <1>3
<1>4. new \in PlotContents
  <2>1. ASSUME NEW i \in Slots, i \in chunk .. chunk + n - 1
        PROVE  <<Seed, Base + chunk + i - chunk>> \in Cells
    <3>1. i \in Int /\ i >= chunk
      BY <2>1
    <3>2. Base + chunk + i - chunk \in Nat
      BY <1>3, <3>1
    <3> QED
      BY <1>1, <3>2 DEF Cells
  <2> QED
    BY <1>1, <1>2, <2>1 DEF PlotContents
<1>5. ASSUME NEW k \in 0 .. requested - 1
      PROVE  new[k] = <<Seed, Base + k>> \/ Pending(tasks2, queues2, states2, k)
  <2>1. k \in Nat /\ k \in Slots
    <3>1. PICK r \in Nat, b \in Nat, z \in Nat :
             r = requested /\ b = BufferNonces /\ z = Escalate * Nonces
      BY <1>1
    <3>2. k \in 0 .. r - 1 /\ r <= b /\ b <= z
      BY <1>1, <3>1
    <3>3. k \in Nat /\ k \in 0 .. z - 1
      BY <3>2
    <3> QED
      BY <3>1, <3>3 DEF Slots
  <2>2. CASE chunk <= k /\ k < chunk + n
    <3>1. k \in chunk .. chunk + n - 1 /\ k \in Int /\ k >= chunk
      BY <2>1, <2>2
    <3>2. new[k] = <<Seed, Base + chunk + k - chunk>>
      BY <1>2, <2>1, <3>1
    <3> QED
      BY <1>3, <3>1, <3>2
  <2>3. CASE ~(chunk <= k /\ k < chunk + n)
    <3>1. k \notin chunk .. chunk + n - 1
      BY <2>1, <2>3
    <3>2. new[k] = plot[k]
      BY <1>2, <2>1, <3>1
    <3>3. plot[k] = <<Seed, Base + k>> \/ Pending(tasks, queues, states, k)
      BY Zenon DEF Filled
    <3> QED
      BY <2>1, <2>3, <3>2, <3>3
  <2> QED
    BY <2>2, <2>3
<1>6. Filled(new, tasks2, queues2, states2, requested, Seed, Base)
  BY <1>5, Zenon DEF Filled
<1> QED
  BY <1>4, <1>6

\* Taking task i out of a sequence of tasks.
LEMMA RemovedTask ==
  ASSUME NEW S, NEW s \in Seq(S), NEW i \in 1 .. Len(s)
  PROVE  LET r == SubSeq(s, 1, i - 1) \o SubSeq(s, i + 1, Len(s)) IN
         /\ r \in Seq(S)
         /\ Len(r) = Len(s) - 1
         /\ \A j \in 1 .. Len(s) - 1 : r[j] = IF j < i THEN s[j] ELSE s[j + 1]
<1> DEFINE a == SubSeq(s, 1, i - 1)
           b == SubSeq(s, i + 1, Len(s))
<1>1. Len(s) \in Nat /\ i \in Nat /\ 1 <= i /\ i <= Len(s)
  OBVIOUS
<1>2. /\ a \in Seq(S) /\ Len(a) = i - 1
      /\ \A j \in 1 .. i - 1 : a[j] = s[j]
  BY <1>1
<1>3. /\ b \in Seq(S) /\ Len(b) = Len(s) - i
      /\ \A j \in 1 .. Len(s) - i : b[j] = s[i + j]
  <2>1. b \in Seq(S) /\ Len(b) = Len(s) - i
    BY <1>1
  <2>2. ASSUME NEW j \in 1 .. Len(s) - i PROVE b[j] = s[i + j]
    <3>1. b[j] = s[i + 1 + j - 1]
      BY <1>1
    <3>2. i + 1 + j - 1 = i + j
      BY <1>1
    <3> QED
      BY <3>1, <3>2
  <2> QED
    BY <2>1, <2>2
<1> HIDE DEF a, b
<1>4. /\ a \o b \in Seq(S) /\ Len(a \o b) = Len(a) + Len(b)
      /\ \A j \in 1 .. Len(a) + Len(b) : (a \o b)[j] = IF j <= Len(a) THEN a[j] ELSE b[j - Len(a)]
  <2>1. /\ a \in Seq(S) /\ b \in Seq(S) /\ Len(a) \in Nat /\ Len(b) \in Nat
    BY <1>2, <1>3
  <2>2. a \o b \in Seq(S) /\ Len(a \o b) = Len(a) + Len(b)
    BY <2>1
  <2>3. ASSUME NEW j \in 1 .. Len(a) + Len(b)
        PROVE  (a \o b)[j] = IF j <= Len(a) THEN a[j] ELSE b[j - Len(a)]
    BY <2>1
  <2> QED
    BY <2>2, <2>3
<1>5. Len(a) + Len(b) = Len(s) - 1
  BY <1>1, <1>2, <1>3
<1>6. ASSUME NEW j \in 1 .. Len(s) - 1
      PROVE  (a \o b)[j] = IF j < i THEN s[j] ELSE s[j + 1]
  <2>1. CASE j < i
    <3>1. j <= Len(a) /\ j \in 1 .. i - 1 /\ j \in 1 .. Len(a) + Len(b)
      BY <1>1, <1>2, <1>5, <2>1
    <3> QED
      BY <1>2, <1>4, <2>1, <3>1
  <2>2. CASE ~(j < i)
    <3>1. /\ ~(j <= Len(a)) /\ j - Len(a) \in 1 .. Len(s) - i /\ j \in 1 .. Len(a) + Len(b)
          /\ i + (j - Len(a)) = j + 1
      BY <1>1, <1>2, <1>5, <2>2
    <3>2. (a \o b)[j] = b[j - Len(a)]
      BY <1>4, <3>1
    <3>3. b[j - Len(a)] = s[i + (j - Len(a))]
      BY <1>3, <3>1
    <3> QED
      BY <2>2, <3>1, <3>2, <3>3
  <2> QED
    BY <2>1, <2>2
<1> QED
  BY <1>4, <1>5, <1>6 DEF a, b

\* A CPU thread moves its nonces from a task to a message.
LEMMA CpuHashKeeps ==
  ASSUME XpuInv, CpuHash
  PROVE  XpuInv'
<1>0. TypeOK /\ Planned /\ Counted /\ HashersRight /\ Hasher
  BY DEF XpuInv, Hasher
<1>1. /\ rx \in Seq(Msgs) /\ cpuTasks \in Seq(Pieces) /\ cpuIdle \in Nat
      /\ gpuQueue \in [GpuIds -> Seq(QueuedTasks)] /\ gpu \in [GpuIds -> GpuStates]
      /\ requested \in Nat /\ CpuThreads \in Nat
  BY <1>0, XpuAssumption DEF TypeOK, XpuAssumption
<1> DEFINE Without(i) == SubSeq(cpuTasks, 1, i - 1) \o SubSeq(cpuTasks, i + 1, Len(cpuTasks))
<1>2. PICK i \in 1 .. Min2(Len(cpuTasks), CpuThreads - cpuIdle) :
         /\ plot' = Scatter(cpuTasks[i].seed, cpuTasks[i].start, cpuTasks[i].chunk, cpuTasks[i].n)
         /\ Report(<<Hashed(cpuTasks[i].n)>>)
         /\ cpuTasks' = Without(i)
  BY Zenon DEF CpuHash
<1>3. cpuIdle' = cpuIdle + 1 /\ UNCHANGED <<gpuQueue, gpu>>
  BY DEF CpuHash
<1>4. i \in 1 .. Len(cpuTasks) /\ Len(cpuTasks) \in Nat
  BY <1>1, <1>2 DEF Min2
<1> DEFINE t == cpuTasks[i]
<1>5. spc = "control"
  <2> SUFFICES ASSUME spc # "control" PROVE FALSE
    OBVIOUS
  <2>1. cpuTasks = <<>>
    BY <1>0, QuietOutside DEF Quiet
  <2> QED
    BY <1>4, <2>1
<1>6. /\ t \in Pieces /\ t.n > 0 /\ PieceOf(t, Seed, Base, BufferNonces)
      /\ \A j \in 1 .. Len(cpuTasks) :
             cpuTasks[j].n > 0 /\ PieceOf(cpuTasks[j], Seed, Base, BufferNonces)
      /\ \A g \in GpuIds : QueueRight(gpuQueue[g], Seed, Base, BufferNonces)
      /\ \A g \in GpuIds : GpuRight(gpu[g], Seed, Base, BufferNonces)
  BY <1>0, <1>1, <1>4 DEF HashersRight, PiecesRight
<1>7. t.n \in Nat /\ t.chunk \in Nat /\ t.seed = Seed /\ t.start = Base + t.chunk
  BY <1>6 DEF Pieces, PieceOf
<1> HIDE DEF t
<1>8. /\ rx' \in Seq(Msgs) /\ Sum(MsgSizes(rx')) = Sum(MsgSizes(rx)) + t.n
      /\ Sum(MsgSizes(rx)) \in Nat
  <2>1. Hashed(t.n) \in Msgs /\ Hashed(t.n).type = "hashed" /\ Hashed(t.n).n = t.n
    BY <1>7 DEF Hashed, Msgs
  <2>2. rx' = Append(rx, Hashed(t.n))
    <3>1. rx' = rx \o <<Hashed(t.n)>>
      BY <1>2, <1>5 DEF Report, t
    <3> HIDE DEF Msgs
    <3> QED
      BY <1>1, <2>1, <3>1
  <2>3. /\ Append(rx, Hashed(t.n)) \in Seq(Msgs)
        /\ Sum(MsgSizes(Append(rx, Hashed(t.n)))) = Sum(MsgSizes(rx)) + t.n
    BY <1>1, <2>1, AppendedMsg
  <2>4. Sum(MsgSizes(rx)) \in Nat
    BY <1>1, SizesAreNat
  <2> QED
    BY <2>2, <2>3, <2>4
<1>9. /\ cpuTasks' \in Seq(Pieces) /\ Len(cpuTasks') = Len(cpuTasks) - 1
      /\ \A j \in 1 .. Len(cpuTasks) - 1 :
             cpuTasks'[j] = IF j < i THEN cpuTasks[j] ELSE cpuTasks[j + 1]
  BY <1>1, <1>2, <1>4, RemovedTask
<1>10. /\ Sum(TaskSizes(cpuTasks)) = Sum(TaskSizes(cpuTasks')) + t.n
       /\ Sum(TaskSizes(cpuTasks')) \in Nat
  <2>1. cpuTasks \in Seq(QueuedTasks) /\ cpuTasks' \in Seq(QueuedTasks)
    <3>1. Pieces \subseteq QueuedTasks
      BY DEF QueuedTasks
    <3> HIDE DEF Pieces, QueuedTasks
    <3> QED
      BY <1>1, <1>9, <3>1
  <2>2. Sum(TaskSizes(cpuTasks)) = Sum(TaskSizes(cpuTasks')) + NonNegative(cpuTasks[i].n)
    BY <1>4, <1>9, <2>1, TaskWithout
  <2>3. NonNegative(cpuTasks[i].n) = t.n
    BY <1>6, <1>7 DEF NonNegative, t
  <2> QED
    BY <2>1, <2>2, <2>3, SizesAreNat
<1>11. Underway(rx', cpuTasks', gpuQueue', gpu') = Underway(rx, cpuTasks, gpuQueue, gpu)
  <2> DEFINE m == Sum(MsgSizes(rx))
             s == Sum(TaskSizes(cpuTasks'))
             l == Sum(GpuLoads(gpuQueue, gpu))
             n == t.n
  <2>1. /\ m \in Nat /\ s \in Nat /\ l \in Nat /\ n \in Nat
        /\ Sum(MsgSizes(rx')) = m + n /\ Sum(TaskSizes(cpuTasks)) = s + n
    BY <1>1, <1>7, <1>8, <1>10, LoadsAreNat
  <2> HIDE DEF m, s, l, n
  <2>2. (m + n) + s + l = m + (s + n) + l
    BY <2>1
  <2>3. Underway(rx', cpuTasks', gpuQueue', gpu') = Sum(MsgSizes(rx')) + s + l
    BY <1>3, Zenon DEF Underway, s, l
  <2>4. Underway(rx, cpuTasks, gpuQueue, gpu) = m + Sum(TaskSizes(cpuTasks)) + l
    BY Zenon DEF Underway, m, l
  <2> QED
    BY <2>1, <2>2, <2>3, <2>4
<1>12. PiecesRight(cpuTasks', gpuQueue', gpu', Seed, Base, BufferNonces)
  <2>1. ASSUME NEW j \in 1 .. Len(cpuTasks')
        PROVE  cpuTasks'[j].n > 0 /\ PieceOf(cpuTasks'[j], Seed, Base, BufferNonces)
    <3>1. j \in 1 .. Len(cpuTasks) - 1 /\ j \in 1 .. Len(cpuTasks) /\ j + 1 \in 1 .. Len(cpuTasks)
      BY <1>4, <1>9
    <3> QED
      BY <1>6, <1>9, <3>1
  <2> QED
    BY <1>3, <1>6, <2>1, Zenon DEF PiecesRight
<1>13. /\ plot' \in PlotContents
       /\ Filled(plot', cpuTasks', gpuQueue', gpu', requested, Seed, Base)
  <2>1. plot' = Scatter(Seed, Base + t.chunk, t.chunk, t.n)
    BY <1>2, <1>7 DEF t
  <2>2. Filled(plot, cpuTasks, gpuQueue, gpu, requested, Seed, Base) /\ requested <= BufferNonces
    BY <1>0, <1>5 DEF HashersRight, Counted
  <2>3. ASSUME NEW k \in Nat, Pending(cpuTasks, gpuQueue, gpu, k)
        PROVE  Pending(cpuTasks', gpuQueue', gpu', k) \/ (t.chunk <= k /\ k < t.chunk + t.n)
    <3>1. ASSUME NEW j \in 1 .. Len(cpuTasks), Covers(cpuTasks[j], k)
          PROVE  Pending(cpuTasks', gpuQueue', gpu', k) \/ (t.chunk <= k /\ k < t.chunk + t.n)
      <4>1. CASE j = i
        BY <3>1, <4>1 DEF Covers, t
      <4>2. CASE j < i
        <5>1. j \in 1 .. Len(cpuTasks') /\ cpuTasks'[j] = cpuTasks[j]
          BY <1>4, <1>9, <4>2
        <5> QED
          BY <3>1, <5>1 DEF Pending
      <4>3. CASE j > i
        <5>1. j - 1 \in 1 .. Len(cpuTasks') /\ ~(j - 1 < i) /\ j - 1 + 1 = j
          BY <1>4, <1>9, <4>3
        <5>2. cpuTasks'[j - 1] = cpuTasks[j]
          BY <1>9, <5>1
        <5> QED
          BY <3>1, <5>1, <5>2 DEF Pending
      <4>4. j = i \/ j < i \/ j > i
        BY <1>4
      <4> QED
        BY <4>1, <4>2, <4>3, <4>4
    <3> QED
      BY <1>3, <2>3, <3>1, Zenon DEF Pending
  <2> QED
    BY <1>0, <1>7, <2>1, <2>2, <2>3, ScatterRight
<1>14. cpuIdle' \in Nat
  BY <1>1, <1>3
<1> QED
  BY <1>0, <1>1, <1>3, <1>5, <1>8, <1>9, <1>11, <1>12, <1>13, <1>14, HasherFrame

\* Slot k belongs to a piece that one GPU has.
OfGpu(queue, me, k) ==
    \/ \E i \in 1 .. Len(queue) : Covers(queue[i], k)
    \/ me.pc = "work" /\ Covers(me.task, k)
    \/ ~me.first /\ Covers(me.last, k)

\* What changes when GPU g gets the queue q2 and the state me2.
OneChanged(tasks, queues, states, queues2, states2, g, q2, me2, seed, base, size) ==
    /\ queues2 \in [GpuIds -> Seq(QueuedTasks)] /\ states2 \in [GpuIds -> GpuStates]
    /\ Sum(GpuLoads(queues2, states2)) =
         Sum(GpuLoads(queues, states)) - GpuLoad(queues[g], states[g]) + GpuLoad(q2, me2)
    /\ PiecesRight(tasks, queues, states, seed, base, size)
         /\ QueueRight(q2, seed, base, size) /\ GpuRight(me2, seed, base, size)
       => PiecesRight(tasks, queues2, states2, seed, base, size)
    /\ \A k : Pending(tasks, queues, states, k) =>
         \/ Pending(tasks, queues2, states2, k)
         \/ OfGpu(queues[g], states[g], k) /\ ~OfGpu(q2, me2, k)

\* The sum of the loads changes by that of the GPU, the pieces stay right when
\* those of the GPU are, and only what the GPU drops is no longer pending.
LEMMA OneGpuChanges ==
  ASSUME NEW queues \in [GpuIds -> Seq(QueuedTasks)], NEW states \in [GpuIds -> GpuStates],
         NEW g \in GpuIds, NEW q2 \in Seq(QueuedTasks), NEW me2 \in GpuStates,
         NEW tasks, NEW seed, NEW base, NEW size
  PROVE  OneChanged(tasks, queues, states, [queues EXCEPT ![g] = q2],
                    [states EXCEPT ![g] = me2], g, q2, me2, seed, base, size)
<1> DEFINE queues2 == [queues EXCEPT ![g] = q2]
           states2 == [states EXCEPT ![g] = me2]
<1>1. /\ queues2 \in [GpuIds -> Seq(QueuedTasks)] /\ states2 \in [GpuIds -> GpuStates]
      /\ queues2[g] = q2 /\ states2[g] = me2
      /\ \A h \in GpuIds : h # g => queues2[h] = queues[h] /\ states2[h] = states[h]
  OBVIOUS
<1> HIDE DEF queues2, states2
<1>2. Sum(GpuLoads(queues2, states2)) =
        Sum(GpuLoads(queues, states)) - GpuLoad(queues[g], states[g])
                                      + GpuLoad(queues2[g], states2[g])
  <2>1. queues2 \in [GpuIds -> Seq(QueuedTasks)] /\ states2 \in [GpuIds -> GpuStates]
    BY <1>1, Zenon
  <2>2. \A h \in GpuIds : h # g => queues2[h] = queues[h] /\ states2[h] = states[h]
    BY <1>1, Zenon
  <2> QED
    BY <2>1, <2>2, LoadChanges, ZenonT(60)
<1>3. ASSUME PiecesRight(tasks, queues, states, seed, base, size),
             QueueRight(q2, seed, base, size), GpuRight(me2, seed, base, size)
      PROVE  PiecesRight(tasks, queues2, states2, seed, base, size)
  <2>1. ASSUME NEW h \in GpuIds
        PROVE  QueueRight(queues2[h], seed, base, size) /\ GpuRight(states2[h], seed, base, size)
    <3>1. CASE h = g
      BY <1>1, <1>3, <3>1
    <3>2. CASE h # g
      <4>1. QueueRight(queues[h], seed, base, size) /\ GpuRight(states[h], seed, base, size)
        BY <1>3, Zenon DEF PiecesRight
      <4> QED
        BY <1>1, <3>2, <4>1
    <3> QED
      BY <3>1, <3>2
  <2> QED
    BY <1>3, <2>1, Zenon DEF PiecesRight
<1>4. ASSUME NEW k, Pending(tasks, queues, states, k)
      PROVE  \/ Pending(tasks, queues2, states2, k)
             \/ OfGpu(queues[g], states[g], k) /\ ~OfGpu(q2, me2, k)
  <2>1. \/ \E i \in 1 .. Len(tasks) : Covers(tasks[i], k)
        \/ \E h \in GpuIds : OfGpu(queues[h], states[h], k)
    BY <1>4, Zenon DEF Pending, OfGpu
  <2>2. \A h \in GpuIds : OfGpu(queues2[h], states2[h], k) => Pending(tasks, queues2, states2, k)
    BY Zenon DEF Pending, OfGpu
  <2>3. CASE \E i \in 1 .. Len(tasks) : Covers(tasks[i], k)
    BY <2>3, Zenon DEF Pending
  <2>4. ASSUME NEW h \in GpuIds, OfGpu(queues[h], states[h], k)
        PROVE  \/ Pending(tasks, queues2, states2, k)
               \/ OfGpu(queues[g], states[g], k) /\ ~OfGpu(q2, me2, k)
    <3>1. CASE h = g
      BY <1>1, <2>2, <2>4, <3>1
    <3>2. CASE h # g
      BY <1>1, <2>2, <2>4, <3>2
    <3> QED
      BY <3>1, <3>2
  <2> QED
    BY <2>1, <2>3, <2>4, Zenon
<1>5. Sum(GpuLoads(queues2, states2)) =
        Sum(GpuLoads(queues, states)) - GpuLoad(queues[g], states[g]) + GpuLoad(q2, me2)
  BY <1>1, <1>2
<1> QED
  BY <1>1, <1>3, <1>4, <1>5, Zenon DEF OneChanged, queues2, states2

\* The same of a step.
LEMMA OneGpuSteps ==
  ASSUME TypeOK, NEW g \in GpuIds, NEW q2 \in Seq(QueuedTasks), NEW me2 \in GpuStates,
         gpuQueue' = [gpuQueue EXCEPT ![g] = q2], gpu' = [gpu EXCEPT ![g] = me2]
  PROVE  OneChanged(cpuTasks, gpuQueue, gpu, gpuQueue', gpu', g, q2, me2,
                    Seed, Base, BufferNonces)
<1>1. gpuQueue \in [GpuIds -> Seq(QueuedTasks)] /\ gpu \in [GpuIds -> GpuStates]
  BY DEF TypeOK
<1>2. OneChanged(cpuTasks, gpuQueue, gpu, [gpuQueue EXCEPT ![g] = q2],
                 [gpu EXCEPT ![g] = me2], g, q2, me2, Seed, Base, BufferNonces)
  BY <1>1, OneGpuChanges, Zenon
<1> QED
  BY <1>2, Zenon

\* A GPU thread that ends, and one that takes a task.
LEMMA TakenStates ==
  ASSUME NEW me \in GpuStates, NEW t \in Pieces
  PROVE  LET gone == [me EXCEPT !.pc = "ended"]
             busy == [me EXCEPT !.pc = "work", !.task = t]
         IN
         /\ gone \in GpuStates /\ gone.pc = "ended" /\ gone.first = me.first
         /\ gone.last = me.last /\ gone.seed = me.seed /\ gone.dev = me.dev
         /\ gone.buffer = me.buffer
         /\ busy \in GpuStates /\ busy.pc = "work" /\ busy.first = me.first
         /\ busy.last = me.last /\ busy.seed = me.seed /\ busy.dev = me.dev
         /\ busy.buffer = me.buffer /\ busy.task = t
BY DEF GpuStates

\* What a GPU thread that takes a task becomes.
LEMMA GpuTakeResult ==
  ASSUME TypeOK, NEW g \in GpuIds, GpuTake(g)
  PROVE  /\ gpu[g].pc = "recv" /\ gpuQueue[g] # <<>>
         /\ gpuQueue' = [gpuQueue EXCEPT ![g] = Tail(gpuQueue[g])]
         /\ UNCHANGED <<rx, cpuTasks, cpuIdle, plot>>
         /\ \/ /\ Head(gpuQueue[g]) = EndTask
               /\ gpu' = [gpu EXCEPT ![g] = [gpu[g] EXCEPT !.pc = "ended"]]
            \/ /\ Head(gpuQueue[g]) # EndTask /\ Head(gpuQueue[g]).n = 0 /\ gpu[g].first
               /\ gpu' = [gpu EXCEPT ![g] = gpu[g]]
            \/ /\ Head(gpuQueue[g]) # EndTask
               /\ ~(Head(gpuQueue[g]).n = 0 /\ gpu[g].first)
               /\ gpu' = [gpu EXCEPT ![g] = [gpu[g] EXCEPT !.pc = "work",
                                                           !.task = Head(gpuQueue[g])]]
<1> DEFINE t == Head(gpuQueue[g])
<1>1. /\ gpu[g].pc = "recv" /\ gpuQueue[g] # <<>>
      /\ gpuQueue' = [gpuQueue EXCEPT ![g] = Tail(gpuQueue[g])]
      /\ UNCHANGED <<rx, cpuTasks, cpuIdle, plot>>
      /\ gpu' = CASE t = EndTask -> [gpu EXCEPT ![g].pc = "ended"]
                  [] t # EndTask /\ t.n = 0 /\ gpu[g].first -> gpu
                  [] OTHER -> [gpu EXCEPT ![g].pc = "work", ![g].task = t]
  BY DEF GpuTake
<1>2. gpu \in [GpuIds -> GpuStates]
  BY DEF TypeOK
<1> HIDE DEF t
<1>3. CASE t = EndTask
  <2>1. gpu' = [gpu EXCEPT ![g].pc = "ended"]
    BY <1>1, <1>3
  <2>2. gpu' = [gpu EXCEPT ![g] = [gpu[g] EXCEPT !.pc = "ended"]]
    BY <2>1
  <2> QED
    BY <1>1, <1>3, <2>2 DEF t
<1>4. CASE t # EndTask /\ t.n = 0 /\ gpu[g].first
  <2>1. gpu' = gpu
    BY <1>1, <1>4
  <2>2. gpu = [gpu EXCEPT ![g] = gpu[g]]
    BY <1>2
  <2> QED
    BY <1>1, <1>4, <2>1, <2>2 DEF t
<1>5. CASE t # EndTask /\ ~(t.n = 0 /\ gpu[g].first)
  <2>1. gpu' = [gpu EXCEPT ![g].pc = "work", ![g].task = t]
    BY <1>1, <1>5
  <2>2. gpu' = [gpu EXCEPT ![g] = [gpu[g] EXCEPT !.pc = "work", !.task = t]]
    BY <1>2, <2>1
  <2> QED
    BY <1>1, <1>5, <2>2 DEF t
<1> QED
  BY <1>3, <1>4, <1>5

\* A GPU thread that takes a task has it to do, unless it is no work.
LEMMA GpuTakeKeeps ==
  ASSUME XpuInv, NEW g \in GpuIds, GpuTake(g)
  PROVE  XpuInv'
<1>0. TypeOK /\ Planned /\ Counted /\ HashersRight /\ Hasher
  BY DEF XpuInv, Hasher
<1> DEFINE q == gpuQueue[g]
           t == Head(gpuQueue[g])
           me == gpu[g]
           q2 == Tail(gpuQueue[g])
           gone == [me EXCEPT !.pc = "ended"]
           busy == [me EXCEPT !.pc = "work", !.task = t]
<1>1. /\ rx \in Seq(Msgs) /\ cpuTasks \in Seq(Pieces) /\ cpuIdle \in Nat
      /\ gpuQueue \in [GpuIds -> Seq(QueuedTasks)] /\ gpu \in [GpuIds -> GpuStates]
      /\ plot \in PlotContents /\ requested \in Nat
      /\ q \in Seq(QueuedTasks) /\ me \in GpuStates
  BY <1>0 DEF TypeOK
<1>2. /\ me.pc = "recv" /\ q # <<>>
      /\ gpuQueue' = [gpuQueue EXCEPT ![g] = q2]
      /\ UNCHANGED <<rx, cpuTasks, cpuIdle, plot>>
      /\ \/ t = EndTask /\ gpu' = [gpu EXCEPT ![g] = gone]
         \/ t # EndTask /\ t.n = 0 /\ me.first /\ gpu' = [gpu EXCEPT ![g] = me]
         \/ t # EndTask /\ ~(t.n = 0 /\ me.first) /\ gpu' = [gpu EXCEPT ![g] = busy]
  BY <1>0, GpuTakeResult, Zenon
<1>3. /\ PiecesRight(cpuTasks, gpuQueue, gpu, Seed, Base, BufferNonces)
      /\ QueueRight(q, Seed, Base, BufferNonces)
      /\ GpuRight(me, Seed, Base, BufferNonces)
  BY <1>0 DEF HashersRight, PiecesRight
<1>4. /\ q2 \in Seq(QueuedTasks) /\ t \in QueuedTasks
      /\ Sum(TaskSizes(q)) = Sum(TaskSizes(q2)) + NonNegative(t.n)
      /\ Sum(TaskSizes(q2)) \in Nat
  <2>1. /\ q2 \in Seq(QueuedTasks) /\ t \in QueuedTasks
        /\ Sum(TaskSizes(q)) = Sum(TaskSizes(q2)) + NonNegative(t.n)
    BY <1>1, <1>2, FirstTaskOff
  <2> QED
    BY <2>1, SizesAreNat
<1>5. /\ t = q[1] /\ 1 \in 1 .. Len(q)
      /\ Len(q2) = Len(q) - 1 /\ Len(q) \in Nat
      /\ \A i \in 1 .. Len(q) - 1 : q2[i] = q[i + 1]
  <2> HIDE DEF QueuedTasks
  <2> QED
    BY <1>1, <1>2
<1> HIDE DEF q, t, me, q2
<1>6. t # EndTask => t \in Pieces /\ t.n \in Nat
  BY <1>4 DEF QueuedTasks, Pieces
<1>7. QueueRight(q2, Seed, Base, BufferNonces)
  <2>1. ASSUME NEW i \in 1 .. Len(q2), q2[i].n > 0 PROVE PieceOf(q2[i], Seed, Base, BufferNonces)
    <3>1. i + 1 \in 1 .. Len(q) /\ q2[i] = q[i + 1]
      BY <1>5
    <3>2. q[i + 1].n > 0
      BY <2>1, <3>1
    <3>3. PieceOf(q[i + 1], Seed, Base, BufferNonces)
      BY <1>3, <3>1, <3>2, Zenon DEF QueueRight
    <3> QED
      BY <3>1, <3>3
  <2> QED
    BY <2>1, Zenon DEF QueueRight
<1>8. ASSUME NEW k, OfGpu(q, me, k)
      PROVE  Covers(t, k) \/ OfGpu(q2, me, k)
  <2>1. ASSUME NEW i \in 1 .. Len(q), Covers(q[i], k)
        PROVE  Covers(t, k) \/ OfGpu(q2, me, k)
    <3>1. CASE i = 1
      BY <1>5, <2>1, <3>1
    <3>2. CASE i # 1
      <4>1. i - 1 \in 1 .. Len(q2) /\ i - 1 \in 1 .. Len(q) - 1 /\ i - 1 + 1 = i
        BY <1>5, <3>2
      <4>2. q2[i - 1] = q[i]
        BY <1>5, <4>1
      <4> QED
        BY <2>1, <4>1, <4>2 DEF OfGpu
    <3> QED
      BY <3>1, <3>2
  <2> QED
    BY <1>8, <2>1, Zenon DEF OfGpu

\* The state it goes on in, with what it needs.
<1>9. \E me2 \in GpuStates :
        /\ gpu' = [gpu EXCEPT ![g] = me2]
        /\ GpuLoad(q2, me2) = GpuLoad(q, me)
        /\ GpuRight(me2, Seed, Base, BufferNonces)
        /\ \A k : OfGpu(q, me, k) => OfGpu(q2, me2, k)
  <2>1. CASE t = EndTask /\ gpu' = [gpu EXCEPT ![g] = gone]
    <3>1. /\ gone \in GpuStates /\ gone.pc = "ended" /\ gone.first = me.first
          /\ gone.last = me.last /\ gone.seed = me.seed /\ gone.dev = me.dev
          /\ gone.buffer = me.buffer
      BY <1>1 DEF GpuStates
    <3> HIDE DEF gone
    <3>2. t.n = -1 /\ NonNegative(t.n) = 0
      BY <2>1 DEF EndTask, NonNegative
    <3>3. InWork(gone) = InWork(me) /\ InDevice(gone) = InDevice(me)
      BY <1>2, <3>1 DEF InWork, InDevice
    <3>4. Sum(TaskSizes(q)) = Sum(TaskSizes(q2))
      BY <1>4, <3>2
    <3>5. GpuLoad(q2, gone) = GpuLoad(q, me)
      BY <3>3, <3>4 DEF GpuLoad
    <3>6. GpuRight(gone, Seed, Base, BufferNonces)
      BY <1>3, <3>1 DEF GpuRight
    <3>7. ASSUME NEW k, OfGpu(q, me, k) PROVE OfGpu(q2, gone, k)
      <4>1. ~Covers(t, k)
        BY <3>2 DEF Covers
      <4>2. OfGpu(q2, me, k)
        BY <1>8, <3>7, <4>1
      <4> QED
        BY <1>2, <3>1, <4>2 DEF OfGpu
    <3> QED
      BY <2>1, <3>1, <3>5, <3>6, <3>7
  <2>2. CASE t # EndTask /\ t.n = 0 /\ me.first /\ gpu' = [gpu EXCEPT ![g] = me]
    <3>1. NonNegative(t.n) = 0
      BY <2>2 DEF NonNegative
    <3>2. Sum(TaskSizes(q)) = Sum(TaskSizes(q2))
      BY <1>4, <3>1
    <3>3. GpuLoad(q2, me) = GpuLoad(q, me)
      BY <3>2 DEF GpuLoad
    <3>4. ASSUME NEW k, OfGpu(q, me, k) PROVE OfGpu(q2, me, k)
      <4>1. ~Covers(t, k)
        BY <2>2 DEF Covers
      <4> QED
        BY <1>8, <3>4, <4>1
    <3> QED
      BY <1>1, <1>3, <2>2, <3>3, <3>4
  <2>3. CASE t # EndTask /\ ~(t.n = 0 /\ me.first) /\ gpu' = [gpu EXCEPT ![g] = busy]
    <3>0. t \in Pieces /\ t.n \in Nat
      BY <1>6, <2>3
    <3>1. /\ busy \in GpuStates /\ busy.pc = "work" /\ busy.first = me.first
          /\ busy.last = me.last /\ busy.seed = me.seed /\ busy.dev = me.dev
          /\ busy.buffer = me.buffer /\ busy.task = t
      <4>1. me \in GpuStates /\ t \in Pieces
        BY <1>1, <3>0
      <4> QED
        BY <4>1, TakenStates, ZenonT(60)
    <3> HIDE DEF busy
    <3>2. GpuLoad(q2, busy) = GpuLoad(q, me)
      <4>1. NonNegative(t.n) = t.n
        BY <3>0 DEF NonNegative
      <4>2. InWork(busy) = t.n /\ InWork(me) = 0 /\ InDevice(busy) = InDevice(me)
        BY <1>2, <3>1 DEF InWork, InDevice
      <4>3. InDevice(me) \in Nat
        BY <1>1, GpuHolds
      <4>4. PICK n \in Nat, d \in Nat, s \in Nat :
               n = t.n /\ d = InDevice(me) /\ s = Sum(TaskSizes(q2))
        BY <1>4, <3>0, <4>3
      <4>5. Sum(TaskSizes(q)) = s + n
        BY <1>4, <4>1, <4>4
      <4>6. s + n + 0 + d = s + n + d
        BY <4>4
      <4> QED
        BY <4>2, <4>4, <4>5, <4>6 DEF GpuLoad
    <3>3. GpuRight(busy, Seed, Base, BufferNonces)
      <4>1. t.n # 0 => PieceOf(t, Seed, Base, BufferNonces)
        <5>1. t.n # 0 => t.n > 0
          BY <3>0
        <5> QED
          BY <1>3, <1>5, <5>1 DEF QueueRight
      <4>2. me.first \in BOOLEAN
        BY <1>1 DEF GpuStates
      <4> QED
        BY <1>3, <2>3, <3>1, <4>1, <4>2 DEF GpuRight
    <3>4. ASSUME NEW k, OfGpu(q, me, k) PROVE OfGpu(q2, busy, k)
      <4>1. CASE Covers(t, k)
        BY <3>1, <4>1 DEF OfGpu
      <4>2. CASE OfGpu(q2, me, k)
        BY <1>2, <3>1, <4>2 DEF OfGpu
      <4> QED
        BY <1>8, <3>4, <4>1, <4>2
    <3> QED
      BY <2>3, <3>1, <3>2, <3>3, <3>4
  <2> QED
    BY <1>2, <2>1, <2>2, <2>3
<1>10. PICK me2 \in GpuStates :
        /\ gpu' = [gpu EXCEPT ![g] = me2]
        /\ GpuLoad(q2, me2) = GpuLoad(q, me)
        /\ GpuRight(me2, Seed, Base, BufferNonces)
        /\ \A k : OfGpu(q, me, k) => OfGpu(q2, me2, k)
  BY <1>9
<1>11. /\ gpuQueue' \in [GpuIds -> Seq(QueuedTasks)] /\ gpu' \in [GpuIds -> GpuStates]
       /\ Sum(GpuLoads(gpuQueue', gpu')) =
            Sum(GpuLoads(gpuQueue, gpu)) - GpuLoad(q, me) + GpuLoad(q2, me2)
       /\ PiecesRight(cpuTasks, gpuQueue', gpu', Seed, Base, BufferNonces)
       /\ \A k : Pending(cpuTasks, gpuQueue, gpu, k) =>
              \/ Pending(cpuTasks, gpuQueue', gpu', k)
              \/ OfGpu(q, me, k) /\ ~OfGpu(q2, me2, k)
  <2>1. OneChanged(cpuTasks, gpuQueue, gpu, gpuQueue', gpu', g, q2, me2,
                   Seed, Base, BufferNonces)
    BY <1>0, <1>2, <1>4, <1>10, OneGpuSteps, Zenon
  <2> QED
    BY <1>3, <1>7, <1>10, <2>1, Zenon DEF OneChanged, q, me
<1>12. Underway(rx', cpuTasks', gpuQueue', gpu') = Underway(rx, cpuTasks, gpuQueue, gpu)
  <2>1. GpuLoad(q, me) \in Nat /\ Sum(GpuLoads(gpuQueue, gpu)) \in Nat
    BY <1>1, LoadsAreNat DEF q, me
  <2>2. Sum(GpuLoads(gpuQueue', gpu')) = Sum(GpuLoads(gpuQueue, gpu))
    BY <1>10, <1>11, <2>1
  <2> QED
    BY <1>2, <2>2 DEF Underway
<1>13. \A k : Pending(cpuTasks, gpuQueue, gpu, k) => Pending(cpuTasks, gpuQueue', gpu', k)
  BY <1>10, <1>11, Zenon
<1>14. spc \in {"control", "handover"} =>
             Filled(plot', cpuTasks', gpuQueue', gpu', requested, Seed, Base)
  <2> SUFFICES ASSUME spc \in {"control", "handover"}
               PROVE  Filled(plot, cpuTasks, gpuQueue', gpu', requested, Seed, Base)
    BY <1>2
  <2>1. Filled(plot, cpuTasks, gpuQueue, gpu, requested, Seed, Base)
    BY <1>0 DEF HashersRight
  <2> QED
    BY <1>13, <2>1, Zenon DEF Filled
<1> QED
  BY <1>0, <1>1, <1>2, <1>11, <1>12, <1>14, HasherFrame

\* The state of a GPU thread that has done its task: nothing is left in its
\* device, or the nonces of the task.
LEMMA WorkedStates ==
  ASSUME NEW me \in GpuStates
  PROVE  LET idle == [me EXCEPT !.pc = "recv", !.first = TRUE, !.buffer = 0] IN
         /\ idle \in GpuStates /\ idle.pc = "recv" /\ idle.first
BY DEF GpuStates

\* The kernels fill one device buffer, the next one the other.
LEMMA KernelsFill ==
  ASSUME NEW me \in GpuStates, me.task \in Pieces, NEW s \in AnySeeds
  PROVE  /\ Kernels(me, s) \in [{0, 1} -> BufferTasks \cup {NoTask}]
         /\ 1 - me.buffer \in {0, 1}
         /\ Kernels(me, s)[1 - (1 - me.buffer)] =
              [seed |-> s, start |-> me.task.start, n |-> me.task.n]
<1>1. /\ me.buffer \in {0, 1} /\ me.dev \in [{0, 1} -> BufferTasks \cup {NoTask}]
      /\ me.task.start \in Nat /\ me.task.n \in Nat
  BY DEF GpuStates, Pieces
<1>2. [seed |-> s, start |-> me.task.start, n |-> me.task.n] \in BufferTasks
  BY <1>1 DEF BufferTasks
<1>3. 1 - me.buffer \in {0, 1} /\ 1 - (1 - me.buffer) = me.buffer
  BY <1>1
<1> DEFINE b == me.buffer
           d == me.dev
           new == [seed |-> s, start |-> me.task.start, n |-> me.task.n]
<1>4. [d EXCEPT ![b] = new] \in [{0, 1} -> BufferTasks \cup {NoTask}]
      /\ [d EXCEPT ![b] = new][b] = new
  <2>1. b \in {0, 1} /\ d \in [{0, 1} -> BufferTasks \cup {NoTask}] /\ new \in BufferTasks
    BY <1>1, <1>2
  <2> HIDE DEF b, d, new
  <2> QED
    BY <2>1
<1> QED
  BY <1>3, <1>4 DEF Kernels

\* A GPU thread that goes on with a task hashed, after its kernels.
GoesOn(run, task) ==
    [run EXCEPT !.pc = "recv", !.first = FALSE, !.buffer = 1 - @, !.last = task]

\* It holds the nonces of the task, of the seed, in the device buffer it leaves.
HasHashed(on, task, seed) ==
    /\ on \in GpuStates /\ on.pc = "recv" /\ ~on.first /\ on.last = task
    /\ on.seed = seed
    /\ on.dev[1 - on.buffer] = [seed |-> seed, start |-> task.start, n |-> task.n]

\* The kernels run with the seed of the task, or with the one that is there.
LEMMA HashedStates ==
  ASSUME NEW me \in GpuStates, me.task \in Pieces, NEW run, NEW s \in AnySeeds,
         \/ run = GpuHash(me) /\ s = me.task.seed
         \/ run = GpuHashNext(me) /\ s = me.seed
  PROVE  HasHashed(GoesOn(run, me.task), me.task, s)
<1> DEFINE dev2 == Kernels(me, s)
           b2 == 1 - me.buffer
           on == GoesOn(run, me.task)
<1>1. /\ dev2 \in [{0, 1} -> BufferTasks \cup {NoTask}] /\ b2 \in {0, 1}
      /\ dev2[1 - b2] = [seed |-> s, start |-> me.task.start, n |-> me.task.n]
  BY KernelsFill
<1> HIDE DEF dev2, b2
<1>2. /\ DOMAIN run = {"pc", "first", "buffer", "task", "last", "seed", "dev"}
      /\ run.task = me.task /\ run.buffer = me.buffer /\ run.seed = s /\ run.dev = dev2
  BY DEF GpuHash, GpuHashNext, GpuStates, dev2
<1>3. /\ DOMAIN on = {"pc", "first", "buffer", "task", "last", "seed", "dev"}
      /\ on = [x \in {"pc", "first", "buffer", "task", "last", "seed", "dev"} |-> on[x]]
      /\ on.pc = "recv" /\ on.first = FALSE /\ on.buffer = b2 /\ on.task = me.task
      /\ on.last = me.task /\ on.seed = s /\ on.dev = dev2
  BY <1>2 DEF b2, GoesOn
<1> HIDE DEF on
<1>4. on \in GpuStates
  BY <1>1, <1>3 DEF GpuStates
<1> QED
  BY <1>1, <1>3, <1>4 DEF HasHashed, on

\* A GPU thread that hands nonces over to the plot buffer or keeps them.
GpuHandsOver(g, me2, n) ==
    /\ me2 \in GpuStates /\ gpu' = [gpu EXCEPT ![g] = me2]
    /\ GpuRight(me2, Seed, Base, BufferNonces)
    /\ n \in Nat
    /\ rx' \in Seq(Msgs) /\ Sum(MsgSizes(rx')) = Sum(MsgSizes(rx)) + n
    /\ InWork(gpu[g]) + InDevice(gpu[g]) = InWork(me2) + InDevice(me2) + n
    /\ \/ /\ plot' = plot
          /\ \A k : OfGpu(gpuQueue[g], gpu[g], k) => OfGpu(gpuQueue[g], me2, k)
       \/ \E chunk \in Nat :
            /\ plot' = Scatter(Seed, Base + chunk, chunk, n)
            /\ \A k : OfGpu(gpuQueue[g], gpu[g], k) =>
                        OfGpu(gpuQueue[g], me2, k) \/ (chunk <= k /\ k < chunk + n)

\* The nonces go from the GPU to a message, and the slots that are no longer
\* pending hold theirs.
LEMMA HandedOverKeeps ==
  ASSUME XpuInv, NEW g \in GpuIds, GpuWork(g), spc = "control",
         NEW me2, NEW n, GpuHandsOver(g, me2, n)
  PROVE  XpuInv'
<1>0. TypeOK /\ Planned /\ Counted /\ HashersRight /\ Hasher
  BY DEF XpuInv, Hasher
<1>1. /\ rx \in Seq(Msgs) /\ cpuTasks \in Seq(Pieces) /\ cpuIdle \in Nat
      /\ gpuQueue \in [GpuIds -> Seq(QueuedTasks)] /\ gpu \in [GpuIds -> GpuStates]
      /\ plot \in PlotContents
      /\ gpuQueue[g] \in Seq(QueuedTasks) /\ gpu[g] \in GpuStates
  BY <1>0 DEF TypeOK
<1>2. UNCHANGED <<cpuTasks, cpuIdle, gpuQueue>>
  BY DEF GpuWork
<1>3. /\ me2 \in GpuStates /\ gpu' = [gpu EXCEPT ![g] = me2]
      /\ GpuRight(me2, Seed, Base, BufferNonces)
      /\ n \in Nat
      /\ rx' \in Seq(Msgs) /\ Sum(MsgSizes(rx')) = Sum(MsgSizes(rx)) + n
      /\ InWork(gpu[g]) + InDevice(gpu[g]) = InWork(me2) + InDevice(me2) + n
  BY Zenon DEF GpuHandsOver
<1>4. gpuQueue' = [gpuQueue EXCEPT ![g] = gpuQueue[g]]
  BY <1>1, <1>2
<1>5. OneChanged(cpuTasks, gpuQueue, gpu, gpuQueue', gpu', g, gpuQueue[g], me2,
                 Seed, Base, BufferNonces)
  BY <1>0, <1>1, <1>3, <1>4, OneGpuSteps, Zenon
<1>6. /\ PiecesRight(cpuTasks, gpuQueue, gpu, Seed, Base, BufferNonces)
      /\ QueueRight(gpuQueue[g], Seed, Base, BufferNonces)
  BY <1>0, Zenon DEF HashersRight, PiecesRight
<1>7. /\ gpuQueue' \in [GpuIds -> Seq(QueuedTasks)] /\ gpu' \in [GpuIds -> GpuStates]
      /\ Sum(GpuLoads(gpuQueue', gpu')) =
           Sum(GpuLoads(gpuQueue, gpu)) - GpuLoad(gpuQueue[g], gpu[g])
                                        + GpuLoad(gpuQueue[g], me2)
      /\ PiecesRight(cpuTasks, gpuQueue', gpu', Seed, Base, BufferNonces)
      /\ \A k : Pending(cpuTasks, gpuQueue, gpu, k) =>
           \/ Pending(cpuTasks, gpuQueue', gpu', k)
           \/ OfGpu(gpuQueue[g], gpu[g], k) /\ ~OfGpu(gpuQueue[g], me2, k)
  BY <1>3, <1>5, <1>6, Zenon DEF OneChanged
<1>8. Underway(rx', cpuTasks', gpuQueue', gpu') = Underway(rx, cpuTasks, gpuQueue, gpu)
  <2>1. /\ Sum(MsgSizes(rx)) \in Nat /\ Sum(TaskSizes(cpuTasks)) \in Nat
        /\ Sum(TaskSizes(gpuQueue[g])) \in Nat
    <3>1. Seq(Pieces) \subseteq Seq(QueuedTasks)
      BY DEF QueuedTasks
    <3> QED
      BY <1>1, <3>1, SizesAreNat
  <2>2. /\ InWork(gpu[g]) \in Nat /\ InDevice(gpu[g]) \in Nat
        /\ InWork(me2) \in Nat /\ InDevice(me2) \in Nat
    BY <1>1, <1>3, GpuHolds, Zenon
  <2>3. Sum(GpuLoads(gpuQueue, gpu)) \in Nat
    BY <1>1, LoadsAreNat
  <2>4. GpuLoad(gpuQueue[g], gpu[g]) = GpuLoad(gpuQueue[g], me2) + n
    <3> DEFINE a == Sum(TaskSizes(gpuQueue[g]))
               w == InWork(gpu[g])
               d == InDevice(gpu[g])
               w2 == InWork(me2)
               d2 == InDevice(me2)
    <3>1. a \in Nat /\ w \in Nat /\ d \in Nat /\ w2 \in Nat /\ d2 \in Nat /\ n \in Nat
          /\ w + d = w2 + d2 + n
      BY <1>3, <2>1, <2>2, Zenon
    <3> HIDE DEF a, w, d, w2, d2
    <3>2. a + w + d = a + w2 + d2 + n
      BY <3>1
    <3> QED
      BY <3>2, Zenon DEF GpuLoad, a, w, d, w2, d2
  <2>5. GpuLoad(gpuQueue[g], me2) \in Nat
    BY <2>1, <2>2 DEF GpuLoad
  <2> DEFINE m == Sum(MsgSizes(rx))
             m2 == Sum(MsgSizes(rx'))
             c == Sum(TaskSizes(cpuTasks))
             l == Sum(GpuLoads(gpuQueue, gpu))
             l2 == Sum(GpuLoads(gpuQueue', gpu'))
             x == GpuLoad(gpuQueue[g], gpu[g])
             x2 == GpuLoad(gpuQueue[g], me2)
  <2>6. /\ m \in Nat /\ c \in Nat /\ l \in Nat /\ x2 \in Nat /\ n \in Nat
        /\ m2 = m + n /\ x = x2 + n /\ l2 = l - x + x2
    BY <1>3, <1>7, <2>1, <2>3, <2>4, <2>5, Zenon
  <2> HIDE DEF m, m2, c, l, l2, x, x2
  <2>7. m2 + c + l2 = m + c + l
    BY <2>6
  <2> QED
    BY <1>2, <2>7, Zenon DEF Underway, m, m2, c, l, l2
<1>9. Filled(plot, cpuTasks, gpuQueue, gpu, requested, Seed, Base)
      /\ requested <= BufferNonces
  <2>1. Underway(rx, cpuTasks, gpuQueue, gpu) \in Nat
    BY <1>1, UnderwayIsNat
  <2> QED
    BY <1>0, <2>1 DEF HashersRight, Counted
<1>10. plot' \in PlotContents /\ Filled(plot', cpuTasks, gpuQueue', gpu', requested, Seed, Base)
  <2>1. CASE /\ plot' = plot
             /\ \A k : OfGpu(gpuQueue[g], gpu[g], k) => OfGpu(gpuQueue[g], me2, k)
    <3>1. \A k : Pending(cpuTasks, gpuQueue, gpu, k) => Pending(cpuTasks, gpuQueue', gpu', k)
      BY <1>7, <2>1, Zenon
    <3>2. Filled(plot, cpuTasks, gpuQueue', gpu', requested, Seed, Base)
      BY <1>9, <3>1, Zenon DEF Filled
    <3> QED
      BY <1>1, <2>1, <3>2
  <2>2. ASSUME NEW chunk \in Nat,
               plot' = Scatter(Seed, Base + chunk, chunk, n),
               \A k : OfGpu(gpuQueue[g], gpu[g], k) =>
                        OfGpu(gpuQueue[g], me2, k) \/ (chunk <= k /\ k < chunk + n)
        PROVE  plot' \in PlotContents
               /\ Filled(plot', cpuTasks, gpuQueue', gpu', requested, Seed, Base)
    <3>1. \A k \in Nat : Pending(cpuTasks, gpuQueue, gpu, k) =>
             Pending(cpuTasks, gpuQueue', gpu', k) \/ (chunk <= k /\ k < chunk + n)
      BY <1>7, <2>2, Zenon
    <3>2. /\ Scatter(Seed, Base + chunk, chunk, n) \in PlotContents
          /\ Filled(Scatter(Seed, Base + chunk, chunk, n), cpuTasks, gpuQueue', gpu',
                    requested, Seed, Base)
      BY <1>0, <1>3, <1>9, <3>1, ScatterRight, ZenonT(30)
    <3> QED
      BY <2>2, <3>2, Zenon
  <2> QED
    BY <2>1, <2>2, Zenon DEF GpuHandsOver
<1> QED
  BY <1>0, <1>1, <1>2, <1>3, <1>7, <1>8, <1>10, HasherFrame

\* What a GPU thread sends adds the nonces it reports.
LEMMA SentMsgs ==
  ASSUME NEW s \in Seq(Msgs), NEW n \in Nat, NEW g \in GpuIds
  PROVE  /\ s \o (<<Hashed(n)>> \o <<>>) \in Seq(Msgs)
         /\ Sum(MsgSizes(s \o (<<Hashed(n)>> \o <<>>))) = Sum(MsgSizes(s)) + n
         /\ s \o (<<>> \o <<GpuRequestForWork(g)>>) \in Seq(Msgs)
         /\ Sum(MsgSizes(s \o (<<>> \o <<GpuRequestForWork(g)>>))) = Sum(MsgSizes(s)) + 0
         /\ s \o (<<Hashed(n)>> \o <<GpuRequestForWork(g)>>) \in Seq(Msgs)
         /\ Sum(MsgSizes(s \o (<<Hashed(n)>> \o <<GpuRequestForWork(g)>>))) =
              Sum(MsgSizes(s)) + n
<1> DEFINE h == Hashed(n)
           r == GpuRequestForWork(g)
<1>1. /\ h \in Msgs /\ h.type = "hashed" /\ h.n = n
      /\ r \in Msgs /\ r.type # "hashed"
  BY DEF Msgs, Hashed, GpuRequestForWork
<1> HIDE DEF h, r
<1>2. /\ s \o (<<h>> \o <<>>) = Append(s, h)
      /\ s \o (<<>> \o <<r>>) = Append(s, r)
      /\ s \o (<<h>> \o <<r>>) = Append(Append(s, h), r)
  <2> HIDE DEF Msgs
  <2>1. <<h>> \o <<>> = <<h>> /\ <<>> \o <<r>> = <<r>> /\ <<h>> \o <<r>> = Append(<<h>>, r)
    <3>1. <<h>> \o <<>> = <<h>>
      BY <1>1
    <3>2. <<>> \o <<r>> = <<r>>
      BY <1>1
    <3>3. <<h>> \o <<r>> = Append(<<h>>, r)
      BY <1>1
    <3> QED
      BY <3>1, <3>2, <3>3
  <2>2. s \o <<h>> = Append(s, h) /\ s \o <<r>> = Append(s, r)
    BY <1>1
  <2>3. s \o Append(<<h>>, r) = Append(s \o <<h>>, r)
    <3>1. <<h>> \in Seq(Msgs)
      BY <1>1
    <3> QED
      BY <1>1, <3>1
  <2> QED
    BY <2>1, <2>2, <2>3, Zenon
<1>3. /\ Append(s, h) \in Seq(Msgs)
      /\ Sum(MsgSizes(Append(s, h))) = Sum(MsgSizes(s)) + n
  BY <1>1, AppendedMsg
<1>4. /\ Append(s, r) \in Seq(Msgs)
      /\ Sum(MsgSizes(Append(s, r))) = Sum(MsgSizes(s)) + 0
  BY <1>1, AppendedMsg
<1>5. /\ Append(Append(s, h), r) \in Seq(Msgs)
      /\ Sum(MsgSizes(Append(Append(s, h), r))) = Sum(MsgSizes(Append(s, h))) + 0
  BY <1>1, <1>3, AppendedMsg
<1>6. Sum(MsgSizes(Append(Append(s, h), r))) = Sum(MsgSizes(s)) + n
  <2>1. Sum(MsgSizes(s)) \in Nat
    BY SizesAreNat
  <2> QED
    BY <1>3, <1>5, <2>1
<1> QED
  BY <1>2, <1>3, <1>4, <1>5, <1>6, Zenon DEF h, r

\* A GPU thread that has done a task keeps its nonces, hands over those of the
\* task before, or both.
LEMMA GpuWorkKeeps ==
  ASSUME XpuInv, NEW g \in GpuIds, GpuWork(g)
  PROVE  XpuInv'
<1>0. TypeOK /\ Planned /\ Counted /\ HashersRight
  BY DEF XpuInv
<1> DEFINE me == gpu[g]
           last == me.task.n = 0
           run == IF me.first THEN GpuHash(me) ELSE GpuHashNext(me)
           idle == [me EXCEPT !.pc = "recv", !.first = TRUE, !.buffer = 0]
           on == GoesOn(run, me.task)
           msgs == HashedByGpu(me) \o (IF last THEN <<>> ELSE <<GpuRequestForWork(g)>>)
<1>1. /\ me.pc = "work"
      /\ plot' = IF me.first THEN plot ELSE TransferToHost(me)
      /\ gpu' = [gpu EXCEPT ![g] = IF last THEN idle ELSE on]
      /\ Report(msgs)
  BY Zenon DEF GpuWork, GoesOn
<1>2. rx \in Seq(Msgs) /\ me \in GpuStates
  BY <1>0 DEF TypeOK
<1>3. GpuRight(me, Seed, Base, BufferNonces)
  BY <1>0, Zenon DEF HashersRight, PiecesRight
<1>4. spc = "control"
  <2> SUFFICES ASSUME spc # "control" PROVE FALSE
    OBVIOUS
  <2>1. me.pc # "work"
    BY <1>0, QuietOutside, Zenon DEF Quiet
  <2> QED
    BY <1>1, <2>1
<1>5. rx' = rx \o msgs
  BY <1>1, <1>4 DEF Report
<1>6. Seed \in AnySeeds /\ Base \in Nat
  BY <1>0, BufferFacts, Zenon
<1> HIDE DEF me
<1>7. ASSUME ~me.first
      PROVE  /\ me.last \in Pieces /\ me.last.n > 0 /\ me.last.n \in Nat
             /\ me.last.chunk \in Nat /\ me.seed = Seed
             /\ plot' = Scatter(Seed, Base + me.last.chunk, me.last.chunk, me.last.n)
             /\ HashedByGpu(me) = <<Hashed(me.last.n)>>
  <2>1. /\ me.last.n > 0 /\ PieceOf(me.last, Seed, Base, BufferNonces) /\ me.seed = Seed
        /\ me.dev[1 - me.buffer] = [seed |-> Seed, start |-> me.last.start, n |-> me.last.n]
    BY <1>3, <1>7, Zenon DEF GpuRight
  <2>2. me.last \in Pieces /\ me.last.start = Base + me.last.chunk
    BY <2>1, Zenon DEF PieceOf
  <2>3. me.last.n \in Nat /\ me.last.chunk \in Nat
    BY <2>2 DEF Pieces
  <2>4. TransferToHost(me) = Scatter(Seed, Base + me.last.chunk, me.last.chunk, me.last.n)
    BY <2>1, <2>2 DEF TransferToHost
  <2> QED
    BY <1>1, <1>7, <2>1, <2>2, <2>3, <2>4 DEF HashedByGpu
<1>8. CASE last
  <2>1. ~me.first
    BY <1>1, <1>3, <1>8 DEF GpuRight
  <2>2. idle \in GpuStates /\ idle.pc = "recv" /\ idle.first
    BY <1>2, WorkedStates, Zenon
  <2>3. gpu' = [gpu EXCEPT ![g] = idle]
    BY <1>1, <1>8
  <2> HIDE DEF idle
  <2>4. rx' = rx \o (<<Hashed(me.last.n)>> \o <<>>)
    BY <1>5, <1>7, <1>8, <2>1
  <2>5. rx' \in Seq(Msgs) /\ Sum(MsgSizes(rx')) = Sum(MsgSizes(rx)) + me.last.n
    BY <1>2, <1>7, <2>1, <2>4, SentMsgs, Zenon
  <2>6. /\ InWork(me) = 0 /\ InDevice(me) = me.last.n
        /\ InWork(idle) = 0 /\ InDevice(idle) = 0
    BY <1>1, <1>8, <2>1, <2>2 DEF InWork, InDevice
  <2>7. InWork(me) + InDevice(me) = InWork(idle) + InDevice(idle) + me.last.n
    BY <1>7, <2>1, <2>6
  <2>8. GpuRight(idle, Seed, Base, BufferNonces)
    BY <2>2 DEF GpuRight
  <2>9. ASSUME NEW k, OfGpu(gpuQueue[g], me, k)
        PROVE  \/ OfGpu(gpuQueue[g], idle, k)
               \/ me.last.chunk <= k /\ k < me.last.chunk + me.last.n
    <3>1. ~Covers(me.task, k)
      BY <1>8 DEF Covers
    <3>2. \/ \E i \in 1 .. Len(gpuQueue[g]) : Covers(gpuQueue[g][i], k)
          \/ Covers(me.last, k)
      BY <2>9, <3>1, Zenon DEF OfGpu
    <3> QED
      BY <3>2, Zenon DEF OfGpu, Covers
  <2>10. GpuHandsOver(g, idle, me.last.n)
    BY <1>7, <2>1, <2>2, <2>3, <2>5, <2>7, <2>8, <2>9, Zenon DEF GpuHandsOver, me
  <2> QED
    BY <1>4, <2>10, HandedOverKeeps, Zenon
<1>9. ASSUME ~last
      PROVE  /\ me.task \in Pieces /\ me.task.seed = Seed
             /\ me.task.n \in Nat /\ me.task.n > 0
             /\ PieceOf(me.task, Seed, Base, BufferNonces)
             /\ on \in GpuStates /\ on.pc = "recv" /\ ~on.first /\ on.last = me.task
             /\ on.seed = Seed
             /\ on.dev[1 - on.buffer] = [seed |-> Seed, start |-> me.task.start, n |-> me.task.n]
             /\ gpu' = [gpu EXCEPT ![g] = on]
  <2>1. PieceOf(me.task, Seed, Base, BufferNonces)
    BY <1>1, <1>3, <1>9, Zenon DEF GpuRight
  <2>2. me.task \in Pieces /\ me.task.seed = Seed
    BY <2>1, Zenon DEF PieceOf
  <2>3. me.task.n \in Nat /\ me.task.n > 0
    BY <1>9, <2>2 DEF Pieces
  <2>4. \/ run = GpuHash(me) /\ Seed = me.task.seed
        \/ run = GpuHashNext(me) /\ Seed = me.seed
    BY <1>7, <2>2
  <2> HIDE DEF run
  <2>5. /\ on \in GpuStates /\ on.pc = "recv" /\ ~on.first /\ on.last = me.task
        /\ on.seed = Seed
        /\ on.dev[1 - on.buffer] = [seed |-> Seed, start |-> me.task.start, n |-> me.task.n]
    <3>1. me \in GpuStates /\ me.task \in Pieces /\ Seed \in AnySeeds
      BY <1>2, <1>6, <2>2
    <3> QED
      <4>1. HasHashed(GoesOn(run, me.task), me.task, Seed)
        <5>1. CASE run = GpuHash(me) /\ Seed = me.task.seed
          BY <3>1, <5>1, HashedStates, Zenon
        <5>2. CASE run = GpuHashNext(me) /\ Seed = me.seed
          BY <3>1, <5>2, HashedStates, Zenon
        <5> QED
          BY <2>4, <5>1, <5>2
      <4> QED
        BY <4>1 DEF HasHashed
  <2> HIDE DEF on
  <2> QED
    BY <1>1, <1>9, <2>1, <2>2, <2>3, <2>5
<1> HIDE DEF on
<1>10. ASSUME ~last PROVE GpuRight(on, Seed, Base, BufferNonces)
  BY <1>9, <1>10 DEF GpuRight
<1>11. ASSUME ~last
       PROVE  InWork(me) = me.task.n /\ InWork(on) = 0 /\ InDevice(on) = me.task.n
  BY <1>1, <1>9, <1>11 DEF InWork, InDevice
<1>12. CASE ~last /\ me.first
  <2>1. rx' = rx \o (<<>> \o <<GpuRequestForWork(g)>>)
    BY <1>5, <1>12 DEF HashedByGpu
  <2>2. 0 \in Nat
    OBVIOUS
  <2>3. rx' \in Seq(Msgs) /\ Sum(MsgSizes(rx')) = Sum(MsgSizes(rx)) + 0
    BY <1>2, <2>1, <2>2, SentMsgs, Zenon
  <2>4. InWork(me) + InDevice(me) = InWork(on) + InDevice(on) + 0
    <3>1. InDevice(me) = 0
      BY <1>12 DEF InDevice
    <3> QED
      BY <1>9, <1>11, <1>12, <3>1
  <2>5. plot' = plot
    BY <1>1, <1>12
  <2>6. ASSUME NEW k, OfGpu(gpuQueue[g], me, k) PROVE OfGpu(gpuQueue[g], on, k)
    <3>1. ~on.first /\ on.last = me.task
      BY <1>9, <1>12
    <3> QED
      BY <1>12, <2>6, <3>1, Zenon DEF OfGpu
  <2>7. GpuHandsOver(g, on, 0)
    <3>1. on \in GpuStates /\ gpu' = [gpu EXCEPT ![g] = on]
          /\ GpuRight(on, Seed, Base, BufferNonces)
      BY <1>9, <1>10, <1>12
    <3> QED
      BY <2>2, <2>3, <2>4, <2>5, <2>6, <3>1, Zenon DEF GpuHandsOver, me
  <2> QED
    BY <1>4, <2>7, HandedOverKeeps, Zenon
<1>13. CASE ~last /\ ~me.first
  <2>1. rx' = rx \o (<<Hashed(me.last.n)>> \o <<GpuRequestForWork(g)>>)
    BY <1>5, <1>7, <1>13
  <2>2. /\ me.last \in Pieces /\ me.last.n > 0 /\ me.last.n \in Nat /\ me.last.chunk \in Nat
        /\ plot' = Scatter(Seed, Base + me.last.chunk, me.last.chunk, me.last.n)
    BY <1>7, <1>13
  <2>3. rx' \in Seq(Msgs) /\ Sum(MsgSizes(rx')) = Sum(MsgSizes(rx)) + me.last.n
    BY <1>2, <2>1, <2>2, SentMsgs, Zenon
  <2>4. InWork(me) + InDevice(me) = InWork(on) + InDevice(on) + me.last.n
    <3>1. InDevice(me) = me.last.n
      BY <1>13 DEF InDevice
    <3> QED
      BY <1>9, <1>11, <1>13, <2>2, <3>1
  <2>5. ASSUME NEW k, OfGpu(gpuQueue[g], me, k)
        PROVE  \/ OfGpu(gpuQueue[g], on, k)
               \/ me.last.chunk <= k /\ k < me.last.chunk + me.last.n
    <3>1. ~on.first /\ on.last = me.task
      BY <1>9, <1>13
    <3> QED
      BY <2>5, <3>1, Zenon DEF OfGpu, Covers
  <2>6. GpuHandsOver(g, on, me.last.n)
    <3>1. on \in GpuStates /\ gpu' = [gpu EXCEPT ![g] = on]
          /\ GpuRight(on, Seed, Base, BufferNonces)
      BY <1>9, <1>10, <1>13
    <3> QED
      BY <2>2, <2>3, <2>4, <2>5, <3>1, Zenon DEF GpuHandsOver, me
  <2> QED
    BY <1>4, <2>6, HandedOverKeeps, Zenon
<1> QED
  BY <1>8, <1>12, <1>13

\* Every step of a hasher.
LEMMA HasherKeeps ==
  ASSUME XpuInv, Hasher
  PROVE  XpuInv'
<1>1. CpuHash \/ CpuRequest \/ \E g \in GpuIds : GpuTake(g) \/ GpuWork(g)
  BY Zenon DEF Hasher
<1> QED
  BY <1>1, CpuHashKeeps, CpuRequestKeeps, GpuTakeKeeps, GpuWorkKeeps, Zenon
-----------------------------------------------------------------------------
(* The theorems.                                                            *)

\* Every step keeps the invariant.
LEMMA NextInv ==
  ASSUME XpuInv, [Next]_vars
  PROVE  XpuInv'
<1>1. CASE UNCHANGED vars
  <2>1. UNCHANGED <<mainVars, schedVars, hashVars, plotAt, compVars, writeVars, envVars, files>>
    BY <1>1 DEF vars
  <2>2. UNCHANGED <<mpc, warps, plots, given, spc, pointer, seeds, hashed, filesHashed,
                    requested, processed, rx, cpuTasks, cpuIdle, gpuQueue, gpu, plot,
                    plotAt, handed, cpc, ctask>>
    BY <2>1 DEF mainVars, schedVars, hashVars, compVars, envVars
  <2>3. TypeOK' /\ Planned' /\ OneOwner'
    BY <2>2 DEF XpuInv, TypeOK, Planned, OneOwner, CompressorHolds
  <2>4. Counted' /\ HashersRight'
    BY <2>2, WorkFrame, Zenon DEF XpuInv
  <2>5. TasksInPlot'
    BY <2>2 DEF XpuInv, TasksInPlot
  <2>6. WritesRight' /\ FilesInv'
    BY <2>1, WritesFrame, FilesFrame, Zenon DEF XpuInv
  <2> QED
    BY <2>3, <2>4, <2>5, <2>6 DEF XpuInv
<1>2. CASE Setup
  BY <1>2, SetupKeeps
<1>3. CASE Join
  BY <1>3, JoinKeeps
<1>4. CASE Scheduler
  BY <1>4, SchedulerKeeps
<1>5. CASE Hasher
  BY <1>5, HasherKeeps
<1>6. CASE Compressor
  BY <1>6, CompressorKeeps
<1>7. CASE \E p \in Paths : Writer(p)
  BY <1>7, WriterKeeps
<1>8. CASE RequestStop
  BY <1>8, RequestStopKeeps
<1> QED
  BY <1>1, <1>2, <1>3, <1>4, <1>5, <1>6, <1>7, <1>8, Zenon DEF Next

\* The inductive invariant: the plot buffer has one owner, the nonces requested
\* are those reported, in messages, with the CPU threads and with the GPUs, every
\* piece is of the buffer the scheduler works on, what it has requested is in the
\* plot buffer or pending, and what goes to the compressor, the writers and the
\* files is right.
THEOREM XpuInvariant == Spec => []XpuInv
<1>1. Init => XpuInv
  BY InitInv
<1>2. XpuInv /\ [Next]_vars => XpuInv'
  BY NextInv
<1> QED
  BY <1>1, <1>2, PTL DEF Spec

\* TypeOK: the values the variables of the scheduler, the hashers and the
\* compressor take.
THEOREM XpuTypes == Spec => []TypeOK
<1>1. XpuInv => TypeOK
  BY DEF XpuInv
<1> QED
  BY <1>1, XpuInvariant, PTL

\* HashersQuietAfterHandover: for any CPU threads, GPUs and sizes of tasks, no
\* hasher has nonces to move to the plot buffer while it is not the scheduler's,
\* because its control loop ends only when all it requested has been reported
\* (xpu_scheduler.rs).
THEOREM HashersQuiet == Spec => []HashersQuietAfterHandover
<1>1. XpuInv => HashersQuietAfterHandover
  <2> SUFFICES ASSUME XpuInv, plotAt # "scheduler"
               PROVE  /\ cpuTasks = <<>>
                      /\ \A g \in GpuIds : gpu[g].first /\ gpu[g].pc # "work"
    BY DEF HashersQuietAfterHandover
  <2>1. spc # "control"
    BY DEF XpuInv, OneOwner
  <2>2. Quiet(cpuTasks, gpuQueue, gpu)
    BY <2>1, QuietOutside, Zenon DEF XpuInv
  <2> QED
    BY <2>2, Zenon DEF Quiet
<1> QED
  BY <1>1, XpuInvariant, PTL

\* FilesRight: for any paths, files, CPU threads, GPUs and sizes of tasks and
\* buffers, in every order of hashers, messages, compressor and writers, resumed,
\* stopped or failing, a file holds its own warps in order up to its marker.
THEOREM FilesAreRight == Spec => []FilesRight
<1>1. XpuInv => FilesRight
  BY DEF XpuInv, FilesInv, FileRight, FilesRight
<1> QED
  BY <1>1, XpuInvariant, PTL

=============================================================================
