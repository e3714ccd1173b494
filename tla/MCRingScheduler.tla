--------------------------- MODULE MCRingScheduler ---------------------------
(* Small instances of RingScheduler for TLC. *)
EXTENDS RingScheduler

\* Two paths: files of three and two warps, two files in the first.
TwoPathWarps == [p \in {0, 1} |-> IF p = 0 THEN 3 ELSE 2]
TwoPathPlots == [p \in {0, 1} |-> IF p = 0 THEN 2 ELSE 1]

\* The two paths of tests/10_multipath_multifile.sh: two warps and a file each.
BothTwoWarps == [p \in {0, 1} |-> 2]
OneFileEach  == [p \in {0, 1} |-> 1]

\* Work sizes up to the batch size, and beyond it.
SmallWorkSizes == 1 .. 4
LargeWorkSizes == {7, 9}

\* gcd of ocl.rs, step by step.
EuclidGcd[ab \in Nat \X Nat] ==
    IF ab[2] = 0 THEN ab[1] ELSE EuclidGcd[<<ab[2], ab[1] % ab[2]>>]

\* The loop of gcd computes what RingSize is defined with.
ASSUME GcdIsEuclid ==
    \A a, b \in 1 .. 24 : EuclidGcd[<<a, b>>] = Gcd(a, b)
=============================================================================
