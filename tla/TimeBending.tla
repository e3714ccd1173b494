---------------------------- MODULE TimeBending ----------------------------
(* The time a quality stands for, in the integer arithmetic of the wallet    *)
(* (time_bending.rs): the cube root of quality over base target, in fixed    *)
(* point, scaled so that the expected time is the block time.                *)
EXTENDS Integers

CONSTANTS
    P,          \* fractional bits of the root (21 in the code)
    Q,          \* fractional bits of the scale (42)
    Gamma,      \* Gamma(4/3) with Q fractional bits
    BlockTime   \* seconds per block the network aims at

ASSUME PrecisionAssumption == P \in Nat /\ Q \in Nat
\* The provers know nothing of powers.
ASSUME PowersAssumption == {2^Q, 2^(2 * Q), 2^(3 * Q), 2^(3 * P), 2^(P + Q)} \subseteq Nat \ {0}
ASSUME BlockTimeAssumption == BlockTime \in Nat \ {0} /\ Gamma \in Nat \ {0}

Cube(n) == n * n * n

\* The root of x, rounded down.
IsRoot(r, x) == r \in Nat /\ Cube(r) <= x /\ x < Cube(r + 1)

\* The middle of the search's interval.
Mid(b) == (b.lo + b.hi + 1) \div 2

\* Mutant: the middle of an exact cube counts as too large.
BisectKeepsMid(x, b) ==
    IF Cube(Mid(b)) < x THEN [b EXCEPT !.lo = Mid(b)] ELSE [b EXCEPT !.hi = Mid(b) - 1]

\* One round of the search between lo and hi; it ends when they meet.
Bisect(x, b) ==
    IF Cube(Mid(b)) <= x THEN [b EXCEPT !.lo = Mid(b)] ELSE [b EXCEPT !.hi = Mid(b) - 1]

\* The first power of two whose cube is not below x.
Upper(x) ==
    LET double[h \in Nat] == IF Cube(h) < x THEN double[2 * h] ELSE h IN double[1]

int_cuberoot(x) ==
    LET search[b \in [lo : Nat, hi : Nat]] == IF b.lo < b.hi THEN search[Bisect(x, b)] ELSE b.lo
    IN search[[lo |-> Upper(x) \div 2, hi |-> Upper(x)]]

\* a / b, halves rounded up.
Rounded(a, b) == (a + b \div 2) \div b

\* SCALE_Q: the block time over the mean of the root of a random quality.
Scale(root) == Rounded(BlockTime * 2^(2 * Q), (root * Gamma) \div 2^Q)
QScale == Scale(int_cuberoot(BlockTime * 2^(3 * Q)))

\* The precision is enough for the mean not to be zero: the scale divides by it.
ASSUME ScaleAssumption == (int_cuberoot(BlockTime * 2^(3 * Q)) * Gamma) \div 2^Q > 0

\* What the root is taken of.
Ratio(quality, target) == (quality * 2^(3 * P)) \div target

\* The time in seconds of a root.  (The code keeps its low 64 bits: all of it,
\* for every quality, base target and block time below 2^63.)
TimeOf(scale, root) == Rounded(scale * root, 2^(P + Q))

PocTime(quality, target) ==
    IF quality = 0 THEN 0 ELSE TimeOf(QScale, int_cuberoot(Ratio(quality, target)))
=============================================================================
