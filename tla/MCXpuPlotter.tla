---------------------------- MODULE MCXpuPlotter ----------------------------
(* Small instances of XpuPlotter for TLC. *)
EXTENDS XpuPlotter

\* Two paths: three warps in one file, one warp in each of two files.
TwoPathWarps == [p \in {0, 1} |-> IF p = 0 THEN 3 ELSE 1]
TwoPathPlots == [p \in {0, 1} |-> IF p = 0 THEN 1 ELSE 2]
TwoPathSpace == [p \in {0, 1} |-> 5]

\* No seed is given, or the seed of a file with nothing, a part or all of its
\* warps.
AllLeftovers == {NoSeed, 0, 2, 3}
NoLeftovers  == {NoSeed}

\* "Fill the disk" of two paths, the first without space for a single file.
FillWarps == [p \in {0, 1} |-> 2]
FillPlots == [p \in {0, 1} |-> 0]
FillSpace == [p \in {0, 1} |-> IF p = 0 THEN 1 ELSE 3]

=============================================================================
