--------------------------- MODULE MCPlotPipeline ---------------------------
(* Small instances of PlotPipeline for TLC. *)
EXTENDS PlotPipeline

\* Files of three warps in the first path, of one warp in the second.
ThreeAndOne == [p \in {0, 1} |-> IF p = 0 THEN 3 ELSE 1]
ThreeWarps  == [p \in {0} |-> 3]

Job(n, files, helix, more, errors, may) ==
    [paths |-> n, plots |-> [p \in 0 .. n - 1 |-> files], passes |-> helix,
     async |-> more, faults |-> errors, stops |-> may]

\* Two files into one path, compressed, with stops and an I/O error; one file
\* into each of two paths, with kills only.
OnePathOrTwo == {Job(1, 2, 2, TRUE, 1, TRUE), Job(2, 1, 1, FALSE, 0, FALSE)}

\* One file, one write buffer: with an I/O error, or with kills only.
OneFileFails == {Job(1, 1, 1, FALSE, 1, FALSE)}
OneFile      == {Job(1, 1, 1, FALSE, 0, FALSE)}
=============================================================================
