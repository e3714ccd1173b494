----------------------------- MODULE MCMockchain -----------------------------
(* A small instance of Mockchain for TLC. *)
EXTENDS Mockchain, TLC

\* quality_adj_to_time of a block time of 1: 2 - floor(2 * exp(-q)).
TimeOfOne == [q \in 0 .. MaxQuality - 1 |-> IF q = 0 THEN 0 ELSE 2]

\* Both connections mine for one address.
OneAccount == [m \in Miners |-> 1]

\* ... so that nothing tells them apart.
Symmetry == Permutations(Miners)

\* A second before the latest row was created, and long after.
BackOrOn == {-1, MaxAge}

\* Bound: of a fault, a restart and a clock that is set, two in one behavior.
TwoUpsets == faults + restarts + clock_sets <= 2

=============================================================================
