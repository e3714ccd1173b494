-------------------------- MODULE MCAggregatorQueue --------------------------
(* Small instances of AggregatorQueue for TLC. *)
EXTENDS AggregatorQueue

Both == {"pool", "wallet"}

S(a, b, q) == [account |-> a, block |-> b, quality |-> q]

\* Two accounts, three nonces of the first for one block, and a second block, for
\* which a filter of one block forgets the first.
TwoAccounts ==
    {S("a1", "b1", 1), S("a1", "b1", 2), S("a1", "b1", 3), S("a1", "b2", 2),
     S("a2", "b1", 2)}
=============================================================================
