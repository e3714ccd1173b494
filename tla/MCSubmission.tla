---------------------------- MODULE MCSubmission ----------------------------
(* Small instances of Submission for TLC. *)
EXTENDS Submission

Both == {"pool", "wallet"}
PoolOnly == {"pool"}
WalletOnly == {"wallet"}

N(a, r) == [account |-> a, raw |-> r]

\* Two accounts; some nonces differ in their raw quality only, and the second
\* account finds one that misses its target.
TwoAccounts == {"a1", "a2"}
TwoSigs     == {"s1", "s2"}
TwoBlocks == [s \in TwoSigs |->
                IF s = "s1" THEN {N("a1", 5), N("a1", 2), N("a2", 3)}
                            ELSE {N("a1", 4), N("a1", 5), N("a2", 9)}]
SomeTargets == [a \in TwoAccounts |-> IF a = "a1" THEN 9 ELSE 4]

\* One account, two blocks.
OneAccount == {"a1"}
FewNonces  == [s \in TwoSigs |->
                IF s = "s1" THEN {N("a1", 1), N("a1", 3)} ELSE {N("a1", 2)}]
NoTargets  == [a \in OneAccount |-> 9]
=============================================================================
