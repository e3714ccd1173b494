-------------------------- MODULE MCProofOfCapacity --------------------------
(* Small instances of ProofOfCapacity for TLC. *)
EXTENDS ProofOfCapacity

Ours   == [seed |-> 1, payload |-> 5]
Theirs == [seed |-> 9, payload |-> 2]

\* A compressed nonce of the plot, and an uncompressed one of someone else, whose
\* quality is not what was claimed.
TwoOthers ==
    <<[id |-> Ours, nonce |-> 4, compression |-> 2, honest |-> TRUE],
      [id |-> Theirs, nonce |-> 1, compression |-> 1, honest |-> FALSE]>>

NoOthers == << >>
BothIds == {Ours, Theirs}
=============================================================================
