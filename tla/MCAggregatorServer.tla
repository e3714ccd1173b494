------------------------- MODULE MCAggregatorServer -------------------------
(* An instance of AggregatorServer for TLC: two requests at a time, two      *)
(* miners, and base targets and precisions TLC's integers can hold.          *)
EXTENDS AggregatorServer, TLC

Targets == [h \in Heights |-> h]

Alike == Permutations(Pollers) \union Permutations(Miners)
=============================================================================
