-------------------------- MODULE MCKoraReconciliation --------------------------
(* Instances of KoraReconciliation for TLC. *)
EXTENDS KoraReconciliation, TLC

Symmetry == Permutations(Workers) \cup Permutations(Events) \cup Permutations(Handlers)
===============================================================================
