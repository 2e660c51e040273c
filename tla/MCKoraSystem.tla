------------------------------ MODULE MCKoraSystem ------------------------------
(* Instances of KoraSystem for TLC: every transaction has the amount 1. *)
EXTENDS KoraSystem, TLC

UnitAmount == [t \in Txns |-> 1]
Symmetry == Permutations(Events) \cup Permutations(Workers)
===============================================================================
