------------------------------ MODULE MCKoraPayout ------------------------------
(* Instances of KoraPayout for TLC: every transaction has the amount 1. *)
EXTENDS KoraPayout, TLC

UnitAmount == [t \in Txns |-> 1]
Symmetry == Permutations(Handlers) \cup Permutations(Events) \cup Permutations(Payouts)
===============================================================================
