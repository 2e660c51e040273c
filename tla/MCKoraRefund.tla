------------------------------ MODULE MCKoraRefund ------------------------------
(* Instances of KoraRefund for TLC: pay-ins of 2, refunds of 1 or 2. *)
EXTENDS KoraRefund, TLC

TwoUnits == [t \in Txns |-> 2]
OneUnit == [t \in Txns |-> 1]
Symmetry == Permutations(Handlers) \cup Permutations(Events)
              \cup Permutations(Requests) \cup Permutations(RefundKeys)
===============================================================================
