------------------------------ MODULE KoraAmounts ------------------------------
(* The amounts of the transactions, for the routes that compare them. *)
EXTENDS KoraWebhook

CONSTANT Amount  \* transactions.amount

ASSUME AmountAssumption == Amount \in [Txns -> Nat]
===============================================================================
