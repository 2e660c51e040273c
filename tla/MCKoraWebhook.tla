----------------------------- MODULE MCKoraWebhook -----------------------------
(* Instances of KoraWebhook for TLC. *)
EXTENDS KoraWebhook, TLC

Symmetry == Permutations(Handlers) \cup Permutations(Events)
===============================================================================
