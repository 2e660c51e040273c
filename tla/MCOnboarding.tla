------------------------------ MODULE MCOnboarding ------------------------------
(* Instances of Onboarding for TLC. *)
EXTENDS Onboarding, TLC

Symmetry == Permutations(Handlers) \cup Permutations(Challenges)
              \cup Permutations(Phones) \cup Permutations(Subjects)
===============================================================================
