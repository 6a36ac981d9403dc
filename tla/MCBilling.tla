----------------------------- MODULE MCBilling -----------------------------
(* Small instances of Billing for TLC. *)
EXTENDS Billing, TLC

Symmetry == Permutations(Jobs) \cup Permutations(Hooks) \cup Permutations(Admins)
=============================================================================
