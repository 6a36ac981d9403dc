------------------------------- MODULE MCTeam -------------------------------
(* Small instances of Team for TLC. *)
EXTENDS Team, TLC

Symmetry == Permutations(Workers) \cup Permutations(Clients) \cup Permutations(Supers)
                \cup Permutations(Rows)
=============================================================================
