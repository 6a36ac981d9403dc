------------------------------ MODULE MCAmounts ------------------------------
(* Small instances of Amounts for TLC. *)
EXTENDS Amounts

(* LEGAL_TVA_RATES and TVA_RATES, in tenths of a percent *)
LegalTVARates == {0, 21, 55, 100, 200}
EditorTVARates == {0, 55, 100, 200}
=============================================================================
