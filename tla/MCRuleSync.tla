----------------------------- MODULE MCRuleSync -----------------------------
(***************************************************************************)
(* The instance of RuleSync for TLC: migrations of each kind, as versions  *)
(* 1, 13, 14 and 15 of the program are.                                    *)
(***************************************************************************)
EXTENDS RuleSync, TLC

KindsMC == <<"create", "mode", "column", "column">>
=============================================================================
