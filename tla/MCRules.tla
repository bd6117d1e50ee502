------------------------------- MODULE MCRules -------------------------------
(***************************************************************************)
(* Instances of the rule forms for TLC.                                    *)
(***************************************************************************)
EXTENDS RuleForm, TLC

FormSymmetry == Permutations(RuleId) \cup Permutations(Save)

=============================================================================
