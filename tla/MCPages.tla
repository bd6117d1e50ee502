------------------------------- MODULE MCPages -------------------------------
(***************************************************************************)
(* Instances of the account pages for TLC.                                 *)
(***************************************************************************)
EXTENDS AccountPages, TLC

PagesSymmetry ==
    Permutations(Row) \cup Permutations(Slot) \cup Permutations(Secret) \cup Permutations(Call)

=============================================================================
