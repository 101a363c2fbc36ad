------------------------------ MODULE MCForms -------------------------------
(* Instances of FormsSafety for TLC. *)
EXTENDS FormsSafety, TLC

Symmetry == Permutations(Submissions)
=============================================================================
