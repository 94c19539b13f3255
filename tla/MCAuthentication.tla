-------------------------- MODULE MCAuthentication --------------------------
(***************************************************************************)
(* Constant values of the run on Authentication.                           *)
(***************************************************************************)
EXTENDS Authentication, TLC

\* Requests differ in nothing but their names.
RequestSymmetry == Permutations(Requests)
=============================================================================
