------------------------------- MODULE MCPool -------------------------------
(* Instances of Pool for TLC. *)
EXTENDS Pool, TLC

\* Openers are interchangeable.
Symmetry == Permutations(Openers)
=============================================================================
