----------------------------- MODULE MCRegistry -----------------------------
(* Finite instances of Registry for TLC. *)
EXTENDS Registry, TLC
CONSTANTS h1, h2, o1, o2, z1, z2, la, lb
MCForms == {<<"tenant", FALSE, TRUE>>, <<"platform", FALSE, FALSE>>}
Symmetry == Permutations({h1, h2})
=============================================================================
