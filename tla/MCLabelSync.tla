------------------------------ MODULE MCLabelSync ------------------------------
(* A finite instance of LabelSync for TLC: two labels, one of them with a      *)
(* second spelling.                                                            *)
EXTENDS LabelSync, TLC

CONSTANTS a, b, odd
MCNorm == a :> a @@ b :> b @@ odd :> a
=============================================================================
