------------------------------ MODULE MCClient ------------------------------
(* Client for TLC: connections are interchangeable in a safety check.       *)
EXTENDS Client, TLC

Symmetry == Permutations(Conns)
=============================================================================
