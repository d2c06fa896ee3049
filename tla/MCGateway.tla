------------------------------ MODULE MCGateway -----------------------------
(* Gateway on small instances. *)
EXTENDS Gateway, TLC

\* Connections are interchangeable (safety runs only).
Symmetry == Permutations(Conns)
=============================================================================
