---------------------------- MODULE MCThreadServer ----------------------------
(* ThreadServer for TLC: interchangeable connections. *)
EXTENDS ThreadServer, TLC

Symmetry == Permutations(Conns)
=============================================================================
