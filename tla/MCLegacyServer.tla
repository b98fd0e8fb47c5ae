---------------------------- MODULE MCLegacyServer ----------------------------
(* LegacyServer for TLC: interchangeable connections. *)
EXTENDS LegacyServer, TLC

Symmetry == Permutations(Conns)
=============================================================================
