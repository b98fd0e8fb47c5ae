----------------------------- MODULE MCPollServer -----------------------------
(* PollServer for TLC: interchangeable connections. *)
EXTENDS PollServer, TLC

Symmetry == Permutations(Conns)
=============================================================================
