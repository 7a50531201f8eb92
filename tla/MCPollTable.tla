----------------------------- MODULE MCPollTable -----------------------------
(* PollTable for TLC. *)
EXTENDS PollTable, TLC

Symmetry == Permutations(Fds)
=============================================================================
