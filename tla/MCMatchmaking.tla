--------------------------- MODULE MCMatchmaking ---------------------------
(* Matchmaking for TLC: players are interchangeable, and so are fds. *)
EXTENDS Matchmaking

Symmetry == Permutations(Player) \cup Permutations(Fd)
=============================================================================
