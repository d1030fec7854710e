--------------------------- MODULE MCGameService ---------------------------
(* GameService for TLC: fds and players are interchangeable. *)
EXTENDS GameService, TLC

Symmetry == Permutations(Fd) \cup Permutations(Player)
=============================================================================
