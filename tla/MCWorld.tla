------------------------------ MODULE MCWorld ------------------------------
(* World for TLC: players, places and cells are interchangeable. *)
EXTENDS World, TLC

Symmetry == Permutations(Player) \cup Permutations(Place) \cup Permutations(Cell)
=============================================================================
