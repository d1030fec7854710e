------------------------------ MODULE MCReplay ------------------------------
(* Replay for TLC: the players are interchangeable. *)
EXTENDS Replay

Symmetry == Permutations(Player)
=============================================================================
