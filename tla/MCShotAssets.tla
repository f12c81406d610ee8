---------------------------- MODULE MCShotAssets ----------------------------
(* ShotAssets for TLC: assets and storyboards are interchangeable. *)
EXTENDS ShotAssets, TLC

Symmetry == Permutations(Assets) \cup Permutations(Boards)
=============================================================================
