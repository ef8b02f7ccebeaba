------------------------------- MODULE MCLobby -------------------------------
(* Values of the constants of Lobby for TLC.                               *)
EXTENDS Lobby, TLC

CONSTANTS h1, h2, h3, b1

Humans == {h1, h2, h3}
Bots == {b1}
Symmetry == Permutations(Humans)
=============================================================================
