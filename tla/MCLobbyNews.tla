----------------------------- MODULE MCLobbyNews -----------------------------
(* Values of the constants of LobbyNews for TLC.                           *)
EXTENDS LobbyNews, TLC

CONSTANTS h1, h2, h3, h4, b1

Humans == {h1, h2, h3, h4}
Bots == {b1}
Symmetry == Permutations(Humans)
=============================================================================
