----------------------------- MODULE MCGameRoom -----------------------------
(* Values of the constants of GameRoom for TLC.                            *)
EXTENDS GameRoomInv

(* The deal that puts the roles in the order of the list.                  *)
Dealt(list) == [p \in Position |-> list[p + 1]]

(* Five players: the mafioso speaks first, or between the others.          *)
FivePlayers == {
  Dealt(<<"MODERATOR", "MAFIA", "DOCTOR", "DETECTIVE", "VILLAGER">>),
  Dealt(<<"MODERATOR", "DOCTOR", "VILLAGER", "MAFIA", "DETECTIVE">>)}

(* Eleven players, the size at which positions get a second digit.         *)
ElevenPlayers == {
  Dealt(<<"MODERATOR", "VILLAGER", "MAFIA", "DOCTOR", "MAFIA", "DETECTIVE",
          "VILLAGER", "MAFIA", "VILLAGER", "VILLAGER", "VILLAGER">>)}
=============================================================================
