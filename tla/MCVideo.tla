------------------------------- MODULE MCVideo -------------------------------
(* Values of the constants of Video for TLC.                               *)
EXTENDS Video

Dealt(list) == [p \in Position |-> list[p + 1]]

FivePlayers == {Dealt(<<"MODERATOR", "MAFIA", "DOCTOR", "DETECTIVE", "VILLAGER">>)}
=============================================================================
