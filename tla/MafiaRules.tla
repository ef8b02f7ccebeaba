----------------------------- MODULE MafiaRules -----------------------------
(***************************************************************************)
(* What a room promises its players: the rules of the game, without the    *)
(* ring of states, the ballots and the messages.                           *)
(*                                                                         *)
(* Days and nights alternate.  A day and a night each end with at most one *)
(* condemned player, who dies, and only a condemned player dies.  Players  *)
(* may leave.  The result is announced when a faction has no member left,  *)
(* and then the game stays over.                                           *)
(*                                                                         *)
(* A member who is condemned although he is not in the game (he is dead,   *)
(* he left, he is the moderator) breaks the room; nothing else does.       *)
(***************************************************************************)
EXTENDS Integers

CONSTANTS
  Position,    \* the positions of the players; 0 is the moderator's
  Targets,     \* what may be condemned
  Outsider     \* stands for no player

VARIABLES
  mafia,       \* living members of the mafia
  citizens,    \* the other living players
  condemned,   \* the player who is about to die, or Outsider
  night,       \* whether it is night
  result,      \* "none", or the faction that was announced
  broken       \* the room has stopped working

rules == <<mafia, citizens, condemned, night, result, broken>>

Living == mafia \cup citizens

Init ==
  /\ mafia \in SUBSET (Position \ {0})
  /\ citizens \in SUBSET (Position \ {0})
  /\ mafia \cap citizens = {}
  /\ condemned = Outsider
  /\ night = FALSE
  /\ result = "none"
  /\ broken = FALSE

Extinct == mafia = {} \/ citizens = {}
Winner == IF mafia = {} THEN "villagers" ELSE "mafia"

Condemn(p) ==
  /\ condemned = Outsider
  /\ ~Extinct
  /\ condemned' = p
  /\ UNCHANGED <<mafia, citizens, night, result, broken>>

(* A day or a night ends; the condemned player dies.                       *)
EndPeriod ==
  /\ condemned \in Living \cup {Outsider}
  /\ mafia' = mafia \ {condemned}
  /\ citizens' = citizens \ {condemned}
  /\ mafia' # {} /\ citizens' # {}
  /\ condemned' = Outsider
  /\ night' = ~night
  /\ UNCHANGED <<result, broken>>

(* The result is announced, after the death that decided the game or after *)
(* a departure that did; the announcement may be repeated.                 *)
Announce ==
  /\ \/ UNCHANGED <<mafia, citizens>>
     \/ /\ condemned \in Living
        /\ mafia' = mafia \ {condemned}
        /\ citizens' = citizens \ {condemned}
  /\ mafia' = {} \/ citizens' = {}
  /\ result' = IF mafia' = {} THEN "villagers" ELSE "mafia"
  /\ condemned' = Outsider
  /\ night' = FALSE
  /\ UNCHANGED broken

Leave(p) ==
  /\ mafia' = mafia \ {p}
  /\ citizens' = citizens \ {p}
  /\ UNCHANGED <<condemned, night, result, broken>>

Break ==
  /\ condemned \notin Living \cup {Outsider}
  /\ broken' = TRUE
  /\ condemned' = Outsider
  /\ UNCHANGED <<mafia, citizens, night, result>>

Next ==
  /\ ~broken
  /\ \/ \E p \in Targets : Condemn(p)
     \/ EndPeriod
     \/ Announce
     \/ \E p \in Position : Leave(p)
     \/ Break

Spec == Init /\ [][Next]_rules
=============================================================================
