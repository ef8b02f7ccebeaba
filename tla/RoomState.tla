------------------------------ MODULE RoomState ------------------------------
(***************************************************************************)
(* The ring of game states of a room (room_state.h, room_state.cpp).       *)
(*                                                                         *)
(* A RoomState object is a heap node with a name and a `next' pointer; the *)
(* nodes of a room form a ring and Room::state_ points at the current one. *)
(* The surgery done while a game is played inserts and deletes nodes.      *)
(*                                                                         *)
(* A node is named by the pair <<kind, arg>>, where arg is the room        *)
(* position printed at the end of the name (0 for the fixed phases, and a  *)
(* running number for the end-of-game nodes, of which the code may         *)
(* allocate several with the same text).  A heap is the function that maps *)
(* every node to its `next' pointer, and to null when it is not allocated. *)
(***************************************************************************)
EXTENDS Integers, FiniteSets

CONSTANTS
  MaxPlayers,        \* number of players of the game, Room::maxPlayers_
  Targets,           \* positions a client may put into a SELECT command
  MaxAnnouncements   \* bound: end-of-game nodes a run may allocate

ASSUME MaxPlayersAssumption == MaxPlayers \in Nat /\ MaxPlayers >= 3
ASSUME TargetsAssumption == Targets \subseteq Nat /\ IsFiniteSet(Targets)
ASSUME MaxAnnouncementsAssumption == MaxAnnouncements \in Nat

Position == 0 .. MaxPlayers - 1

-----------------------------------------------------------------------------
(* The nodes.                                                              *)

PhaseKind == {"City_wakes_up", "Voting", "Night", "Mafia_wake_up",
              "Mafia_murdered", "Detective_checking", "Doctor_curing",
              "Early_morning"}
TurnKind  == {"Speaking_player", "Finished_speaking_player"}
MarkKind  == {"Voting_against_player", "Was_murdered_player",
              "Murdered_players_speech"}
WonKind   == {"Villagers_won_the_game", "Mafia_won_the_game"}

Node == (PhaseKind \X {0})
        \cup (TurnKind \X (1 .. MaxPlayers - 1))
        \cup (MarkKind \X Targets)
        \cup (WonKind \X (1 .. MaxAnnouncements))

null == <<"nullptr", 0>>
Heap == [Node -> Node \cup {null}]

Phase(kind)      == <<kind, 0>>
Speaking(p)      == <<"Speaking_player", p>>
Finished(p)      == <<"Finished_speaking_player", p>>
VotingAgainst(p) == <<"Voting_against_player", p>>
WasMurdered(p)   == <<"Was_murdered_player", p>>
MurderedSpeech(p) == <<"Murdered_players_speech", p>>
WonTheGame(winner, i) == <<winner, i>>

IsBallot(n) == n[1] = "Voting_against_player"
IsWon(n)    == n[1] \in WonKind

Ballot == {VotingAgainst(p) : p \in Targets}

-----------------------------------------------------------------------------
(* The builders.                                                           *)

(* What a plausible mistake would make of the following definition is      *)
(* sometimes written before it, as a "variant"; no definition uses one,    *)
(* and some property is violated when one takes the place of its original. *)

(* buildStateChain: wake up, two nodes per player but the moderator, and   *)
(* the phases from the voting to the early morning, closed to a ring.      *)
BuildStateChain ==
  [n \in Node |->
     CASE n = Phase("City_wakes_up")      -> Speaking(1)
       [] n[1] = "Speaking_player"        -> Finished(n[2])
       [] n[1] = "Finished_speaking_player"
                                          -> IF n[2] < MaxPlayers - 1
                                             THEN Speaking(n[2] + 1)
                                             ELSE Phase("Voting")
       [] n = Phase("Voting")             -> Phase("Night")
       [] n = Phase("Night")              -> Phase("Mafia_wake_up")
       [] n = Phase("Mafia_wake_up")      -> Phase("Mafia_murdered")
       [] n = Phase("Mafia_murdered")     -> Phase("Detective_checking")
       [] n = Phase("Detective_checking") -> Phase("Doctor_curing")
       [] n = Phase("Doctor_curing")      -> Phase("Early_morning")
       [] n = Phase("Early_morning")      -> Phase("City_wakes_up")
       [] OTHER                           -> null]

IsLeast(p, S) == p \in S /\ \A q \in S : p <= q
LeastOf(S) == CHOOSE p \in S : IsLeast(p, S)

(* buildVotingChain: one ballot per nominee, in the order of the positions *)
(* (the order of std::map), between `state' and what followed it.          *)
BuildVotingChain(heap, state, nominated) ==
  [n \in Node |->
     IF n = state /\ nominated # {}
     THEN VotingAgainst(LeastOf(nominated))
     ELSE IF n[1] = "Voting_against_player" /\ n[2] \in nominated
     THEN LET later == {p \in nominated : p > n[2]}
          IN  IF later = {} THEN heap[state] ELSE VotingAgainst(LeastOf(later))
     ELSE heap[n]]

(* Variant: the victim gives no last speech.                               *)
MurderWithoutSpeech(heap, state, p) ==
  [heap EXCEPT ![state] = WasMurdered(p), ![WasMurdered(p)] = heap[state]]

(* buildMurderChain: the victim is announced, then gives a last speech.    *)
BuildMurderChain(heap, state, p) ==
  [heap EXCEPT ![state] = WasMurdered(p),
               ![WasMurdered(p)] = MurderedSpeech(p),
               ![MurderedSpeech(p)] = heap[state]]

(* buildEndGameChain: a fresh end-of-game node after `state'.              *)
BuildEndGameChain(heap, state, won) ==
  [heap EXCEPT ![state] = won, ![won] = heap[state]]

-----------------------------------------------------------------------------
(* The deletions, done by Room on the ring.                                *)

(* Room::deletePreviousVotingChain: walks the ring once and unlinks and    *)
(* deletes every ballot.  The ballots of a day follow each other, so the   *)
(* node that pointed at the first one comes to point at the node that      *)
(* followed the last one.                                                  *)
AfterBallots(heap) ==
  CHOOSE n \in Node \ Ballot : \E b \in Ballot : heap[b] = n

(* Variant: the ballots are unlinked and not deleted.                      *)
UnlinkPreviousVotingChain(heap) ==
  [n \in Node |-> IF n \notin Ballot /\ heap[n] \in Ballot THEN AfterBallots(heap)
                  ELSE heap[n]]

DeletePreviousVotingChain(heap) ==
  [n \in Node |-> IF n \in Ballot THEN null
                  ELSE IF heap[n] \in Ballot THEN AfterBallots(heap)
                  ELSE heap[n]]

(* Variant: `next' of the current state is read after it is deleted.       *)
DeleteMurderChainFirst(heap, before, state) ==
  [heap EXCEPT ![heap[before]] = null,
               ![heap[heap[before]]] = null,
               ![before] = null]

(* Room::deleteMurderedPlayer, first half: the two nodes after `before'    *)
(* are deleted and `before' is linked to what followed the current state.  *)
DeleteMurderChain(heap, before, state) ==
  [heap EXCEPT ![before] = heap[state],
               ![heap[before]] = null,
               ![heap[heap[before]]] = null]

(* Variant: a name that is a beginning of the searched one is found too.   *)
NamesOverlap(p, q) == q = p \/ (p > 0 /\ q \div 10 = p) \/ p \div 10 = q

(* Variant: the search is for any turn to speak.                           *)
AnyName(p, q) == TRUE

(* name.find(SPEAKING + to_string(p)) on the name of the turn of q: the    *)
(* decimal digits of p begin those of q (room positions have at most two). *)
NameContains(p, q) == q = p \/ (p > 0 /\ q \div 10 = p)

(* Second half: the loop walks from `before' to the first turn whose name  *)
(* contains the position.  It meets the turns in the order of the          *)
(* positions, so that is the least of them; with none it never ends.       *)
TurnsFound(heap, p) ==
  {q \in 1 .. MaxPlayers - 1 : heap[Speaking(q)] # null /\ NameContains(p, q)}

(* Variant: the end of the speech is unlinked and not deleted.             *)
DeleteTurnOnly(heap, previous, turn) ==
  [heap EXCEPT ![previous] = heap[heap[turn]], ![turn] = null]

(* The found turn is deleted together with the node that follows it.       *)
DeleteTurn(heap, previous, turn) ==
  [heap EXCEPT ![previous] = heap[heap[turn]],
               ![heap[turn]] = null,
               ![turn] = null]
=============================================================================
