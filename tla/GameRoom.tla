------------------------------ MODULE GameRoom ------------------------------
(***************************************************************************)
(* A room that is PLAYING: Room::goToNextState with everything it calls,   *)
(* the NEXT and SELECT commands that drive it, and players who leave.      *)
(*                                                                         *)
(* Handlers are atomic here.  The players are named by the room position   *)
(* they got at the start of the game; `seated' is Room::players_.          *)
(***************************************************************************)
EXTENDS RoomState

CONSTANTS
  VoteCounts,    \* vote counts the moderator may enter
  Bots,          \* positions taken by bots, which send no commands
  Deals,         \* the role assignments the game may start with
  ClientChecks,  \* the client offers only living, seated players as targets
  CanLeave       \* players may leave while the game is played

ASSUME VoteCountsAssumption == VoteCounts \subseteq Nat
ASSUME BotsAssumption == Bots \subseteq Position \ {0}
ASSUME FlagsAssumption == ClientChecks \in BOOLEAN /\ CanLeave \in BOOLEAN

VARIABLES
  state,      \* Room::state_
  next,       \* the `next' pointers of the ring, null for a deleted node
  before,     \* Room::beforeAssasiation_
  nominees,   \* Room::nominees_, NotNominated where the map has no entry
  murdered,   \* Room::murderedPlayer_
  cured,      \* Room::curedPlayer_
  character,  \* Player::character of the players
  seated,     \* Room::players_
  screen,     \* Player::screen_, by what it shows
  speakers,   \* who may speak, by the START/STOP_SPEAKING messages sent
  wins,       \* number of end-of-game nodes allocated so far
  fate        \* what became of the handlers: ok, hung or crashed

ring == <<state, next, before, wins>>
choices == <<nominees, murdered, cured>>
people == <<character, seated, screen, speakers>>
vars == <<ring, choices, people, fate>>

Role == {"MODERATOR", "DETECTIVE", "DOCTOR", "MAFIA", "VILLAGER"}
Character == Role \cup {"DEAD", "NOT_SPECIFIED"}
Screen == {"camera", "bot", "invisibility", "rip"}

NotNominated == -1
Nobody == -1       \* murderedPlayer_ and curedPlayer_ before a choice
Disagreement == -2 \* murderedPlayer_ after a second choice

Nominated == {p \in Targets : nominees[p] # NotNominated}

(* Room::assignCharactersRandomly as seen by the game: the moderator sits  *)
(* at position 0, the other roles are shuffled over the other positions.   *)
IsDeal(d) ==
  /\ d \in [Position -> Role]
  /\ \A p \in Position : d[p] = "MODERATOR" <=> p = 0
  /\ Cardinality({p \in Position : d[p] = "DETECTIVE"}) = 1
  /\ Cardinality({p \in Position : d[p] = "DOCTOR"}) = 1
  /\ Cardinality({p \in Position : d[p] = "MAFIA"}) = (MaxPlayers - 2) \div 3
ASSUME DealsAssumption == \A d \in Deals : IsDeal(d)

Init ==
  /\ state = Phase("City_wakes_up")
  /\ next = BuildStateChain
  /\ before = null
  /\ nominees = [p \in Targets |-> NotNominated]
  /\ murdered = Nobody
  /\ cured = Nobody
  /\ character \in Deals
  /\ seated = Position
  /\ screen = [p \in Position |-> IF p \in Bots THEN "bot" ELSE "camera"]
  /\ speakers = {0}
  /\ wins = 0
  /\ fate = "ok"

-----------------------------------------------------------------------------
(* Who is shown, who may speak.                                            *)

(* RoomState::visibleMask.  The masks of the inserted nodes have five      *)
(* characters: the entry of DEAD is the terminating null, not a '1'.       *)
VisibleRoles(n) ==
  CASE n = Phase("Night") -> {"MODERATOR"}
    [] n \in {Phase("Mafia_wake_up"), Phase("Mafia_murdered")}
                                    -> {"MODERATOR", "MAFIA"}
    [] n = Phase("Detective_checking") -> {"MODERATOR", "DETECTIVE"}
    [] n = Phase("Doctor_curing")   -> {"MODERATOR", "DOCTOR"}
    [] OTHER                        -> Role

(* Room::setCorrespondingPlayerScreen on entering the state n.             *)
CorrespondingScreen(n, chars) ==
  [p \in Position |->
     IF p \notin seated THEN screen[p]
     ELSE IF chars[p] = "DEAD" THEN "rip"
     ELSE IF chars[p] \notin VisibleRoles(n) THEN "invisibility"
     ELSE IF p \in Bots THEN "bot" ELSE screen[p]]

(* Variant: the player who finished is not stopped.                        *)
HandOverWithoutStop(from, to) ==
  IF to[1] = "Finished_speaking_player" \/ from[1] = "Murdered_players_speech"
  THEN speakers \cup {0}
  ELSE IF to[1] \in {"Speaking_player", "Murdered_players_speech"}
  THEN (speakers \ {0}) \cup {to[2]}
  ELSE speakers

(* The STOP_SPEAKING and START_SPEAKING messages of changeRoomState after  *)
(* the step from the state `from' to the state `to'.                       *)
HandOver(from, to) ==
  IF to[1] = "Finished_speaking_player"
  THEN (speakers \ {to[2]}) \cup {0}
  ELSE IF from[1] = "Murdered_players_speech"
  THEN (speakers \ {from[2]}) \cup {0}
  ELSE IF to[1] \in {"Speaking_player", "Murdered_players_speech"}
  THEN (speakers \ {0}) \cup {to[2]}
  ELSE speakers

-----------------------------------------------------------------------------
(* Room::goToNextState.                                                    *)

(* Variants: only the villagers proper count; the mafia is asked first.    *)
NoPlainVillagers(chars) == \A p \in seated : chars[p] # "VILLAGER"
WinnerMafiaFirst(chars) ==
  IF \A p \in seated : chars[p] \in {"MAFIA", "DEAD", "MODERATOR"}
  THEN "Mafia_won_the_game" ELSE "Villagers_won_the_game"

NoMafia(chars)     == \A p \in seated : chars[p] # "MAFIA"
NoVillagers(chars) == \A p \in seated : chars[p] \in {"MAFIA", "DEAD", "MODERATOR"}
GameOver(chars)    == NoMafia(chars) \/ NoVillagers(chars)
Winner(chars)      == IF NoMafia(chars) THEN "Villagers_won_the_game"
                                        ELSE "Mafia_won_the_game"

(* A human in the room sent NEXT and the server still handles commands.    *)
CanCommand == fate = "ok" /\ seated \ Bots # {}

Enter(from, heap, chars) ==
  /\ next' = heap
  /\ state' = heap[from]
  /\ character' = chars
  /\ screen' = CorrespondingScreen(heap[from], chars)
  /\ speakers' = HandOver(state, heap[from])
  /\ UNCHANGED <<seated, fate>>

(* Variant: beforeAssasiation_ is not set.                                 *)
ProceedUnprepared(from, heap, chars) ==
  /\ UNCHANGED before
  /\ \/ ~GameOver(chars) /\ Enter(from, heap, chars) /\ UNCHANGED wins
     \/ /\ GameOver(chars)
        /\ wins < MaxAnnouncements
        /\ LET won == WonTheGame(Winner(chars), wins + 1)
           IN  Enter(from, BuildEndGameChain(heap, from, won), chars)
        /\ wins' = wins + 1

(* The part common to all steps: remember where a murder chain starts,     *)
(* checkGameOver, and move to the node after `from'.                       *)
Proceed(from, heap, chars) ==
  /\ before' = IF heap[from][1] = "Was_murdered_player" THEN from ELSE before
  /\ \/ /\ ~GameOver(chars)
        /\ Enter(from, heap, chars)
        /\ UNCHANGED wins
     \/ /\ GameOver(chars)
        /\ wins < MaxAnnouncements
        /\ LET won == WonTheGame(Winner(chars), wins + 1)
           IN  Enter(from, BuildEndGameChain(heap, from, won), chars)
        /\ wins' = wins + 1

(* Variant: the ballots are put before the voting.                         *)
OpenVotingTooEarly ==
  /\ CanCommand
  /\ next[state] = Phase("Voting")
  /\ LET cleared == DeletePreviousVotingChain(next)
     IN  Proceed(state, BuildVotingChain(cleared, state, Nominated), character)
  /\ UNCHANGED choices

OpenVoting ==
  /\ CanCommand
  /\ next[state] = Phase("Voting")
  /\ LET cleared == DeletePreviousVotingChain(next)
         ballots == BuildVotingChain(cleared, Phase("Voting"), Nominated)
     IN  Proceed(state, ballots, character)
  /\ UNCHANGED choices

(* Room::getAccusedPlayer: the nominee with more votes than any other.     *)
Accused == {p \in Nominated : /\ nominees[p] > 0
                              /\ \A q \in Nominated \ {p} : nominees[q] < nominees[p]}

(* nominees_.clear(); the variant forgets it.                              *)
NomineesStay == UNCHANGED nominees
ClearNominees == nominees' = [p \in Targets |-> NotNominated]

CloseVoting ==
  /\ CanCommand
  /\ IsBallot(state)
  /\ next[state] = Phase("Night")
  /\ \/ \E p \in Accused :
           Proceed(state, BuildMurderChain(next, state, p), character)
     \/ Accused = {} /\ Proceed(state, next, character)
  /\ ClearNominees
  /\ UNCHANGED <<murdered, cured>>

(* The night's choices are forgotten; the variant keeps the doctor's.      *)
CureStays == murdered' = Nobody /\ UNCHANGED cured
ClearChoices == murdered' = Nobody /\ cured' = Nobody

LeaveDoctor ==
  /\ CanCommand
  /\ state = Phase("Doctor_curing")
  /\ \/ /\ murdered # cured /\ murdered >= 0
        /\ Proceed(state, BuildMurderChain(next, state, murdered), character)
     \/ /\ ~(murdered # cured /\ murdered >= 0)
        /\ Proceed(state, next, character)
  /\ ClearChoices
  /\ UNCHANGED nominees

(* Variant: the position is read from beforeAssasiation_ itself.           *)
VictimBefore == before[2]

(* The last speech is over: Room::deleteMurderedPlayer.  The position is   *)
(* read from the name of the node after beforeAssasiation_.                *)
Victim == next[before][2]
AfterSpeech == DeleteMurderChain(next, before, state)

EndMurderedSpeech ==
  /\ CanCommand
  /\ state[1] = "Murdered_players_speech"
  /\ TurnsFound(AfterSpeech, Victim) # {}
  /\ Victim \in seated
  /\ \E previous \in Node :
       LET turn == Speaking(LeastOf(TurnsFound(AfterSpeech, Victim)))
       IN  /\ AfterSpeech[previous] = turn
           /\ Proceed(before, DeleteTurn(AfterSpeech, previous, turn),
                      [character EXCEPT ![Victim] = "DEAD"])
  /\ UNCHANGED choices

(* No turn with the position in its name: the search loop never ends.      *)
EndMurderedSpeechHangs ==
  /\ CanCommand
  /\ state[1] = "Murdered_players_speech"
  /\ TurnsFound(AfterSpeech, Victim) = {}
  /\ fate' = "hung"
  /\ state' = before
  /\ next' = AfterSpeech
  /\ UNCHANGED <<before, wins, choices, people>>

(* The turn is there but its player has left: find_if returns the end of   *)
(* the set and the handler dereferences it.                                *)
EndMurderedSpeechCrashes ==
  /\ CanCommand
  /\ state[1] = "Murdered_players_speech"
  /\ TurnsFound(AfterSpeech, Victim) # {}
  /\ Victim \notin seated
  /\ \E previous \in Node :
       LET turn == Speaking(LeastOf(TurnsFound(AfterSpeech, Victim)))
       IN  /\ AfterSpeech[previous] = turn
           /\ next' = DeleteTurn(AfterSpeech, previous, turn)
  /\ fate' = "crashed"
  /\ state' = before
  /\ UNCHANGED <<before, wins, choices, people>>

Advance ==
  /\ CanCommand
  /\ next[state] # Phase("Voting")
  /\ ~(IsBallot(state) /\ next[state] = Phase("Night"))
  /\ state # Phase("Doctor_curing")
  /\ state[1] # "Murdered_players_speech"
  /\ Proceed(state, next, character)
  /\ UNCHANGED choices

GoToNextState ==
  \/ OpenVoting
  \/ CloseVoting
  \/ LeaveDoctor
  \/ EndMurderedSpeech
  \/ EndMurderedSpeechHangs
  \/ EndMurderedSpeechCrashes
  \/ Advance

-----------------------------------------------------------------------------
(* command::handleSelectedTarget: the state decides what a SELECT means.   *)
(* The server takes any number; ClientChecks says what the client offers.  *)
Offered(t) ==
  ClientChecks => t \in seated /\ character[t] \notin {"MODERATOR", "DEAD"}

NominateForVoting(t) ==
  /\ CanCommand
  /\ state[1] = "Finished_speaking_player"
  /\ Offered(t)
  /\ nominees' = [nominees EXCEPT ![t] = 0]
  /\ UNCHANGED <<ring, murdered, cured, people, fate>>

SetNumberOfVotes(amount) ==
  /\ CanCommand
  /\ IsBallot(state)
  /\ nominees' = [nominees EXCEPT ![state[2]] = amount]
  /\ UNCHANGED <<ring, murdered, cured, people, fate>>

TryToMurderPlayer(t) ==
  /\ CanCommand
  /\ state = Phase("Mafia_murdered")
  /\ Offered(t)
  /\ murdered' = IF murdered = Nobody THEN t ELSE Disagreement
  /\ UNCHANGED <<ring, nominees, cured, people, fate>>

CurePlayer(t) ==
  /\ CanCommand
  /\ state = Phase("Doctor_curing")
  /\ Offered(t)
  /\ cured' = t
  /\ UNCHANGED <<ring, nominees, murdered, people, fate>>

(* command::leaveRoom for a player of the room (also when his connection   *)
(* fails): Room::erasePlayer and Player::setRoom(nullptr).                 *)
LeaveRoom(p) ==
  /\ fate = "ok"
  /\ CanLeave
  /\ p \in seated \ Bots
  /\ seated' = seated \ {p}
  /\ character' = [character EXCEPT ![p] = "NOT_SPECIFIED"]
  /\ UNCHANGED <<ring, choices, screen, speakers, fate>>

Select ==
  \/ \E t \in Targets : NominateForVoting(t) \/ TryToMurderPlayer(t) \/ CurePlayer(t)
  \/ \E amount \in VoteCounts : SetNumberOfVotes(amount)

Next ==
  \/ GoToNextState
  \/ Select
  \/ \E p \in Position : LeaveRoom(p)

Spec == Init /\ [][Next]_vars

(* Somebody keeps pressing NEXT: the game is driven by its players, and a  *)
(* NEXT that was sent is handled by the threads of the Hive.               *)
FairSpec == Spec /\ WF_vars(GoToNextState)

-----------------------------------------------------------------------------
(* The ring.                                                               *)

Live == {n \in Node : next[n] # null}

(* Every variable keeps the values the code can give it.                   *)
RingTypeOK ==
  /\ state \in Node
  /\ next \in Heap
  /\ before \in Node \cup {null}
  /\ wins \in 0 .. MaxAnnouncements

ChoicesTypeOK ==
  /\ nominees \in [Targets -> VoteCounts \cup {0, NotNominated}]
  /\ murdered \in Targets \cup {Nobody, Disagreement}
  /\ cured \in Targets \cup {Nobody}

PeopleTypeOK ==
  /\ character \in [Position -> Character]
  /\ seated \subseteq Position
  /\ screen \in [Position -> Screen]
  /\ speakers \subseteq Position \cup Targets

TypeOK ==
  /\ RingTypeOK
  /\ ChoicesTypeOK
  /\ PeopleTypeOK
  /\ fate \in {"ok", "hung", "crashed"}

(* The allocated nodes form one ring that contains the current state: no   *)
(* `next' pointer dangles, none is shared, and no node is leaked.  This is *)
(* what the walks of deletePreviousVotingChain, deleteMurderedPlayer and   *)
(* ~Room (room.cpp:262-277) need, after every surgery on the ring.         *)
Visited[i \in Nat] == IF i = 0 THEN state ELSE next[Visited[i - 1]]
RingIsOneCycle ==
  /\ \A i \in 0 .. Cardinality(Live) - 1 : Visited[i] \in Live
  /\ Live = {Visited[i] : i \in 0 .. Cardinality(Live) - 1}
  /\ Visited[Cardinality(Live)] = state

(* While the victim is announced and speaks, beforeAssasiation_ is the     *)
(* live node in front of the announcement, so that deleteMurderedPlayer    *)
(* reads the victim's position there and deletes the right two nodes       *)
(* (room.cpp:333-344).                                                     *)
BeforeLeadsToVictim ==
  fate = "ok" /\ state[1] \in {"Was_murdered_player", "Murdered_players_speech"} =>
    LET p == state[2]
    IN  /\ before \in Live
        /\ next[before] = WasMurdered(p)
        /\ next[WasMurdered(p)] = MurderedSpeech(p)

(* A seated player has a turn to speak in the ring exactly while he is not *)
(* dead (room.cpp:346-358): the turn and the character are changed by two  *)
(* searches, one by name and one by position.                              *)
TurnsAreLiving ==
  fate = "ok" => \A q \in seated \ {0} :
                   next[Speaking(q)] # null <=> character[q] # "DEAD"

(* Nobody is chosen yet when the mafia wakes up and nobody is nominated    *)
(* when the night falls: a choice of an earlier night or an earlier day    *)
(* (room.cpp:172, 182-183) would count again.                              *)
FreshChoices ==
  ~IsWon(state) /\ fate = "ok" =>
    /\ state[1] \notin {"Mafia_murdered", "Detective_checking", "Doctor_curing"}
         => murdered = Nobody /\ cured = Nobody
    /\ state \in {Phase("Night"), Phase("Mafia_wake_up"), Phase("Mafia_murdered"),
                  Phase("Detective_checking"), Phase("Doctor_curing"),
                  Phase("Early_morning"), Phase("City_wakes_up")}
         => Nominated = {}

(* While the game is played one microphone is on: that of the player whose *)
(* turn it is, and otherwise the moderator's (command.cpp:304-339).        *)
OneSpeaker ==
  ~IsWon(state) /\ fate = "ok" =>
    speakers = IF state[1] \in {"Speaking_player", "Murdered_players_speech"}
               THEN {state[2]} ELSE {0}

(* The room goes on working: no handler is caught in the search of         *)
(* deleteMurderedPlayer for a turn that is not there (room.cpp:347) and    *)
(* none uses the end of players_ (room.cpp:357-358).  It takes clients     *)
(* that offer only living players, and players who stay.                   *)
NeverFails == fate = "ok"

-----------------------------------------------------------------------------
(* What a step may do.                                                     *)

(* Nobody dies unannounced: a player becomes DEAD only at the end of his   *)
(* own last speech (room.cpp:333-358).                                     *)
DeathIsAnnounced ==
  [][\A p \in Position :
       character[p] # "DEAD" /\ character'[p] = "DEAD"
         => state = MurderedSpeech(p)]_vars

(* A SELECT or a departure never moves the game, and NEXT leads where the  *)
(* last GAME_INFO said (command.cpp:346-349), unless a player was just     *)
(* condemned or the game is over.                                          *)
NextIsAsAnnounced ==
  [][state' # state /\ fate' = "ok" =>
       \/ state' = next[state]
       \/ IsWon(state')
       \/ /\ state'[1] = "Was_murdered_player"
          /\ IsBallot(state) \/ state = Phase("Doctor_curing")]_vars

(* The end of the game is final, and the only way the winner changes is    *)
(* that the winning mafia has left the room (room.cpp:279-301).            *)
VictoryIsFinal ==
  [][IsWon(state) =>
       /\ IsWon(state')
       /\ state'[1] # state[1] => state[1] = "Mafia_won_the_game" /\ NoMafia(character)]_vars

(* The server ends a game only when a faction has no living member left in *)
(* the room (room.cpp:279-301): counted here by who lives, there by who is *)
(* neither dead nor the moderator.                                         *)
Alive(p) == character[p] \notin {"DEAD", "NOT_SPECIFIED", "MODERATOR"}
Members(isMafia) == {p \in seated : Alive(p) /\ (character[p] = "MAFIA" <=> isMafia)}
WonOnlyIfOver == IsWon(state) => Members(TRUE) = {} \/ Members(FALSE) = {}

-----------------------------------------------------------------------------
(* What must happen.                                                       *)

(* A living player's turn to speak comes again and again, until the game   *)
(* is over.                                                                *)
EverybodyGetsToSpeak ==
  \A q \in Position \ {0} :
    []<>(state = Speaking(q) \/ character[q] = "DEAD" \/ IsWon(state))

(* Whoever was announced as murdered is dead in the end, even if the walk  *)
(* of deleteMurderedPlayer has to cross the night to find the turn.        *)
AnnouncedVictimDies ==
  \A p \in Targets \cap Position :
    state = WasMurdered(p) ~> character[p] = "DEAD" \/ IsWon(state)

-----------------------------------------------------------------------------
(* The rules of the game (MafiaRules), which the ring implements.          *)

Condemned == IF fate = "ok" /\ state[1] \in {"Was_murdered_player", "Murdered_players_speech"}
             THEN state[2] ELSE Nobody
IsNight(n) == n \in {Phase("Night"), Phase("Mafia_wake_up"), Phase("Mafia_murdered"),
                     Phase("Detective_checking"), Phase("Doctor_curing")}
Result == CASE state[1] = "Villagers_won_the_game" -> "villagers"
            [] state[1] = "Mafia_won_the_game" -> "mafia"
            [] OTHER -> "none"

Rules == INSTANCE MafiaRules WITH
           mafia     <- Members(TRUE),
           citizens  <- Members(FALSE),
           condemned <- Condemned,
           night     <- IF fate = "ok" /\ Condemned # Nobody THEN IsNight(before)
                        ELSE IsNight(state),
           result    <- Result,
           broken    <- fate # "ok",
           Outsider  <- Nobody

(* Every step of the room is a step the rules allow, or changes nothing    *)
(* the rules speak about.                                                  *)
ImplementsRules == Rules!Spec
=============================================================================
