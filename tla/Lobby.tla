-------------------------------- MODULE Lobby --------------------------------
(***************************************************************************)
(* The rooms of a server: Server::rooms_ and playersById_, the handlers of *)
(* NEW_ROOM, ENTER_ROOM and LEAVE_ROOM, connections that fail, and the     *)
(* start of a game when a room is full.                                    *)
(*                                                                         *)
(* The threads of the Hive run the handlers of different connections       *)
(* concurrently and nothing locks the rooms, so a handler is a sequence of *)
(* steps here, one for each access to shared state that another handler    *)
(* may come between.  Of one connection a strand runs one handler at a     *)
(* time.  `at', `goal' and `seat' are the locals of the running handlers.  *)
(***************************************************************************)
EXTENDS Integers, FiniteSets, SequencesExt

CONSTANTS
  Human,       \* players with a connection
  Bot,         \* the players of Server::addBots
  Capacity,    \* what clients ask for as the size of a room
  Garbage,     \* what Room::maxPlayers_ holds before it is set
  BotCapacity, \* size of the room of the bots
  MaskSize,    \* length of Room::positionMask_
  MaxRooms,    \* bound: rooms a run creates
  Threads      \* handlers that may run at the same time

ASSUME PlayersAssumption ==
  /\ IsFiniteSet(Human \cup Bot)
  /\ Human \cap Bot = {}
  /\ Bot # {}
ASSUME CapacityAssumption ==
  /\ Capacity \cup Garbage \cup {BotCapacity} \subseteq Nat
  /\ Garbage # {}
  /\ Cardinality(Bot) < BotCapacity
  /\ Cardinality(Bot) <= MaskSize
ASSUME BoundsAssumption == MaxRooms \in Nat \ {0} /\ Threads \in Nat \ {0} /\ MaskSize \in Nat

VARIABLES
  created,    \* Server::roomIdCounter_
  listed,     \* the rooms in Server::rooms_
  capacity,   \* Room::maxPlayers_
  members,    \* Room::players_
  taken,      \* the positions that are '1' in Room::positionMask_
  status,     \* Room::status_
  timer,      \* the rooms whose timer is armed
  connected,  \* the humans in Server::playersById_
  room,       \* Player::room_
  position,   \* Player::roomPosition_
  character,  \* Player::character, of which only the moderator counts here
  at, goal, seat, \* control point, room and position in the handler of a player
  aborted     \* a failed assert or an access past the end has stopped the server

rooms == <<created, listed, capacity, members, taken, status, timer>>
players == <<connected, room, position, character>>
handler == <<at, goal, seat>>
vars == <<rooms, players, handler, aborted>>

Player == Human \cup Bot
Room == 1 .. MaxRooms
Seat == 0 .. MaskSize - 1
NPos == MaskSize + Cardinality(Player)   \* std::string::npos: more than any position
NoRoom == 0
IncomingSteps == {"size", "status", "insert", "check", "find", "take", "full", "deal", "start"}
LeavingSteps == {"free", "erase", "empty", "delete"}

IndexIn(seq, x) == SelectInSeq(seq, LAMBDA y : y = x)
MinOf(S) == CHOOSE x \in S : \A y \in S : x <= y

(* positionMask_.find('0').                                                *)
FirstFree(mask) == IF Seat \subseteq mask THEN NPos ELSE MinOf(Seat \ mask)

(* The state after Server::addBots: room 1 waits for players with the bots *)
(* in its first positions.                                                 *)
Init ==
  /\ created = 1
  /\ listed = {1}
  /\ capacity = [r \in Room |-> BotCapacity]
  /\ members = [r \in Room |-> IF r = 1 THEN Bot ELSE {}]
  /\ taken = [r \in Room |-> IF r = 1 THEN 0 .. Cardinality(Bot) - 1 ELSE {}]
  /\ status = [r \in Room |-> "WAITING"]
  /\ timer = {1}
  /\ connected = {}
  /\ room = [p \in Player |-> IF p \in Bot THEN 1 ELSE NoRoom]
  /\ \E order \in SetToSeqs(Bot) :
       position = [p \in Player |-> IF p \in Bot THEN IndexIn(order, p) - 1 ELSE 0]
  /\ character = [p \in Player |-> "NOT_SPECIFIED"]
  /\ at = [p \in Player |-> "idle"]
  /\ goal = [p \in Player |-> NoRoom]
  /\ seat = [p \in Player |-> 0]
  /\ aborted = FALSE

Running == {p \in Human : at[p] # "idle"}
Quiet == Running = {} /\ ~aborted

(* A thread is free to run a handler of the connection of p.               *)
Ready(p) ==
  /\ ~aborted
  /\ p \in connected
  /\ at[p] = "idle"
  /\ Cardinality(Running) < Threads

(* A handler begins for room r, goes on with its next step, and ends.      *)
Begin(p, step, r) ==
  /\ at' = [at EXCEPT ![p] = step]
  /\ goal' = [goal EXCEPT ![p] = IF step = "idle" THEN NoRoom ELSE r]
Goto(p, step) == Begin(p, step, goal[p])
Step(p, step) == ~aborted /\ at[p] = step

-----------------------------------------------------------------------------
(* Coming.                                                                 *)

(* MyConnection::onAccept: every connection gets a new Player.             *)
Connect(p) ==
  /\ ~aborted
  /\ p \in Human \ connected
  /\ at[p] = "idle"
  /\ connected' = connected \cup {p}
  /\ UNCHANGED <<rooms, room, position, character, handler, aborted>>

(* NEW_ROOM: createNewRoomInstance puts the room in rooms_ before its size *)
(* is set, which no constructor does, and before its creator is in it.     *)
(* The client offers it to players who are in no room.                     *)
CreateNewRoom(p) ==
  /\ Ready(p)
  /\ room[p] = NoRoom
  /\ created < MaxRooms
  /\ created' = created + 1
  /\ listed' = listed \cup {created + 1}
  /\ \E garbage \in Garbage : capacity' = [capacity EXCEPT ![created + 1] = garbage]
  /\ Begin(p, "size", created + 1)
  /\ UNCHANGED <<members, taken, status, timer, players, seat, aborted>>

(* The size is any number that the client has sent.                        *)
SetMaximumPlayers(p, size) ==
  /\ Step(p, "size")
  /\ capacity' = [capacity EXCEPT ![goal[p]] = size]
  /\ Goto(p, "status")
  /\ UNCHANGED <<created, listed, members, taken, status, timer, players, seat, aborted>>

(* ENTER_ROOM: getRoomById.  Without such a room nothing happens.  A wrong *)
(* password changes nothing either.                                        *)
EnterRoom(p, r) ==
  /\ Ready(p)
  /\ room[p] = NoRoom
  /\ r \in listed
  /\ Begin(p, "status", r)
  /\ UNCHANGED <<rooms, players, seat, aborted>>

(* Variant: the status does not matter.                                    *)
IgnoreStatus(p) ==
  /\ Step(p, "status")
  /\ Goto(p, "insert")
  /\ UNCHANGED <<rooms, players, seat, aborted>>

(* enterRoom tests the status and leaves the rest to Room::join.           *)
TestStatus(p) ==
  /\ Step(p, "status")
  /\ Goto(p, IF status[goal[p]] = "PLAYING" THEN "idle" ELSE "insert")
  /\ UNCHANGED <<rooms, players, seat, aborted>>

Insert(p) ==
  /\ Step(p, "insert")
  /\ members' = [members EXCEPT ![goal[p]] = @ \cup {p}]
  /\ room' = [room EXCEPT ![p] = goal[p]]
  /\ Goto(p, "check")
  /\ UNCHANGED <<created, listed, capacity, taken, status, timer, connected, position,
                 character, seat, aborted>>

(* Variant: the timer is started by whoever opens the second half.         *)
CheckSizeLate(p) ==
  /\ Step(p, "check")
  /\ Cardinality(members[goal[p]]) <= capacity[goal[p]]
  /\ timer' = IF Cardinality(members[goal[p]]) = 2 THEN timer \cup {goal[p]} ELSE timer
  /\ Goto(p, "find")
  /\ UNCHANGED <<created, listed, capacity, members, taken, status, players, seat, aborted>>

(* assert(players_.size() <= maxPlayers_), and the first player starts the *)
(* timer of the room.                                                      *)
CheckSize(p) ==
  /\ Step(p, "check")
  /\ LET size == Cardinality(members[goal[p]])
     IN  /\ aborted' = (size > capacity[goal[p]])
         /\ timer' = IF ~aborted' /\ size = 1 THEN timer \cup {goal[p]} ELSE timer
  /\ Goto(p, "find")
  /\ UNCHANGED <<created, listed, capacity, members, taken, status, players, seat>>

FindSeat(p) ==
  /\ Step(p, "find")
  /\ seat' = [seat EXCEPT ![p] = FirstFree(taken[goal[p]])]
  /\ Goto(p, "take")
  /\ UNCHANGED <<rooms, players, aborted>>

(* Without a free position the mask is written past its end.               *)
TakeSeat(p) ==
  /\ Step(p, "take")
  /\ position' = [position EXCEPT ![p] = seat[p]]
  /\ taken' = [taken EXCEPT ![goal[p]] = @ \cup ({seat[p]} \cap Seat)]
  /\ aborted' = (seat[p] = NPos)
  /\ seat' = [seat EXCEPT ![p] = 0]
  /\ Goto(p, "full")
  /\ UNCHANGED <<created, listed, capacity, members, status, timer, connected, room, character>>

(* Variant: the first free position is taken in any case.                  *)
ResetMaskAlways(r, order) ==
  FoldLeft(LAMBDA mask, p : (mask \ {position[p]}) \cup {FirstFree(mask)}, taken[r], order)

(* Room::resetPlayerPositionsConsequently for players in the order of the  *)
(* set, of whose mask only the result is used: every player in turn moves  *)
(* to the first free position if that is before his own.                   *)
ResetMask(r, order) ==
  FoldLeft(LAMBDA mask, p :
             LET free == FirstFree(mask)
             IN  IF free < position[p] THEN (mask \ {position[p]}) \cup {free} ELSE mask,
           taken[r], order)

(* Room::assignCharactersRandomly: the first player who is no bot becomes  *)
(* the moderator, at position 0; the others are shuffled.                  *)
MayModerate(r) == members[r] \ Bot

Reseated(r, seating) ==
  [p \in Player |-> IF p \in members[r] THEN IndexIn(seating, p) - 1 ELSE position[p]]

(* Variant: the game is started one player too early.                      *)
TestFullTooEarly(p) ==
  /\ Step(p, "full")
  /\ Goto(p, IF Cardinality(members[goal[p]]) + 1 >= capacity[goal[p]] THEN "deal" ELSE "idle")
  /\ UNCHANGED <<rooms, players, seat, aborted>>

TestFull(p) ==
  /\ Step(p, "full")
  /\ Goto(p, IF Cardinality(members[goal[p]]) = capacity[goal[p]] THEN "deal" ELSE "idle")
  /\ UNCHANGED <<rooms, players, seat, aborted>>

(* Moderator, detective, doctor and mafia are dealt by the size of the     *)
(* room, where the number of mafia of a room of one is a huge one; with    *)
(* fewer players left the code writes past its list.                       *)
EnoughPlayers(r) ==
  /\ capacity[r] >= 2
  /\ 3 + (capacity[r] - 2) \div 3 <= Cardinality(members[r])

(* A position past the mask, as a deal to more players than it is for has  *)
(* left, would be given back there.                                        *)
PositionsInMask(r) == Seat \subseteq taken[r] \/ \A q \in members[r] : position[q] \in Seat

Deal(p) ==
  LET r == goal[p]
  IN  /\ Step(p, "deal")
      /\ \E order \in SetToSeqs(members[r]) :
           taken' = [taken EXCEPT ![r] = ResetMask(r, order)]
      /\ \E seating \in SetToSeqs(members[r]) :
           /\ seating[1] \in MayModerate(r)
           /\ position' = Reseated(r, seating)
           /\ character' = [q \in Player |->
                CASE q \notin members[r] -> character[q]
                  [] q = seating[1]      -> "MODERATOR"
                  [] OTHER               -> "PLAYER"]
      /\ aborted' = ~(EnoughPlayers(r) /\ PositionsInMask(r))
      /\ Goto(p, "start")
      /\ UNCHANGED <<created, listed, capacity, members, status, timer, connected, room, seat>>

StartGame(p) ==
  /\ Step(p, "start")
  /\ status' = [status EXCEPT ![goal[p]] = "PLAYING"]
  /\ Goto(p, "idle")
  /\ UNCHANGED <<created, listed, capacity, members, taken, timer, players, seat, aborted>>

-----------------------------------------------------------------------------
(* Going.                                                                  *)

(* command::leaveRoom, for LEAVE_ROOM and, with `connected' changed, for   *)
(* Server::deletePlayer.  Without a room it does nothing.                  *)
LeaveRoom(p) ==
  /\ Ready(p)
  /\ room[p] # NoRoom
  /\ Begin(p, "free", room[p])
  /\ UNCHANGED <<rooms, players, seat, aborted>>

(* MyConnection::onError.  The player is taken off playersById_ last, but  *)
(* no handler looks him up before: his connection has no more of them.     *)
Disconnect(p) ==
  /\ Ready(p)
  /\ connected' = connected \ {p}
  /\ Begin(p, IF room[p] = NoRoom THEN "idle" ELSE "free", room[p])
  /\ UNCHANGED <<rooms, room, position, character, seat, aborted>>

(* Variant: the position is not given back.                                *)
KeepSeat(p) ==
  /\ Step(p, "free")
  /\ Goto(p, "erase")
  /\ UNCHANGED <<rooms, players, seat, aborted>>

(* Room::erasePlayer, first statement.                                     *)
FreeSeat(p) ==
  /\ Step(p, "free")
  /\ taken' = [taken EXCEPT ![goal[p]] = @ \ {position[p]}]
  /\ aborted' = (position[p] \notin Seat)
  /\ Goto(p, "erase")
  /\ UNCHANGED <<created, listed, capacity, members, status, timer, players, seat>>

(* Variant: the player still refers to the room.                           *)
ErasePlayerFromRoom(p) ==
  /\ Step(p, "erase")
  /\ members' = [members EXCEPT ![goal[p]] = @ \ {p}]
  /\ Goto(p, "empty")
  /\ UNCHANGED <<created, listed, capacity, taken, status, timer, players, seat, aborted>>

(* Its second statement, and Player::setRoom(nullptr).                     *)
ErasePlayer(p) ==
  /\ Step(p, "erase")
  /\ members' = [members EXCEPT ![goal[p]] = @ \ {p}]
  /\ room' = [room EXCEPT ![p] = NoRoom]
  /\ position' = [position EXCEPT ![p] = 0]
  /\ character' = [character EXCEPT ![p] = "NOT_SPECIFIED"]
  /\ Goto(p, "empty")
  /\ UNCHANGED <<created, listed, capacity, taken, status, timer, connected, seat, aborted>>

TestEmpty(p) ==
  /\ Step(p, "empty")
  /\ Goto(p, IF members[goal[p]] = {} THEN "delete" ELSE "idle")
  /\ UNCHANGED <<rooms, players, seat, aborted>>

(* Variant: a room that is being played is kept.                           *)
DeleteWaitingRoom(p) ==
  /\ Step(p, "delete")
  /\ listed' = IF status[goal[p]] = "WAITING" THEN listed \ {goal[p]} ELSE listed
  /\ Goto(p, "idle")
  /\ UNCHANGED <<created, capacity, members, taken, status, timer, players, seat, aborted>>

DeleteRoom(p) ==
  /\ Step(p, "delete")
  /\ listed' = listed \ {goal[p]}
  /\ Goto(p, "idle")
  /\ UNCHANGED <<created, capacity, members, taken, status, timer, players, seat, aborted>>

(* Room::handleTimer of an empty room does not arm the timer again.        *)
TimerStops(r) ==
  /\ ~aborted
  /\ Cardinality(Running) < Threads
  /\ r \in timer
  /\ members[r] = {}
  /\ timer' = timer \ {r}
  /\ UNCHANGED <<created, listed, capacity, members, taken, status, players, handler, aborted>>

-----------------------------------------------------------------------------
Come(p) ==
  \/ Connect(p)
  \/ CreateNewRoom(p)
  \/ \E size \in Capacity : SetMaximumPlayers(p, size)
  \/ \E r \in Room : EnterRoom(p, r)
  \/ TestStatus(p)
  \/ Insert(p)
  \/ CheckSize(p)
  \/ FindSeat(p)
  \/ TakeSeat(p)
  \/ TestFull(p)
  \/ Deal(p)
  \/ StartGame(p)

Go(p) ==
  \/ LeaveRoom(p)
  \/ Disconnect(p)
  \/ FreeSeat(p)
  \/ ErasePlayer(p)
  \/ TestEmpty(p)
  \/ DeleteRoom(p)

Next ==
  \/ \E p \in Human : Come(p) \/ Go(p)
  \/ \E r \in Room : TimerStops(r)

Spec == Init /\ [][Next]_vars

-----------------------------------------------------------------------------
(* Every variable keeps its type: what is marked in the mask is a position *)
(* of the mask, however often positions are given and moved.               *)
TypeOK ==
  /\ created \in Room
  /\ listed \subseteq 1 .. created
  /\ capacity \in [Room -> Capacity \cup Garbage \cup {BotCapacity}]
  /\ members \in [Room -> SUBSET Player]
  /\ taken \in [Room -> SUBSET Seat]
  /\ status \in [Room -> {"WAITING", "PLAYING"}]
  /\ timer \subseteq Room
  /\ connected \subseteq Human
  /\ room \in [Player -> Room \cup {NoRoom}]
  /\ position \in [Player -> 0 .. NPos]
  /\ character \in [Player -> {"MODERATOR", "PLAYER", "NOT_SPECIFIED"}]
  /\ at \in [Player -> {"idle"} \cup IncomingSteps \cup LeavingSteps]
  /\ goal \in [Player -> Room \cup {NoRoom}]
  /\ seat \in [Player -> Seat \cup {NPos}]
  /\ aborted \in BOOLEAN

(* The two ends of membership agree for everyone who has no handler        *)
(* running, whatever the handlers of the others do: a player is in the set *)
(* of exactly the room he refers to (room.cpp:28-29, 58-59), and after his *)
(* connection has failed of none.                                          *)
MembershipAgrees ==
  \A p \in Player : at[p] = "idle" =>
    /\ \A r \in Room : p \in members[r] <=> room[p] = r
    /\ p \in Human \ connected => room[p] = NoRoom

(* When the handlers have ended no empty room is left in the list, however *)
(* the last players left and others entered at the same time               *)
(* (command.cpp:249-252).                                                  *)
EmptyRoomsAreDeleted == Quiet => \A r \in listed : members[r] # {}

(* No bot is the moderator (room.cpp:422).                                 *)
NoBotModerates == \A b \in Bot : character[b] # "MODERATOR"

(* The assertion of room.cpp:30.                                           *)
NeverAborts == ~aborted

-----------------------------------------------------------------------------
(* What holds when handlers do not overlap (Threads = 1), and fails when   *)
(* they do.                                                                *)

(* The mask shows the positions of the members, so that a newcomer gets a  *)
(* position nobody has (room.cpp:38-40, 57), before and after the game     *)
(* started.                                                                *)
MaskShowsSeats ==
  Quiet => \A r \in listed :
             /\ taken[r] = {position[p] : p \in members[r]}
             /\ Cardinality(taken[r]) = Cardinality(members[r])

(* An occupied room can be found by others and gets its video: it is in    *)
(* the list and its timer is armed (room.cpp:32-35, 147-150).              *)
OccupiedRoomsRun == Quiet => \A r \in Room : members[r] # {} => r \in listed /\ r \in timer

(* Nothing but the size of a room stops the server: in rooms for three or  *)
(* more players, up to the length of the mask, the assertion of            *)
(* room.cpp:30 holds, every newcomer finds a free position (room.cpp:38-40)*)
(* and there are as many players as characters to deal (room.cpp:435-447). *)
AbortsOnlyBySize ==
  aborted => \E p \in Human : at[p] # "idle" /\ capacity[goal[p]] \notin 3 .. MaskSize

(* Games start full, and full rooms start their game: when a game starts,  *)
(* the room has all its players, they sit at the positions from 0 on, and  *)
(* the one at 0 and nobody else is the moderator; and when no handler runs *)
(* a room that waits has a place left (room.cpp:42-51, 418-454).           *)
GamesStartFull ==
  [][/\ \A r \in Room : status[r] = "WAITING" /\ status'[r] = "PLAYING" =>
          /\ Cardinality(members[r]) = capacity[r]
          /\ {position[p] : p \in members[r]} = 0 .. capacity[r] - 1
          /\ \A p \in members[r] : character[p] = "MODERATOR" <=> position[p] = 0
     /\ Quiet' => \A r \in listed' :
          status'[r] = "WAITING" => Cardinality(members'[r]) < capacity'[r]]_vars

(* Nobody joins a game that is played (command.cpp:203-207), and the roles *)
(* are dealt once (room.cpp:42-51).                                        *)
GamesAreClosed ==
  [][\A r \in Room : status[r] = "PLAYING" =>
       /\ members'[r] \subseteq members[r]
       /\ \A p \in members'[r] : character'[p] = character[p]]_vars
=============================================================================
