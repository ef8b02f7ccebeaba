----------------------------- MODULE LobbyNews -----------------------------
(***************************************************************************)
(* What the server tells its clients about the rooms of Lobby: ROOMS_LIST, *)
(* ROOM_INFO and START_GAME, sent at the end of the handlers that change   *)
(* rooms.  A client asks for the list once and relies on being told.       *)
(*                                                                         *)
(* The messages belong to the last step of a handler, which is exact only  *)
(* when handlers do not overlap (Threads = 1).                             *)
(***************************************************************************)
EXTENDS Lobby

ASSUME OneHandlerAssumption == Threads = 1

VARIABLES
  list,   \* the last list of rooms each client was sent: {} or {the list}
  info,   \* the last ROOM_INFO each client was sent: {} or {the information}
  role    \* what START_GAME last told each client: {} or {role and position}

news == <<list, info, role>>

NewsInit ==
  /\ Init
  /\ list = [p \in Human |-> {}]
  /\ info = [p \in Human |-> {}]
  /\ role = [p \in Human |-> {}]

-----------------------------------------------------------------------------
(* command::sendRoomList, sendRoomInformation and the message of startGame.*)
RoomList ==
  {[room |-> r, status |-> status[r], size |-> Cardinality(members[r]),
    capacity |-> capacity[r]] : r \in listed}
RoomInformation(p, r) ==
  [success |-> p \in members[r], size |-> Cardinality(members[r]),
   position |-> position[p], room |-> r, mask |-> taken[r]]
RoleOf(p) == [character |-> character[p], position |-> position[p]]

(* Variant: the members of the room get the list.                          *)
UpdateRoomListOfMembers(r) ==
  list' = [p \in Human |-> IF p \in connected /\ room'[p] = r THEN {RoomList'} ELSE list[p]]

(* Server::updateRoomList, called for room r.                              *)
UpdateRoomList(r) ==
  list' = [p \in Human |-> IF p \in connected /\ room'[p] = NoRoom THEN {RoomList'}
                           ELSE list[p]]

(* Server::updateRoomInfo.                                                 *)
UpdateRoomInfo(of) ==
  \E r \in {of} :
    info' = [p \in Human |-> IF p \in members'[r] THEN {RoomInformation(p, r)'} ELSE info[p]]

-----------------------------------------------------------------------------
(* The ends of the handlers.                                               *)

(* The client shows the list while it is in no room and the rest while it  *)
(* is in one; what it does not show it forgets.                            *)
Enter(p) ==
  /\ Insert(p)
  /\ list' = [list EXCEPT ![p] = {}]
  /\ UNCHANGED <<info, role>>

Exit(p) ==
  /\ ErasePlayer(p)
  /\ info' = [info EXCEPT ![p] = {}]
  /\ role' = [role EXCEPT ![p] = {}]
  /\ UNCHANGED list

(* enterRoom after a join that did not start the game, ...                 *)
Join(p) ==
  /\ TestFull(p)
  /\ at'[p] = "idle"
  /\ UpdateRoomInfo(goal[p])
  /\ UpdateRoomList(goal[p])
  /\ UNCHANGED role

(* ... and after one that did: command::startGame.                         *)
JoinAndStart(p) ==
  /\ StartGame(p)
  /\ role' = [q \in Human |-> IF q \in members[goal[p]] THEN {RoleOf(q)} ELSE role[q]]
  /\ UpdateRoomInfo(goal[p])
  /\ UpdateRoomList(goal[p])

(* leaveRoom, with others in the room or not.                              *)
Leave(p) ==
  /\ TestEmpty(p)
  /\ at'[p] = "idle"
  /\ UpdateRoomInfo(goal[p])
  /\ UpdateRoomList(goal[p])
  /\ UNCHANGED role

LeaveLast(p) ==
  /\ DeleteRoom(p)
  /\ UpdateRoomList(goal[p])
  /\ UNCHANGED <<info, role>>

(* A client that comes back knows nothing.                                 *)
Forget(p) ==
  /\ Disconnect(p)
  /\ list' = [list EXCEPT ![p] = {}]
  /\ UNCHANGED <<info, role>>

(* ROOMS_LIST and ROOM_INFO, asked for the room a client is in.            *)
AskRoomList(p) ==
  /\ Ready(p)
  /\ room[p] = NoRoom
  /\ list' = [list EXCEPT ![p] = {RoomList}]
  /\ UNCHANGED <<vars, info, role>>

AskRoomInfo(p) ==
  /\ Ready(p)
  /\ room[p] # NoRoom
  /\ info' = [info EXCEPT ![p] = {RoomInformation(p, room[p])}]
  /\ UNCHANGED <<vars, list, role>>

(* The steps of the handlers that send nothing; enterRoom of a game that   *)
(* is played tells the player only that he is not in it.                   *)
Silent(p) ==
  /\ \/ Connect(p)
     \/ CreateNewRoom(p)
     \/ \E size \in Capacity : SetMaximumPlayers(p, size)
     \/ \E r \in Room : EnterRoom(p, r)
     \/ TestStatus(p) \/ CheckSize(p) \/ FindSeat(p) \/ TakeSeat(p)
     \/ (TestFull(p) \/ TestEmpty(p)) /\ at'[p] # "idle"
     \/ Deal(p)
     \/ LeaveRoom(p) \/ FreeSeat(p)
  /\ UNCHANGED news

NewsNext ==
  \/ \E p \in Human :
       \/ Silent(p) \/ Enter(p) \/ Exit(p)
       \/ Join(p) \/ JoinAndStart(p) \/ Leave(p) \/ LeaveLast(p)
       \/ Forget(p) \/ AskRoomList(p) \/ AskRoomInfo(p)
  \/ \E r \in Room : TimerStops(r) /\ UNCHANGED news

NewsSpec == NewsInit /\ [][NewsNext]_<<vars, news>>

-----------------------------------------------------------------------------
(* Between two handlers nobody is shown rooms that are different now: a    *)
(* client that is in no room and has asked for the list has the rooms as   *)
(* they are, one that is in a room has its members and positions, and one  *)
(* in a game has the role and the position he was dealt, whatever others   *)
(* did since (command.cpp:214-215, 253-260, 280, server.cpp:79-112).       *)
ClientsAreCurrent ==
  Quiet => \A p \in connected :
    /\ room[p] = NoRoom => list[p] \subseteq {RoomList}
    /\ room[p] # NoRoom => info[p] = {RoomInformation(p, room[p])}
    /\ room[p] # NoRoom /\ status[room[p]] = "PLAYING" => role[p] = {RoleOf(p)}
=============================================================================
