----------------------------- MODULE Lobby_proofs -----------------------------
(***************************************************************************)
(* Theorems about Lobby, for any number of players, rooms and threads:     *)
(* what is true of rooms however the handlers overlap.                     *)
(*                                                                         *)
(* The sections are: the invariant; one lemma for each step, which shows   *)
(* that it keeps every part of the invariant; and the theorems.            *)
(***************************************************************************)
EXTENDS Lobby, TLAPS

(* A handler between the insertion of its player and its end.              *)
Inside == {"check", "find", "take", "full", "deal", "start"}

Types ==
  /\ created \in Room
  /\ listed \subseteq 1 .. created
  /\ members \in [Room -> SUBSET Player]
  /\ status \in [Room -> {"WAITING", "PLAYING"}]
  /\ connected \subseteq Human
  /\ room \in [Player -> 0 .. created]
  /\ character \in [Player -> {"MODERATOR", "PLAYER", "NOT_SPECIFIED"}]
  /\ at \in [Player -> {"idle"} \cup IncomingSteps \cup LeavingSteps]
  /\ goal \in [Player -> Room \cup {NoRoom}]

(* The two ends of membership agree all the time.                          *)
Members == \A p \in Player, r \in Room : p \in members[r] <=> room[p] = r

(* Where the player of a handler is, by the handler's next step.           *)
Handlers ==
  \A p \in Player :
    /\ at[p] # "idle" => goal[p] \in 1 .. created
    /\ at[p] \in {"size", "status", "insert", "empty", "delete"} => room[p] = NoRoom
    /\ at[p] \in Inside \cup {"free", "erase"} => room[p] = goal[p]
    /\ p \in Human \ connected => at[p] \in {"idle"} \cup LeavingSteps
    /\ p \in Human \ connected /\ at[p] = "idle" => room[p] = NoRoom

(* Rooms that are not yet created wait for players.                        *)
Unused == \A r \in Room : r > created => status[r] = "WAITING"

(* Somebody looks after every empty room of the list: he has created it or *)
(* is about to enter it, or has not yet come to delete it.                 *)
Tends(p, r) ==
  /\ goal[p] = r
  /\ \/ at[p] \in {"insert", "empty", "delete"}
     \/ at[p] \in {"size", "status"} /\ status[r] = "WAITING"

Tended == \A r \in listed : members[r] = {} => \E p \in Human : Tends(p, r)

LobbyInv == Types /\ Members /\ Handlers /\ Unused /\ Tended /\ NoBotModerates

(* A connection is accepted.                                               *)
LEMMA ConnectKeeps ==
  ASSUME LobbyInv, NEW p \in Human, Connect(p)
  PROVE  LobbyInv'
  <1> USE DEF LobbyInv, Types, IncomingSteps, LeavingSteps, Player, NoRoom
  <1>1. Types'
    BY BoundsAssumption DEF Connect, Ready, Begin, rooms, players, handler, Room
  <1>2. Members'
    BY DEF Connect, Ready, Begin, rooms, players, handler, Members
  <1>3. Handlers'
    BY DEF Connect, Ready, Begin, rooms, players, handler, Handlers, Inside
  <1>4. Unused'
    BY DEF Connect, Ready, Begin, rooms, players, handler, Unused
  <1>5. Tended'
    BY DEF Connect, Ready, Begin, rooms, players, handler, Tended, Tends
  <1>6. NoBotModerates'
    BY DEF Connect, Ready, Begin, rooms, players, handler, NoBotModerates
  <1> QED BY <1>1, <1>2, <1>3, <1>4, <1>5, <1>6

(* A room is created, and its creator looks after it.                      *)
LEMMA CreateNewRoomKeeps ==
  ASSUME LobbyInv, NEW p \in Human, CreateNewRoom(p)
  PROVE  LobbyInv'
  <1> USE DEF LobbyInv, Types, IncomingSteps, LeavingSteps, Player, NoRoom
  <1>0. created \in Nat /\ created + 1 \in Room /\ created + 1 > created
    BY BoundsAssumption DEF CreateNewRoom, Room
  <1>1. Types'
    <2>1. created' = created + 1
      BY DEF CreateNewRoom
    <2>2. \A r \in 0 .. created : r \in 0 .. created'
      BY <1>0, <2>1
    <2> QED BY <1>0, <2>1, <2>2 DEF CreateNewRoom, Ready, Begin, players
  <1>2. Members'
    BY DEF CreateNewRoom, Ready, Begin, rooms, players, handler, Members
  <1>3. Handlers'
    <2>1. /\ created' = created + 1
          /\ at' = [at EXCEPT ![p] = "size"]
          /\ goal' = [goal EXCEPT ![p] = created + 1]
          /\ room' = room /\ connected' = connected
          /\ room[p] = NoRoom /\ p \in connected
      BY DEF CreateNewRoom, Ready, Begin, players
    <2>2. \A r \in 1 .. created : r \in 1 .. created'
      BY <1>0, <2>1
    <2>3. created + 1 \in 1 .. created'
      BY <1>0, <2>1
    <2> QED BY <1>0, <2>1, <2>2, <2>3 DEF Handlers, Inside
  <1>4. Unused'
    <2>1. created' = created + 1 /\ status' = status
      BY DEF CreateNewRoom
    <2> QED BY <1>0, <2>1 DEF Unused, Room
  <1>5. Tended'
    <2>1. /\ listed' = listed \cup {created + 1}
          /\ members' = members /\ status' = status
          /\ at' = [at EXCEPT ![p] = "size"]
          /\ goal' = [goal EXCEPT ![p] = created + 1]
          /\ at[p] = "idle"
      BY DEF CreateNewRoom, Ready, Begin
    <2>2. status[created + 1] = "WAITING"
      BY <1>0 DEF Unused
    <2>3. /\ goal'[p] = created + 1 /\ at'[p] = "size"
          /\ status'[created + 1] = "WAITING"
      BY <2>1, <2>2
    <2>4. \A q \in Human, r \in listed :
            Tends(q, r) => /\ goal'[q] = r
                           /\ \/ at'[q] \in {"insert", "empty", "delete"}
                              \/ at'[q] \in {"size", "status"} /\ status'[r] = "WAITING"
      BY <2>1 DEF Tends
    <2> SUFFICES ASSUME NEW r \in listed', members[r] = {}
                 PROVE  \E q \in Human : Tends(q, r)'
      BY <2>1 DEF Tended
    <2>5. CASE r = created + 1
      BY <2>3, <2>5 DEF Tends
    <2>6. CASE r \in listed
      BY <2>4, <2>6 DEF Tended, Tends
    <2> QED BY <2>1, <2>5, <2>6
  <1>6. NoBotModerates'
    BY DEF CreateNewRoom, Ready, Begin, rooms, players, handler, NoBotModerates
  <1> QED BY <1>1, <1>2, <1>3, <1>4, <1>5, <1>6

(* The size of the room is set; its creator goes on to enter it.           *)
LEMMA SetMaximumPlayersKeeps ==
  ASSUME LobbyInv, NEW p \in Human, NEW size \in Capacity, SetMaximumPlayers(p, size)
  PROVE  LobbyInv'
  <1> USE DEF LobbyInv, Types, IncomingSteps, LeavingSteps, Player, NoRoom
  <1>1. Types'
    BY BoundsAssumption DEF SetMaximumPlayers, Step, Goto, Begin, rooms, players, Room
  <1>2. Members'
    BY DEF SetMaximumPlayers, Step, Goto, Begin, rooms, players, Members
  <1>3. Handlers'
    BY DEF SetMaximumPlayers, Step, Goto, Begin, rooms, players, Handlers, Inside
  <1>4. Unused'
    BY DEF SetMaximumPlayers, Step, Goto, Begin, rooms, players, Unused
  <1>5. Tended'
    BY DEF SetMaximumPlayers, Step, Goto, Begin, rooms, players, Tended, Tends
  <1>6. NoBotModerates'
    BY DEF SetMaximumPlayers, Step, Goto, Begin, rooms, players, NoBotModerates
  <1> QED BY <1>1, <1>2, <1>3, <1>4, <1>5, <1>6

(* A room is looked up.                                                    *)
LEMMA EnterRoomKeeps ==
  ASSUME LobbyInv, NEW p \in Human, NEW r \in Room, EnterRoom(p, r)
  PROVE  LobbyInv'
  <1> USE DEF LobbyInv, Types, IncomingSteps, LeavingSteps, Player, NoRoom
  <1>1. Types'
    BY BoundsAssumption DEF EnterRoom, Ready, Begin, rooms, players, handler, Room
  <1>2. Members'
    BY DEF EnterRoom, Ready, Begin, rooms, players, handler, Members
  <1>3. Handlers'
    BY DEF EnterRoom, Ready, Begin, rooms, players, handler, Handlers, Inside
  <1>4. Unused'
    BY DEF EnterRoom, Ready, Begin, rooms, players, handler, Unused
  <1>5. Tended'
    BY DEF EnterRoom, Ready, Begin, rooms, players, handler, Tended, Tends
  <1>6. NoBotModerates'
    BY DEF EnterRoom, Ready, Begin, rooms, players, handler, NoBotModerates
  <1> QED BY <1>1, <1>2, <1>3, <1>4, <1>5, <1>6

(* The status of the room is tested.                                       *)
LEMMA TestStatusKeeps ==
  ASSUME LobbyInv, NEW p \in Human, TestStatus(p)
  PROVE  LobbyInv'
  <1> USE DEF LobbyInv, Types, IncomingSteps, LeavingSteps, Player, NoRoom
  <1>1. Types'
    BY BoundsAssumption DEF TestStatus, Step, Goto, Begin, rooms, players, Room
  <1>2. Members'
    BY DEF TestStatus, Step, Goto, Begin, rooms, players, Members
  <1>3. Handlers'
    BY DEF TestStatus, Step, Goto, Begin, rooms, players, Handlers, Inside
  <1>4. Unused'
    BY DEF TestStatus, Step, Goto, Begin, rooms, players, Unused
  <1>5. Tended'
    BY DEF TestStatus, Step, Goto, Begin, rooms, players, Tended, Tends
  <1>6. NoBotModerates'
    BY DEF TestStatus, Step, Goto, Begin, rooms, players, NoBotModerates
  <1> QED BY <1>1, <1>2, <1>3, <1>4, <1>5, <1>6

(* The two ends of membership are set together.                            *)
LEMMA InsertKeeps ==
  ASSUME LobbyInv, NEW p \in Human, Insert(p)
  PROVE  LobbyInv'
  <1> USE DEF LobbyInv, Types, IncomingSteps, LeavingSteps, Player, NoRoom
  <1>1. Types'
    <2>1. goal[p] \in 0 .. created
      BY DEF Insert, Step, Handlers
    <2> QED BY <2>1 DEF Insert, Step, Goto, Begin, Room
  <1>2. Members'
    <2>1. /\ goal[p] \in Room /\ room[p] = NoRoom
          /\ members' = [members EXCEPT ![goal[p]] = @ \cup {p}]
          /\ room' = [room EXCEPT ![p] = goal[p]]
      BY DEF Insert, Step, Handlers, Room
    <2> SUFFICES ASSUME NEW q \in Player, NEW r \in Room
                 PROVE  q \in members'[r] <=> room'[q] = r
      BY DEF Members
    <2>2. CASE q = p
      BY <2>1, <2>2 DEF Members, Room
    <2>3. CASE q # p
      BY <2>1, <2>3 DEF Members
    <2> QED BY <2>2, <2>3
  <1>3. Handlers'
    BY DEF Insert, Step, Goto, Begin, rooms, players, Handlers, Inside
  <1>4. Unused'
    BY DEF Insert, Step, Goto, Begin, rooms, players, Unused
  <1>5. Tended'
    BY DEF Insert, Step, Goto, Begin, rooms, players, Tended, Tends
  <1>6. NoBotModerates'
    BY DEF Insert, Step, Goto, Begin, rooms, players, NoBotModerates
  <1> QED BY <1>1, <1>2, <1>3, <1>4, <1>5, <1>6

(* The room is counted.                                                    *)
LEMMA CheckSizeKeeps ==
  ASSUME LobbyInv, NEW p \in Human, CheckSize(p)
  PROVE  LobbyInv'
  <1> USE DEF LobbyInv, Types, IncomingSteps, LeavingSteps, Player, NoRoom
  <1>1. Types'
    BY BoundsAssumption DEF CheckSize, Step, Goto, Begin, rooms, players, Room
  <1>2. Members'
    BY DEF CheckSize, Step, Goto, Begin, rooms, players, Members
  <1>3. Handlers'
    BY DEF CheckSize, Step, Goto, Begin, rooms, players, Handlers, Inside
  <1>4. Unused'
    BY DEF CheckSize, Step, Goto, Begin, rooms, players, Unused
  <1>5. Tended'
    BY DEF CheckSize, Step, Goto, Begin, rooms, players, Tended, Tends
  <1>6. NoBotModerates'
    BY DEF CheckSize, Step, Goto, Begin, rooms, players, NoBotModerates
  <1> QED BY <1>1, <1>2, <1>3, <1>4, <1>5, <1>6

(* A position is looked up.                                                *)
LEMMA FindSeatKeeps ==
  ASSUME LobbyInv, NEW p \in Human, FindSeat(p)
  PROVE  LobbyInv'
  <1> USE DEF LobbyInv, Types, IncomingSteps, LeavingSteps, Player, NoRoom
  <1>1. Types'
    BY BoundsAssumption DEF FindSeat, Step, Goto, Begin, rooms, players, Room
  <1>2. Members'
    BY DEF FindSeat, Step, Goto, Begin, rooms, players, Members
  <1>3. Handlers'
    BY DEF FindSeat, Step, Goto, Begin, rooms, players, Handlers, Inside
  <1>4. Unused'
    BY DEF FindSeat, Step, Goto, Begin, rooms, players, Unused
  <1>5. Tended'
    BY DEF FindSeat, Step, Goto, Begin, rooms, players, Tended, Tends
  <1>6. NoBotModerates'
    BY DEF FindSeat, Step, Goto, Begin, rooms, players, NoBotModerates
  <1> QED BY <1>1, <1>2, <1>3, <1>4, <1>5, <1>6

(* A position is taken.                                                    *)
LEMMA TakeSeatKeeps ==
  ASSUME LobbyInv, NEW p \in Human, TakeSeat(p)
  PROVE  LobbyInv'
  <1> USE DEF LobbyInv, Types, IncomingSteps, LeavingSteps, Player, NoRoom
  <1>1. Types'
    BY BoundsAssumption DEF TakeSeat, Step, Goto, Begin, rooms, players, Room
  <1>2. Members'
    BY DEF TakeSeat, Step, Goto, Begin, rooms, players, Members
  <1>3. Handlers'
    BY DEF TakeSeat, Step, Goto, Begin, rooms, players, Handlers, Inside
  <1>4. Unused'
    BY DEF TakeSeat, Step, Goto, Begin, rooms, players, Unused
  <1>5. Tended'
    BY DEF TakeSeat, Step, Goto, Begin, rooms, players, Tended, Tends
  <1>6. NoBotModerates'
    BY DEF TakeSeat, Step, Goto, Begin, rooms, players, NoBotModerates
  <1> QED BY <1>1, <1>2, <1>3, <1>4, <1>5, <1>6

(* The room is counted again.                                              *)
LEMMA TestFullKeeps ==
  ASSUME LobbyInv, NEW p \in Human, TestFull(p)
  PROVE  LobbyInv'
  <1> USE DEF LobbyInv, Types, IncomingSteps, LeavingSteps, Player, NoRoom
  <1>1. Types'
    BY BoundsAssumption DEF TestFull, Step, Goto, Begin, rooms, players, Room
  <1>2. Members'
    BY DEF TestFull, Step, Goto, Begin, rooms, players, Members
  <1>3. Handlers'
    BY DEF TestFull, Step, Goto, Begin, rooms, players, Handlers, Inside
  <1>4. Unused'
    BY DEF TestFull, Step, Goto, Begin, rooms, players, Unused
  <1>5. Tended'
    BY DEF TestFull, Step, Goto, Begin, rooms, players, Tended, Tends
  <1>6. NoBotModerates'
    BY DEF TestFull, Step, Goto, Begin, rooms, players, NoBotModerates
  <1> QED BY <1>1, <1>2, <1>3, <1>4, <1>5, <1>6

(* The roles are dealt, and the moderator is no bot.                       *)
LEMMA DealKeeps ==
  ASSUME LobbyInv, NEW p \in Human, Deal(p)
  PROVE  LobbyInv'
  <1> USE DEF LobbyInv, Types, IncomingSteps, LeavingSteps, Player, NoRoom
  <1>1. Types'
    BY BoundsAssumption DEF Deal, Step, Goto, Begin, rooms, players, Room
  <1>2. Members'
    BY DEF Deal, Step, Goto, Begin, rooms, players, Members
  <1>3. Handlers'
    BY DEF Deal, Step, Goto, Begin, rooms, players, Handlers, Inside
  <1>4. Unused'
    BY DEF Deal, Step, Goto, Begin, rooms, players, Unused
  <1>5. Tended'
    BY DEF Deal, Step, Goto, Begin, rooms, players, Tended, Tends
  <1>6. NoBotModerates'
    <2> SUFFICES ASSUME NEW b \in Bot PROVE character'[b] # "MODERATOR"
      BY DEF NoBotModerates
    <2>1. PICK seating \in SetToSeqs(members[goal[p]]) :
            /\ seating[1] \in MayModerate(goal[p])
            /\ character' = [q \in Player |->
                 CASE q \notin members[goal[p]] -> character[q]
                   [] q = seating[1]            -> "MODERATOR"
                   [] OTHER                     -> "PLAYER"]
      BY DEF Deal
    <2>2. seating[1] # b
      BY <2>1 DEF MayModerate
    <2> QED BY <2>1, <2>2 DEF NoBotModerates
  <1> QED BY <1>1, <1>2, <1>3, <1>4, <1>5, <1>6

(* A game is started by one of its players, so the room is not empty.      *)
LEMMA StartGameKeeps ==
  ASSUME LobbyInv, NEW p \in Human, StartGame(p)
  PROVE  LobbyInv'
  <1> USE DEF LobbyInv, Types, IncomingSteps, LeavingSteps, Player, NoRoom
  <1>1. Types'
    BY BoundsAssumption DEF StartGame, Step, Goto, Begin, rooms, players, Room
  <1>2. Members'
    BY DEF StartGame, Step, Goto, Begin, rooms, players, Members
  <1>3. Handlers'
    BY DEF StartGame, Step, Goto, Begin, rooms, players, Handlers, Inside
  <1>0. /\ p \in members[goal[p]] /\ goal[p] \in 1 .. created /\ created \in Nat
        /\ status' = [status EXCEPT ![goal[p]] = "PLAYING"]
        /\ created' = created /\ listed' = listed /\ members' = members
        /\ at' = [at EXCEPT ![p] = "idle"]
        /\ goal' = [goal EXCEPT ![p] = NoRoom]
        /\ at[p] = "start"
    BY DEF StartGame, Step, Goto, Begin, Handlers, Inside, Members, Room
  <1>4. Unused'
    BY <1>0 DEF Unused
  <1>5. Tended'
    <2> SUFFICES ASSUME NEW r \in listed, members[r] = {}
                 PROVE  \E q \in Human : Tends(q, r)'
      BY <1>0 DEF Tended
    <2>1. PICK q \in Human : Tends(q, r)
      BY DEF Tended
    <2>2. q # p /\ r # goal[p]
      BY <1>0, <2>1 DEF Tends
    <2> QED BY <1>0, <2>1, <2>2 DEF Tends
  <1>6. NoBotModerates'
    BY DEF StartGame, Step, Goto, Begin, rooms, players, NoBotModerates
  <1> QED BY <1>1, <1>2, <1>3, <1>4, <1>5, <1>6

(* A player begins to leave.                                               *)
LEMMA LeaveRoomKeeps ==
  ASSUME LobbyInv, NEW p \in Human, LeaveRoom(p)
  PROVE  LobbyInv'
  <1> USE DEF LobbyInv, Types, IncomingSteps, LeavingSteps, Player, NoRoom
  <1>1. Types'
    BY BoundsAssumption DEF LeaveRoom, Ready, Begin, rooms, players, handler, Room
  <1>2. Members'
    BY DEF LeaveRoom, Ready, Begin, rooms, players, handler, Members
  <1>3. Handlers'
    BY DEF LeaveRoom, Ready, Begin, rooms, players, handler, Handlers, Inside
  <1>4. Unused'
    BY DEF LeaveRoom, Ready, Begin, rooms, players, handler, Unused
  <1>5. Tended'
    BY DEF LeaveRoom, Ready, Begin, rooms, players, handler, Tended, Tends
  <1>6. NoBotModerates'
    BY DEF LeaveRoom, Ready, Begin, rooms, players, handler, NoBotModerates
  <1> QED BY <1>1, <1>2, <1>3, <1>4, <1>5, <1>6

(* A connection fails, and its player begins to leave.                     *)
LEMMA DisconnectKeeps ==
  ASSUME LobbyInv, NEW p \in Human, Disconnect(p)
  PROVE  LobbyInv'
  <1> USE DEF LobbyInv, Types, IncomingSteps, LeavingSteps, Player, NoRoom
  <1>1. Types'
    BY BoundsAssumption DEF Disconnect, Ready, Begin, rooms, players, handler, Room
  <1>2. Members'
    BY DEF Disconnect, Ready, Begin, rooms, players, handler, Members
  <1>3. Handlers'
    BY DEF Disconnect, Ready, Begin, rooms, players, handler, Handlers, Inside
  <1>4. Unused'
    BY DEF Disconnect, Ready, Begin, rooms, players, handler, Unused
  <1>5. Tended'
    BY DEF Disconnect, Ready, Begin, rooms, players, handler, Tended, Tends
  <1>6. NoBotModerates'
    BY DEF Disconnect, Ready, Begin, rooms, players, handler, NoBotModerates
  <1> QED BY <1>1, <1>2, <1>3, <1>4, <1>5, <1>6

(* A position is given back.                                               *)
LEMMA FreeSeatKeeps ==
  ASSUME LobbyInv, NEW p \in Human, FreeSeat(p)
  PROVE  LobbyInv'
  <1> USE DEF LobbyInv, Types, IncomingSteps, LeavingSteps, Player, NoRoom
  <1>1. Types'
    BY BoundsAssumption DEF FreeSeat, Step, Goto, Begin, rooms, players, Room
  <1>2. Members'
    BY DEF FreeSeat, Step, Goto, Begin, rooms, players, Members
  <1>3. Handlers'
    BY DEF FreeSeat, Step, Goto, Begin, rooms, players, Handlers, Inside
  <1>4. Unused'
    BY DEF FreeSeat, Step, Goto, Begin, rooms, players, Unused
  <1>5. Tended'
    BY DEF FreeSeat, Step, Goto, Begin, rooms, players, Tended, Tends
  <1>6. NoBotModerates'
    BY DEF FreeSeat, Step, Goto, Begin, rooms, players, NoBotModerates
  <1> QED BY <1>1, <1>2, <1>3, <1>4, <1>5, <1>6

(* The two ends of membership are cleared together; the player who left    *)
(* looks after the room.                                                   *)
LEMMA ErasePlayerKeeps ==
  ASSUME LobbyInv, NEW p \in Human, ErasePlayer(p)
  PROVE  LobbyInv'
  <1> USE DEF LobbyInv, Types, IncomingSteps, LeavingSteps, Player, NoRoom
  <1>1. Types'
    <2>1. NoRoom \in 0 .. created
      BY DEF Room
    <2> QED BY <2>1 DEF ErasePlayer, Step, Goto, Begin
  <1>2. Members'
    <2>1. /\ goal[p] \in Room /\ room[p] = goal[p]
          /\ members' = [members EXCEPT ![goal[p]] = @ \ {p}]
          /\ room' = [room EXCEPT ![p] = NoRoom]
      BY DEF ErasePlayer, Step, Handlers, Room
    <2> SUFFICES ASSUME NEW q \in Player, NEW r \in Room
                 PROVE  q \in members'[r] <=> room'[q] = r
      BY DEF Members
    <2>2. CASE q = p
      BY <2>1, <2>2 DEF Members, Room
    <2>3. CASE q # p
      BY <2>1, <2>3 DEF Members
    <2> QED BY <2>2, <2>3
  <1>3. Handlers'
    BY DEF ErasePlayer, Step, Goto, Begin, rooms, players, Handlers, Inside
  <1>4. Unused'
    BY DEF ErasePlayer, Step, Goto, Begin, rooms, players, Unused
  <1>5. Tended'
    BY DEF ErasePlayer, Step, Goto, Begin, rooms, players, Tended, Tends
  <1>6. NoBotModerates'
    BY DEF ErasePlayer, Step, Goto, Begin, rooms, players, NoBotModerates
  <1> QED BY <1>1, <1>2, <1>3, <1>4, <1>5, <1>6

(* Whoever finds the room empty goes on to delete it.                      *)
LEMMA TestEmptyKeeps ==
  ASSUME LobbyInv, NEW p \in Human, TestEmpty(p)
  PROVE  LobbyInv'
  <1> USE DEF LobbyInv, Types, IncomingSteps, LeavingSteps, Player, NoRoom
  <1>1. Types'
    BY BoundsAssumption DEF TestEmpty, Step, Goto, Begin, rooms, players, Room
  <1>2. Members'
    BY DEF TestEmpty, Step, Goto, Begin, rooms, players, Members
  <1>3. Handlers'
    BY DEF TestEmpty, Step, Goto, Begin, rooms, players, Handlers, Inside
  <1>4. Unused'
    BY DEF TestEmpty, Step, Goto, Begin, rooms, players, Unused
  <1>5. Tended'
    BY DEF TestEmpty, Step, Goto, Begin, rooms, players, Tended, Tends
  <1>6. NoBotModerates'
    BY DEF TestEmpty, Step, Goto, Begin, rooms, players, NoBotModerates
  <1> QED BY <1>1, <1>2, <1>3, <1>4, <1>5, <1>6

(* The room is deleted.                                                    *)
LEMMA DeleteRoomKeeps ==
  ASSUME LobbyInv, NEW p \in Human, DeleteRoom(p)
  PROVE  LobbyInv'
  <1> USE DEF LobbyInv, Types, IncomingSteps, LeavingSteps, Player, NoRoom
  <1>1. Types'
    BY BoundsAssumption DEF DeleteRoom, Step, Goto, Begin, rooms, players, Room
  <1>2. Members'
    BY DEF DeleteRoom, Step, Goto, Begin, rooms, players, Members
  <1>3. Handlers'
    BY DEF DeleteRoom, Step, Goto, Begin, rooms, players, Handlers, Inside
  <1>4. Unused'
    BY DEF DeleteRoom, Step, Goto, Begin, rooms, players, Unused
  <1>5. Tended'
    BY DEF DeleteRoom, Step, Goto, Begin, rooms, players, Tended, Tends
  <1>6. NoBotModerates'
    BY DEF DeleteRoom, Step, Goto, Begin, rooms, players, NoBotModerates
  <1> QED BY <1>1, <1>2, <1>3, <1>4, <1>5, <1>6

(* A timer that stops changes nothing that the invariant speaks of.        *)
LEMMA TimerStopsKeeps ==
  ASSUME LobbyInv, NEW r \in Room, TimerStops(r)
  PROVE  LobbyInv'
  <1>1. UNCHANGED <<created, listed, members, status, connected, room, character, at, goal>>
    BY DEF TimerStops, players, handler
  <1> QED
    BY <1>1 DEF LobbyInv, Types, Members, Handlers, Unused, Tended, Tends, NoBotModerates

(* The server after addBots.                                               *)
LEMMA InitLobbyInv == ASSUME Init PROVE LobbyInv
  <1> USE DEF Init, Player, NoRoom
  <1>1. 1 \in Room
    BY BoundsAssumption DEF Room
  <1>2. Types
    BY <1>1, BoundsAssumption DEF Types, Room
  <1>3. Members
    BY <1>1, PlayersAssumption DEF Members, Room
  <1>4. Handlers
    BY PlayersAssumption DEF Handlers, Inside
  <1>5. Unused
    BY DEF Unused
  <1>6. Tended
    BY <1>1, PlayersAssumption DEF Tended
  <1>7. NoBotModerates
    BY DEF NoBotModerates
  <1> QED BY <1>2, <1>3, <1>4, <1>5, <1>6, <1>7 DEF LobbyInv

(* Every step of every handler keeps the invariant.                        *)
LEMMA NextLobbyInv == ASSUME LobbyInv, [Next]_vars PROVE LobbyInv'
  <1>1. ASSUME NEW p \in Human, Come(p) PROVE LobbyInv'
    BY <1>1, ConnectKeeps, CreateNewRoomKeeps, SetMaximumPlayersKeeps, EnterRoomKeeps,
       TestStatusKeeps, InsertKeeps, CheckSizeKeeps, FindSeatKeeps, TakeSeatKeeps, TestFullKeeps, DealKeeps, StartGameKeeps
       DEF Come
  <1>2. ASSUME NEW p \in Human, Go(p) PROVE LobbyInv'
    BY <1>2, LeaveRoomKeeps, DisconnectKeeps, FreeSeatKeeps, ErasePlayerKeeps,
       TestEmptyKeeps, DeleteRoomKeeps DEF Go
  <1>3. CASE UNCHANGED vars
    BY <1>3 DEF vars, rooms, players, handler, LobbyInv, Types, Members, Handlers, Unused,
                Tended, Tends, NoBotModerates
  <1> QED BY <1>1, <1>2, <1>3, TimerStopsKeeps DEF Next

-----------------------------------------------------------------------------
(* The invariant, for every interleaving of any number of handlers.        *)
THEOREM LobbyInductive == Spec => []LobbyInv
  BY InitLobbyInv, NextLobbyInv, PTL DEF Spec

(* A player with no handler running is a member of exactly the room he     *)
(* refers to, and a player whose connection has failed is a member of      *)
(* none, for any number of players, rooms and threads.                     *)
THEOREM Membership == Spec => []MembershipAgrees
  <1>1. LobbyInv => MembershipAgrees
    BY DEF LobbyInv, Members, Handlers, MembershipAgrees
  <1> QED BY <1>1, LobbyInductive, PTL

(* However many players leave and enter at the same time, no empty room    *)
(* stays in the list when their handlers have ended: whoever leaves last   *)
(* sees it empty, or somebody else is about to be in it.                   *)
THEOREM EmptyRooms == Spec => []EmptyRoomsAreDeleted
  <1>1. LobbyInv => EmptyRoomsAreDeleted
    <2> SUFFICES ASSUME LobbyInv, Quiet, NEW r \in listed, members[r] = {}
                 PROVE  FALSE
      BY DEF EmptyRoomsAreDeleted
    <2>1. PICK p \in Human : Tends(p, r)
      BY DEF LobbyInv, Tended
    <2>2. at[p] = "idle"
      BY DEF Quiet, Running
    <2> QED BY <2>1, <2>2 DEF Tends
  <1> QED BY <1>1, LobbyInductive, PTL

(* The moderator, who leads the game, is never a bot, even if the roles    *)
(* are dealt twice or players come and go during the deal.                 *)
THEOREM ModeratorsAreHuman == Spec => []NoBotModerates
  <1>1. LobbyInv => NoBotModerates
    BY DEF LobbyInv
  <1> QED BY <1>1, LobbyInductive, PTL
=============================================================================
