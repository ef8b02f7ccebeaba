------------------------------- MODULE Video -------------------------------
(***************************************************************************)
(* The pictures of a room that is PLAYING: the UDP packets that players    *)
(* send, NEXT, which covers and uncovers their screens, and the timer that *)
(* sends the screens to everybody.                                         *)
(*                                                                         *)
(* The three run on different threads.  A packet is tested and stored in   *)
(* two steps, between which the game may go on; there is one packet at a   *)
(* time, since UdpConnection starts to receive again only after onReceive. *)
(* One tick of the timer is one step, and its datagrams arrive.            *)
(***************************************************************************)
EXTENDS GameRoom

CONSTANTS
  Watchers,      \* players whose view of the others is followed
  Leavers,       \* players who may leave
  Cameras,       \* players whose camera goes on sending pictures
  ShortPictures  \* those of them with pictures of 1000 bytes or less, too

ASSUME WatchersAssumption == Watchers \subseteq Position /\ Leavers \subseteq Position
ASSUME CamerasAssumption == Cameras \subseteq Position \ Bots /\ ShortPictures \subseteq Cameras

VARIABLES
  changed,   \* the players with screenChanged_
  packet,    \* the player whose packet has passed the test, or Nobody
  overtaken, \* the last NEXT came while a packet was between test and store
  view       \* view[q][p]: what q was last sent of p

video == <<changed, packet, overtaken, view>>

VideoInit ==
  /\ Init
  /\ changed = {}
  /\ packet = Nobody
  /\ overtaken = FALSE
  /\ view = [q \in Watchers |-> screen]

(* Other threads go on while one is hung in deleteMurderedPlayer.          *)
Works == fate # "crashed"

(* Player::isVisible, canSee.  Players in no game are visible.  The dead   *)
(* see, by the sixth character of videoMask, but the masks of the inserted *)
(* nodes have only five.                                                   *)
IsVisible(p) == character[p] \in VisibleRoles(state) \cup {"NOT_SPECIFIED"}

IsInserted(n) == IsWon(n) \/ n[1] \in MarkKind
CanSee(q) ==
  \/ character[q] \in VisibleRoles(state) \cup {"NOT_SPECIFIED"}
  \/ character[q] = "DEAD" /\ ~IsInserted(state)

(* What handleTimer has to send of a camera.                               *)
Camera == {"camera", "short"}

-----------------------------------------------------------------------------
(* Variant: a screen that is covered is not noticed.                       *)
SetBotScreens == {p \in seated : p \in Bots}

(* NEXT: setCorrespondingPlayerScreen calls setScreen for the bots and for *)
(* everybody who is not visible.                                           *)
SetScreens == {p \in seated : p \in Bots \/ character'[p] \notin VisibleRoles(state')}

PressNext ==
  /\ GoToNextState
  /\ changed' = IF fate' = "ok" THEN changed \cup SetScreens ELSE changed
  /\ overtaken' = (packet # Nobody)
  /\ UNCHANGED <<packet, view>>

Command ==
  /\ Select \/ \E p \in Leavers : LeaveRoom(p)
  /\ UNCHANGED video

(* MyUdpConnection::onReceive with a picture: the test, ...                *)
TestAnyone(p) ==
  /\ Works
  /\ packet = Nobody
  /\ packet' = p
  /\ UNCHANGED <<vars, changed, overtaken, view>>

TestVisible(p) ==
  /\ Works
  /\ packet = Nobody
  /\ IsVisible(p)
  /\ packet' = p
  /\ UNCHANGED <<vars, changed, overtaken, view>>

(* ... and Player::setScreen.                                              *)
SetScreen ==
  /\ Works
  /\ packet # Nobody
  /\ \E picture \in {"camera"} \cup IF packet \in ShortPictures THEN {"short"} ELSE {} :
       screen' = [screen EXCEPT ![packet] = picture]
  /\ changed' = changed \cup {packet}
  /\ packet' = Nobody
  /\ UNCHANGED <<ring, choices, character, seated, speakers, fate, overtaken, view>>

(* A player who left has no room to send his sound to, and one whose       *)
(* connection has failed is not found by getPlayerByAddress at all.        *)
PacketFromOutside(p) ==
  /\ Works
  /\ packet = Nobody
  /\ p \notin seated
  /\ fate' = "crashed"
  /\ UNCHANGED <<ring, choices, people, video>>

(* What a tick leaves q with: who sees is sent the changed screens, and    *)
(* the next bot's; who does not is sent the visible players as invisible   *)
(* and of the hidden ones their screens, which hide them.                  *)
SentTo(q, pictures) ==
  [p \in Position |->
     IF p \notin seated THEN view[q][p]
     ELSE IF ~CanSee(q) THEN IF IsVisible(p) THEN "invisibility" ELSE screen[p]
     ELSE IF p \in pictures THEN screen[p] ELSE view[q][p]]

(* Room::handleTimer.  botCnt_ picks the player after the last one in the  *)
(* order of the set, which is that of addresses: any.  The length of every *)
(* picture is asserted to be above 1000.                                   *)
HandleTimer ==
  /\ Works
  /\ \E next_ \in seated :
       LET pictures == seated \cap (changed \cup ({next_} \cap Bots))
       IN  /\ \A p \in pictures : screen[p] # "short"
           /\ view' = [q \in Watchers |-> IF q \in seated THEN SentTo(q, pictures) ELSE view[q]]
  /\ changed' = changed \ seated
  /\ UNCHANGED <<vars, packet, overtaken>>

HandleTimerAborts ==
  /\ Works
  /\ \E p \in seated \cap changed : screen[p] = "short"
  /\ fate' = "crashed"
  /\ UNCHANGED <<ring, choices, people, video>>

VideoNext ==
  \/ PressNext
  \/ Command
  \/ SetScreen
  \/ \E p \in Cameras : TestVisible(p) \/ PacketFromOutside(p)
  \/ HandleTimer
  \/ HandleTimerAborts

VideoSpec == VideoInit /\ [][VideoNext]_<<vars, video>>

-----------------------------------------------------------------------------
(* While the city sleeps nobody's camera shows who is awake, and nobody's  *)
(* camera stays on when he is dead: a player who is not visible has none   *)
(* on his screen, which handleTimer sends to all.  When threads overlap    *)
(* one picture may be late: of one player, whose packet was tested before  *)
(* and stored after the last NEXT, until the next one (my_network.cpp:199, *)
(* room.cpp:93-100, 303-329).                                              *)
Peeping == {p \in seated : ~IsVisible(p) /\ screen[p] \in Camera}

NoPeeping ==
  fate = "ok" =>
    /\ Cardinality(Peeping) <= 1
    /\ Peeping # {} => overtaken

(* Who can see is shown right: what the timer sent him of the bots, the    *)
(* dead and the hidden is what their screens show, but for the screens     *)
(* that wait for the next tick, although he saw nothing of the changes in  *)
(* the states in which he slept (room.cpp:111-145, 303-329).               *)
EverybodyIsShown ==
  fate = "ok" =>
    \A q \in Watchers \cap seated : \A p \in seated \ changed :
      CanSee(q) /\ screen[p] \notin Camera => view[q][p] = screen[p]
=============================================================================
