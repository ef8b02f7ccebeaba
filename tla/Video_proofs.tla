---------------------------- MODULE Video_proofs ----------------------------
(***************************************************************************)
(* Nobody's camera shows who is awake, and who can see is shown right: the *)
(* proofs of NoPeeping and of EverybodyIsShown, for every number of        *)
(* players, all cameras, and any order of packets, NEXT and ticks of the   *)
(* timer.                                                                  *)
(*                                                                         *)
(* The ring plays no part: whatever state NEXT enters, it covers the       *)
(* screens of all who are not visible in it.  What has to be shown is that *)
(* a packet which was tested before and is stored after is the only one.   *)
(***************************************************************************)
EXTENDS Video, TLAPS, FiniteSetTheorems

VideoTypeOK ==
  /\ character \in [Position -> Character]
  /\ screen \in [Position -> Screen \cup Camera]
  /\ seated \subseteq Position
  /\ packet \in Position \cup {Nobody}
  /\ overtaken \in BOOLEAN

(* At most one hidden camera is on, that of the player whose packet was    *)
(* under way at the last NEXT; as long as it still is, none is.            *)
OnePeeps ==
  /\ \A p, q \in Peeping : p = q
  /\ Peeping # {} => overtaken
  /\ packet \in seated /\ ~IsVisible(packet) => overtaken /\ Peeping = {}

VideoInv == VideoTypeOK /\ (fate = "ok" => OnePeeps)

-----------------------------------------------------------------------------
(* What a step of the game does to the people.                             *)

(* A screen that NEXT covers is a screen.                                  *)
LEMMA ScreenTypes ==
  ASSUME screen \in [Position -> Screen \cup Camera], NEW n, NEW chars
  PROVE  CorrespondingScreen(n, chars) \in [Position -> Screen \cup Camera]
  BY DEF CorrespondingScreen, Screen

(* The step that ends a branch of goToNextState.                           *)
LEMMA ProceedCovers ==
  ASSUME VideoTypeOK, NEW from, NEW heap, NEW chars \in [Position -> Character],
         Proceed(from, heap, chars)
  PROVE  /\ seated' = seated
         /\ character' \in [Position -> Character]
         /\ screen' \in [Position -> Screen \cup Camera]
         /\ screen' = CorrespondingScreen(state', character')
  <1>1. ASSUME NEW g, Enter(from, g, chars)
        PROVE  /\ seated' = seated
               /\ character' = chars
               /\ screen' = CorrespondingScreen(state', character')
    BY <1>1 DEF Enter
  <1>2. /\ seated' = seated
        /\ character' = chars
        /\ screen' = CorrespondingScreen(state', character')
    BY <1>1 DEF Proceed
  <1> QED BY <1>2, ScreenTypes DEF VideoTypeOK

(* NEXT covers the screens of those whom the new state hides.              *)
LEMMA NextCovers ==
  ASSUME VideoTypeOK, GoToNextState
  PROVE  /\ seated' = seated
         /\ character' \in [Position -> Character]
         /\ screen' \in [Position -> Screen \cup Camera]
         /\ fate' = "ok" => screen' = CorrespondingScreen(state', character')
  <1>1. character \in [Position -> Character]
    BY DEF VideoTypeOK
  <1>2. CASE OpenVoting
    BY <1>1, <1>2, ProceedCovers DEF OpenVoting
  <1>3. CASE CloseVoting
    BY <1>1, <1>3, ProceedCovers DEF CloseVoting
  <1>4. CASE LeaveDoctor
    BY <1>1, <1>4, ProceedCovers DEF LeaveDoctor
  <1>5. CASE EndMurderedSpeech
    <2>1. [character EXCEPT ![Victim] = "DEAD"] \in [Position -> Character]
      BY <1>1 DEF Character
    <2>2. PICK previous \in Node :
            Proceed(before, DeleteTurn(AfterSpeech, previous,
                                       Speaking(LeastOf(TurnsFound(AfterSpeech, Victim)))),
                    [character EXCEPT ![Victim] = "DEAD"])
      BY <1>5 DEF EndMurderedSpeech
    <2> QED BY <2>1, <2>2, ProceedCovers
  <1>6. CASE EndMurderedSpeechHangs
    BY <1>6 DEF EndMurderedSpeechHangs, people, VideoTypeOK
  <1>7. CASE EndMurderedSpeechCrashes
    BY <1>7 DEF EndMurderedSpeechCrashes, people, VideoTypeOK
  <1>8. CASE Advance
    BY <1>1, <1>8, ProceedCovers DEF Advance
  <1> QED BY <1>2, <1>3, <1>4, <1>5, <1>6, <1>7, <1>8 DEF GoToNextState

-----------------------------------------------------------------------------
(* The steps, one lemma for each.                                          *)

(* When NEXT has covered the screens no hidden camera is on.               *)
LEMMA PressNextKeeps ==
  ASSUME VideoInv, PressNext
  PROVE  VideoInv'
  <1>1. /\ seated' = seated /\ packet' = packet
        /\ character' \in [Position -> Character]
        /\ screen' \in [Position -> Screen \cup Camera]
        /\ fate' = "ok" => screen' = CorrespondingScreen(state', character')
        /\ overtaken' = (packet # Nobody)
    BY NextCovers DEF PressNext, VideoInv
  <1>2. VideoTypeOK'
    BY <1>1 DEF VideoTypeOK, VideoInv
  <1>3. ASSUME fate' = "ok", NEW p \in seated', ~IsVisible(p)'
        PROVE  screen'[p] \notin Camera
    <2>1. p \in seated /\ p \in Position /\ character'[p] \notin VisibleRoles(state')
      BY <1>1, <1>3 DEF IsVisible, VideoTypeOK, VideoInv
    <2>2. screen'[p] \in {"rip", "invisibility"}
      BY <1>1, <1>3, <2>1 DEF CorrespondingScreen
    <2> QED BY <2>2 DEF Camera
  <1>4. fate' = "ok" => Peeping' = {}
    BY <1>3 DEF Peeping
  <1>5. fate' = "ok" => OnePeeps'
    <2>1. packet' \in seated' => packet # Nobody
      BY <1>1, MaxPlayersAssumption DEF VideoTypeOK, VideoInv, Nobody, Position
    <2>2. packet' \in seated' => overtaken'
      BY <1>1, <2>1, Zenon
    <2> QED BY <1>4, <2>2 DEF OnePeeps
  <1> QED BY <1>2, <1>5 DEF VideoInv

(* A player who leaves cannot peep any more, and changes nobody else.      *)
LEMMA CommandKeeps ==
  ASSUME VideoInv, Command
  PROVE  VideoInv'
  <1>1. packet' = packet /\ overtaken' = overtaken /\ screen' = screen /\ state' = state
        /\ fate' = fate
    BY DEF Command, video, Select, NominateForVoting, SetNumberOfVotes, TryToMurderPlayer,
           CurePlayer, LeaveRoom, ring, people
  <1>2. CASE Select
    <2>1. character' = character /\ seated' = seated
      BY <1>2 DEF Select, NominateForVoting, SetNumberOfVotes, TryToMurderPlayer, CurePlayer,
                  people
    <2> QED BY <1>1, <2>1 DEF VideoInv, VideoTypeOK, OnePeeps, Peeping, IsVisible
  <1>3. ASSUME NEW l \in Leavers, LeaveRoom(l)
        PROVE  VideoInv'
    <2>1. seated' = seated \ {l} /\ character' = [character EXCEPT ![l] = "NOT_SPECIFIED"]
      BY <1>3 DEF LeaveRoom
    <2>2. VideoTypeOK'
      BY <1>1, <2>1 DEF VideoInv, VideoTypeOK, Character
    <2>3. \A p \in seated' : p \in seated /\ IsVisible(p)' = IsVisible(p)
      BY <1>1, <2>1 DEF VideoInv, VideoTypeOK, IsVisible
    <2>4. Peeping' \subseteq Peeping
      BY <1>1, <2>3 DEF Peeping
    <2>5. OnePeeps => OnePeeps'
      BY <1>1, <2>3, <2>4 DEF OnePeeps
    <2> QED BY <1>1, <2>2, <2>5 DEF VideoInv
  <1> QED BY <1>2, <1>3 DEF Command

(* A packet that is tested now is visible now.                             *)
LEMMA TestVisibleKeeps ==
  ASSUME VideoInv, NEW p \in Cameras, TestVisible(p)
  PROVE  VideoInv'
  <1>1. packet' = p /\ IsVisible(p)' /\ UNCHANGED <<vars, overtaken>>
    BY DEF TestVisible, vars, ring, people, IsVisible
  <1>2. VideoTypeOK'
    BY <1>1, CamerasAssumption DEF VideoInv, VideoTypeOK, vars, people
  <1>3. Peeping' = Peeping /\ fate' = fate
    BY <1>1 DEF Peeping, IsVisible, vars, ring, people
  <1> QED BY <1>1, <1>2, <1>3 DEF VideoInv, OnePeeps

(* The only camera that a packet can put on a hidden screen is its own.    *)
LEMMA SetScreenKeeps ==
  ASSUME VideoInv, SetScreen
  PROVE  VideoInv'
  <1>1. PICK picture \in Camera : screen' = [screen EXCEPT ![packet] = picture]
    BY DEF SetScreen, Camera
  <1>2. packet \in Position /\ packet' = Nobody
        /\ UNCHANGED <<ring, character, seated, fate, overtaken>>
    BY DEF SetScreen, VideoInv, VideoTypeOK
  <1>3. VideoTypeOK'
    BY <1>1, <1>2 DEF VideoInv, VideoTypeOK
  <1>4. \A p \in Position : IsVisible(p)' = IsVisible(p)
    BY <1>2 DEF IsVisible, ring
  <1>5. \A p \in seated \ {packet} : screen'[p] = screen[p] /\ p \in Position
    BY <1>1, <1>2 DEF VideoInv, VideoTypeOK
  <1>6. Peeping' \ {packet} = Peeping \ {packet}
    BY <1>2, <1>4, <1>5 DEF Peeping
  <1>7. packet' \notin seated'
    BY <1>2, <1>3, MaxPlayersAssumption DEF VideoTypeOK, Nobody, Position
  <1>8. ASSUME OnePeeps
        PROVE  OnePeeps'
    <2>1. CASE packet \in seated /\ ~IsVisible(packet)
      <3>1. Peeping = {} /\ overtaken
        BY <1>8, <2>1 DEF OnePeeps
      <3>2. Peeping' \subseteq {packet}
        BY <1>6, <3>1
      <3> QED BY <1>2, <1>7, <3>1, <3>2 DEF OnePeeps
    <2>2. CASE ~(packet \in seated /\ ~IsVisible(packet))
      <3>1. Peeping' \subseteq Peeping
        BY <1>2, <1>4, <1>6, <2>2 DEF Peeping
      <3> QED BY <1>2, <1>7, <1>8, <3>1 DEF OnePeeps
    <2> QED BY <2>1, <2>2
  <1> QED BY <1>2, <1>3, <1>8 DEF VideoInv

(* The others change no screen; some end the server.                       *)
LEMMA OthersKeep ==
  ASSUME VideoInv,
         \/ HandleTimer
         \/ HandleTimerAborts
         \/ \E p \in Cameras : PacketFromOutside(p)
         \/ UNCHANGED <<vars, video>>
  PROVE  VideoInv'
  <1>1. UNCHANGED <<ring, people, packet, overtaken>> /\ (fate' = "ok" => fate = "ok")
    BY DEF HandleTimer, HandleTimerAborts, PacketFromOutside, vars, video
  <1> QED BY <1>1 DEF VideoInv, VideoTypeOK, OnePeeps, Peeping, IsVisible, ring, people

-----------------------------------------------------------------------------
(* The invariant holds initially, ...                                      *)
LEMMA InitVideoInv == ASSUME VideoInit PROVE VideoInv
  <1>1. /\ character \in [Position -> Role] /\ state = Phase("City_wakes_up")
        /\ seated = Position /\ packet = Nobody /\ overtaken = FALSE
        /\ screen = [p \in Position |-> IF p \in Bots THEN "bot" ELSE "camera"]
    BY DealsAssumption DEF VideoInit, Init, IsDeal
  <1>2. VideoTypeOK
    BY <1>1 DEF VideoTypeOK, Character, Screen, Camera
  <1>3. \A p \in seated : IsVisible(p)
    <2>1. VisibleRoles(state) = Role
      BY <1>1 DEF VisibleRoles, Phase
    <2> QED BY <1>1, <2>1 DEF IsVisible
  <1>4. packet \notin seated
    BY <1>1, MaxPlayersAssumption DEF Nobody, Position
  <1> QED BY <1>2, <1>3, <1>4 DEF VideoInv, OnePeeps, Peeping

(* ... every step keeps it, ...                                            *)
LEMMA NextVideoInv == ASSUME VideoInv, [VideoNext]_<<vars, video>> PROVE VideoInv'
  BY PressNextKeeps, CommandKeeps, TestVisibleKeeps, SetScreenKeeps, OthersKeep DEF VideoNext

(* ... and so it is one.                                                   *)
THEOREM VideoInductive == VideoSpec => []VideoInv
  BY InitVideoInv, NextVideoInv, PTL DEF VideoSpec

(* Whatever is stored and sent while the game goes on, at most one hidden  *)
(* player's camera is on, and only until the next NEXT (my_network.cpp:199,*)
(* room.cpp:303-329).                                                      *)
THEOREM NobodyPeeps == VideoSpec => []NoPeeping
  <1>1. ASSUME VideoInv
        PROVE  NoPeeping
    <2> SUFFICES ASSUME fate = "ok" PROVE Cardinality(Peeping) <= 1 /\ (Peeping # {} => overtaken)
      BY DEF NoPeeping
    <2>1. OnePeeps
      BY <1>1 DEF VideoInv
    <2>2. CASE Peeping = {}
      BY <2>2, FS_EmptySet
    <2>3. CASE Peeping # {}
      <3>1. PICK p \in Peeping : Peeping = {p}
        BY <2>1, <2>3 DEF OnePeeps
      <3> QED BY <2>1, <3>1, FS_Singleton DEF OnePeeps
    <2> QED BY <2>2, <2>3
  <1> QED BY <1>1, VideoInductive, PTL

-----------------------------------------------------------------------------
(* Who can see is shown right.                                             *)

(* What a player who sleeps is sent of a player who is not a bot is what   *)
(* he is to see when he wakes up: the cameras are off, and the screens     *)
(* that are not cover a player.  A bot's screen is sent again after every  *)
(* NEXT.                                                                   *)
Covered ==
  \A p \in seated \ Bots :
    screen[p] \in Camera \cup {"invisibility"} \/ character[p] = "DEAD"

UpToDate ==
  \A q \in Watchers \cap seated : \A p \in seated \ changed :
    screen[p] \notin Camera /\ (CanSee(q) \/ p \notin Bots) => view[q][p] = screen[p]

ShownInv ==
  /\ VideoTypeOK
  /\ packet \in Cameras \cup {Nobody}
  /\ fate = "ok" => Covered /\ UpToDate

(* The dead stay dead, and no step of the game heals a server.             *)
LEMMA DeadStayDead ==
  ASSUME VideoTypeOK, GoToNextState
  PROVE  /\ \A p \in seated : character[p] = "DEAD" => character'[p] = "DEAD"
         /\ fate = "ok"
  <1>0. fate = "ok"
    BY DEF GoToNextState, OpenVoting, CloseVoting, LeaveDoctor, EndMurderedSpeech,
           EndMurderedSpeechHangs, EndMurderedSpeechCrashes, Advance, CanCommand
  <1>1. ASSUME NEW from, NEW heap, NEW chars, Proceed(from, heap, chars)
        PROVE  character' = chars
    BY <1>1 DEF Proceed, Enter
  <1>2. CASE OpenVoting
    BY <1>0, <1>1, <1>2 DEF OpenVoting
  <1>3. CASE CloseVoting
    BY <1>0, <1>1, <1>3 DEF CloseVoting
  <1>4. CASE LeaveDoctor
    BY <1>0, <1>1, <1>4 DEF LeaveDoctor
  <1>5. CASE EndMurderedSpeech
    <2>1. PICK previous \in Node :
            Proceed(before, DeleteTurn(AfterSpeech, previous,
                                       Speaking(LeastOf(TurnsFound(AfterSpeech, Victim)))),
                    [character EXCEPT ![Victim] = "DEAD"])
      BY <1>5 DEF EndMurderedSpeech
    <2>2. character' = [character EXCEPT ![Victim] = "DEAD"]
      BY <1>1, <2>1
    <2> QED BY <1>0, <2>2 DEF VideoTypeOK
  <1>6. CASE EndMurderedSpeechHangs
    BY <1>0, <1>6 DEF EndMurderedSpeechHangs, people
  <1>7. CASE EndMurderedSpeechCrashes
    BY <1>0, <1>7 DEF EndMurderedSpeechCrashes, people
  <1>8. CASE Advance
    BY <1>0, <1>1, <1>8 DEF Advance
  <1> QED BY <1>2, <1>3, <1>4, <1>5, <1>6, <1>7, <1>8 DEF GoToNextState

(* The dead are hidden.                                                    *)
LEMMA DeadAreHidden == ASSUME NEW n PROVE "DEAD" \notin VisibleRoles(n)
  BY DEF VisibleRoles, Role

(* NEXT covers the hidden and leaves the others as they are; the screens   *)
(* it sets wait for the next tick.                                         *)
LEMMA PressNextShows ==
  ASSUME ShownInv, PressNext
  PROVE  ShownInv'
  <1>1. /\ VideoTypeOK'
        /\ seated' = seated /\ packet' = packet /\ view' = view /\ fate = "ok"
        /\ \A p \in seated : character[p] = "DEAD" => character'[p] = "DEAD"
        /\ fate' = "ok" => screen' = CorrespondingScreen(state', character')
                           /\ changed' = changed \cup SetScreens
    BY NextCovers, DeadStayDead DEF PressNext, ShownInv, VideoTypeOK
  <1>2. ASSUME fate' = "ok", NEW p \in seated \ Bots, character'[p] \in VisibleRoles(state')
        PROVE  screen'[p] = screen[p] /\ character'[p] # "DEAD" /\ character[p] # "DEAD"
    <2>1. character'[p] # "DEAD" /\ p \in Position
      BY <1>2, DeadAreHidden DEF ShownInv, VideoTypeOK
    <2> QED BY <1>1, <1>2, <2>1 DEF CorrespondingScreen
  <1>3. ASSUME fate' = "ok", NEW p \in seated \ Bots, character'[p] \notin VisibleRoles(state')
        PROVE  screen'[p] = "invisibility" \/ character'[p] = "DEAD"
    BY <1>1, <1>3 DEF CorrespondingScreen, ShownInv, VideoTypeOK
  <1>4. fate' = "ok" => Covered'
    BY <1>1, <1>2, <1>3 DEF Covered, ShownInv
  <1>5. ASSUME fate' = "ok", NEW q \in Watchers \cap seated, NEW p \in seated \ changed',
               screen'[p] \notin Camera
        PROVE  view'[q][p] = screen'[p]
    <2>1. p \notin changed /\ p \notin Bots /\ character'[p] \in VisibleRoles(state')
      BY <1>1, <1>5 DEF SetScreens
    <2> QED BY <1>1, <1>2, <1>5, <2>1 DEF ShownInv, UpToDate
  <1> QED BY <1>1, <1>4, <1>5 DEF ShownInv, UpToDate

(* A player who leaves shows and sees nothing more.                        *)
LEMMA CommandShows ==
  ASSUME ShownInv, Command
  PROVE  ShownInv'
  <1>1. UNCHANGED <<packet, changed, view, screen, state, fate>>
    BY DEF Command, video, Select, NominateForVoting, SetNumberOfVotes, TryToMurderPlayer,
           CurePlayer, LeaveRoom, ring, people
  <1>2. CASE Select
    <2>1. character' = character /\ seated' = seated
      BY <1>2 DEF Select, NominateForVoting, SetNumberOfVotes, TryToMurderPlayer, CurePlayer,
                  people
    <2>2. overtaken' = overtaken
      BY DEF Command, video
    <2> QED BY <1>1, <2>1, <2>2 DEF ShownInv, VideoTypeOK, Covered, UpToDate, CanSee, IsInserted
  <1>3. ASSUME NEW l \in Leavers, LeaveRoom(l)
        PROVE  ShownInv'
    <2>1. seated' = seated \ {l} /\ character' = [character EXCEPT ![l] = "NOT_SPECIFIED"]
      BY <1>3 DEF LeaveRoom
    <2>2. \A p \in seated' : p \in seated /\ p \in Position /\ character'[p] = character[p]
      BY <2>1 DEF ShownInv, VideoTypeOK
    <2>3. \A p \in seated' : CanSee(p)' = CanSee(p)
      BY <1>1, <2>2 DEF CanSee
    <2>4. fate = "ok" => Covered'
      BY <1>1, <2>2 DEF ShownInv, Covered
    <2>5. fate = "ok" => UpToDate'
      BY <1>1, <2>2, <2>3 DEF ShownInv, UpToDate
    <2>6. VideoTypeOK'
      <3>1. overtaken' = overtaken
        BY DEF Command, video
      <3> QED BY <1>1, <2>1, <3>1 DEF ShownInv, VideoTypeOK, Character
    <2> QED BY <1>1, <2>4, <2>5, <2>6 DEF ShownInv
  <1> QED BY <1>2, <1>3 DEF Command

(* A picture waits for the next tick.                                      *)
LEMMA SetScreenShows ==
  ASSUME ShownInv, SetScreen
  PROVE  ShownInv'
  <1>1. PICK picture \in Camera : screen' = [screen EXCEPT ![packet] = picture]
    BY DEF SetScreen, Camera
  <1>2. /\ packet \in Position /\ packet' = Nobody
        /\ changed' = changed \cup {packet}
        /\ UNCHANGED <<ring, character, seated, fate, overtaken, view>>
    BY DEF SetScreen, ShownInv, VideoTypeOK
  <1>3. VideoTypeOK'
    BY <1>1, <1>2 DEF ShownInv, VideoTypeOK
  <1>4. \A p \in seated \ {packet} : screen'[p] = screen[p]
    BY <1>1, <1>2 DEF ShownInv, VideoTypeOK
  <1>5. packet \in seated => screen'[packet] \in Camera
    BY <1>1, <1>2 DEF ShownInv, VideoTypeOK
  <1>6. fate = "ok" => Covered'
    BY <1>2, <1>4, <1>5 DEF ShownInv, Covered
  <1>7. fate = "ok" => UpToDate'
    BY <1>2, <1>4 DEF ShownInv, UpToDate, CanSee, ring
  <1> QED BY <1>2, <1>3, <1>6, <1>7 DEF ShownInv

(* A tick sends what has changed to who can see, and to who cannot the     *)
(* screens of the hidden.                                                  *)
LEMMA HandleTimerShows ==
  ASSUME ShownInv, HandleTimer
  PROVE  ShownInv'
  <1>1. PICK next_ \in seated :
          view' = [q \in Watchers |->
                     IF q \in seated
                     THEN SentTo(q, seated \cap (changed \cup ({next_} \cap Bots)))
                     ELSE view[q]]
    BY DEF HandleTimer
  <1>2. UNCHANGED <<ring, people, packet, overtaken>> /\ changed' = changed \ seated
    BY DEF HandleTimer, vars
  <1>3. VideoTypeOK' /\ packet' = packet /\ fate' = fate /\ (fate = "ok" => Covered')
    BY <1>2 DEF ShownInv, VideoTypeOK, Covered, people, HandleTimer, vars
  <1>4. ASSUME fate = "ok", NEW q \in Watchers \cap seated, NEW p \in seated,
               screen[p] \notin Camera, CanSee(q) \/ p \notin Bots
        PROVE  view'[q][p] = screen[p]
    <2>1. p \in Position
      BY <1>4 DEF ShownInv, VideoTypeOK
    <2>2. view'[q] = SentTo(q, seated \cap (changed \cup ({next_} \cap Bots)))
      BY <1>1
    <2>3. CASE CanSee(q)
      <3>1. view'[q][p] = screen[p] \/ (p \notin changed /\ view'[q][p] = view[q][p])
        BY <2>1, <2>2, <2>3 DEF SentTo
      <3> QED BY <1>4, <2>3, <3>1 DEF ShownInv, UpToDate
    <2>4. CASE ~CanSee(q)
      <3>1. view'[q][p] = IF IsVisible(p) THEN "invisibility" ELSE screen[p]
        BY <2>1, <2>2, <2>4 DEF SentTo
      <3>2. IsVisible(p) => character[p] # "DEAD"
        BY DeadAreHidden DEF IsVisible
      <3>3. IsVisible(p) => screen[p] = "invisibility"
        BY <1>4, <2>4, <3>2 DEF ShownInv, Covered
      <3> QED BY <3>1, <3>3
    <2> QED BY <2>3, <2>4
  <1>5. fate = "ok" => UpToDate'
    BY <1>2, <1>4 DEF UpToDate, CanSee, ring, people
  <1> QED BY <1>3, <1>5 DEF ShownInv

(* The other steps show nothing.                                           *)
LEMMA OthersShow ==
  ASSUME ShownInv,
         \/ HandleTimerAborts
         \/ \E p \in Cameras : TestVisible(p) \/ PacketFromOutside(p)
         \/ UNCHANGED <<vars, video>>
  PROVE  ShownInv'
  <1>1. /\ UNCHANGED <<ring, people, changed, overtaken, view>> /\ (fate' = "ok" => fate = "ok")
        /\ packet' \in Cameras \cup {Nobody}
    BY DEF HandleTimerAborts, TestVisible, PacketFromOutside, vars, video, ShownInv
  <1> QED BY <1>1, CamerasAssumption
          DEF ShownInv, VideoTypeOK, Covered, UpToDate, CanSee, ring, people

(* Initially everybody has seen everybody.                                 *)
LEMMA InitShown == ASSUME VideoInit PROVE ShownInv
  <1>1. /\ VideoTypeOK /\ seated = Position /\ packet = Nobody
        /\ screen = [p \in Position |-> IF p \in Bots THEN "bot" ELSE "camera"]
        /\ view = [q \in Watchers |-> screen]
    BY InitVideoInv DEF VideoInv, VideoInit, Init
  <1> QED BY <1>1 DEF ShownInv, Covered, UpToDate, Camera

(* Who can see is shown right, although he saw nothing of the changes in   *)
(* the states in which he slept (room.cpp:88-145, 303-329).                *)
THEOREM Shown == VideoSpec => []EverybodyIsShown
  <1>1. ASSUME ShownInv, [VideoNext]_<<vars, video>>
        PROVE  ShownInv'
    BY <1>1, PressNextShows, CommandShows, SetScreenShows, HandleTimerShows, OthersShow
       DEF VideoNext
  <1>2. ASSUME ShownInv
        PROVE  EverybodyIsShown
    BY <1>2 DEF ShownInv, UpToDate, EverybodyIsShown
  <1> QED BY <1>1, <1>2, InitShown, PTL DEF VideoSpec
==============================================================================
