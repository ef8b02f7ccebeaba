# A TLA+ model of the Mafia game server

The repository is the server of an online game of Mafia, in C++ with Boost.Asio.
Players connect by TCP, log in, meet in rooms, and play: a moderator leads the
game by pressing NEXT, the players talk, vote, murder, check and cure, and the
server keeps the state of every room and streams video and audio by UDP. There
are no tests in the repository and no client.

This directory models the server in TLA+. TLC checks the models on small
instances; TLAPS proves every safety property that a passing run checks, of the
game, the rooms, the accounts, the pictures, the sockets and the framing of the
stream, for every value of the constants, under the conditions that are named
with the theorems, and that the game and the sockets implement their abstract
specifications.

- [Inventory](#inventory)
- [Modules](#modules)
- [Runs](#runs)
- [Proofs](#proofs)
- [Assumptions, and what is not modelled](#assumptions-and-what-is-not-modelled)
- [Findings](#findings)
- [Plan](#plan)

## Inventory

| Part | State | Operations | Correct when |
|------|-------|------------|--------------|
| `RoomState` (room_state) | heap nodes with a name and `next`, a ring per room | `buildStateChain`, `buildVotingChain`, `buildMurderChain`, `buildEndGameChain` | the nodes form one ring, nothing dangles, nothing leaks |
| `Room`, the game (room) | `state_`, `beforeAssasiation_`, `nominees_`, `murderedPlayer_`, `curedPlayer_`, characters and screens of the players | `goToNextState` with the deletions and `checkGameOver`; `nominateForVoting`, `setNumberOfVotes...`, `tryToMurderPlayer`, `curePlayer` | the rules of Mafia: only condemned players die, choices count once, the end is final |
| `Room`, membership (room) | `players_`, `positionMask_`, `maxPlayers_`, `status_`, the timer | `join`, `erasePlayer`, `assignCharactersRandomly` | mask, positions and members agree; a game starts full, once |
| `Server`, rooms (server) | `rooms_`, `playersById_`, id counters | `createNewRoomInstance`, `getRoomById`, `deleteRoom`, `deletePlayer`, `addBots` | rooms with players are listed, empty ones are not |
| `Server`, accounts (server, player) | `credentials`, `loginList_`, `passwordList_`, `credentialList_`, a file; the credential of every `Player` | `isBusyLogin`, `isRegistrated`, `loadPlayer`, `updatePlayerCredential`, `addPlayerCredential`, `start` | who registered can log in, a saved profile stays |
| `Connection`, `Acceptor`, `Hive` (network, my_network) | `pendingSends_`, `pendingReceives_`, `errorState_`, the socket, the `io_service` and its threads | `send`, `receive`, `accept`, their completion handlers, `startError`, `stop` | one write and one read at a time, messages in order, one clean-up per failure, stop ends |
| `MyConnection::onReceive` (my_network) | `carry`, the number of bytes the next read waits for | glues the pieces of the stream, cuts messages off | every frame is the next message, no byte is lost, nothing is waited for in vain |
| `UdpConnection` (network, my_network) | one outstanding receive, the last picture of every player | `handleReceive`, `onReceive`, `send` | the picture of a hidden player is not shown |
| The video timer (room) | `screenChanged_` and the screens of the players, `botCnt_` | `startTimer`, `handleTimer` | who wakes up sees what is shown, although nothing was sent to him while he slept |
| `command` (command) | none | dispatches messages to the operations above, sends the answers | every command changes what it should and tells everybody |
| `Formatter`, `PlayerMessage` | none | the texts of messages, their length prefix, splitting | a message is as long as it says |

How they interact: `main` starts three threads that run the handlers of one
`io_service`. A completed read ends in `MyConnection::onReceive`, which cuts the
stream into messages and calls `command::execute`; that calls `Server`, `Room`
and `Player`, and these send messages through the connections of all members of
a room. A connection's own handlers go through a strand, one at a time; the
handlers of *different* connections, of the room timers and of the UDP socket
run concurrently, and nothing in the server is locked.

What is hard here, and where the models look:

- **Surgery on the ring.** Votes and murders insert nodes into the ring and later
  delete them, found again by pieces of their names. One pointer remembered over
  several steps (`beforeAssasiation_`) decides what is deleted.
- **Values that outlive their day.** Nominees, the victim and the cured player
  are cleared in two places only.
- **Check, then act, on three threads.** The status of a room, its size, its
  first free position, "the room is empty now" and "this login is free" are
  each tested in one statement and used in another.
- **Two copies of one fact.** Membership is in `players_` and in `room_`, the
  positions in the players and in a mask, the accounts in a map, in three lists
  and in a file, the life of a player in his character and in the ring.
- **A stream without edges.** TCP cuts and glues messages anywhere, also inside
  the decimal length in front of a message, which counts its own digits.
- **Told, not asked.** The clients ask once for the list of rooms and then rely on
  being told of every change, by whichever handler makes it.
- **Failure.** A read and a write of a connection fail independently, while
  other threads still send to its player; an accept fails; the program may stop
  at any point, also between two lines of the file it is writing.

`PROJECT.json` lists the hazards line by line with the properties that cover
them.

## Modules

| Module | Models | Composition |
|--------|--------|-------------|
| `RoomState` | the ring of states as a heap, its builders and deletions | operators only |
| `GameRoom` | the state machine of a room that is PLAYING | extends `RoomState` |
| `MafiaRules` | what a game promises: abstract specification | implemented by `GameRoom` (`ImplementsRules`) |
| `GameRoomInv` | the inductive invariant of `GameRoom` | extends `GameRoom` |
| `GameRoom_proofs` | theorems and proofs | extends `GameRoomInv` |
| `Rules_proofs` | the order of the day: choices, turns, the refinement of `MafiaRules`, the ring as one cycle | extends `GameRoom_proofs` |
| `Lobby` | rooms, members, the start of a game, concurrently | on its own |
| `LobbyNews` | what the clients are told of the rooms | extends `Lobby`, whose steps it takes |
| `Lobby_proofs` | the invariant of `Lobby` that all interleavings keep, theorems and proofs | extends `Lobby` |
| `LobbyNews_proofs` | rooms and news when handlers do not overlap, theorems and proofs | extends `LobbyNews`, `Lobby_proofs` |
| `Accounts` | registration, login, profiles, file, restart | on its own |
| `Accounts_proofs` | its types in all interleavings, its agreement without, proofs | extends `Accounts` |
| `Mailbox` | what a sender may expect: abstract specification | implemented by `Network` (`ImplementsMailbox`) |
| `Network` | accepting, sending, receiving, errors, stop | instantiates `Mailbox` |
| `Network_proofs` | its invariant, the refinement of `Mailbox`, proofs | extends `Network` |
| `Framing` | the stream of one connection, cut into messages | on its own |
| `Framing_proofs` | the length prefix, the invariant, proofs | extends `Framing` |
| `Video` | pictures, NEXT and the timer on three threads | extends `GameRoom`, whose steps it takes |
| `Video_proofs` | two invariants, of what is hidden and of what is shown, and proofs | extends `Video` |
| `MC...` | values of constants for TLC | |

A definition that begins with the comment "Variant" is not part of a model: it
is what a plausible mistake would make of the definition that follows it, kept
to show that the properties notice the difference.

### RoomState and GameRoom

A node is the pair of its kind and the position that its name ends with, e.g.
`<<"Speaking_player", 3>>`; a heap maps nodes to their `next`, and a node that is
not allocated to `null`. Two allocated nodes with the same name exist only for
the end of the game, whose nodes are therefore numbered. The operators have the
names of the C++ functions. Searches in names that matter are kept as searches:
`NameContains` is `find` on the decimal digits, `TurnsFound` the turns that the
loop in `deleteMurderedPlayer` would stop at.

`GoToNextState` has one disjunct for each branch of `Room::goToNextState`, in the
order in which the code tests them, and each contains everything the branch
does: the choice of the branch, the surgery, `checkGameOver`, the move of
`state_`, the screens and the microphone messages of `changeRoomState`. Two
disjuncts are what happens when the code does not survive:
`EndMurderedSpeechHangs` (the search loop never ends) and
`EndMurderedSpeechCrashes` (`find_if` returned `end()`). After them `fate` is not
`"ok"` and the room does nothing more.

`Select` is `command::handleSelectedTarget`, `LeaveRoom` a player who leaves or
whose connection fails. The four choices of a `SELECT` take any number that the
client may send; `ClientChecks = TRUE` restricts them to seated, living players,
which is what a well-behaved client offers.

`MafiaRules` knows no ring. Its steps are: somebody is condemned; a day or night
ends, and whoever was condemned dies; the result is announced; somebody leaves;
the room breaks, which it may only when the condemned player is not in the game
any more. `ImplementsRules` maps the ring to it: `condemned` is read from the
name of the current node, `night` from the node or, while a victim is announced,
from the node before the announcement, and the two factions from the characters.

### Lobby

Every handler is a sequence of steps, cut wherever another thread may come
between two accesses to shared state, and the C++ statement is named in each
step: `EnterRoom` (getRoomById), `TestStatus`, `Insert`, `CheckSize` (the
assertion, and the timer), `FindSeat`, `TakeSeat`, `TestFull`, `Deal`,
`StartGame`; for a new room before them `CreateNewRoom`, after which the room is
listed with whatever was in `maxPlayers_` (`Garbage`), and `SetMaximumPlayers`,
with any number that the client has sent (`Capacity`); and `FreeSeat`, `ErasePlayer`, `TestEmpty`, `DeleteRoom` for leaving.
`Threads` is how many handlers may run at the same time, and a player has one
handler at a time, because his connection has a strand. `aborted` is the failed
assertion of room.cpp:30, the list of roles or the mask written past its end.

The server accepts every size of a room, and only some can be played. The creator
of a room for 0 fails the assertion as soon as he enters. A room for 1 or 2 is
dealt more roles than it has players (`EnoughPlayers`), and so is a room whose
players have left between the test and the deal. In a room for more than the
mask has positions, `find` returns `npos` for the first who finds none
(`FirstFree`, `NPos`), and `positionMask_` is written there. Each of these stops
the model: what follows the assertion is nothing, and what follows the others is
undefined.

### LobbyNews

Every client has three things it was last sent: the list of rooms (`list`), the
`ROOM_INFO` of its room (`info`), and what `START_GAME` told it (`role`). The
handlers of `Lobby` that end in `updateRoomList`, `updateRoomInfo` or the message
of `startGame` send them in their last step, to the players the code sends them
to. That is exact when handlers do not overlap, which the module assumes
(`OneHandlerAssumption`). The client shows the list while it is in no room and
the information while it is in one, and forgets what it does not show.
`ClientsAreCurrent` says that a client that is left alone is up to date.

### Accounts

The handlers are up to three steps: the tests, the changes in memory, and the
rewriting of the file, which the program may not survive: `CrashInWrite` leaves
the first lines of it, in the middle of an account or between two. No handler
tests what a connection has done before: it may save before it logs in, log in and
register again and again, and its fields stay when its account changes. Profiles are
functions from field numbers to texts; `Tokens` and `SetFields` do what the
formatting and parsing do to them (an empty last field is lost by
`Formatter::split`; `setCredential` falls through its cases and sets as many
fields as there are tokens, and leaves the others). So `LoadPlayer` may store in
an account what the connection had in its last field before. `saved` is what was
filled in for an account, at its registration or by SAVE_SETTINGS. `Restart`
loses everything but the file and reads it as `Server::start` does.

### Network

`queue[c]` is the strand of connection `c`: the handlers that are ready, in
order. `writes` and `reads` are the operations the operating system has not
completed; `Written` and `Read` complete them, with success or with an error.
`Choose` and `SendTo` are a sender on any thread, who has decided to write to
`c` and looks up the player of `c` later. A message is its number. `HandleAccept`
has the three ends of an accept: an error, a client that is gone when
`remote_endpoint` asks for its address, and a player. After the first two nobody
is accepted any more and what the code does is undefined (`crashed`). So ends
`HandleReceive` when `stoul` throws in `onReceive`, outside its `try`.

### Framing

A byte is its offset in the stream, and a vector of bytes is the interval of its
first offset and the one after its last: what is lost, doubled or out of order
shows as a gap or an overlap. `Read` is `async_read` with the number of bytes it
waits for, or `async_read_some` with any number up to `ReceiveBufferSize` of those
that are there. `OnReceive` glues the carry and the buffer, and either waits for
the rest of a message (`WaitForRest`) or hands the next frame over (`Execute`)
and calls itself again if what remains is at least as long as its own length
says. `LengthRead` is what `stoul` makes of the digits that are there; a piece
that ends inside a length gives a smaller number. When such a frame was handed
over the connection has lost its place (`lost`) and the model stops.

`Announced` is `Formatter::getMessageFormat`, the client's as well as the
server's, with its two special cases; `FitTexts` are the texts for which it is
right, and `LengthIsRight` proves that it is right for these. For texts of 98,
996 to 998 and 9995 to 9998 bytes it is one too small.

### Video

`PressNext` and `Command` are the steps of `GameRoom`; a packet is tested for
visibility (`TestVisible`) and stored (`SetScreen`) in two steps between which
the game may go on, one packet at a time, since `UdpConnection` receives again
only after `onReceive`. `HandleTimer` is a tick: the changed screens and the next
bot's go to those who see, and to the others who of the players is shown and who
hidden. `HandleTimerAborts` is its assertion that a picture has more than 1000
bytes, and `PacketFromOutside` a packet of somebody who has left; after both
nothing is promised. The module follows what a few players (`Watchers`) were
sent, in `view`.

## Runs

| Run | Specification | Question |
|-----|---------------|----------|
| `game_open` | `Spec`, five players, two deals, targets 0, 1, 3, two end-of-game nodes, clients that check nothing, departures | does every surgery leave a sound ring, do choices end with their day, who speaks, who dies, is the end final, does the room implement the rules |
| `game_eleven` | `FairSpec`, eleven players, targets 1, 3 and 10, clients that check, nobody leaves | is the right turn deleted when one position's name contains another, does no handler fail, does every living player speak again and again, does an announced victim die; and is `IInv`, which the proofs use, an invariant |
| `lobby_serial` | `NewsSpec`, one handler at a time, four humans, one bot, up to three rooms for 0, 2, 3 or 4 players, a mask of 3 | do mask, positions, list, timers and starts agree, do the clients know, and does only the size of a room stop the server |
| `lobby_race` | `Spec`, two handlers at a time, up to two rooms | what remains true in every interleaving |
| `lobby_overfull` | the same | may the assertion fail (it does) |
| `accounts_serial` | one handler at a time, two clients, two logins, one password, two fields, one restart or crash | do map, list and file agree, can accepted users log in, does the list show what users have filled in, does a login change what is stored |
| `accounts_lost` | as `accounts_serial`, with two passwords | does a saved profile survive a restart (it does not) |
| `accounts_race` | two handlers at a time | can everybody who was accepted log in (no) |
| `network` | `FairSpec`, two connections, two messages each | one write, one read, order, clean-up, and nothing left unwritten or kept alive |
| `network_stop` | `FairSpec`, one message each | does `Hive::stop` finish (it does not) |
| `framing` | `FairSpec`, five messages of 5 to 101 bytes, reads of up to 40 bytes | is every frame the next message, is every byte kept, is everything executed |
| `video` | `VideoSpec`, five players, two cameras, one watcher, one who may leave | is a hidden player's camera shown, and is who wakes up shown what the others see |

### Bounds, and why they are enough

- *Five players* is the smallest game with one mafioso, detective, doctor and
  villager besides the moderator. The two deals put the mafioso at the first
  position and between others, so that the turn that is deleted is the first of
  the ring, in the middle, or (for target 3 and 4) later; with three targets one
  voting may have several ballots, and ties. Vote counts 0 and 1 give every
  order of two nominees. Target 0, the moderator, has no turn to speak. A death
  or two end a game, and departures may end it at any point.
- *Two end-of-game nodes* let one NEXT after the end happen, after which nothing
  new can: every further node is inserted before the same tail. Further NEXTs
  are cut off there (`MaxAnnouncements`), which is why deadlock is not checked.
- *Eleven players* is the smallest number with a position of two digits. Eight
  of them are bots and nobody leaves, so that the states are those of the ring
  and the choices; targets 1 and 10 are the names that overlap, 3 is the doctor's.
- *Rooms of three* with one bot and up to four humans: a room can be empty, half
  full, full and, by a race, overfull, and a second and third room are created
  while the first is played. In `lobby_serial` three is also the length of the
  mask, so that a full room uses all of it; its clients ask as well for rooms that
  cannot be played: for nobody, for fewer than the characters dealt first (2), and
  for one more than the mask has positions (4), as NEW_ROOM 12 does in the code.
  The proofs have all sizes. What `maxPlayers_` holds before it is set is 0
  or the size in `lobby_race`, where another handler may see it.
- *Two fields* of a profile distinguish "all", "some" and "none" of the tokens,
  and a last field, which may be left over, from one that is not. One connection
  may use both accounts, and both connections one account. The second password is
  for a login that is busy with another one (`accounts_lost`, `accounts_race`); in
  `accounts_serial` the empty password that a crash leaves is the other one.
- *One restart*, or one crash while the file is written, at any point: a second
  one would begin from a file that the first could have left as well.
- *Messages* of 11, 23, 101, 5 and 11 bytes with a buffer of 40: the third does
  not fit in a read and has a length of three digits, a piece may hold the last
  part of one message, a whole one and the beginning of a third, and every
  length is cut at every digit.
- *Two cameras*, of a mafioso and of a player who may leave and whose pictures
  may be too short, with a bot beside them; one player who watches and falls
  asleep and wakes up as the phases go by. Nobody but the third player can be
  chosen; he may die and speak. One packet is under way at a time, as in the code.
- *Two messages* per client, one of them pending while the other is written,
  and one that is sent after the list was empty. The third would wait like the
  second.

Symmetry is used for players, clients and texts in runs without liveness
properties only.

### Deadlock and fairness

Deadlock is not checked in any run, because in all of them the system may stop:
rooms that are hung, crashed or played to the bound, a server whose players
have all left, an aborted server, a network with all its messages written, a
stream that was read to its end.

- `GameRoom!FairSpec` is weak fairness of `GoToNextState`: the moderator keeps
  pressing NEXT, and a message that was sent is handled since a thread of the
  Hive is free. The properties under it say nothing of a moderator who
  stops. No fairness is asked of any SELECT.
- `Network!FairSpec`: the threads take the handlers that are ready, a sender who
  has chosen his addressee goes on, writes end because clients read or break
  off, and operations on a closed socket are cancelled. No client has to send
  anything, and no fairness is asked of connecting, of `Choose` or of `Stop`.

- `Framing!FairSpec`: TCP delivers what was written (`Read` is enabled only when
  as many bytes are there as the read in progress waits for, so a read that asks
  for more than comes is a counterexample), and a thread runs `onReceive`. The
  client need not write.

## Proofs

`GameRoom_proofs` proves, for every number of players, all sets of targets, vote
counts, bots and deals, with and without checks of the client, with and without
departures:

| Theorem | Statement |
|---------|-----------|
| `Inductive` | `Spec => []IInv` |
| `TypeCorrect` | `Spec => []TypeOK` |
| `NoDanglingPointer` | the current state is allocated and every pointer leads to an allocated node, even if a handler hangs or crashes half way |
| `BeforeIsRight` | `Spec => []BeforeLeadsToVictim` |
| `VictoryIsReal` | `Spec => []WonOnlyIfOver` |
| `Victory` | `Spec => VictoryIsFinal` |
| `Deaths` | `Spec => DeathIsAnnounced` |
| `OneMicrophone` | `Spec => []OneSpeaker` |

`WonOnlyIfOver` is in no cfg, since two checked properties contain it: `IInv`, from
which it is proved, and `ImplementsRules`, in which a result can only be announced
when a faction is extinct.

They rest on the named assumptions on constants in `RoomState` and `GameRoom`:
at least three players, targets a finite set of natural numbers, deals with one
moderator at position 0.

The argument. None of the properties is inductive: that no pointer dangles after
a deletion needs to know who points at the deleted nodes. `IInv` says it by
*kinds* of nodes, without numbers and without walking the ring, so that a step
can be checked link by link:

- allocated nodes point at allocated nodes (`Closed`), and the phases of the
  day are always allocated;
- only the voting, a ballot or the end of the game leads to a ballot, and
  somewhere the ballots end (`BallotLinks`, `BallotsEnd`): so
  `deletePreviousVotingChain` finds a node to link to;
- the two nodes of a turn come and go together and are entered from one place
  (`TurnPairs`, `TurnEntries`): so deleting a turn leaves nothing dangling;
- until the game is over, a speech is followed by its end and that by a later
  speech or the voting (`TurnsInOrder`);
- nodes of a murder exist only between the announcement and the end of the last
  speech, and then are exactly two, after `before`, which is a ballot or the
  curing (`MurderLinks`): so `deleteMurderedPlayer` deletes the right ones.

The last two hold until the game is over: an end-of-game node may be inserted
anywhere. For each builder and deletion a lemma says what it does to any heap
with these links (`EndGameChainLinks`, `MurderChainLinks`, `VotingChainLinks`,
`DeletePreviousLinks`, `DeleteMurderLinks`, `DeleteTurnLinks`,
`StateChainLinks`); one lemma per action puts them together (`...Keeps`), with
`ProceedKeeps` for what all branches of `goToNextState` share. `IInv` is checked
by TLC in `game_eleven`.
`OneMicrophone` reads the links backwards: that a speech ends in the state after
its beginning and nowhere else follows from `TurnPairs`, `TurnEntries` and
`TurnsInOrder` of the heap *after* the step, and that a last speech follows its
announcement from `MurderLinks`, so that who is stopped is always who spoke.

`Rules_proofs` goes on from there, as generally but for the conditions that are
named:

| Theorem | Statement | If |
|---------|-----------|----|
| `ChoicesAreFresh` | `Spec => []FreshChoices` | |
| `NextAnnounced` | `Spec => NextIsAsAnnounced` | |
| `Turns` | `Spec => []TurnsAreLiving` | at most ten players, or clients that check |
| `NoEndlessSearch` | `Spec => [](fate # "hung")` | clients that check |
| `Works` | `Spec => []NeverFails` | clients that check, and nobody leaves |
| `RoomImplementsRules` | `Spec => ImplementsRules` | at most ten players, or clients that check |
| `RingIsWhole` | `Spec => []RingIsOneCycle` | |

The conditions are needed. Position 1 is found in the name of the turn of 10, so
with eleven players and a client that names somebody who is dead the search may delete
the turn of a player who lives. A client that names somebody who has no turn lets
the search run for ever, and a victim who leaves before the end of his speech
lets the handler use the end of `players_`.

*Choices.* The order of the phases is not in `IInv`. `ChoicesInv` adds what the
first two theorems need of it: the mafia, the detective and the doctor follow each
other, the ballots follow the voting, and the night follows the last ballot, or
the last speech if a ballot condemned somebody. With it the invariant says where a
choice can exist: a victim and a cure only from the mafia's phase to the
doctor's, nominees only at turns, the voting and the ballots. So the only ways
out of these states, `LeaveDoctor`, `CloseVoting` and the voting without
nominees, are the ones that leave none; and what a step rebuilds is never the
link of the state it leaves, except where a murder is put in between.

*Turns.* The search finds the victim's own turn if positions have one digit, or
if the victim has a turn: it is the first whose name contains his position.
`LiveChoices` says that with clients that check he has one, from the nomination
to the end of his speech: nobody else's turn is deleted in between, since one
murder is dealt with at a time, and the nominees, the ballots of the day, the
victim of the night and the condemned all have turns. Ballots of an earlier day
may be of the dead, but they are gone when the voting opens. `LiveChoices` and
`TurnsAreLiving` need each other: a player who is offered has a turn because he
lives.

*The rules.* `RulesInv` adds the rest of the day (the night begins after the
voting and its ballots, the morning comes after the doctor or the murder of the
night) and that the moderator is one and never dies. With these invariants each
action of the room is one of `MafiaRules` or changes nothing they speak of:
`AsCondemn`, `AsEndPeriod`, `AsAnnounce`, `AsBreak`, `AsLeave` and `AsStutter`
say when, in terms of the factions, the condemned and the period; and the lemmas
`...ByTheRules` show it for each way a step can go. What was hardest: a day ends in
two ways, from the last ballot to the night or through a murder to the node
*after* the deleted ones, and both have to be the same step of the rules; and the
player who dies is read from the name of a node while the rules take him from a
faction, so that he must still be in it (`VictimDies`).

*The ring.* `RingIsOneCycle` says that walking `next` visits every allocated node
and comes back, by a recursive function; the invariant says the same without a
walk: no set of allocated nodes but all of them is closed under `next`
(`OneCycle`). That can be shown of each surgery by set reasoning: a closed part
of the new ring is, with or without the nodes that were inserted or deleted, a
closed part of the old one. For the ballots of a day, which are inserted in one
go, the least and the greatest of the positions take the place of induction, as
they do for the turns that `buildStateChain` links. Deleting all ballots at once
keeps one cycle only if they stand in one row (`BallotBlock`), which the order of
the phases gives while the game is played, and which a game that is over keeps
for as long as the voting is still ahead (`CycleInv`): after that it stands still.
That one cycle is walked as `RingIsOneCycle` says (`OneCycleIsWalked`) uses that
the nodes are finitely many: `next` is onto, hence one-to-one, so that a walk that
meets itself meets itself at its beginning, and not before all nodes. The walk
exists as the limit of its finite beginnings (`WalkExists`).

`Lobby_proofs` proves of rooms, for any number of players, bots, rooms and
threads, and in every interleaving:

| Theorem | Statement |
|---------|-----------|
| `LobbyInductive` | `Spec => []LobbyInv` |
| `Membership` | `Spec => []MembershipAgrees` |
| `EmptyRooms` | `Spec => []EmptyRoomsAreDeleted` |
| `ModeratorsAreHuman` | `Spec => []NoBotModerates` |

`LobbyInv` says where the player of a handler is at each of its steps
(`Handlers`: in no room before `Insert` and after `ErasePlayer`, in the room of
the handler in between), and that somebody tends every empty room in the list
(`Tended`): a player who is about to insert himself, or one who left and has not
yet come to `DeleteRoom`. The status matters there: a player before `TestStatus`
counts only while the room is waiting, since he turns away from a room that is
played, and a room becomes PLAYING only by the handler of a player who is in it.
It is assumed that there is a bot (`PlayersAssumption`; `addBots` joins eight),
without which the server starts with an empty room.

`NoBotModerates` is proved and no run checks it.

`LobbyNews_proofs` proves what needs that handlers do not overlap, for any number
of players, bots and rooms, under `OneHandlerAssumption`. Clients may ask for rooms
of any size, 0 and more than the mask included: `CapacityAssumption` says only
that sizes are natural numbers and that the bots, who are joined by the server
itself, have places in their room and in the mask. The rooms are there as in
`Lobby`, because every step of `LobbyNews` is one of `Lobby` (`NewsIsLobby`):

| Theorem | Statement |
|---------|-----------|
| `RoomsInductive` | `NewsSpec => [](LobbyInv /\ (SerialInv \/ Stopped))` |
| `LobbyTypes` | `NewsSpec => []TypeOK` |
| `OnlySizesAbort` | `NewsSpec => []AbortsOnlyBySize` |
| `MasksAgree` | `NewsSpec => []MaskShowsSeats` |
| `OccupiedRun` | `NewsSpec => []OccupiedRoomsRun` |
| `FullGames` | `NewsSpec => GamesStartFull` |
| `GamesClosed` | `NewsSpec => GamesAreClosed` |
| `NewsAreCurrent` | `NewsSpec => []ClientsAreCurrent` |

`SerialInv` holds at every step of a handler, not only between handlers: the mask
has the positions of those members who have one and have not given it back
(`Masks`), a room has no more members than places, but for the creator of a room
for nobody, and is full and waiting only while the handler that filled it has not
started it (`Sizes`), what that handler has tested is still so (`Entering`), and
between deal and start the players have the positions from 0 on, the moderator
the first (`Dealt`). `Stopped` is a server that has aborted in a handler of a room
whose size is not in `3 .. MaskSize`; it does nothing any more. So `OnlySizesAbort`
is what holds of all rooms, and says that in a room of a playable size no handler
that runs alone fails. That a free position exists there and is below the size of
the room is an argument by cardinality: the members that are seated are one fewer
than those in the room. `GamesStartFull` is an action property: it looks at the step
in which a room becomes PLAYING, before anybody can leave. `NewsInv` says of each client which list, information
and role it was sent last, except while a handler runs that will send others. With
more threads these are not claimed (`lobby_overfull` shows one way to break them).

`Accounts_proofs` proves of the accounts, for any number of clients, logins,
passwords, texts, fields and restarts, wherever the program ends:

| Theorem | Statement | If |
|---------|-----------|----|
| `AccountTypes` | `Spec => []TypeOK` | |
| `SerialAgreement` | `Spec => [](TypeInv /\ SerialInv)` | one handler at a time |
| `AcceptedStay` | `Spec => []AcceptedCanLogIn` | one handler at a time |
| `MemoriesAgree` | `Spec => []OneEntryPerLogin` | one handler at a time |
| `ProfilesAreKept` | `Spec => []SavedProfileIsKept` | one handler at a time |
| `LoginKeeps` | `Spec => LoginKeepsProfiles` | one handler at a time |

`SerialInv` relates the copies while a handler is in the middle: the list has each
login once and with the password of the map (`MapAgrees`); who was let in is in
the list and in the file, unless a crash cut him off there (`FileAgrees`); what
the handler found in its tests is still so (`FoundHolds`); and an entry has a token
for every field but possibly the last, and shows what its user filled in last, or
what his handler is about to write, but for a last field that he left empty
(`ProfilesAgree`). Nothing is assumed of what a connection has in its fields when
it logs in: `LoadedIsShown` says that fields with a token do not depend on it, and
`ShowsTheSame` that the others change only in the account that is logged in to. The
file is read back by position, so the lemmas about lists are about beginnings of
sequences: what a crash leaves is one, with at most one more entry whose password
is empty.

`Network_proofs` proves of the sockets, for any number of connections and
messages:

| Theorem | Statement |
|---------|-----------|
| `NetInductive` | `Spec => []NetInv` |
| `NetTypeCorrect` | `Spec => []TypeOK` |
| `WritesOneByOne` | `Spec => []OneWriteAtATime` |
| `ReadsOneByOne` | `Spec => []OneReadAtATime` |
| `PlayersConnected` | `Spec => []PlayersAreConnected` |
| `NetworkImplementsMailbox` | `Spec => ImplementsMailbox` |

`NetInv` is a conjunction of parts that each speak of one connection
(`ConnInv(c)`), and of one part that says that a single connection is being
accepted (`AcceptInv`). The heart of `ConnInv` is the account of the messages:
of the `n` that were sent, the first `b` are done, those of the list `p` come
next, and those that the strand has not yet put there follow in order
(`Numbered`); until the connection fails, what is done has been written, but for
one message whose end still waits in the strand (`UpToWire`). A step touches one
connection; `StepAt` and `OthersKeep` reduce the invariant to the part of that
one. The refinement follows: a write that ends well is the number after the last.

`Framing_proofs` proves of the stream, for any list of texts that fit, any cuts
and any size of the buffer:

| Theorem | Statement |
|---------|-----------|
| `LengthIsRight` | for every text in `FitTexts`, the announced length is that of the whole message |
| `FramesAreMessages` | `Spec => []InStep` |
| `NoByteIsLost` | `Spec => []BytesInOrder` |

The invariant `FramingInv` is the two, the types, and `InPlace`: what is read was
written, and until the stream is lost the last frame ended where a message does. The lemma that carries it says how the number that is read
from a cut length compares to the size of the piece: only a lone 1 is not larger.

`Video_proofs` proves of the pictures, for any number of players, all cameras,
watchers and players who leave:

| Theorem | Statement |
|---------|-----------|
| `VideoInductive` | `VideoSpec => []VideoInv` |
| `NobodyPeeps` | `VideoSpec => []NoPeeping` |
| `Shown` | `VideoSpec => []EverybodyIsShown` |

The ring plays no part in it: whatever state NEXT enters, it covers the screens
of all who are not visible there. What is needed for `NoPeeping` is that the packet
which has passed the test is the only one (`OnePeeps`). `Shown` rests on
`ShownInv`: the screen of whoever is seated and alive, but for bots, shows his
camera or the cover (`Covered`); and a screen that is no camera picture and is not
marked as changed is what each watcher in the room was sent last, a bot's screen
only those who can see (`UpToDate`).

What stays with TLC:

- All liveness properties: `EverybodyGetsToSpeak`, `AnnouncedVictimDies`,
  `MessagesAreWritten`, `FailedConnectionsEnd`, `MessagesAreExecuted`. Each needs
  fairness, and `ENABLED` is out of the prover's reach.
- The findings, which are counterexamples.
- `Lobby!TypeOK` when handlers overlap: `LobbyTypes` proves it for handlers that
  do not; `lobby_race` checks it with two threads.

## Assumptions, and what is not modelled

- Handlers of one room are atomic in `GameRoom`: the moderator alone presses
  NEXT, and a well-behaved client sends one command after the other. `Lobby` is
  where handlers overlap, at the granularity of statements; data races inside a
  `std::set`, `std::map` or `std::vector` are outside both.
- A client in a room does not enter another one (`Lobby`). The server does not
  check it.
- Logins and passwords are not empty, except for the password that a crash has
  cut off, and no login is "#". Texts have no spaces: they are what `split` leaves.
- NEXT and SELECT come from members of a room that has started; from others the
  server follows a null pointer.
- Two handlers of `Accounts` do not push to the three lists, nor write the file,
  at the same moment.
- In `Network` the acceptor's strand is folded into the connection that is being
  accepted, and a connection accepts once. The timers of connections are never
  started, `Acceptor::stop`, `Hive::poll` and `Hive::reset` never called.
- Texts, formats, logging and the passwords of rooms change no state and are left
  out. Answers appear where a property is about them: the microphone in
  `GameRoom`, acceptance in `Accounts`, the lists and roles in `LobbyNews`.
- In `Framing` a client's texts fit (`FitTexts`), and nothing is said of a stream
  after a piece that ended inside a length: `onReceive` then takes text for
  lengths.
- In `Video` a tick is one step and its datagrams arrive, every player has an
  address of his own, and sound, which changes nothing, is left out. A picture
  that comes between the copy of the screen in `handleTimer` and
  `setScreenChanged(false)` would not be sent; the race is inside a vector, and
  what it does is undefined. So is what a tick does in the window between the deal
  and the first state of a game (room.cpp:45), where `state_` is null.
- Datagrams that get lost, and the buffer that `async_send_to` borrows from a
  caller that has returned (network.cpp:449), are not modelled.

## Findings

1. **The last free place** (`lobby_overfull`). Two players who enter the last
   free place of a room at the same time fail the assertion of room.cpp:30.
2. **Profiles do not survive a restart** (`accounts_lost`). server.cpp:202 puts
   the login where the profile belongs.
3. **One login, two accepted registrations** (`accounts_race`). command.cpp:152
   tests, server.cpp:303-310 adds, nothing is locked.
4. **`Hive::stop` does not return** (`network_stop`), although network.h:349-351
   says that all work is finished then.

The passing runs also show what is true only under conditions that the server
does not enforce.

- `NeverFails` needs clients that offer only living players, and players who
  stay.
- The properties of `lobby_serial` and `accounts_serial` need handlers that do not
  overlap.
- NEW_ROOM takes any number (command.cpp:51). `AbortsOnlyBySize` shows that the
  sizes from three to the length of the mask are safe; with any other, one handler
  is enough to stop the server: the creator of a room for nobody fails the
  assertion of room.cpp:30, the deal for one or two writes behind the list of roles
  (room.cpp:437-439), and the player who is one too many for the mask gets `npos`
  (room.cpp:38-40). room.h:137-138 declare bounds that nothing reads.
- A login sets as many fields as were stored (server.cpp:286). A last field that
  was left empty keeps what the connection had in it, and is stored with it in the
  account; `SavedProfileIsKept` and `LoginKeepsProfiles` except that field.

## Plan

Done: 1. `RoomState`, `GameRoom`, `MafiaRules`; 2. `GameRoomInv` and its proofs;
3. `Lobby` and its proofs; 4. `Accounts`, with crashes while the file is written;
5. `Mailbox`, `Network` and the proof of the refinement; 6. `Framing` with the
length prefix, and its proofs; 7. `Video` and the proof of `NoPeeping`;
8. `LobbyNews`; 9. `OneSpeaker` from the links of the ring; 10. `FreshChoices` and
`NextIsAsAnnounced` from the order of the phases; 11. the refinement of
`MafiaRules`, and `NeverFails` under its conditions; 12. the ring as one cycle;
13. the accounts, the rooms and the news without overlapping handlers;
14. `EverybodyIsShown`.

Next, in this order:

1. `GameRoom` under overlapping NEXT and leave handlers, and two NEXTs at a time:
   what of the ring survives when handlers of one room are cut at the
   statements.
2. What of `SerialInv` of the rooms and of the accounts survives overlapping
   handlers: each player's own position, the growth of the list.
3. `ClientsAreCurrent` with overlapping handlers, where it is not true: which
   clients stay out of date, and until when.
4. A departure during a last speech: which departures `NeverFails` tolerates.
