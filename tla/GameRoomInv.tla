----------------------------- MODULE GameRoomInv -----------------------------
(***************************************************************************)
(* The inductive invariant of GameRoom.                                    *)
(*                                                                         *)
(* The properties of the ring are not inductive alone: that no pointer     *)
(* dangles after a node is deleted needs to know who points at that node,  *)
(* and hence how every operation may have linked the nodes before.  The    *)
(* game ends in a state that is never left, and some of the links are      *)
(* known only until then.                                                  *)
(*                                                                         *)
(* The conjuncts are stated of any heap h, because goToNextState works on  *)
(* intermediate ones: every builder and every deletion keeps WellLinked.   *)
(***************************************************************************)
EXTENDS GameRoom

Turn == {Speaking(q) : q \in 1 .. MaxPlayers - 1}
        \cup {Finished(q) : q \in 1 .. MaxPlayers - 1}
MurderNode == {WasMurdered(p) : p \in Targets} \cup {MurderedSpeech(p) : p \in Targets}
WonNode == WonKind \X (1 .. MaxAnnouncements)

LiveIn(h) == {n \in Node : h[n] # null}

(* What follows an allocated node is allocated.                            *)
Closed(h) == \A n \in LiveIn(h) : h[n] \in LiveIn(h)

(* Ballots do not follow each other for ever.                              *)
BallotsEnd(h) ==
  LiveIn(h) \cap Ballot # {} => \E b \in LiveIn(h) \cap Ballot : h[b] \notin Ballot

(* Only the voting, a ballot or the end of the game is followed by a       *)
(* ballot; and neither a turn to speak nor the voting follows a state in   *)
(* which somebody may be condemned, or the voting.                         *)
Judging == Ballot \cup {Phase("Doctor_curing")}
Hearing == Turn \cup {Phase("Voting")}

BallotLinks(h) ==
  \A n \in LiveIn(h) :
    /\ h[n] \in Ballot => n \in Ballot \cup {Phase("Voting")} \cup WonNode
    /\ n \in Judging \cup {Phase("Voting")} => h[n] \notin Hearing

(* The two nodes of a turn come and go together.                           *)
TurnPairs(h) ==
  \A q \in 1 .. MaxPlayers - 1 : Speaking(q) \in LiveIn(h) <=> Finished(q) \in LiveIn(h)

(* A node of a turn is reached from one node only.                         *)
TurnEntries(h) ==
  \A t \in Turn : \A m, n \in LiveIn(h) : h[m] = t /\ h[n] = t => m = n

PhasesLive(h) == \A k \in PhaseKind : Phase(k) \in LiveIn(h)

(* The end-of-game nodes are numbered up to i.                             *)
WonNumbered(h, i) == \A n \in LiveIn(h) \cap WonNode : n[2] <= i

WellLinked(h, i) ==
  /\ h \in Heap
  /\ Closed(h)
  /\ BallotsEnd(h)
  /\ BallotLinks(h)
  /\ TurnPairs(h)
  /\ TurnEntries(h)
  /\ PhasesLive(h)
  /\ WonNumbered(h, i)

(* Until the game is over a speech is followed by its end, and that by a   *)
(* later speech or the voting, ...                                         *)
TurnsInOrder(h) ==
  \A q \in 1 .. MaxPlayers - 1 :
    Speaking(q) \in LiveIn(h) =>
      /\ h[Speaking(q)] = Finished(q)
      /\ h[Finished(q)] \in {Speaking(r) : r \in q + 1 .. MaxPlayers - 1}
                              \cup {Phase("Voting")}

(* ... there are no nodes of a murder, except ...                          *)
NoMurder(h) == LiveIn(h) \cap MurderNode = {}

(* ... from the announcement of p's death to the end of his last speech:   *)
(* then there are two, in this order, after node b.                        *)
MurderOf(h, b, p) ==
  /\ b \in LiveIn(h) \cap Judging
  /\ p \in Targets
  /\ h[b] = WasMurdered(p)
  /\ h[WasMurdered(p)] = MurderedSpeech(p)
  /\ LiveIn(h) \cap MurderNode = {WasMurdered(p), MurderedSpeech(p)}
  /\ h[MurderedSpeech(p)] \in LiveIn(h) \ (Ballot \cup MurderNode \cup Hearing)
  /\ \A n \in LiveIn(h) : /\ h[n] = WasMurdered(p) => n = b
                          /\ h[n] = MurderedSpeech(p) => n = WasMurdered(p)

MurderLinks(h, s, b) ==
  /\ s \notin MurderNode => NoMurder(h)
  /\ s \in MurderNode => MurderOf(h, b, s[2])

(* What holds of the heap h with current state s until the game is over.   *)
PlayLinks(h, s, b) ==
  /\ LiveIn(h) \cap WonNode = {}
  /\ TurnsInOrder(h)
  /\ MurderLinks(h, s, b)

RingInv ==
  /\ state \in LiveIn(next)
  /\ Closed(next)
  /\ fate = "ok" => /\ WellLinked(next, wins)
                    /\ ~IsWon(state) => PlayLinks(next, state, before)
  /\ IsWon(state) => fate = "ok" /\ GameOver(character)
  /\ state[1] = "Villagers_won_the_game" => NoMafia(character)

IInv == TypeOK /\ RingInv
=============================================================================
