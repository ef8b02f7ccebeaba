---------------------------- MODULE Rules_proofs ----------------------------
(***************************************************************************)
(* Theorems about GameRoom that need the order of the day, for any number  *)
(* of players, any targets, deals and clients except where a theorem says  *)
(* otherwise:                                                              *)
(*   - a choice counts on the day or in the night in which it was made, and*)
(*     NEXT leads where it was announced;                                  *)
(*   - turns to speak are those of the living, and a room whose clients    *)
(*     offer only living players goes on working;                          *)
(*   - the room plays by MafiaRules;                                       *)
(*   - its ring is one cycle.                                              *)
(*                                                                         *)
(* The invariant of GameRoomInv says nothing of the order of the phases.   *)
(* What is added to it here is small: the phases of the night follow each  *)
(* other, the ballots follow the voting, and the night or the morning      *)
(* follows the last of them, whatever is built and deleted in between.     *)
(***************************************************************************)
EXTENDS GameRoom_proofs

Murdering  == Phase("Mafia_murdered")
Checking   == Phase("Detective_checking")
Curing     == Phase("Doctor_curing")
TheVoting  == Phase("Voting")
TheNight   == Phase("Night")

(* The phases in which choices are made and used follow each other; only   *)
(* ballots and a murder come in between.                                   *)
PhaseOrder(h) ==
  /\ h[Murdering] = Checking
  /\ h[Checking] = Curing
  /\ h[TheVoting] \in Ballot \cup {TheNight}
  /\ \A b \in LiveIn(h) \cap Ballot : h[b] \in Ballot \cup MurderNode \cup {TheNight}

(* The night follows the last speech of a player who was voted out.        *)
NightFollows(h, s, b) ==
  s \in MurderNode /\ b \in Ballot => h[MurderedSpeech(s[2])] = TheNight

(* Where a choice may exist.                                               *)
ChosenAt(s)    == s \in {Murdering, Checking, Curing}
NominatedAt(s) == s \in Turn \cup {TheVoting} \cup Ballot

ChoicesLinks ==
  /\ PhaseOrder(next)
  /\ NightFollows(next, state, before)
  /\ (murdered = Nobody /\ cured = Nobody) \/ ChosenAt(state)
  /\ Nominated = {} \/ NominatedAt(state)
  /\ state = TheVoting /\ Nominated # {} => next[TheVoting] \in Ballot

ChoicesInv == fate = "ok" /\ ~IsWon(state) => ChoicesLinks

-----------------------------------------------------------------------------
(* The order of the phases survives what is done to the ring.              *)

(* The phases named here are different nodes, and none is of another kind. *)
LEMMA PhasesDiffer ==
  /\ Murdering # Checking /\ Murdering # Curing /\ Checking # Curing
  /\ {Murdering, Checking, Curing, TheVoting, TheNight} \subseteq Node
  /\ {Murdering, Checking, Curing, TheVoting, TheNight}
       \cap (Ballot \cup Turn \cup MurderNode \cup WonNode) = {}
  /\ TheVoting \notin {Murdering, Checking, Curing, TheNight}
  /\ TheNight \notin {Murdering, Checking, Curing}
  BY DEF Murdering, Checking, Curing, TheVoting, TheNight, Node, Phase, PhaseKind, Ballot, Turn,
         MurderNode, WonNode, WonKind, VotingAgainst, Speaking, Finished, WasMurdered,
         MurderedSpeech

(* When yesterday's ballots are deleted the night follows the voting.      *)
LEMMA DeletePreviousOrder ==
  ASSUME NEW h, NEW i \in Nat, WellLinked(h, i), PhaseOrder(h), NoMurder(h),
         NEW g, g = DeletePreviousVotingChain(h)
  PROVE  PhaseOrder(g) /\ g[TheVoting] = TheNight
  <1> USE PhasesDiffer
  <1>1. h \in Heap /\ Closed(h) /\ BallotsEnd(h)
    BY DEF WellLinked
  <1>2. \A n \in Node \ Ballot :
          g[n] = IF h[n] \in Ballot THEN AfterBallots(h) ELSE h[n]
    BY DEF DeletePreviousVotingChain
  <1>3. /\ g[Murdering] = Checking /\ g[Checking] = Curing
    BY <1>2 DEF PhaseOrder
  <1>4. ASSUME h[TheVoting] \in Ballot PROVE AfterBallots(h) = TheNight
    <2>1. h[TheVoting] \in Node /\ TheVoting \in LiveIn(h)
      BY <1>4, NodeSets DEF LiveIn
    <2>2. LiveIn(h) \cap Ballot # {}
      BY <1>1, <1>4, <2>1 DEF Closed
    <2>3. PICK b \in LiveIn(h) \cap Ballot : h[b] \notin Ballot
      BY <1>1, <2>2 DEF BallotsEnd
    <2>4. h[b] \in Node \ Ballot
      BY <1>1, <2>3 DEF Closed, LiveIn
    <2>5. /\ AfterBallots(h) \in Node \ Ballot
          /\ \E a \in Ballot : h[a] = AfterBallots(h)
      BY <2>3, <2>4 DEF AfterBallots
    <2>6. PICK a \in Ballot : h[a] = AfterBallots(h)
      BY <2>5
    <2>7. a \in LiveIn(h) /\ AfterBallots(h) \in LiveIn(h)
      BY <1>1, <2>5, <2>6, NodeSets DEF LiveIn, Closed
    <2>8. AfterBallots(h) \notin MurderNode
      BY <2>7 DEF NoMurder
    <2> QED BY <2>5, <2>6, <2>7, <2>8 DEF PhaseOrder
  <1>5. g[TheVoting] = TheNight
    BY <1>2, <1>4 DEF PhaseOrder
  <1>6. \A b \in LiveIn(g) \cap Ballot : FALSE
    BY DEF DeletePreviousVotingChain, LiveIn
  <1> QED BY <1>3, <1>5, <1>6 DEF PhaseOrder

(* Today's ballots are put between the voting and the night.               *)
LEMMA VotingOrder ==
  ASSUME NEW h, PhaseOrder(h), h[TheVoting] = TheNight, LiveIn(h) \cap Ballot = {}, h \in Heap,
         NEW S \in SUBSET Targets,
         NEW g, g = BuildVotingChain(h, TheVoting, S)
  PROVE  /\ PhaseOrder(g)
         /\ S # {} => g[TheVoting] \in Ballot
  <1> USE PhasesDiffer
  <1>1. S \subseteq Nat
    BY TargetsAssumption
  <1>2. ASSUME S # {} PROVE g[TheVoting] \in Ballot
    <2>1. LeastOf(S) \in S
      BY <1>1, <1>2, LeastOfIsLeast
    <2>2. g[TheVoting] = VotingAgainst(LeastOf(S))
      BY <1>2 DEF BuildVotingChain
    <2> QED BY <2>1, <2>2 DEF Ballot
  <1>3. S = {} => g[TheVoting] = TheNight
    BY DEF BuildVotingChain, Phase, TheVoting
  <1>4. g[Murdering] = Checking /\ g[Checking] = Curing
    BY DEF BuildVotingChain, PhaseOrder, Phase, Murdering, Checking, TheVoting
  <1>5. ASSUME NEW b \in LiveIn(g) \cap Ballot
        PROVE  g[b] \in Ballot \cup MurderNode \cup {TheNight}
    <2>1. PICK p \in Targets : b = VotingAgainst(p)
      BY DEF Ballot
    <2>2. b \in Node /\ b # TheVoting /\ b[1] = "Voting_against_player" /\ b[2] = p
      BY <2>1 DEF VotingAgainst, LiveIn
    <2> DEFINE later == {q \in S : q > p}
    <2>3. CASE p \in S
      <3>1. g[b] = IF later = {} THEN TheNight ELSE VotingAgainst(LeastOf(later))
        BY <2>2, <2>3 DEF BuildVotingChain
      <3>2. later # {} => LeastOf(later) \in later
        BY <1>1, LeastOfIsLeast
      <3> QED BY <3>1, <3>2 DEF Ballot
    <2>4. CASE p \notin S
      <3>1. g[b] = h[b]
        BY <2>2, <2>4 DEF BuildVotingChain
      <3> QED BY <2>2, <3>1 DEF LiveIn
    <2> QED BY <2>3, <2>4
  <1> QED BY <1>2, <1>3, <1>4, <1>5 DEF PhaseOrder

(* A murder is announced after a ballot or after the doctor.               *)
LEMMA MurderOrder ==
  ASSUME NEW h \in Heap, PhaseOrder(h), NEW s \in Judging, NEW p \in Targets,
         NEW g, g = BuildMurderChain(h, s, p)
  PROVE  /\ PhaseOrder(g)
         /\ g[s] = WasMurdered(p)
         /\ g[MurderedSpeech(p)] = h[s]
  <1> USE PhasesDiffer, NodeSets, NodesDiffer
  <1>1. /\ s \in Node /\ WasMurdered(p) \in MurderNode /\ MurderedSpeech(p) \in MurderNode
        /\ WasMurdered(p) # MurderedSpeech(p)
        /\ s \in Ballot \cup {Curing}
    BY DEF Judging, MurderNode, WasMurdered, MurderedSpeech, Curing
  <1>2. /\ g[s] = WasMurdered(p)
        /\ g[MurderedSpeech(p)] = h[s]
        /\ \A n \in Node \ MurderNode : n # s => g[n] = h[n]
    BY <1>1 DEF BuildMurderChain, Heap
  <1>3. g[Murdering] = Checking /\ g[Checking] = Curing /\ g[TheVoting] = h[TheVoting]
    BY <1>1, <1>2 DEF PhaseOrder
  <1>4. ASSUME NEW b \in LiveIn(g) \cap Ballot
        PROVE  g[b] \in Ballot \cup MurderNode \cup {TheNight}
    <2>1. CASE b = s
      BY <1>1, <1>2, <2>1
    <2>2. CASE b # s
      BY <1>2, <2>2 DEF PhaseOrder, LiveIn
    <2> QED BY <2>1, <2>2
  <1> QED BY <1>2, <1>3, <1>4 DEF PhaseOrder

-----------------------------------------------------------------------------
(* The steps of the room, as far as choices go.                            *)

(* What is known of a room before a step of a game that goes on.           *)
LEMMA DuringPlay ==
  ASSUME IInv, fate = "ok", ~IsWon(state)
  PROVE  /\ state \in Node /\ next \in Heap /\ wins \in Nat /\ DOMAIN next = Node
         /\ WellLinked(next, wins)
         /\ PlayLinks(next, state, before)
         /\ next[state] \in LiveIn(next)
         /\ state \notin MurderNode => NoMurder(next) /\ next[state] \notin MurderNode
  <1>1. /\ WellLinked(next, wins) /\ state \in Node /\ wins \in Nat
        /\ PlayLinks(next, state, before)
        /\ next[state] \in LiveIn(next)
    BY WhileOk
  <1>2. next \in Heap /\ DOMAIN next = Node
    BY <1>1 DEF WellLinked, Heap
  <1> QED BY <1>1, <1>2 DEF PlayLinks, MurderLinks, NoMurder

(* The states after which something is built or deleted are of one kind.   *)
LEMMA StatesDiffer ==
  /\ \A n \in Node : n[1] = "Murdered_players_speech" => n \in MurderNode
  /\ \A n \in Node : n[1] = "Was_murdered_player" => n \in MurderNode
  /\ \A n \in Node : n \in Ballot <=> IsBallot(n)
  /\ \A n \in Node : n \in MurderNode /\ n[1] # "Murdered_players_speech"
                       => n[1] = "Was_murdered_player" /\ n = WasMurdered(n[2])
                          /\ n[2] \in Targets
  /\ \A n \in Node : n \in MurderNode /\ n[1] = "Murdered_players_speech"
                       => n = MurderedSpeech(n[2]) /\ n[2] \in Targets
  BY NodeKinds DEF MurderNode, WasMurdered, MurderedSpeech

(* What a step without surgery leads to.                                   *)
LEMMA AdvanceOrder ==
  ASSUME IInv, ChoicesInv, Advance, ~IsWon(state')
  PROVE  ChoicesLinks' /\ state' = next[state]
  <1> USE PhasesDiffer
  <1>1. /\ fate = "ok" /\ Proceed(state, next, character) /\ UNCHANGED choices
        /\ next[state] # TheVoting /\ state # Curing
        /\ ~(IsBallot(state) /\ next[state] = TheNight)
        /\ state[1] # "Murdered_players_speech"
    BY DEF Advance, CanCommand, TheVoting, Curing, TheNight
  <1>2. /\ ~IsWon(state) /\ next' = next /\ state' = next[state]
        /\ before' = IF state'[1] = "Was_murdered_player" THEN state ELSE before
    <2>1. /\ state \in Node /\ wins \in Nat /\ DOMAIN next = Node
          /\ IsWon(state) => state[2] <= wins
      BY <1>1, WhileOk, NodeKinds DEF WellLinked, WonNumbered, Heap
    <2>2. ~GameOver(character) /\ next' = next /\ state' = next'[state]
      BY <1>1, <2>1, ProceedLeads
    <2> QED BY <1>1, <2>2, WhileOk DEF Proceed
  <1>3. ChoicesLinks
    BY <1>1, <1>2 DEF ChoicesInv
  <1>4. NightFollows(next', state', before')
    <2>1. CASE state \notin MurderNode
      BY <1>1, <1>2, <2>1, DuringPlay DEF NightFollows
    <2>2. CASE state \in MurderNode
      <3>1. state = WasMurdered(state[2]) /\ state[2] \in Targets
        BY <1>1, <1>2, <2>2, DuringPlay, StatesDiffer
      <3>2. state' = MurderedSpeech(state[2])
        BY <1>1, <1>2, <2>2, <3>1, DuringPlay DEF PlayLinks, MurderLinks, MurderOf
      <3>3. state'[2] = state[2] /\ state'[1] # "Was_murdered_player"
        BY <3>2 DEF MurderedSpeech
      <3> QED BY <1>2, <1>3, <2>2, <3>3 DEF ChoicesLinks, NightFollows
    <2> QED BY <2>1, <2>2
  <1>5. ChosenAt(state) => ChosenAt(state')
    BY <1>1, <1>2, <1>3 DEF ChoicesLinks, PhaseOrder, ChosenAt
  <1>6. ASSUME NominatedAt(state), Nominated # {} PROVE NominatedAt(state') /\ state' # TheVoting
    <2>1. CASE state \in Turn
      <3>1. next[state] \in Turn \cup {TheVoting}
        <4>1. PICK q \in 1 .. MaxPlayers - 1 : state \in {Speaking(q), Finished(q)}
          BY <2>1 DEF Turn
        <4>2. Speaking(q) \in LiveIn(next)
          BY <1>1, <1>2, <4>1, WhileOk, DuringPlay DEF WellLinked, TurnPairs
        <4>3. /\ next[Speaking(q)] = Finished(q)
              /\ next[Finished(q)] \in {Speaking(r) : r \in q + 1 .. MaxPlayers - 1}
                                         \cup {TheVoting}
          BY <1>1, <1>2, <4>2, DuringPlay DEF PlayLinks, TurnsInOrder, TheVoting
        <4> QED BY <4>1, <4>3 DEF Turn
      <3> QED BY <1>1, <1>2, <3>1 DEF NominatedAt
    <2>2. CASE state = TheVoting
      BY <1>2, <1>3, <1>6, <2>2 DEF ChoicesLinks, NominatedAt
    <2>3. CASE state \in Ballot
      <3>1. state \in LiveIn(next) /\ state \notin MurderNode /\ next[state] # TheNight
        BY <1>1, <1>2, <2>3, WhileOk, DuringPlay, NodesDiffer, StatesDiffer
      <3>2. next[state] \in Ballot
        BY <1>1, <1>2, <1>3, <2>3, <3>1, DuringPlay DEF ChoicesLinks, PhaseOrder
      <3> QED BY <1>2, <3>2 DEF NominatedAt
    <2> QED BY <1>6, <2>1, <2>2, <2>3 DEF NominatedAt
  <1>7. nominees' = nominees /\ murdered' = murdered /\ cured' = cured
    BY <1>1 DEF choices
  <1>8. Nominated' = Nominated
    BY <1>7 DEF Nominated
  <1> QED BY <1>1, <1>2, <1>3, <1>4, <1>5, <1>6, <1>7, <1>8 DEF ChoicesLinks

(* The step to the voting, which the ballots of today follow.              *)
LEMMA OpenVotingOrder ==
  ASSUME IInv, ChoicesInv, OpenVoting, ~IsWon(state')
  PROVE  ChoicesLinks' /\ state' = next[state]
  <1> DEFINE g1 == DeletePreviousVotingChain(next)
             g2 == BuildVotingChain(g1, TheVoting, Nominated)
  <1> USE PhasesDiffer
  <1>1. /\ fate = "ok" /\ Proceed(state, g2, character) /\ UNCHANGED choices
        /\ next[state] = TheVoting
    BY DEF OpenVoting, CanCommand, TheVoting
  <1>2. /\ ~IsWon(state) /\ next' = g2 /\ state' = g2[state]
        /\ before' = IF state'[1] = "Was_murdered_player" THEN state ELSE before
    <2>1. /\ state \in Node /\ wins \in Nat /\ DOMAIN g2 = Node
          /\ IsWon(state) => state[2] <= wins
      BY <1>1, WhileOk, NodeKinds DEF WellLinked, WonNumbered, BuildVotingChain
    <2> HIDE DEF g2
    <2>2. ~GameOver(character) /\ next' = g2 /\ state' = next'[state]
      BY <1>1, <2>1, ProceedLeads
    <2> QED BY <1>1, <2>2, WhileOk DEF Proceed
  <1>3. ChoicesLinks
    BY <1>1, <1>2 DEF ChoicesInv
  <1>4. /\ state \notin Ballot \cup MurderNode /\ state # TheVoting /\ state # Curing
        /\ state \in LiveIn(next)
    <2>1. state \in LiveIn(next) /\ state \notin Judging \cup {TheVoting}
      BY <1>1, <1>2, WhileOk, DuringPlay DEF WellLinked, BallotLinks, Hearing, TheVoting
    <2>2. state \notin MurderNode
      BY <1>1, <1>2, DuringPlay, StatesDiffer
         DEF PlayLinks, MurderLinks, MurderOf, MurderNode, Hearing, WasMurdered,
             MurderedSpeech, TheVoting, Phase
    <2> QED BY <2>1, <2>2 DEF Judging, Curing
  <1>5. /\ NoMurder(next) /\ WellLinked(next, wins) /\ wins \in Nat
        /\ next \in Heap /\ state \in Node
    BY <1>1, <1>2, <1>4, DuringPlay
  <1>6. /\ PhaseOrder(g1) /\ g1[TheVoting] = TheNight
        /\ g1 \in Heap /\ LiveIn(g1) \cap Ballot = {}
    <2>1. WellLinked(g1, wins) /\ LiveIn(g1) = LiveIn(next) \ Ballot
      BY <1>5, DeletePreviousLinks
    <2> QED BY <1>3, <1>5, <2>1, DeletePreviousOrder DEF ChoicesLinks, WellLinked
  <1>7. g1[state] = TheVoting
    BY <1>1, <1>4, <1>5 DEF DeletePreviousVotingChain
  <1> HIDE DEF g1
  <1>8. PhaseOrder(g2) /\ (Nominated # {} => g2[TheVoting] \in Ballot)
    BY <1>6, VotingOrder DEF Nominated
  <1>9. state' = TheVoting
    <2>1. g2[state] = g1[state]
      BY <1>4, <1>5, StatesDiffer DEF BuildVotingChain, IsBallot
    <2> QED BY <1>2, <1>7, <2>1
  <1> HIDE DEF g2
  <1>10. ~ChosenAt(state)
    BY <1>1, <1>3, <1>4 DEF ChosenAt, ChoicesLinks, PhaseOrder
  <1>11. nominees' = nominees /\ murdered' = murdered /\ cured' = cured
    BY <1>1 DEF choices
  <1>12. Nominated' = Nominated
    BY <1>11 DEF Nominated
  <1>13. ChoicesLinks'
    BY <1>2, <1>3, <1>8, <1>9, <1>10, <1>11, <1>12
       DEF ChoicesLinks, NightFollows, NominatedAt
  <1> QED BY <1>1, <1>9, <1>13

(* The last ballot is closed: the nominees are forgotten, and whoever is   *)
(* condemned speaks before the night.                                      *)
LEMMA CloseVotingOrder ==
  ASSUME IInv, ChoicesInv, CloseVoting, ~IsWon(state')
  PROVE  /\ ChoicesLinks'
         /\ state' = next[state] \/ state'[1] = "Was_murdered_player"
  <1> USE PhasesDiffer
  <1>1. /\ fate = "ok" /\ IsBallot(state) /\ next[state] = TheNight
        /\ Nominated' = {} /\ murdered' = murdered /\ cured' = cured
    BY DEF CloseVoting, CanCommand, TheNight, ClearNominees, Nominated
  <1>2. state \in Ballot /\ state \in Node /\ ~IsWon(state) /\ state \in Judging
    BY <1>1, WhileOk, NodeKinds, NodesDiffer DEF Judging
  <1>3. ChoicesLinks
    BY <1>1, <1>2 DEF ChoicesInv
  <1>4. murdered' = Nobody /\ cured' = Nobody
    BY <1>1, <1>2, <1>3 DEF ChoicesLinks, ChosenAt
  <1>5. PICK heap :
          /\ Proceed(state, heap, character)
          /\ \/ heap = next
             \/ \E p \in Accused : heap = BuildMurderChain(next, state, p)
    BY DEF CloseVoting
  <1>6. next \in Heap /\ wins \in Nat /\ DOMAIN heap = Node
    BY <1>1, <1>2, <1>5, DuringPlay DEF BuildMurderChain
  <1>7. /\ next' = heap /\ state' = heap[state]
        /\ before' = IF state'[1] = "Was_murdered_player" THEN state ELSE before
    <2>1. ~GameOver(character) /\ next' = heap /\ state' = next'[state]
      BY <1>2, <1>5, <1>6, ProceedLeads
    <2> QED BY <1>5, <2>1 DEF Proceed
  <1>8. CASE heap = next
    <2>1. state' = TheNight
      BY <1>1, <1>7, <1>8
    <2> QED BY <1>1, <1>3, <1>4, <1>7, <1>8, <2>1 DEF ChoicesLinks, NightFollows
  <1>9. ASSUME NEW p \in Accused, heap = BuildMurderChain(next, state, p) PROVE ChoicesLinks'
    <2>1. p \in Targets
      BY DEF Accused, Nominated
    <2>2. /\ PhaseOrder(heap) /\ heap[state] = WasMurdered(p)
          /\ heap[MurderedSpeech(p)] = TheNight
      BY <1>1, <1>2, <1>3, <1>6, <1>9, <2>1, MurderOrder DEF ChoicesLinks
    <2>3. state' = WasMurdered(p) /\ state'[2] = p /\ state' # TheVoting
      BY <1>7, <2>2 DEF WasMurdered, TheVoting, Phase
    <2> QED BY <1>1, <1>4, <1>7, <2>2, <2>3 DEF ChoicesLinks, NightFollows
  <1>10. state' = next[state] \/ state'[1] = "Was_murdered_player"
    <2>1. state \in Judging /\ next \in Heap
      BY <1>2, <1>6
    <2>2. \A p \in Targets : BuildMurderChain(next, state, p)[state] = WasMurdered(p)
      BY <1>3, <2>1, MurderOrder DEF ChoicesLinks
    <2>3. Accused \subseteq Targets
      BY DEF Accused, Nominated
    <2> QED BY <1>5, <1>7, <2>2, <2>3 DEF WasMurdered
  <1> QED BY <1>5, <1>8, <1>9, <1>10

(* The doctor is done: the choices of the night are forgotten.             *)
LEMMA LeaveDoctorOrder ==
  ASSUME IInv, ChoicesInv, LeaveDoctor, ~IsWon(state')
  PROVE  /\ ChoicesLinks'
         /\ state' = next[state] \/ state'[1] = "Was_murdered_player"
  <1> USE PhasesDiffer
  <1>1. /\ fate = "ok" /\ state = Curing /\ nominees' = nominees
        /\ murdered' = Nobody /\ cured' = Nobody
    BY DEF LeaveDoctor, CanCommand, Curing, ClearChoices
  <1>2. state \notin Ballot /\ state \in Node /\ ~IsWon(state) /\ state \in Judging
        /\ state \notin MurderNode
    BY <1>1, WhileOk, NodeKinds DEF Judging, Curing
  <1>3. ChoicesLinks
    BY <1>1, <1>2 DEF ChoicesInv
  <1>4. Nominated' = {}
    BY <1>1, <1>3 DEF ChoicesLinks, NominatedAt, Nominated
  <1>5. PICK heap :
          /\ Proceed(state, heap, character)
          /\ \/ heap = next
             \/ murdered >= 0 /\ heap = BuildMurderChain(next, state, murdered)
    BY DEF LeaveDoctor
  <1>6. next \in Heap /\ wins \in Nat /\ DOMAIN heap = Node
    BY <1>1, <1>2, <1>5, DuringPlay DEF BuildMurderChain
  <1>7. /\ next' = heap /\ state' = heap[state]
        /\ before' = IF state'[1] = "Was_murdered_player" THEN state ELSE before
    <2>1. ~GameOver(character) /\ next' = heap /\ state' = next'[state]
      BY <1>2, <1>5, <1>6, ProceedLeads
    <2> QED BY <1>5, <2>1 DEF Proceed
  <1>8. CASE heap = next
    <2>1. state' \notin MurderNode
      BY <1>1, <1>2, <1>7, <1>8, DuringPlay
    <2> QED BY <1>1, <1>3, <1>4, <1>7, <1>8, <2>1 DEF ChoicesLinks, NightFollows
  <1>9. CASE murdered >= 0 /\ heap = BuildMurderChain(next, state, murdered)
    <2>1. murdered \in Targets
      BY <1>1, <1>9, WhileOk DEF ChoicesTypeOK, Nobody, Disagreement
    <2>2. PhaseOrder(heap) /\ heap[state] = WasMurdered(murdered)
      BY <1>1, <1>2, <1>3, <1>6, <1>9, <2>1, MurderOrder DEF ChoicesLinks
    <2>3. state'[1] = "Was_murdered_player"
      BY <1>7, <2>2 DEF WasMurdered
    <2>4. before' = state
      BY <1>7, <2>3
    <2> QED BY <1>1, <1>2, <1>4, <1>7, <2>2, <2>3, <2>4 DEF ChoicesLinks, NightFollows
  <1> QED BY <1>5, <1>8, <1>9

(* The last speech is over: after a voting the night follows, and the turn *)
(* that is deleted was led to by none of the phases and ballots.           *)
LEMMA EndMurderedSpeechOrder ==
  ASSUME IInv, ChoicesInv, EndMurderedSpeech, ~IsWon(state')
  PROVE  ChoicesLinks' /\ state' = next[state]
  <1> USE PhasesDiffer, NodeSets, NodesDiffer
  <1> DEFINE q == LeastOf(TurnsFound(AfterSpeech, Victim))
             chars == [character EXCEPT ![Victim] = "DEAD"]
  <1>1. /\ fate = "ok" /\ state[1] = "Murdered_players_speech"
        /\ TurnsFound(AfterSpeech, Victim) # {}
        /\ nominees' = nominees /\ murdered' = murdered /\ cured' = cured
    BY DEF EndMurderedSpeech, CanCommand, choices
  <1>2. PICK previous \in Node :
          /\ AfterSpeech[previous] = Speaking(q)
          /\ Proceed(before, DeleteTurn(AfterSpeech, previous, Speaking(q)), chars)
    BY DEF EndMurderedSpeech
  <1> DEFINE g == DeleteTurn(AfterSpeech, previous, Speaking(q))
  <1>3. /\ ~IsWon(state) /\ state \in MurderNode /\ state \in Node
        /\ WellLinked(AfterSpeech, wins) /\ TurnsInOrder(AfterSpeech)
        /\ LiveIn(AfterSpeech) \cap MurderNode = {}
        /\ before \in LiveIn(AfterSpeech) \cap Judging
        /\ state = MurderedSpeech(Victim) /\ state[2] = Victim
        /\ wins \in Nat /\ DOMAIN AfterSpeech = Node
    <2>1. DOMAIN AfterSpeech = DOMAIN next
      BY DEF AfterSpeech, DeleteMurderChain
    <2> QED BY <1>1, <2>1, AfterSpeechLinks, DuringPlay, StatesDiffer DEF MurderedSpeech
  <1>4. ChoicesLinks /\ MurderOf(next, before, Victim) /\ next \in Heap
    BY <1>1, <1>3, DuringPlay DEF ChoicesInv, PlayLinks, MurderLinks
  <1>5. q \in 1 .. MaxPlayers - 1 /\ Speaking(q) \in LiveIn(AfterSpeech)
        /\ Speaking(q) \in Turn /\ Finished(q) \in Turn
    BY <1>1, TurnFoundIsLive DEF Turn
  <1>6. /\ LiveIn(g) = LiveIn(AfterSpeech) \ {Speaking(q), Finished(q)}
        /\ \A n \in LiveIn(g) : n # previous => g[n] = AfterSpeech[n]
        /\ WellLinked(g, wins)
    BY <1>2, <1>3, <1>5, DeleteTurnLinks
  <1>7. /\ AfterSpeech[before] = next[state]
        /\ \A n \in LiveIn(AfterSpeech) : n # before => AfterSpeech[n] = next[n]
        /\ LiveIn(AfterSpeech) = LiveIn(next) \ MurderNode
    BY <1>1, <1>3, <1>4, WhileOk, DeleteMurderLinks DEF AfterSpeech
  <1>8. DOMAIN g = Node
    BY <1>3 DEF DeleteTurn
  <1>9. before \in Node /\ before \in LiveIn(g) /\ ~IsWon(before)
        /\ before \in Ballot \cup {Curing}
    BY <1>3, <1>5, <1>6, NodeKinds DEF Judging, LiveIn, Curing
  <1> HIDE DEF q, chars, g
  <1>10. next' = g /\ state' = g[before]
    BY <1>2, <1>3, <1>8, <1>9, ProceedLeads DEF g
  <1>11. next[state] \notin Ballot \cup MurderNode \cup Hearing
    BY <1>3, <1>4 DEF MurderOf
  <1>12. previous # before
    BY <1>2, <1>5, <1>7, <1>11 DEF Hearing
  <1>13. state' = next[state]
    BY <1>6, <1>7, <1>9, <1>10, <1>12
  <1>14. ASSUME NEW n \in LiveIn(g), n # before, next[n] \notin Turn PROVE g[n] = next[n]
    BY <1>2, <1>5, <1>6, <1>7, <1>14
  <1>15. \A n \in {Murdering, Checking, TheVoting} : n \in LiveIn(g) /\ n # before
    <2>1. PhasesLive(g)
      BY <1>6 DEF WellLinked
    <2>2. {"Mafia_murdered", "Detective_checking", "Voting"} \subseteq PhaseKind
      BY DEF PhaseKind
    <2> QED BY <1>9, <2>1, <2>2 DEF PhasesLive, Murdering, Checking, TheVoting
  <1>16. PhaseOrder(g)
    <2>1. /\ g[Murdering] = Checking /\ g[Checking] = Curing
          /\ g[TheVoting] \in Ballot \cup {TheNight}
      BY <1>4, <1>14, <1>15 DEF ChoicesLinks, PhaseOrder
    <2>2. ASSUME NEW b \in LiveIn(g) \cap Ballot
          PROVE  g[b] \in Ballot \cup MurderNode \cup {TheNight}
      <3>1. CASE b = before
        <4>1. next[state] = TheNight
          BY <1>3, <1>4, <2>2, <3>1 DEF ChoicesLinks, NightFollows
        <4> QED BY <1>10, <1>13, <3>1, <4>1
      <3>2. CASE b # before
        <4>1. b \in LiveIn(next)
          BY <1>6, <1>7
        <4>2. next[b] \in Ballot \cup MurderNode \cup {TheNight}
          BY <1>4, <2>2, <4>1 DEF ChoicesLinks, PhaseOrder
        <4> QED BY <1>14, <3>2, <4>2
      <3> QED BY <3>1, <3>2
    <2> QED BY <2>1, <2>2 DEF PhaseOrder
  <1>17. state' \notin MurderNode /\ state' # TheVoting
    BY <1>11, <1>13 DEF Hearing, TheVoting
  <1>18. murdered' = Nobody /\ cured' = Nobody /\ Nominated' = {}
    <2>1. ~ChosenAt(state) /\ ~NominatedAt(state)
      BY <1>3 DEF ChosenAt, NominatedAt
    <2> QED BY <1>1, <1>4, <2>1 DEF ChoicesLinks, Nominated
  <1>19. ChoicesLinks'
    BY <1>10, <1>16, <1>17, <1>18 DEF ChoicesLinks, NightFollows
  <1> QED BY <1>13, <1>19

(* A SELECT chooses in the states in which it may.                         *)
LEMMA SelectOrder ==
  ASSUME IInv, ChoicesInv, Select
  PROVE  ChoicesInv'
  <1>1. UNCHANGED <<state, next, before, fate>> /\ fate = "ok"
    BY DEF Select, NominateForVoting, TryToMurderPlayer, CurePlayer, SetNumberOfVotes, ring,
           CanCommand
  <1>2. SUFFICES ASSUME ~IsWon(state) PROVE ChoicesLinks'
    BY <1>1 DEF ChoicesInv
  <1>3. ChoicesLinks
    BY <1>1, <1>2 DEF ChoicesInv
  <1>4. state \in Node
    BY <1>1, <1>2, DuringPlay
  <1>5. (murdered' = murdered /\ cured' = cured) \/ ChosenAt(state)
    BY DEF Select, NominateForVoting, TryToMurderPlayer, CurePlayer, SetNumberOfVotes, ChosenAt,
           Murdering, Curing
  <1>6. nominees' = nominees \/ state[1] = "Finished_speaking_player" \/ IsBallot(state)
    BY DEF Select, NominateForVoting, TryToMurderPlayer, CurePlayer, SetNumberOfVotes
  <1>7. state[1] = "Finished_speaking_player" => state \in Turn
    BY <1>4 DEF Node, PhaseKind, TurnKind, MarkKind, WonKind, Turn, Finished
  <1>8. nominees' = nominees \/ state \in Turn \cup Ballot
    BY <1>4, <1>6, <1>7, StatesDiffer
  <1>9. nominees' = nominees => Nominated' = Nominated
    BY DEF Nominated
  <1>10. state \in Turn \cup Ballot => state # TheVoting
    BY PhasesDiffer
  <1> QED BY <1>1, <1>3, <1>5, <1>8, <1>9, <1>10 DEF ChoicesLinks, NominatedAt

(* Every step keeps the invariant.                                         *)
LEMMA NextChoicesInv ==
  ASSUME IInv, ChoicesInv, [Next]_vars
  PROVE  ChoicesInv'
  <1>1. CASE GoToNextState
    <2> SUFFICES ASSUME fate' = "ok", ~IsWon(state') PROVE ChoicesLinks'
      BY DEF ChoicesInv
    <2>1. ~EndMurderedSpeechHangs /\ ~EndMurderedSpeechCrashes
      BY DEF EndMurderedSpeechHangs, EndMurderedSpeechCrashes
    <2> QED BY <1>1, <2>1, OpenVotingOrder, CloseVotingOrder, LeaveDoctorOrder,
               EndMurderedSpeechOrder, AdvanceOrder DEF GoToNextState
  <1>2. CASE Select
    BY <1>2, SelectOrder
  <1>3. CASE (\E p \in Position : LeaveRoom(p)) \/ UNCHANGED vars
    <2>1. UNCHANGED <<ring, choices, fate>>
      BY <1>3 DEF LeaveRoom, vars
    <2> QED BY <2>1 DEF ChoicesInv, ChoicesLinks, ring, choices, Nominated
  <1> QED BY <1>1, <1>2, <1>3 DEF Next

(* It holds when the game starts.                                          *)
LEMMA InitChoicesInv == Init => ChoicesInv
  <1> SUFFICES ASSUME Init PROVE ChoicesLinks
    BY DEF ChoicesInv
  <1>1. /\ next = BuildStateChain /\ state = Phase("City_wakes_up")
        /\ murdered = Nobody /\ cured = Nobody /\ Nominated = {}
    BY DEF Init, Nominated
  <1>2. PhaseOrder(next)
    <2>1. {Murdering, Checking, TheVoting} \subseteq Node
      BY PhasesDiffer
    <2>2. /\ next[Murdering] = Checking /\ next[Checking] = Curing
          /\ next[TheVoting] = TheNight
      BY <1>1, <2>1 DEF BuildStateChain, Murdering, Checking, Curing, TheVoting, TheNight, Phase
    <2>3. \A b \in Ballot : next[b] = null
      BY <1>1, NodeSets DEF BuildStateChain, Ballot, VotingAgainst, Phase
    <2> QED BY <2>2, <2>3 DEF PhaseOrder, LiveIn
  <1>3. state \notin MurderNode /\ state # TheVoting
    BY <1>1, NodesDiffer DEF TheVoting, Phase, MurderNode, WasMurdered, MurderedSpeech
  <1> QED BY <1>1, <1>2, <1>3 DEF ChoicesLinks, NightFollows

-----------------------------------------------------------------------------
(* The theorems about choices.                                             *)

(* Whoever was murdered, cured or nominated before, no choice of an earlier*)
(* night or day is left when the next one is made (room.cpp:172, 182-183). *)
THEOREM ChoicesAreFresh == Spec => []FreshChoices
  <1>1. ASSUME ChoicesInv PROVE FreshChoices
    <2> SUFFICES ASSUME fate = "ok", ~IsWon(state) PROVE FreshChoices
      BY DEF FreshChoices
    <2>1. ChoicesLinks
      BY <1>1 DEF ChoicesInv
    <2>2. state[1] \notin {"Mafia_murdered", "Detective_checking", "Doctor_curing"}
            => murdered = Nobody /\ cured = Nobody
      BY <2>1 DEF ChoicesLinks, ChosenAt, Murdering, Checking, Curing, Phase
    <2>3. state \in {Phase("Night"), Phase("Mafia_wake_up"), Phase("Mafia_murdered"),
                     Phase("Detective_checking"), Phase("Doctor_curing"),
                     Phase("Early_morning"), Phase("City_wakes_up")}
            => Nominated = {}
      BY <2>1 DEF ChoicesLinks, NominatedAt, TheVoting, Phase, Turn, Ballot, Speaking, Finished,
                  VotingAgainst
    <2> QED BY <2>2, <2>3 DEF FreshChoices
  <1> QED BY <1>1, InitChoicesInv, NextChoicesInv, Inductive, PTL DEF Spec

(* The GAME_INFO of a state names the next one (command.cpp:346-349), and  *)
(* there NEXT leads: whatever was selected in between, whoever left, and   *)
(* whatever is built and deleted by the step itself; unless somebody was   *)
(* condemned or the game is over.                                          *)
THEOREM NextAnnounced == Spec => NextIsAsAnnounced
  <1> DEFINE Led == state' # state /\ fate' = "ok" =>
                      \/ state' = next[state]
                      \/ IsWon(state')
                      \/ /\ state'[1] = "Was_murdered_player"
                         /\ IsBallot(state) \/ state = Phase("Doctor_curing")
  <1>1. ASSUME IInv, ChoicesInv, [Next]_vars PROVE [Led]_vars
    <2>1. CASE GoToNextState
      <3> SUFFICES ASSUME fate' = "ok", ~IsWon(state') PROVE Led
        OBVIOUS
      <3>1. CASE OpenVoting \/ EndMurderedSpeech \/ Advance
        BY <1>1, <3>1, OpenVotingOrder, EndMurderedSpeechOrder, AdvanceOrder
      <3>2. CASE CloseVoting
        <4>1. IsBallot(state)
          BY <3>2 DEF CloseVoting
        <4> QED BY <1>1, <3>2, <4>1, CloseVotingOrder
      <3>3. CASE LeaveDoctor
        <4>1. state = Phase("Doctor_curing")
          BY <3>3 DEF LeaveDoctor
        <4> QED BY <1>1, <3>3, <4>1, LeaveDoctorOrder
      <3>4. CASE EndMurderedSpeechHangs \/ EndMurderedSpeechCrashes
        BY <3>4 DEF EndMurderedSpeechHangs, EndMurderedSpeechCrashes
      <3> QED BY <2>1, <3>1, <3>2, <3>3, <3>4 DEF GoToNextState
    <2>2. CASE Select \/ (\E p \in Position : LeaveRoom(p)) \/ UNCHANGED vars
      <3>1. UNCHANGED state
        BY <2>2 DEF Select, LeaveRoom, NominateForVoting, TryToMurderPlayer, CurePlayer,
                    SetNumberOfVotes, vars, ring
      <3> QED BY <3>1
    <2> QED BY <1>1, <2>1, <2>2 DEF Next
  <1> QED BY <1>1, InitChoicesInv, NextChoicesInv, Inductive, PTL DEF Spec, NextIsAsAnnounced

-----------------------------------------------------------------------------
(* What a step of the game does, when the game goes on afterwards.         *)

(* Proceed ends the game exactly when it is over.                          *)
LEMMA ProceedEnds ==
  ASSUME NEW heap, DOMAIN heap = Node, NEW from \in Node, NEW chars, wins \in Nat,
         IsWon(from) => from[2] <= wins, Proceed(from, heap, chars)
  PROVE  /\ seated' = seated /\ character' = chars /\ fate' = fate
         /\ GameOver(chars) => IsWon(state') /\ state'[1] = Winner(chars)
  <1>1. CASE ~GameOver(chars)
    BY <1>1 DEF Proceed, Enter
  <1>2. CASE GameOver(chars)
    <2> DEFINE won == WonTheGame(Winner(chars), wins + 1)
    <2>1. /\ state' = BuildEndGameChain(heap, from, won)[from]
          /\ seated' = seated /\ character' = chars /\ fate' = fate
      BY <1>2 DEF Proceed, Enter
    <2>2. won[1] = Winner(chars) /\ Winner(chars) \in WonKind /\ won[2] = wins + 1
      BY DEF WonTheGame, Winner, WonKind
    <2> HIDE DEF won
    <2>3. won # from
      BY <2>2 DEF IsWon
    <2>4. BuildEndGameChain(heap, from, won)[from] = won
      BY <2>3 DEF BuildEndGameChain
    <2> QED BY <2>1, <2>2, <2>4 DEF IsWon
  <1> QED BY <1>1, <1>2

(* NEXT meets the voting.                                                  *)
LEMMA OpenVotingFacts ==
  ASSUME IInv, ChoicesInv, OpenVoting, ~IsWon(state')
  PROVE  /\ ~IsWon(state) /\ next[state] = TheVoting /\ state' = TheVoting
         /\ state \notin MurderNode \cup Ballot
         /\ character' = character /\ seated' = seated /\ fate' = "ok"
         /\ UNCHANGED choices /\ before' = before
         /\ LiveIn(next) \ Ballot \subseteq LiveIn(next')
         /\ \A n \in LiveIn(next) \ Ballot : n # TheVoting /\ next[n] \notin Ballot
                                               => next'[n] = next[n]
         /\ \A b \in LiveIn(next') \cap Ballot : b[2] \in Nominated
  <1> DEFINE g1 == DeletePreviousVotingChain(next)
             g2 == BuildVotingChain(g1, TheVoting, Nominated)
  <1> USE PhasesDiffer
  <1>1. /\ fate = "ok" /\ Proceed(state, g2, character) /\ UNCHANGED choices
        /\ next[state] = TheVoting
    BY DEF OpenVoting, CanCommand, TheVoting
  <1>2. /\ wins \in Nat /\ WellLinked(next, wins) /\ state \in LiveIn(next)
        /\ (IsWon(state) => state[2] <= wins) /\ state \in Node
    BY <1>1, WhileOk, NodeKinds DEF WellLinked, WonNumbered
  <1>3. DOMAIN g2 = Node
    BY DEF BuildVotingChain
  <1>4. /\ WellLinked(g1, wins)
        /\ LiveIn(g1) = LiveIn(next) \ Ballot
        /\ \A n \in LiveIn(g1) : next[n] \notin Ballot => g1[n] = next[n]
    BY <1>2, DeletePreviousLinks
  <1>5. Nominated \in SUBSET Targets
    BY DEF Nominated
  <1> HIDE DEF g1
  <1>6. /\ LiveIn(g1) \subseteq LiveIn(g2)
        /\ \A n \in LiveIn(g1) : n # TheVoting => g2[n] = g1[n]
    BY <1>2, <1>4, <1>5, VotingChainLinks DEF TheVoting
  <1>7. \A b \in LiveIn(g2) \cap Ballot : b[2] \in Nominated
    <2> SUFFICES ASSUME NEW b \in LiveIn(g2) \cap Ballot, b[2] \notin Nominated PROVE FALSE
      OBVIOUS
    <2>1. b \in Node /\ b # TheVoting
      BY DEF LiveIn
    <2>2. g2[b] = g1[b]
      BY <2>1 DEF BuildVotingChain
    <2>3. b \in LiveIn(g1)
      BY <2>1, <2>2 DEF LiveIn
    <2> QED BY <1>4, <2>3
  <1> HIDE DEF g2
  <1>8. ~GameOver(character) /\ next' = g2 /\ character' = character
    BY <1>1, <1>2, <1>3, ProceedLeads
  <1>9. seated' = seated /\ fate' = "ok"
    BY <1>1, <1>2, <1>3, ProceedEnds
  <1>10. state' = TheVoting
    BY OpenVotingOrder, <1>1
  <1>11. before' = before
    <2>1. state' = g2[state]
      BY <1>1, <1>8 DEF Proceed, Enter
    <2> QED BY <1>1, <1>10, <2>1 DEF Proceed, TheVoting, Phase
  <1>12. ~IsWon(state)
    BY <1>1, <1>8, WhileOk
  <1>13. state \notin MurderNode \cup Ballot
    <2>1. state \notin Judging
      BY <1>1, <1>2 DEF WellLinked, BallotLinks, Hearing, TheVoting
    <2>2. state \notin MurderNode
      BY <1>1, <1>12, DuringPlay, StatesDiffer
         DEF PlayLinks, MurderLinks, MurderOf, MurderNode, Hearing, WasMurdered,
             MurderedSpeech, TheVoting, Phase
    <2> QED BY <2>1, <2>2 DEF Judging
  <1> QED BY <1>1, <1>4, <1>6, <1>7, <1>8, <1>9, <1>10, <1>11, <1>12, <1>13

(* NEXT after the last ballot and after the doctor: a murder is announced, *)
(* or nothing changes in the ring.                                         *)
Announced(p) ==
  /\ p \in Targets
  /\ state' = WasMurdered(p)
  /\ before' = state
  /\ next' = BuildMurderChain(next, state, p)

Passed == state' = next[state] /\ next' = next /\ before' = before

(* What a condemnation, or its absence, leads to.                          *)
LEMMA JudgeFacts ==
  ASSUME IInv, fate = "ok", state \in Judging, ~IsWon(state'),
         NEW heap, Proceed(state, heap, character),
         heap = next \/ \E p \in Targets : heap = BuildMurderChain(next, state, p)
  PROVE  /\ ~IsWon(state) /\ ~GameOver(character)
         /\ character' = character /\ seated' = seated /\ fate' = "ok"
         /\ heap = next => Passed
         /\ \A p \in Targets : heap = BuildMurderChain(next, state, p) => Announced(p)
  <1>1. /\ wins \in Nat /\ state \in Node /\ ~IsWon(state) /\ next \in Heap
        /\ state \notin MurderNode /\ next[state] \notin MurderNode
    <2>1. state \in Node /\ state \notin MurderNode \cup WonNode
      BY WhileOk, NodesDiffer DEF Judging
    <2>2. ~IsWon(state)
      BY <2>1, NodeKinds
    <2> QED BY <2>1, <2>2, DuringPlay
  <1>2. DOMAIN heap = Node
    BY <1>1 DEF BuildMurderChain, Heap
  <1>3. ~GameOver(character) /\ next' = heap /\ state' = heap[state] /\ character' = character
    BY <1>1, <1>2, ProceedLeads
  <1>4. seated' = seated /\ fate' = "ok"
    BY <1>1, <1>2, ProceedEnds
  <1>5. before' = IF state'[1] = "Was_murdered_player" THEN state ELSE before
    BY <1>3 DEF Proceed
  <1>6. ASSUME heap = next PROVE Passed
    <2>1. state'[1] # "Was_murdered_player"
      <3>1. next[state] \in Node
        BY <1>1, WhileOk DEF LiveIn
      <3> QED BY <1>1, <1>3, <1>6, <3>1, StatesDiffer
    <2> QED BY <1>1, <1>3, <1>4, <1>5, <1>6, <2>1 DEF Passed
  <1>7. ASSUME NEW p \in Targets, heap = BuildMurderChain(next, state, p)
        PROVE  Announced(p)
    <2>1. heap[state] = WasMurdered(p)
      <3>1. state # WasMurdered(p) /\ state # MurderedSpeech(p)
        BY <1>1 DEF MurderNode
      <3> QED BY <1>1, <1>7, <3>1 DEF BuildMurderChain, Heap
    <2>2. before' = state
      BY <1>3, <1>5, <2>1 DEF WasMurdered
    <2> QED BY <1>3, <1>7, <2>1, <2>2 DEF Announced
  <1> QED BY <1>1, <1>3, <1>4, <1>6, <1>7

(* NEXT where nothing is built or deleted.                                 *)
LEMMA AdvanceFacts ==
  ASSUME IInv, ChoicesInv, Advance, ~IsWon(state')
  PROVE  /\ ~IsWon(state) /\ ~GameOver(character)
         /\ state' = next[state] /\ next' = next
         /\ character' = character /\ seated' = seated /\ fate' = "ok"
         /\ UNCHANGED choices
         /\ before' = before \/ (state \notin MurderNode /\ state' \notin MurderNode)
         /\ state \in MurderNode <=> state' \in MurderNode
         /\ state \in MurderNode => state'[2] = state[2]
  <1>1. /\ fate = "ok" /\ Proceed(state, next, character) /\ UNCHANGED choices
        /\ state[1] # "Murdered_players_speech"
    BY DEF Advance, CanCommand
  <1>2. /\ state \in Node /\ wins \in Nat /\ DOMAIN next = Node
        /\ IsWon(state) => state[2] <= wins
    BY <1>1, WhileOk, NodeKinds DEF WellLinked, WonNumbered, Heap
  <1>3. ~GameOver(character) /\ next' = next /\ state' = next[state] /\ character' = character
    BY <1>1, <1>2, ProceedLeads
  <1>4. seated' = seated /\ fate' = "ok" /\ ~IsWon(state)
    BY <1>1, <1>2, <1>3, ProceedEnds, WhileOk
  <1>5. before' = IF state'[1] = "Was_murdered_player" THEN state ELSE before
    BY <1>3, <1>1 DEF Proceed
  <1>6. CASE state \notin MurderNode
    BY <1>1, <1>3, <1>4, <1>6, DuringPlay
  <1>7. CASE state \in MurderNode
    <2>1. state = WasMurdered(state[2]) /\ state[2] \in Targets
      BY <1>1, <1>2, <1>7, StatesDiffer
    <2>2. state' = MurderedSpeech(state[2])
      BY <1>1, <1>3, <1>4, <1>7, <2>1, DuringPlay DEF PlayLinks, MurderLinks, MurderOf
    <2>3. state' \in MurderNode /\ state'[2] = state[2] /\ before' = before
      BY <1>5, <2>1, <2>2 DEF MurderNode, MurderedSpeech
    <2> QED BY <1>1, <1>3, <1>4, <1>7, <2>3
  <1> QED BY <1>6, <1>7

(* NEXT after a last speech: the victim is dead, his murder and the turn   *)
(* that was found are gone from the ring.                                  *)
LEMMA EndMurderedSpeechFacts ==
  ASSUME IInv, ChoicesInv, EndMurderedSpeech
  PROVE  /\ ~IsWon(state) /\ state \in MurderNode /\ state[2] = Victim
         /\ Victim \in seated /\ Victim \in Targets
         /\ TurnGone \in TurnsFound(AfterSpeech, Victim)
         /\ TurnsFound(AfterSpeech, Victim) = TurnsFound(next, Victim)
         /\ character' = [character EXCEPT ![Victim] = "DEAD"]
         /\ seated' = seated /\ fate' = "ok"
         /\ murdered = Nobody /\ Nominated = {} /\ UNCHANGED choices
         /\ IF GameOver(character') THEN IsWon(state') /\ state'[1] = Winner(character')
            ELSE /\ state' = next[state] /\ state' \notin MurderNode \cup Ballot \cup Hearing
                 /\ before \in Judging \cap LiveIn(next)
                 /\ ~IsWon(state')
                 /\ next'[before] = next[state]
                 /\ LiveIn(next') = (LiveIn(next) \ MurderNode)
                                      \ {Speaking(TurnGone), Finished(TurnGone)}
                 /\ \A n \in LiveIn(next') \ {before} :
                      next'[n] = next[n] \/ (next[n] \in Turn /\ next'[n] \in Hearing)
  <1> USE PhasesDiffer, NodeSets, NodesDiffer
  <1> DEFINE q == TurnGone
             chars == [character EXCEPT ![Victim] = "DEAD"]
  <1>1. /\ fate = "ok" /\ state[1] = "Murdered_players_speech"
        /\ TurnsFound(AfterSpeech, Victim) # {} /\ Victim \in seated
        /\ UNCHANGED choices
    BY DEF EndMurderedSpeech, CanCommand
  <1>2. PICK previous \in Node :
          /\ AfterSpeech[previous] = Speaking(q)
          /\ Proceed(before, DeleteTurn(AfterSpeech, previous, Speaking(q)), chars)
    BY DEF EndMurderedSpeech, TurnGone
  <1> DEFINE g == DeleteTurn(AfterSpeech, previous, Speaking(q))
  <1>3. /\ ~IsWon(state) /\ state \in MurderNode /\ state \in Node
        /\ WellLinked(AfterSpeech, wins) /\ TurnsInOrder(AfterSpeech)
        /\ LiveIn(AfterSpeech) \cap MurderNode = {}
        /\ before \in LiveIn(AfterSpeech) \cap Judging
        /\ state = MurderedSpeech(Victim) /\ state[2] = Victim /\ Victim \in Targets
        /\ wins \in Nat /\ DOMAIN AfterSpeech = Node
    <2>1. DOMAIN AfterSpeech = DOMAIN next
      BY DEF AfterSpeech, DeleteMurderChain
    <2> QED BY <1>1, <2>1, AfterSpeechLinks, DuringPlay, StatesDiffer DEF MurderedSpeech
  <1>4. ChoicesLinks /\ MurderOf(next, before, Victim) /\ next \in Heap
    BY <1>1, <1>3, DuringPlay DEF ChoicesInv, PlayLinks, MurderLinks
  <1>5. q \in 1 .. MaxPlayers - 1 /\ Speaking(q) \in LiveIn(AfterSpeech)
        /\ Speaking(q) \in Turn /\ Finished(q) \in Turn
        /\ TurnGone \in TurnsFound(AfterSpeech, Victim)
    <2>1. TurnsFound(AfterSpeech, Victim) \subseteq Nat
      BY MaxPlayersAssumption DEF TurnsFound
    <2> QED BY <1>1, <2>1, LeastOfIsLeast, TurnFoundIsLive DEF Turn, TurnGone
  <1>6. /\ LiveIn(g) = LiveIn(AfterSpeech) \ {Speaking(q), Finished(q)}
        /\ \A n \in LiveIn(g) : n # previous => g[n] = AfterSpeech[n]
        /\ WellLinked(g, wins)
    BY <1>2, <1>3, <1>5, DeleteTurnLinks
  <1>7. /\ AfterSpeech[before] = next[state]
        /\ \A n \in LiveIn(AfterSpeech) : n # before => AfterSpeech[n] = next[n]
        /\ LiveIn(AfterSpeech) = LiveIn(next) \ MurderNode
    BY <1>1, <1>3, <1>4, WhileOk, DeleteMurderLinks DEF AfterSpeech
  <1>8. DOMAIN g = Node
    BY <1>3 DEF DeleteTurn
  <1>9. before \in Node /\ before \in LiveIn(g) /\ ~IsWon(before)
    BY <1>3, <1>5, <1>6, NodeKinds DEF Judging, LiveIn
  <1>10. next[state] \notin Ballot \cup MurderNode \cup Hearing
    BY <1>3, <1>4 DEF MurderOf
  <1>11. previous # before
    BY <1>2, <1>5, <1>7, <1>10 DEF Hearing
  <1>12. previous \in LiveIn(g) => g[previous] \in Hearing
    <2>1. /\ AfterSpeech[Speaking(q)] = Finished(q)
          /\ AfterSpeech[Finished(q)] \in {Speaking(r) : r \in q + 1 .. MaxPlayers - 1}
                                            \cup {TheVoting}
      BY <1>3, <1>5 DEF TurnsInOrder, TheVoting
    <2>2. {Speaking(r) : r \in q + 1 .. MaxPlayers - 1} \subseteq Turn
      <3>1. q + 1 .. MaxPlayers - 1 \subseteq 1 .. MaxPlayers - 1
        BY <1>5, MaxPlayersAssumption
      <3> QED BY <3>1 DEF Turn
    <2>3. previous \in LiveIn(g) => previous \notin {Speaking(q), Finished(q)}
      BY <1>6
    <2>4. previous \in LiveIn(g) => g[previous] = AfterSpeech[Finished(q)]
      BY <1>3, <1>5, <2>1, <2>3 DEF DeleteTurn
    <2> QED BY <2>1, <2>2, <2>4 DEF Hearing, TheVoting
  <1>13. TurnsFound(AfterSpeech, Victim) = TurnsFound(next, Victim)
    <2>1. \A r \in 1 .. MaxPlayers - 1 : Speaking(r) \in Turn /\ Speaking(r) \in Node
      BY DEF Turn
    <2>2. \A r \in 1 .. MaxPlayers - 1 : AfterSpeech[Speaking(r)] # null
                                           <=> next[Speaking(r)] # null
      BY <1>7, <2>1 DEF LiveIn
    <2> QED BY <2>2 DEF TurnsFound
  <1>14. murdered = Nobody /\ Nominated = {}
    <2>1. ~ChosenAt(state) /\ ~NominatedAt(state)
      BY <1>3 DEF ChosenAt, NominatedAt
    <2> QED BY <1>4, <2>1 DEF ChoicesLinks
  <1> HIDE DEF q, g
  <1>15. /\ seated' = seated /\ character' = chars /\ fate' = "ok"
         /\ GameOver(chars) => IsWon(state') /\ state'[1] = Winner(chars)
    BY <1>1, <1>2, <1>3, <1>8, <1>9, ProceedEnds DEF g
  <1>16. ASSUME ~GameOver(chars)
         PROVE  /\ state' = next[state] /\ next' = g /\ ~IsWon(state')
    <2>1. next' = g /\ state' = g[before]
      BY <1>2, <1>16 DEF Proceed, Enter, g
    <2>2. state' = next[state]
      BY <1>6, <1>7, <1>9, <1>11, <2>1
    <2>3. ~IsWon(state')
      <3>1. next[state] \in LiveIn(next) /\ next[state] \in Node
        BY <1>1, WhileOk DEF LiveIn
      <3> QED BY <1>1, <1>3, <2>2, <3>1, DuringPlay, NodeKinds DEF PlayLinks
    <2> QED BY <2>1, <2>2, <2>3
  <1>17. ASSUME NEW n \in LiveIn(g) \ {before}
         PROVE  g[n] = next[n] \/ (next[n] \in Turn /\ g[n] \in Hearing)
    <2>1. n \in LiveIn(AfterSpeech) /\ AfterSpeech[n] = next[n]
      BY <1>6, <1>7
    <2> QED BY <1>2, <1>5, <1>6, <1>12, <2>1
  <1>18. LiveIn(g) = (LiveIn(next) \ MurderNode) \ {Speaking(TurnGone), Finished(TurnGone)}
    BY <1>6, <1>7 DEF q
  <1>19. g[before] = next[state] /\ before \in LiveIn(next) /\ before \in Judging
    BY <1>3, <1>6, <1>7, <1>9, <1>11
  <1> HIDE DEF chars
  <1>20. character' = chars /\ (GameOver(chars) <=> GameOver(character'))
    BY <1>15 DEF GameOver, NoMafia, NoVillagers
  <1>21. Winner(chars) = Winner(character')
    BY <1>15
  <1>22. chars = [character EXCEPT ![Victim] = "DEAD"]
    BY DEF chars
  <1> QED BY <1>1, <1>3, <1>5, <1>10, <1>13, <1>14, <1>15, <1>16, <1>17, <1>18, <1>19, <1>20,
             <1>21, <1>22

-----------------------------------------------------------------------------
(* Days and nights.                                                        *)

WakeUp       == Phase("Mafia_wake_up")
EarlyMorning == Phase("Early_morning")
WakesUp      == Phase("City_wakes_up")

(* The phases of the night follow each other and the morning follows the   *)
(* doctor, or a murder does and then the morning.                          *)
DayOrder(h) ==
  /\ h[TheNight] = WakeUp
  /\ h[WakeUp] = Murdering
  /\ h[Curing] \in MurderNode \cup {EarlyMorning}
  /\ h[EarlyMorning] = WakesUp
  /\ h[WakesUp] \in Hearing

MorningFollows(h, s, b) ==
  s \in MurderNode /\ b = Curing => h[MurderedSpeech(s[2])] = EarlyMorning

(* The moderator is nobody else and never dies.                            *)
ModeratorInv ==
  /\ \A p \in seated : character[p] # "NOT_SPECIFIED"
  /\ \A p \in seated : character[p] = "MODERATOR" <=> p = 0

RulesInv ==
  /\ ModeratorInv
  /\ fate = "ok" /\ ~IsWon(state) =>
       DayOrder(next) /\ MorningFollows(next, state, before)

(* All phases are different nodes, of no other kind.                       *)
LEMMA DaysDiffer ==
  /\ {TheNight, WakeUp, Murdering, Checking, Curing, EarlyMorning, WakesUp, TheVoting} \subseteq Node
  /\ {TheNight, WakeUp, Murdering, Checking, Curing, EarlyMorning, WakesUp, TheVoting}
       \cap (Ballot \cup Turn \cup MurderNode \cup WonNode) = {}
  /\ TheVoting \notin {TheNight, WakeUp, Murdering, Checking, Curing, EarlyMorning, WakesUp}
  /\ Curing \notin {TheNight, WakeUp, Murdering, Checking, EarlyMorning, WakesUp}
  /\ {TheNight, WakeUp, Murdering, Checking, Curing}
       \cap ({EarlyMorning, WakesUp, TheVoting} \cup Hearing) = {}
  <1>1. /\ {TheNight, WakeUp, Murdering, Checking, Curing, EarlyMorning, WakesUp, TheVoting}
             = PhaseKind \X {0}
    BY DEF Murdering, Checking, Curing, TheVoting, TheNight, WakeUp, EarlyMorning, WakesUp, Phase,
           PhaseKind
  <1>2. /\ TheVoting \notin {TheNight, WakeUp, Murdering, Checking, Curing, EarlyMorning, WakesUp}
        /\ Curing \notin {TheNight, WakeUp, Murdering, Checking, EarlyMorning, WakesUp}
        /\ {TheNight, WakeUp, Murdering, Checking} \cap {EarlyMorning, WakesUp} = {}
    BY DEF Murdering, Checking, Curing, TheVoting, TheNight, WakeUp, EarlyMorning, WakesUp, Phase
  <1>3. PhaseKind \X {0} \subseteq Node
    BY DEF Node
  <1>4. (PhaseKind \X {0}) \cap (Ballot \cup Turn \cup MurderNode \cup WonNode) = {}
    BY DEF PhaseKind, Ballot, Turn, MurderNode, WonNode, WonKind, VotingAgainst, Speaking,
           Finished, WasMurdered, MurderedSpeech
  <1> QED BY <1>1, <1>2, <1>3, <1>4 DEF Hearing, TheVoting

(* Every phase is allocated.                                               *)
LEMMA DaysLive ==
  ASSUME NEW h, PhasesLive(h)
  PROVE  {TheNight, WakeUp, Murdering, Checking, Curing, EarlyMorning, WakesUp, TheVoting}
           \subseteq LiveIn(h)
  BY DEF PhasesLive, PhaseKind, Murdering, Checking, Curing, TheVoting, TheNight, WakeUp,
         EarlyMorning, WakesUp

(* What keeps the pointers of the phases keeps the order of the day; a     *)
(* pointer to a turn may lead to another.                                  *)
LEMMA DayOrderKept ==
  ASSUME NEW h, NEW g, DayOrder(h),
         \A n \in {TheNight, WakeUp, EarlyMorning, WakesUp} :
           g[n] = h[n] \/ (h[n] \in Hearing /\ g[n] \in Hearing),
         g[Curing] \in {h[Curing]} \cup MurderNode \cup {EarlyMorning}
  PROVE  DayOrder(g)
  <1>1. WakeUp \notin Hearing /\ Murdering \notin Hearing
    BY DaysDiffer
  <1>2. WakesUp \notin Hearing
    BY DaysDiffer DEF Hearing, TheVoting
  <1>3. g[TheNight] = WakeUp /\ g[WakeUp] = Murdering /\ g[EarlyMorning] = WakesUp
    BY <1>1, <1>2 DEF DayOrder
  <1>4. g[WakesUp] \in Hearing
    BY DEF DayOrder
  <1>5. g[Curing] \in MurderNode \cup {EarlyMorning}
    BY DEF DayOrder
  <1> QED BY <1>3, <1>4, <1>5 DEF DayOrder

(* Every step of a game that goes on keeps the order.                      *)
LEMMA DayOrderStep ==
  ASSUME IInv, ChoicesInv, RulesInv, GoToNextState, fate' = "ok", ~IsWon(state')
  PROVE  DayOrder(next') /\ MorningFollows(next', state', before')
  <1> USE DaysDiffer
  <1>1. fate = "ok"
    BY DEF GoToNextState, OpenVoting, CloseVoting, LeaveDoctor, EndMurderedSpeech, Advance,
           EndMurderedSpeechHangs, EndMurderedSpeechCrashes, CanCommand
  <1>2. {TheNight, WakeUp, Murdering, Checking, Curing, EarlyMorning, WakesUp, TheVoting}
          \subseteq LiveIn(next)
    BY <1>1, WhileOk, DaysLive DEF WellLinked
  <1>3. ~IsWon(state) => DayOrder(next) /\ MorningFollows(next, state, before)
    BY <1>1 DEF RulesInv
  <1>4. CASE OpenVoting
    <2>1. ~IsWon(state) /\ state' = TheVoting
          /\ \A n \in LiveIn(next) \ Ballot : n # TheVoting /\ next[n] \notin Ballot
                                                => next'[n] = next[n]
      BY <1>4, OpenVotingFacts
    <2>2. \A n \in {TheNight, WakeUp, Curing, EarlyMorning, WakesUp} : next'[n] = next[n]
      <3>1. \A n \in {TheNight, WakeUp, Curing, EarlyMorning, WakesUp} : next[n] \notin Ballot
        BY <1>3, <2>1, NodesDiffer DEF DayOrder, Hearing, TheVoting
      <3> QED BY <1>2, <2>1, <3>1
    <2>3. DayOrder(next')
      BY <1>3, <2>1, <2>2 DEF DayOrder
    <2> QED BY <2>1, <2>3 DEF MorningFollows
  <1>5. ASSUME state \in Judging, NEW heap, Proceed(state, heap, character),
               heap = next \/ \E p \in Targets : heap = BuildMurderChain(next, state, p)
        PROVE  DayOrder(next') /\ MorningFollows(next', state', before')
    <2>1. ~IsWon(state) /\ (Passed \/ \E p \in Targets : Announced(p))
      BY <1>1, <1>5, JudgeFacts DEF Announced
    <2>2. next \in Heap /\ state \in Node /\ next[state] \notin MurderNode
          /\ state \notin MurderNode
      <3>1. state \in Node /\ state \notin MurderNode
        BY <1>1, <1>5, WhileOk, NodesDiffer DEF Judging
      <3> QED BY <1>1, <2>1, <3>1, DuringPlay
    <2>3. CASE Passed
      <3>1. state' \notin MurderNode
        BY <2>2, <2>3 DEF Passed
      <3> QED BY <1>3, <2>1, <2>3, <3>1 DEF Passed, MorningFollows
    <2>4. ASSUME NEW p \in Targets, Announced(p)
          PROVE  DayOrder(next') /\ MorningFollows(next', state', before')
      <3>1. /\ WasMurdered(p) \in MurderNode /\ MurderedSpeech(p) \in MurderNode
            /\ WasMurdered(p) \in Node /\ MurderedSpeech(p) \in Node
            /\ WasMurdered(p) # MurderedSpeech(p) /\ WasMurdered(p)[2] = p
        BY NodeSets DEF MurderNode, WasMurdered, MurderedSpeech
      <3>2. /\ next'[state] = WasMurdered(p)
            /\ next'[MurderedSpeech(p)] = next[state]
            /\ \A n \in Node \ MurderNode : n # state => next'[n] = next[n]
            /\ state' = WasMurdered(p) /\ before' = state
        BY <2>2, <2>4, <3>1 DEF Announced, BuildMurderChain, Heap
      <3>3. state \notin {TheNight, WakeUp, EarlyMorning, WakesUp}
        BY <1>5 DEF Judging, Curing
      <3>4. \A n \in {TheNight, WakeUp, EarlyMorning, WakesUp} : next'[n] = next[n]
        BY <3>2, <3>3
      <3>5. next'[Curing] \in {next[Curing]} \cup MurderNode
        BY <3>1, <3>2
      <3>6. DayOrder(next')
        BY <1>3, <2>1, <3>4, <3>5, DayOrderKept
      <3>7. before' = Curing => next'[MurderedSpeech(p)] = EarlyMorning
        BY <1>3, <2>1, <2>2, <3>2 DEF DayOrder
      <3> QED BY <3>1, <3>2, <3>6, <3>7 DEF MorningFollows
    <2> QED BY <2>1, <2>3, <2>4
  <1>6. CASE CloseVoting
    <2>1. state \in Judging
      BY <1>1, <1>6, WhileOk, NodeKinds DEF CloseVoting, Judging
    <2>2. PICK heap : /\ Proceed(state, heap, character)
                      /\ heap = next \/ \E p \in Targets : heap = BuildMurderChain(next, state, p)
      BY <1>6 DEF CloseVoting, Accused, Nominated
    <2> QED BY <1>5, <2>1, <2>2
  <1>7. CASE LeaveDoctor
    <2>1. state \in Judging
      BY <1>7 DEF LeaveDoctor, Judging
    <2>2. murdered >= 0 => murdered \in Targets
      BY <1>1, WhileOk DEF ChoicesTypeOK, Nobody, Disagreement
    <2>3. PICK heap : /\ Proceed(state, heap, character)
                      /\ heap = next \/ \E p \in Targets : heap = BuildMurderChain(next, state, p)
      BY <1>7, <2>2 DEF LeaveDoctor
    <2> QED BY <1>5, <2>1, <2>3
  <1>8. CASE EndMurderedSpeech
    <2>1. /\ ~IsWon(state) /\ state \in MurderNode
          /\ ~GameOver(character')
          /\ state' \notin MurderNode /\ state' = next[state] /\ state[2] = Victim
          /\ next'[before] = next[state]
          /\ LiveIn(next') = (LiveIn(next) \ MurderNode)
                               \ {Speaking(TurnGone), Finished(TurnGone)}
          /\ before \in Judging
          /\ \A n \in LiveIn(next') \ {before} :
               next'[n] = next[n] \/ (next[n] \in Turn /\ next'[n] \in Hearing)
      <3>1. ~GameOver(character')
        BY <1>8, EndMurderedSpeechFacts
      <3> QED BY <1>8, <3>1, EndMurderedSpeechFacts
    <2>2. {TheNight, WakeUp, Curing, EarlyMorning, WakesUp} \subseteq LiveIn(next')
      <3>1. IInv'
        BY <1>8, EndMurderedSpeechKeeps
      <3>2. PhasesLive(next')
        BY <3>1 DEF IInv, RingInv, WellLinked
      <3> QED BY <3>2, DaysLive
    <2>3. \A n \in {TheNight, WakeUp, EarlyMorning, WakesUp} : n # before
      BY <2>1 DEF Judging, Curing
    <2>4. \A n \in {TheNight, WakeUp, EarlyMorning, WakesUp} :
            next'[n] = next[n] \/ (next[n] \in Hearing /\ next'[n] \in Hearing)
      BY <2>1, <2>2, <2>3 DEF Hearing
    <2>5. next'[Curing] \in {next[Curing]} \cup MurderNode \cup {EarlyMorning}
      <3>1. CASE before = Curing
        <4>1. next[MurderedSpeech(state[2])] = EarlyMorning
          BY <1>3, <2>1, <3>1 DEF MorningFollows
        <4>2. state = MurderedSpeech(state[2])
          BY <1>1, <1>8, WhileOk, StatesDiffer, <2>1 DEF EndMurderedSpeech
        <4> QED BY <2>1, <3>1, <4>1, <4>2
      <3>2. CASE before # Curing
        <4>1. next[Curing] \notin Turn
          BY <1>3, <2>1, NodesDiffer DEF DayOrder
        <4> QED BY <2>1, <2>2, <3>2, <4>1
      <3> QED BY <3>1, <3>2
    <2>6. DayOrder(next')
      BY <1>3, <2>1, <2>4, <2>5, DayOrderKept
    <2> QED BY <2>1, <2>6 DEF MorningFollows
  <1>9. CASE Advance
    <2>1. /\ ~IsWon(state) /\ next' = next
          /\ before' = before \/ (state \notin MurderNode /\ state' \notin MurderNode)
          /\ state \in MurderNode <=> state' \in MurderNode
          /\ state \in MurderNode => state'[2] = state[2]
      BY <1>9, AdvanceFacts
    <2> QED BY <1>3, <2>1 DEF MorningFollows
  <1>10. ~EndMurderedSpeechHangs /\ ~EndMurderedSpeechCrashes
    BY DEF EndMurderedSpeechHangs, EndMurderedSpeechCrashes
  <1> QED BY <1>4, <1>6, <1>7, <1>8, <1>9, <1>10 DEF GoToNextState

(* The moderator stays who he is: the search for the turn of position 0    *)
(* finds none.                                                             *)
LEMMA ModeratorStep ==
  ASSUME IInv, ChoicesInv, ModeratorInv, [Next]_vars
  PROVE  ModeratorInv'
  <1>1. CASE EndMurderedSpeech
    <2>1. /\ character' = [character EXCEPT ![Victim] = "DEAD"] /\ seated' = seated
          /\ TurnGone \in TurnsFound(AfterSpeech, Victim)
      BY <1>1, EndMurderedSpeechFacts
    <2>2. Victim # 0
      BY <2>1, MaxPlayersAssumption DEF TurnsFound, NameContains
    <2>3. character \in [Position -> Character] /\ seated \subseteq Position
      BY <1>1, WhileOk DEF EndMurderedSpeech, CanCommand, PeopleTypeOK
    <2> QED BY <2>1, <2>2, <2>3 DEF ModeratorInv
  <1>2. ASSUME NEW p \in Position, LeaveRoom(p) PROVE ModeratorInv'
    <2>1. /\ seated' = seated \ {p} /\ character' = [character EXCEPT ![p] = "NOT_SPECIFIED"]
          /\ character \in [Position -> Character] /\ seated \subseteq Position
      BY <1>2, WhileOk DEF LeaveRoom, PeopleTypeOK
    <2>2. \A q \in seated' : q \in seated /\ character'[q] = character[q]
      BY <2>1
    <2> QED BY <2>2 DEF ModeratorInv
  <1>3. CASE OpenVoting \/ CloseVoting \/ LeaveDoctor \/ EndMurderedSpeechHangs
             \/ EndMurderedSpeechCrashes \/ Advance \/ Select \/ UNCHANGED vars
    <2>1. UNCHANGED <<character, seated>>
      BY <1>3 DEF OpenVoting, CloseVoting, LeaveDoctor, EndMurderedSpeechHangs, people,
                  EndMurderedSpeechCrashes, Advance, Select, NominateForVoting, Enter, vars,
                  TryToMurderPlayer, CurePlayer, SetNumberOfVotes, Proceed
    <2> QED BY <2>1 DEF ModeratorInv
  <1> QED BY <1>1, <1>2, <1>3 DEF Next, GoToNextState

(* Every step keeps the invariant, which holds initially.                  *)
LEMMA NextRulesInv ==
  ASSUME IInv, ChoicesInv, RulesInv, [Next]_vars
  PROVE  RulesInv'
  <1>1. ModeratorInv'
    BY ModeratorStep DEF RulesInv
  <1>2. CASE GoToNextState
    BY <1>1, <1>2, DayOrderStep DEF RulesInv
  <1>3. CASE Select \/ (\E p \in Position : LeaveRoom(p)) \/ UNCHANGED vars
    <2>1. UNCHANGED <<ring, fate>>
      BY <1>3 DEF Select, LeaveRoom, NominateForVoting, TryToMurderPlayer, CurePlayer,
                  SetNumberOfVotes, vars
    <2> QED BY <1>1, <2>1 DEF RulesInv, ring
  <1> QED BY <1>2, <1>3 DEF Next

(* The order of the day holds when the game starts.                        *)
LEMMA InitRulesInv == ASSUME Init PROVE RulesInv
  <1> USE DaysDiffer
  <1>1. next = BuildStateChain /\ state = WakesUp
    BY DEF Init, WakesUp
  <1>2. /\ next[TheNight] = WakeUp /\ next[WakeUp] = Murdering /\ next[Curing] = EarlyMorning
        /\ next[EarlyMorning] = WakesUp /\ next[WakesUp] = Speaking(1)
    BY <1>1 DEF BuildStateChain, Murdering, Checking, Curing, TheVoting, TheNight, WakeUp,
                EarlyMorning, WakesUp, Phase
  <1>3. Speaking(1) \in Hearing
    BY MaxPlayersAssumption DEF Hearing, Turn
  <1>4. ModeratorInv
    BY DealsAssumption DEF Init, IsDeal, ModeratorInv, Role
  <1> QED BY <1>1, <1>2, <1>3, <1>4 DEF RulesInv, DayOrder, MorningFollows

-----------------------------------------------------------------------------
(* The turns of the living.                                                *)

(* The turn of p is allocated.                                             *)
HasTurn(h, p) == Speaking(p) \in LiveIn(h)

(* Clients that offer only the living put nobody before the city who has   *)
(* no turn: not on a ballot, not as a victim, not among the choices.       *)
LiveChoices ==
  fate = "ok" /\ ~IsWon(state) =>
    /\ \A p \in Nominated : HasTurn(next, p)
    /\ murdered >= 0 => HasTurn(next, murdered)
    /\ state \in MurderNode => HasTurn(next, state[2])
    /\ state \in Ballot \cup {TheVoting} =>
         \A b \in LiveIn(next) \cap Ballot : HasTurn(next, b[2])

(* A turn is a node of its own.                                            *)
LEMMA TurnIsNode ==
  ASSUME NEW p, Speaking(p) \in Node
  PROVE  p \in 1 .. MaxPlayers - 1 /\ Speaking(p) \in Turn
  BY DEF Speaking, Node, PhaseKind, TurnKind, MarkKind, WonKind, Turn

(* Who is offered has a turn.                                              *)
LEMMA OfferedHasTurn ==
  ASSUME IInv, ModeratorInv, TurnsAreLiving, ClientChecks, fate = "ok", NEW t, Offered(t)
  PROVE  HasTurn(next, t)
  <1>1. t \in seated \ {0} /\ character[t] # "DEAD" /\ t \in Position
    BY WhileOk DEF Offered, ModeratorInv, PeopleTypeOK
  <1>2. t \in 1 .. MaxPlayers - 1
    BY <1>1, MaxPlayersAssumption DEF Position
  <1>3. Speaking(t) \in Node
    BY <1>2, NodeSets DEF Turn
  <1> QED BY <1>1, <1>3 DEF TurnsAreLiving, HasTurn, LiveIn

(* A SELECT of a client that checks.                                       *)
LEMMA SelectLives ==
  ASSUME ClientChecks, IInv, RulesInv, TurnsAreLiving, LiveChoices, Select
  PROVE  LiveChoices'
  <1>1. UNCHANGED <<state, next, fate>> /\ fate = "ok"
    BY DEF Select, NominateForVoting, TryToMurderPlayer, CurePlayer, SetNumberOfVotes, ring,
           CanCommand
  <1> SUFFICES ASSUME ~IsWon(state) PROVE LiveChoices'
    BY <1>1 DEF LiveChoices
  <1>2. /\ \A p \in Nominated : HasTurn(next, p)
        /\ murdered >= 0 => HasTurn(next, murdered)
        /\ state \in MurderNode => HasTurn(next, state[2])
        /\ state \in Ballot \cup {TheVoting} =>
             \A b \in LiveIn(next) \cap Ballot : HasTurn(next, b[2])
    BY <1>1 DEF LiveChoices
  <1>3. /\ nominees \in [Targets -> VoteCounts \cup {0, NotNominated}]
        /\ state \in LiveIn(next) /\ state \in Node
    BY <1>1, WhileOk DEF ChoicesTypeOK
  <1>4. next' = next
    BY <1>1
  <1>5. (\A p \in Nominated' : HasTurn(next, p)) /\ (murdered' >= 0 => HasTurn(next, murdered'))
    <2>1. ASSUME NEW t \in Targets, NominateForVoting(t)
          PROVE  (\A p \in Nominated' : HasTurn(next, p)) /\ murdered' = murdered
      <3>1. Nominated' \subseteq Nominated \cup {t} /\ murdered' = murdered
        BY <1>3, <2>1 DEF NominateForVoting, Nominated
      <3>2. HasTurn(next, t)
        BY <1>1, <2>1, OfferedHasTurn DEF NominateForVoting, RulesInv
      <3> QED BY <1>2, <3>1, <3>2
    <2>2. ASSUME NEW t \in Targets, TryToMurderPlayer(t)
          PROVE  (\A p \in Nominated' : HasTurn(next, p)) /\ (murdered' >= 0 => HasTurn(next, murdered'))
      <3>1. Nominated' = Nominated /\ murdered' \in {t, Disagreement}
        BY <2>2 DEF TryToMurderPlayer, Nominated
      <3>2. HasTurn(next, t)
        BY <1>1, <2>2, OfferedHasTurn DEF TryToMurderPlayer, RulesInv
      <3> QED BY <1>2, <3>1, <3>2 DEF Disagreement
    <2>3. ASSUME NEW t \in Targets, CurePlayer(t)
          PROVE  (\A p \in Nominated' : HasTurn(next, p)) /\ murdered' = murdered
      BY <1>2, <2>3 DEF CurePlayer, Nominated
    <2>4. ASSUME NEW amount \in VoteCounts, SetNumberOfVotes(amount)
          PROVE  (\A p \in Nominated' : HasTurn(next, p)) /\ murdered' = murdered
      <3>1. Nominated' \subseteq Nominated \cup {state[2]} /\ murdered' = murdered
        BY <1>3, <2>4 DEF SetNumberOfVotes, Nominated
      <3>2. state \in Ballot
        BY <1>3, <2>4, NodeKinds DEF SetNumberOfVotes
      <3> QED BY <1>2, <1>3, <3>1, <3>2
    <2> QED BY <1>2, <2>1, <2>2, <2>3, <2>4 DEF Select
  <1> QED BY <1>1, <1>2, <1>4, <1>5 DEF LiveChoices

(* NEXT, if the game goes on.                                              *)
LEMMA NextLives ==
  ASSUME IInv, ChoicesInv, RulesInv, LiveChoices, GoToNextState
  PROVE  LiveChoices'
  <1> USE NodeSets, NodesDiffer
  <1> SUFFICES ASSUME fate' = "ok", ~IsWon(state') PROVE LiveChoices'
    BY DEF LiveChoices
  <1>1. fate = "ok"
    BY DEF GoToNextState, OpenVoting, CloseVoting, LeaveDoctor, EndMurderedSpeech, Advance,
           EndMurderedSpeechHangs, EndMurderedSpeechCrashes, CanCommand
  <1>2. ~IsWon(state) =>
          /\ \A p \in Nominated : HasTurn(next, p)
          /\ murdered >= 0 => HasTurn(next, murdered)
          /\ state \in MurderNode => HasTurn(next, state[2])
          /\ state \in Ballot \cup {TheVoting} =>
               \A b \in LiveIn(next) \cap Ballot : HasTurn(next, b[2])
    BY <1>1 DEF LiveChoices
  <1>3. CASE OpenVoting
    <2>1. /\ ~IsWon(state) /\ state' = TheVoting /\ UNCHANGED choices
          /\ LiveIn(next) \ Ballot \subseteq LiveIn(next')
          /\ \A b \in LiveIn(next') \cap Ballot : b[2] \in Nominated
      BY <1>3, OpenVotingFacts
    <2>2. \A p : HasTurn(next, p) => HasTurn(next', p)
      <3> SUFFICES ASSUME NEW p, Speaking(p) \in LiveIn(next) PROVE Speaking(p) \in LiveIn(next')
        BY DEF HasTurn
      <3>1. Speaking(p) \in Turn
        BY TurnIsNode DEF LiveIn
      <3> QED BY <2>1, <3>1
    <2>3. Nominated' = Nominated /\ murdered' = murdered
      BY <2>1 DEF choices, Nominated
    <2>4. state' \notin MurderNode
      BY <2>1, PhasesDiffer
    <2>5. \A p \in Nominated : HasTurn(next', p)
      BY <1>2, <2>1, <2>2
    <2>6. murdered >= 0 => HasTurn(next', murdered)
      BY <1>2, <2>1, <2>2
    <2> QED BY <2>1, <2>3, <2>4, <2>5, <2>6 DEF LiveChoices, HasTurn
  <1>4. ASSUME state \in Judging, NEW heap, Proceed(state, heap, character),
               \/ heap = next
               \/ \E p \in Targets : HasTurn(next, p) /\ heap = BuildMurderChain(next, state, p),
               next[state] \notin Ballot,
               Nominated' \subseteq Nominated, murdered' \in {murdered, Nobody}
        PROVE  LiveChoices'
    <2>1. ~IsWon(state) /\ (Passed \/ \E p \in Targets : HasTurn(next, p) /\ Announced(p))
      BY <1>1, <1>4, JudgeFacts
    <2>2. next \in Heap /\ state \in Node /\ next[state] \notin MurderNode
          /\ next[state] # TheVoting /\ state \in LiveIn(next)
      <3>1. state \in Node /\ state \notin MurderNode
        BY <1>1, <1>4, WhileOk DEF Judging
      <3>2. next[state] \notin Hearing
        BY <1>1, <1>4, WhileOk DEF WellLinked, BallotLinks
      <3> QED BY <1>1, <2>1, <3>1, <3>2, DuringPlay, WhileOk DEF Hearing, TheVoting
    <2>3. ASSUME NEW r, HasTurn(next, r) PROVE HasTurn(next', r)
      <3>1. Speaking(r) \in Turn /\ Speaking(r) \in LiveIn(next)
        BY <2>3, TurnIsNode DEF LiveIn, HasTurn
      <3>2. ASSUME NEW p \in Targets, Announced(p) PROVE HasTurn(next', r)
        <4>1. WasMurdered(p) \in MurderNode /\ MurderedSpeech(p) \in MurderNode
          BY DEF MurderNode
        <4>2. Speaking(r) \notin {state, WasMurdered(p), MurderedSpeech(p)}
          BY <1>4, <3>1, <4>1, PhasesDiffer DEF Judging, Curing
        <4>3. next'[Speaking(r)] = next[Speaking(r)]
          BY <2>2, <3>1, <3>2, <4>2 DEF Announced, BuildMurderChain, Heap, LiveIn
        <4> QED BY <3>1, <4>3 DEF LiveIn, HasTurn
      <3> QED BY <2>1, <2>3, <3>2 DEF Passed
    <2>4. /\ \A r \in Nominated' : HasTurn(next', r)
          /\ murdered' >= 0 => HasTurn(next', murdered')
      <3>1. ASSUME murdered' >= 0 PROVE HasTurn(next', murdered) /\ murdered' = murdered
        BY <1>2, <1>4, <2>1, <2>3, <3>1 DEF Nobody
      <3> QED BY <1>2, <1>4, <2>1, <2>3, <3>1
    <2>5. CASE Passed
      <3>1. state' \notin MurderNode \cup Ballot \cup {TheVoting}
        BY <1>4, <2>2, <2>5 DEF Passed
      <3> QED BY <2>4, <3>1 DEF LiveChoices
    <2>6. ASSUME NEW p \in Targets, HasTurn(next, p), Announced(p) PROVE LiveChoices'
      <3>1. state' = WasMurdered(p) /\ state'[2] = p /\ state' \in MurderNode
        BY <2>6 DEF Announced, WasMurdered, MurderNode
      <3>2. state' \notin Ballot \cup {TheVoting}
        BY <3>1, PhasesDiffer
      <3>3. HasTurn(next', p)
        BY <2>3, <2>6
      <3>4. state' \in MurderNode => HasTurn(next', state'[2])
        BY <3>1, <3>3
      <3>5. /\ \A r \in Nominated' : HasTurn(next', r)
            /\ murdered' >= 0 => HasTurn(next', murdered')
        BY <2>4
      <3> QED BY <3>2, <3>4, <3>5 DEF LiveChoices
    <2> QED BY <2>1, <2>5, <2>6
  <1>5. CASE CloseVoting
    <2>1. state \in Judging /\ next[state] = TheNight /\ IsBallot(state)
      BY <1>1, <1>5, WhileOk, NodeKinds DEF CloseVoting, Judging, TheNight
    <2>2. PICK heap :
            /\ Proceed(state, heap, character)
            /\ \/ heap = next
               \/ \E p \in Nominated : heap = BuildMurderChain(next, state, p)
      BY <1>5 DEF CloseVoting, Accused
    <2>3. ~IsWon(state)
      BY <1>1, <2>1, WhileOk, NodeKinds
    <2>4. Nominated' = {} /\ murdered' = murdered /\ Nominated \subseteq Targets
      BY <1>5 DEF CloseVoting, ClearNominees, Nominated
    <2> QED BY <1>2, <1>4, <2>1, <2>2, <2>3, <2>4, PhasesDiffer
  <1>6. CASE LeaveDoctor
    <2>1. state \in Judging /\ state = Curing
      BY <1>6 DEF LeaveDoctor, Judging, Curing
    <2>2. ~IsWon(state)
      BY <2>1, DaysDiffer, NodeKinds
    <2>3. murdered >= 0 => murdered \in Targets
      BY <1>1, WhileOk DEF ChoicesTypeOK, Nobody, Disagreement
    <2>4. PICK heap :
            /\ Proceed(state, heap, character)
            /\ \/ heap = next
               \/ murdered >= 0 /\ heap = BuildMurderChain(next, state, murdered)
      BY <1>6 DEF LeaveDoctor
    <2>5. Nominated' = Nominated /\ murdered' = Nobody
      BY <1>6 DEF LeaveDoctor, ClearChoices, Nominated
    <2>6. next[state] \notin Ballot
      BY <1>1, <2>1, <2>2, DaysDiffer DEF RulesInv, DayOrder
    <2> QED BY <1>2, <1>4, <2>1, <2>2, <2>3, <2>4, <2>5, <2>6
  <1>7. CASE EndMurderedSpeech
    <2>1. /\ murdered = Nobody /\ Nominated = {} /\ UNCHANGED choices
          /\ GameOver(character') => IsWon(state')
          /\ ~GameOver(character') => state' \notin MurderNode \cup Ballot \cup Hearing
      BY <1>7, EndMurderedSpeechFacts
    <2>2. state' \notin MurderNode \cup Ballot \cup {TheVoting}
      BY <2>1 DEF Hearing, TheVoting
    <2>3. Nominated' = {} /\ murdered' = Nobody
      BY <2>1 DEF choices, Nominated
    <2> QED BY <2>2, <2>3 DEF LiveChoices, Nobody
  <1>8. CASE Advance
    <2>1. /\ ~IsWon(state) /\ state' = next[state] /\ next' = next /\ UNCHANGED choices
          /\ state \in MurderNode <=> state' \in MurderNode
          /\ state \in MurderNode => state'[2] = state[2]
      BY <1>8, AdvanceFacts
    <2>2. Nominated' = Nominated /\ murdered' = murdered
      BY <2>1 DEF choices, Nominated
    <2>3. state' \in Ballot \cup {TheVoting} => state \in Ballot \cup {TheVoting}
      <3>1. state' # TheVoting
        BY <1>8, <2>1 DEF Advance, TheVoting
      <3>2. next[state] \in Ballot => state \in Ballot \cup {TheVoting} \cup WonNode
        BY <1>1, WhileOk DEF WellLinked, BallotLinks, TheVoting
      <3>3. state \notin WonNode
        BY <1>1, <2>1, WhileOk, NodeKinds
      <3> QED BY <2>1, <3>1, <3>2, <3>3
    <2> QED BY <1>2, <2>1, <2>2, <2>3 DEF LiveChoices
  <1>9. ~EndMurderedSpeechHangs /\ ~EndMurderedSpeechCrashes
    BY DEF EndMurderedSpeechHangs, EndMurderedSpeechCrashes
  <1> QED BY <1>3, <1>5, <1>6, <1>7, <1>8, <1>9 DEF GoToNextState

(* Every step keeps the invariant, which holds initially.                  *)
LEMMA NextLiveChoices ==
  ASSUME ClientChecks, IInv, ChoicesInv, RulesInv, TurnsAreLiving, LiveChoices, [Next]_vars
  PROVE  LiveChoices'
  <1>1. CASE (\E p \in Position : LeaveRoom(p)) \/ UNCHANGED vars
    <2>1. UNCHANGED <<state, next, nominees, murdered, fate>>
      BY <1>1 DEF LeaveRoom, vars, ring, choices
    <2> QED BY <2>1 DEF LiveChoices, HasTurn, LiveIn, Nominated
  <1> QED BY <1>1, SelectLives, NextLives DEF Next

(* Nobody is chosen when the game starts.                                  *)
LEMMA InitLiveChoices == ASSUME Init PROVE LiveChoices
  <1> USE PhasesDiffer, DaysDiffer
  <1>1. state = WakesUp /\ murdered = Nobody /\ Nominated = {}
    BY DEF Init, WakesUp, Nominated
  <1>2. state \notin MurderNode \cup Ballot \cup {TheVoting}
    BY <1>1
  <1> QED BY <1>1, <1>2 DEF LiveChoices, Nobody

(* What the search finds is the turn of the victim, if positions have one  *)
(* digit or the victim still has a turn: it comes before those that start  *)
(* with the same digits.                                                   *)
LEMMA VictimsOwnTurn ==
  ASSUME IInv, ChoicesInv, EndMurderedSpeech, MaxPlayers <= 10 \/ LiveChoices
  PROVE  TurnGone = Victim
  <1>1. /\ ~IsWon(state) /\ state \in MurderNode /\ state[2] = Victim /\ Victim \in Targets
        /\ TurnGone \in TurnsFound(AfterSpeech, Victim)
        /\ TurnsFound(AfterSpeech, Victim) = TurnsFound(next, Victim)
    BY EndMurderedSpeechFacts
  <1>2. CASE MaxPlayers <= 10
    BY <1>1, <1>2, VictimsTurn DEF TurnGone
  <1>3. CASE LiveChoices
    <2>1. HasTurn(next, Victim)
      BY <1>1, <1>3 DEF LiveChoices, EndMurderedSpeech, CanCommand
    <2>2. Victim \in 1 .. MaxPlayers - 1
      BY <2>1, TurnIsNode DEF HasTurn, LiveIn
    <2>3. Victim \in TurnsFound(AfterSpeech, Victim)
      BY <1>1, <2>1, <2>2 DEF TurnsFound, NameContains, HasTurn, LiveIn
    <2>4. TurnsFound(AfterSpeech, Victim) \subseteq Nat
      BY MaxPlayersAssumption DEF TurnsFound
    <2>5. TurnGone <= Victim
      BY <2>3, <2>4, LeastOfIsLeast DEF TurnGone, IsLeast
    <2>6. TurnGone = Victim \/ TurnGone \div 10 = Victim
      BY <1>1 DEF TurnsFound, NameContains
    <2>7. TurnGone \in 1 .. MaxPlayers - 1
      BY <1>1 DEF TurnsFound
    <2> QED BY <2>2, <2>5, <2>6, <2>7, MaxPlayersAssumption
  <1> QED BY <1>2, <1>3

(* A seated player has a turn exactly while he lives: in rooms of up to    *)
(* ten, and in any room whose clients offer only living players; a larger  *)
(* room lets the search find the turn of another (room.cpp:346-358).       *)
THEOREM Turns ==
  ASSUME MaxPlayers <= 10 \/ ClientChecks
  PROVE  Spec => []TurnsAreLiving
  <1> DEFINE Inv == ChoicesInv /\ RulesInv /\ TurnsAreLiving /\ (ClientChecks => LiveChoices)
  <1>1. Init => Inv
    BY InitChoicesInv, InitRulesInv, InitTurns, InitLiveChoices
  <1>2. ASSUME IInv, Inv, [Next]_vars PROVE Inv'
    <2>1. EndMurderedSpeech => TurnGone = Victim
      BY <1>2, VictimsOwnTurn
    <2> QED BY <1>2, <2>1, NextChoicesInv, NextRulesInv, NextTurns, NextLiveChoices
  <1> QED BY <1>1, <1>2, Inductive, PTL DEF Spec

(* At the end of a last speech the search looks for the turn of the player *)
(* who spoke, among the turns that were there.                             *)
LEMMA SearchAtTheEnd ==
  ASSUME IInv, fate = "ok", state[1] = "Murdered_players_speech"
  PROVE  /\ ~IsWon(state) /\ state \in MurderNode /\ state[2] = Victim /\ Victim \in Targets
         /\ before \in Judging
         /\ TurnsFound(AfterSpeech, Victim) = TurnsFound(next, Victim)
  <1> USE NodeSets, NodesDiffer
  <1>1. /\ ~IsWon(state) /\ state \in Node /\ state \in MurderNode
        /\ state = MurderedSpeech(Victim) /\ Victim \in Targets /\ before \in Judging
    BY AfterSpeechLinks, WhileOk, StatesDiffer
  <1>2. state[2] = Victim
    BY <1>1 DEF MurderedSpeech
  <1>3. MurderOf(next, before, Victim) /\ next \in Heap
    BY <1>1, <1>2, DuringPlay DEF PlayLinks, MurderLinks
  <1>4. LiveIn(AfterSpeech) = LiveIn(next) \ MurderNode
    BY <1>1, <1>3, WhileOk, DeleteMurderLinks DEF AfterSpeech
  <1>5. \A r \in 1 .. MaxPlayers - 1 : Speaking(r) \in Turn /\ Speaking(r) \in Node
    BY DEF Turn
  <1>6. \A r \in 1 .. MaxPlayers - 1 :
          AfterSpeech[Speaking(r)] # null <=> next[Speaking(r)] # null
    BY <1>4, <1>5 DEF LiveIn
  <1> QED BY <1>1, <1>2, <1>6 DEF TurnsFound

(* Who still has a turn is found.                                          *)
LEMMA SearchSucceeds ==
  ASSUME IInv, LiveChoices, fate = "ok", state[1] = "Murdered_players_speech"
  PROVE  TurnsFound(AfterSpeech, Victim) # {} /\ Victim \in Position
  <1>1. HasTurn(next, Victim)
    BY SearchAtTheEnd DEF LiveChoices
  <1>2. Victim \in 1 .. MaxPlayers - 1
    BY <1>1, TurnIsNode DEF HasTurn, LiveIn
  <1>3. Victim \in TurnsFound(next, Victim)
    BY <1>1, <1>2 DEF TurnsFound, NameContains, HasTurn, LiveIn
  <1> QED BY <1>2, <1>3, SearchAtTheEnd, MaxPlayersAssumption DEF Position

(* A room whose clients offer only living players never searches for a     *)
(* turn that is not there (room.cpp:346-351), though its players leave.    *)
THEOREM NoEndlessSearch == ASSUME ClientChecks PROVE Spec => [](fate # "hung")
  <1> DEFINE Inv == /\ ChoicesInv /\ RulesInv /\ TurnsAreLiving /\ LiveChoices
                    /\ fate # "hung"
  <1>1. Init => Inv
    BY InitChoicesInv, InitRulesInv, InitTurns, InitLiveChoices DEF Init
  <1>2. ASSUME IInv, Inv, [Next]_vars PROVE Inv'
    <2>1. EndMurderedSpeech => TurnGone = Victim
      BY <1>2, VictimsOwnTurn
    <2>2. ~EndMurderedSpeechHangs
      BY <1>2, SearchSucceeds DEF EndMurderedSpeechHangs, CanCommand
    <2>3. fate' # "hung"
      BY <1>2, <2>2
         DEF Next, GoToNextState, OpenVoting, CloseVoting, LeaveDoctor, EndMurderedSpeech,
             EndMurderedSpeechCrashes, Advance, Proceed, Enter, Select, NominateForVoting,
             TryToMurderPlayer, CurePlayer, SetNumberOfVotes, LeaveRoom, vars
    <2> QED BY <1>2, <2>1, <2>3, NextChoicesInv, NextRulesInv, NextTurns, NextLiveChoices
  <1> QED BY <1>1, <1>2, Inductive, PTL DEF Spec

(* If besides nobody leaves, the room works to the end of the game: no     *)
(* handler hangs and none uses the end of players_ (room.cpp:347-358).     *)
THEOREM Works == ASSUME ClientChecks, ~CanLeave PROVE Spec => []NeverFails
  <1> DEFINE Inv == /\ ChoicesInv /\ RulesInv /\ TurnsAreLiving /\ LiveChoices
                    /\ seated = Position /\ fate = "ok"
  <1>1. Init => Inv
    BY InitChoicesInv, InitRulesInv, InitTurns, InitLiveChoices DEF Init
  <1>2. ASSUME IInv, Inv, [Next]_vars PROVE Inv'
    <2>1. EndMurderedSpeech => TurnGone = Victim
      BY <1>2, VictimsOwnTurn
    <2>2. ~EndMurderedSpeechHangs /\ ~EndMurderedSpeechCrashes
      BY <1>2, SearchSucceeds DEF EndMurderedSpeechHangs, EndMurderedSpeechCrashes, CanCommand
    <2>3. \A p : ~LeaveRoom(p)
      BY DEF LeaveRoom
    <2>4. fate' = "ok" /\ seated' = Position
      BY <1>2, <2>2, <2>3
         DEF Next, GoToNextState, OpenVoting, CloseVoting, LeaveDoctor, EndMurderedSpeech,
             Advance, Proceed, Enter, Select, NominateForVoting,
             TryToMurderPlayer, CurePlayer, SetNumberOfVotes, vars, people
    <2> QED BY <1>2, <2>1, <2>4, NextChoicesInv, NextRulesInv, NextTurns, NextLiveChoices
  <1>3. IInv /\ Inv => NeverFails
    BY DEF NeverFails
  <1> QED BY <1>1, <1>2, <1>3, Inductive, PTL DEF Spec

-----------------------------------------------------------------------------
(* The rules.                                                              *)

(* The period the room is in, and the phases of the night.                 *)
AtNight == IF fate = "ok" /\ Condemned # Nobody THEN IsNight(before) ELSE IsNight(state)
NightPhase == {TheNight, WakeUp, Murdering, Checking, Curing}

(* A node of a murder is known by its name, and so is the end of the game. *)
LEMMA NamesOfNodes ==
  /\ \A n \in Node : n[1] \in {"Was_murdered_player", "Murdered_players_speech"} <=> n \in MurderNode
  /\ \A n \in Node : IsWon(n) <=> n[1] \in {"Villagers_won_the_game", "Mafia_won_the_game"}
  /\ \A n : IsNight(n) <=> n \in NightPhase
  <1>1. \A n \in Node : n[1] \in {"Was_murdered_player", "Murdered_players_speech"} <=> n \in MurderNode
    BY NodeKinds, StatesDiffer DEF MurderNode, WasMurdered, MurderedSpeech
  <1>2. \A n \in Node : IsWon(n) <=> n[1] \in {"Villagers_won_the_game", "Mafia_won_the_game"}
    BY DEF IsWon, WonKind
  <1>3. \A n : IsNight(n) <=> n \in NightPhase
    BY DEF IsNight, NightPhase, TheNight, WakeUp, Murdering, Checking, Curing
  <1> QED BY <1>1, <1>2, <1>3

(* What a room shows of the rules.                                         *)
Shown ==
  /\ fate = "ok" /\ state \in MurderNode =>
       /\ Condemned = state[2] /\ Condemned \in Targets /\ Condemned # Nobody
       /\ AtNight <=> IsNight(before)
  /\ fate # "ok" \/ state \notin MurderNode =>
       Condemned = Nobody /\ (AtNight <=> IsNight(state))
  /\ state \in MurderNode => ~IsWon(state)
  /\ ~IsWon(state) => Result = "none"
  /\ IsWon(state) => Result = IF state[1] = "Villagers_won_the_game"
                              THEN "villagers" ELSE "mafia"

(* It follows from the invariant of the room.                              *)
LEMMA WhatIsShown == ASSUME IInv PROVE Shown
  <1>1. state \in Node
    BY DEF IInv, TypeOK, RingTypeOK
  <1>2. \A p \in Targets : p # Nobody
    BY TargetsAssumption DEF Nobody
  <1>3. state \in MurderNode => state[2] \in Targets /\ ~IsWon(state)
    BY <1>1, NodeKinds, NodesDiffer
  <1>4. ~IsWon(state) => Result = "none"
    BY <1>1, NamesOfNodes DEF Result
  <1>5. IsWon(state) => Result = IF state[1] = "Villagers_won_the_game"
                                 THEN "villagers" ELSE "mafia"
    BY <1>1, NamesOfNodes DEF Result
  <1>6. ASSUME fate = "ok", state \in MurderNode
        PROVE  Condemned = state[2] /\ Condemned # Nobody /\ (AtNight <=> IsNight(before))
    <2>1. Condemned = state[2]
      BY <1>1, <1>6, NamesOfNodes DEF Condemned
    <2> QED BY <1>2, <1>3, <1>6, <2>1 DEF AtNight
  <1>7. ASSUME fate # "ok" \/ state \notin MurderNode
        PROVE  Condemned = Nobody /\ (AtNight <=> IsNight(state))
    <2>1. Condemned = Nobody
      BY <1>1, <1>7, NamesOfNodes DEF Condemned
    <2> QED BY <2>1 DEF AtNight
  <1> QED BY <1>3, <1>4, <1>5, <1>6, <1>7 DEF Shown

(* The factions, as checkGameOver counts them.                             *)
Factions ==
  /\ Members(TRUE) = {p \in seated : character[p] = "MAFIA"}
  /\ Members(FALSE) = {p \in seated : character[p] \notin {"MAFIA", "DEAD", "MODERATOR"}}
  /\ Members(TRUE) = {} <=> NoMafia(character)
  /\ Members(FALSE) = {} <=> NoVillagers(character)
  /\ Members(TRUE) \cap Members(FALSE) = {}
  /\ Members(TRUE) \subseteq Position \ {0} /\ Members(FALSE) \subseteq Position \ {0}
  /\ Nobody \notin Members(TRUE) /\ Nobody \notin Members(FALSE)

(* They are counted alike: a member is neither dead nor the moderator.     *)
LEMMA FactionsAre == ASSUME PeopleTypeOK, ModeratorInv PROVE Factions
  <1>1. Members(TRUE) = {p \in seated : character[p] = "MAFIA"}
    BY DEF Members, Alive
  <1>2. Members(FALSE) = {p \in seated : character[p] \notin {"MAFIA", "DEAD", "MODERATOR"}}
    BY DEF Members, Alive, ModeratorInv
  <1>3. Members(TRUE) \cup Members(FALSE) \subseteq Position \ {0}
    BY <1>1, <1>2 DEF PeopleTypeOK, ModeratorInv
  <1>4. Nobody \notin Position
    BY DEF Nobody, Position
  <1> QED BY <1>1, <1>2, <1>3, <1>4 DEF NoMafia, NoVillagers, Factions

(* The same after a step.                                                  *)
LEMMA ShownNext == ASSUME IInv', ModeratorInv' PROVE Shown' /\ Factions'
  <1>1. IInv' => Shown'
    BY WhatIsShown, PTL
  <1>2. PeopleTypeOK' /\ ModeratorInv' => Factions'
    BY FactionsAre, PTL
  <1>3. IInv' => PeopleTypeOK'
    BY DEF IInv, TypeOK
  <1> QED BY <1>1, <1>2, <1>3

(* What is known of the room before and after a step, and that the search  *)
(* at the end of a last speech finds the turn of the victim.               *)
KnownBefore == IInv /\ ChoicesInv /\ RulesInv /\ TurnsAreLiving /\ Shown /\ Factions
KnownAfter == IInv' /\ RulesInv' /\ Shown' /\ Factions'
RightTurn == EndMurderedSpeech => TurnGone = Victim

SamePeople == Members(TRUE)' = Members(TRUE) /\ Members(FALSE)' = Members(FALSE)
LosesOne(p) == /\ Members(TRUE)' = Members(TRUE) \ {p}
               /\ Members(FALSE)' = Members(FALSE) \ {p}

(* A step that changes nobody changes no faction.                          *)
LEMMA PeopleStay == ASSUME UNCHANGED <<character, seated>> PROVE SamePeople
  BY DEF SamePeople, Members, Alive

(* The victim of a last speech was alive, and nobody else dies with him.   *)
LEMMA VictimDies ==
  ASSUME KnownBefore, KnownAfter, RightTurn, EndMurderedSpeech
  PROVE  Victim \in Members(TRUE) \cup Members(FALSE) /\ LosesOne(Victim)
  <1>1. /\ Victim \in seated /\ fate = "ok"
        /\ TurnGone \in TurnsFound(next, Victim) /\ TurnGone = Victim
        /\ character' = [character EXCEPT ![Victim] = "DEAD"]
        /\ seated' = seated
    BY EndMurderedSpeechFacts DEF KnownBefore, RightTurn, EndMurderedSpeech, CanCommand
  <1>2. Victim # 0 /\ next[Speaking(Victim)] # null
    BY <1>1 DEF TurnsFound
  <1>3. character[Victim] # "DEAD" /\ character[Victim] # "MODERATOR"
    BY <1>1, <1>2 DEF KnownBefore, TurnsAreLiving, RulesInv, ModeratorInv
  <1>4. character \in [Position -> Character] /\ seated \subseteq Position
    BY <1>1, WhileOk DEF KnownBefore, PeopleTypeOK
  <1>5. character'[Victim] = "DEAD" /\ \A p \in seated : p # Victim => character'[p] = character[p]
    BY <1>1, <1>4
  <1>6. /\ Members(TRUE) = {p \in seated : character[p] = "MAFIA"}
        /\ Members(FALSE) = {p \in seated : character[p] \notin {"MAFIA", "DEAD", "MODERATOR"}}
    BY DEF KnownBefore, Factions
  <1>7. /\ Members(TRUE)' = {p \in seated' : character'[p] = "MAFIA"}
        /\ Members(FALSE)' = {p \in seated' : character'[p] \notin {"MAFIA", "DEAD", "MODERATOR"}}
    BY DEF KnownAfter, Factions
  <1>8. Members(TRUE)' = Members(TRUE) \ {Victim}
    BY <1>1, <1>5, <1>6, <1>7
  <1>9. Members(FALSE)' = Members(FALSE) \ {Victim}
    BY <1>1, <1>5, <1>6, <1>7
  <1>10. Victim \in Members(TRUE) \cup Members(FALSE)
    BY <1>1, <1>3, <1>6
  <1> QED BY <1>8, <1>9, <1>10 DEF LosesOne

(* NEXT announces the faction that has won.                                *)
LEMMA WinnerIsRight ==
  ASSUME IInv, IInv', GoToNextState, IsWon(state')
  PROVE  /\ fate = "ok" /\ fate' = "ok" /\ GameOver(character')
         /\ state'[1] = Winner(character')
         /\ EndMurderedSpeech \/ UNCHANGED <<character, seated>>
  <1>1. fate = "ok"
    BY DEF GoToNextState, OpenVoting, CloseVoting, LeaveDoctor, EndMurderedSpeech, Advance,
           EndMurderedSpeechHangs, EndMurderedSpeechCrashes, CanCommand
  <1>2. GameOver(character)' /\ fate' = "ok"
    BY DEF IInv, RingInv
  <1>3. wins \in Nat
    BY <1>1, WhileOk
  <1>4. PICK heap, from, chars :
          /\ from \in Node /\ DOMAIN heap = Node /\ (IsWon(from) => from[2] <= wins)
          /\ Proceed(from, heap, chars)
          /\ EndMurderedSpeech \/ chars = character
    <2>1. state \in Node /\ wins \in Nat /\ DOMAIN next = Node
          /\ (IsWon(state) => state[2] <= wins)
      BY <1>1, WhileOk, NodeKinds DEF WellLinked, WonNumbered, Heap
    <2>2. CASE OpenVoting
      <3>1. \A h, n, S : DOMAIN BuildVotingChain(h, n, S) = Node
        BY DEF BuildVotingChain
      <3> QED BY <2>1, <2>2, <3>1 DEF OpenVoting
    <2>3. \A p : DOMAIN BuildMurderChain(next, state, p) = Node
      BY <2>1 DEF BuildMurderChain
    <2>4. CASE CloseVoting
      BY <2>1, <2>3, <2>4 DEF CloseVoting
    <2>5. CASE LeaveDoctor \/ Advance
      BY <2>1, <2>3, <2>5 DEF LeaveDoctor, Advance
    <2>6. CASE EndMurderedSpeech
      <3>1. before \in Judging /\ before \in Node /\ ~IsWon(before)
        <4>1. before \in Judging
          BY <1>1, <2>6, SearchAtTheEnd DEF EndMurderedSpeech
        <4> QED BY <4>1, NodeKinds, NodeSets, NodesDiffer DEF Judging
      <3>2. \A previous, turn : DOMAIN DeleteTurn(AfterSpeech, previous, turn) = Node
        BY <2>1 DEF DeleteTurn, AfterSpeech, DeleteMurderChain
      <3> QED BY <2>6, <3>1, <3>2 DEF EndMurderedSpeech
    <2>7. ~EndMurderedSpeechHangs /\ ~EndMurderedSpeechCrashes
      BY <1>2 DEF EndMurderedSpeechHangs, EndMurderedSpeechCrashes
    <2> QED BY <2>2, <2>3, <2>4, <2>5, <2>6, <2>7 DEF GoToNextState
  <1>5. /\ seated' = seated /\ character' = chars
        /\ GameOver(chars) => state'[1] = Winner(chars)
    BY <1>3, <1>4, WhileOk, <1>1, ProceedEnds
  <1>6. (NoMafia(character') <=> NoMafia(chars)) /\ (NoVillagers(character') <=> NoVillagers(chars))
    BY <1>5 DEF NoMafia, NoVillagers
  <1>7. NoMafia(character') \/ NoVillagers(character')
    BY <1>2, <1>5 DEF GameOver, NoMafia, NoVillagers
  <1>8. state'[1] = Winner(character')
    BY <1>5, <1>6, <1>7 DEF GameOver, Winner
  <1> QED BY <1>1, <1>2, <1>4, <1>5, <1>7, <1>8 DEF GameOver

(* The steps of the rules, in terms of the room.                           *)
LEMMA AsEndPeriod ==
  ASSUME fate = "ok", fate' = "ok", Members(TRUE)' # {}, Members(FALSE)' # {},
         Condemned \in Members(TRUE) \cup Members(FALSE) \cup {Nobody},
         LosesOne(Condemned), Condemned' = Nobody, AtNight' <=> ~AtNight, Result' = Result
  PROVE  Rules!Next
  <1>1. AtNight' = ~AtNight
    BY DEF AtNight, IsNight
  <1> QED BY <1>1 DEF Rules!Next, Rules!EndPeriod, Rules!Living, LosesOne, AtNight

(* Somebody is condemned.                                                  *)
LEMMA AsCondemn ==
  ASSUME NEW p \in Targets, fate = "ok", fate' = "ok", SamePeople,
         Members(TRUE) # {}, Members(FALSE) # {}, Condemned = Nobody, Condemned' = p,
         AtNight' <=> AtNight, Result' = Result
  PROVE  Rules!Next
  <1>1. AtNight' = AtNight
    BY DEF AtNight, IsNight
  <1> QED BY <1>1 DEF Rules!Next, Rules!Condemn, Rules!Extinct, SamePeople, AtNight

(* The room breaks.                                                        *)
LEMMA AsBreak ==
  ASSUME fate = "ok", fate' # "ok", SamePeople, Condemned' = Nobody, AtNight' <=> AtNight,
         Condemned \notin Members(TRUE) \cup Members(FALSE) \cup {Nobody}, Result' = Result
  PROVE  Rules!Next
  <1>1. AtNight' = AtNight
    BY DEF AtNight, IsNight
  <1> QED BY <1>1 DEF Rules!Next, Rules!Break, Rules!Living, SamePeople, AtNight

(* The winner is announced.                                                *)
LEMMA AsAnnounce ==
  ASSUME fate = "ok", fate' = "ok", Condemned' = Nobody, ~AtNight',
         SamePeople \/ (Condemned \in Members(TRUE) \cup Members(FALSE) /\ LosesOne(Condemned)),
         Members(TRUE)' = {} \/ Members(FALSE)' = {},
         Result' = IF Members(TRUE)' = {} THEN "villagers" ELSE "mafia"
  PROVE  Rules!Next
  <1>1. AtNight' = FALSE
    BY DEF AtNight, IsNight
  <1> QED BY <1>1 DEF Rules!Next, Rules!Announce, Rules!Living, LosesOne, SamePeople, AtNight

(* A player leaves.                                                        *)
LEMMA AsLeave ==
  ASSUME NEW p \in Position, fate = "ok", fate' = "ok", LosesOne(p), Condemned' = Condemned,
         AtNight' <=> AtNight, Result' = Result
  PROVE  Rules!Next
  <1>1. AtNight' = AtNight
    BY DEF AtNight, IsNight
  <1> QED BY <1>1 DEF Rules!Next, Rules!Leave, LosesOne, AtNight

(* Nothing the rules speak about changes.                                  *)
LEMMA AsStutter ==
  ASSUME fate' = fate, SamePeople, Condemned' = Condemned, AtNight' <=> AtNight, Result' = Result
  PROVE  UNCHANGED Rules!rules
  <1>1. AtNight' = AtNight
    BY DEF AtNight, IsNight
  <1> QED BY <1>1 DEF Rules!rules, SamePeople, AtNight

(* The end of the game.                                                    *)
LEMMA EndsByTheRules ==
  ASSUME KnownBefore, KnownAfter, RightTurn, GoToNextState, IsWon(state')
  PROVE  Rules!Next
  <1>1. /\ fate = "ok" /\ fate' = "ok" /\ GameOver(character')
        /\ state'[1] = Winner(character')
        /\ EndMurderedSpeech \/ UNCHANGED <<character, seated>>
    BY WinnerIsRight DEF KnownBefore, KnownAfter
  <1>2. seated' = seated
    BY <1>1, EndMurderedSpeechFacts DEF KnownBefore
  <1>3. /\ Members(TRUE)' = {} <=> NoMafia(character')
        /\ Members(FALSE)' = {} <=> NoVillagers(character')
    BY <1>2 DEF KnownAfter, Factions, NoMafia, NoVillagers
  <1>4. Members(TRUE)' = {} \/ Members(FALSE)' = {}
    BY <1>1, <1>3 DEF GameOver
  <1>5. Result' = IF Members(TRUE)' = {} THEN "villagers" ELSE "mafia"
    BY <1>1, <1>3 DEF KnownAfter, Shown, Winner
  <1>6. state' \in WonNode
    <2>1. state' \in Node
      BY DEF KnownAfter, IInv, TypeOK, RingTypeOK
    <2> QED BY <2>1, NodeKinds
  <1>7. Condemned' = Nobody /\ ~AtNight'
    <2>1. state' \notin MurderNode \cup NightPhase
      BY <1>6, NodesDiffer, DaysDiffer DEF NightPhase
    <2>2. ~IsNight(state')
      BY <2>1, NamesOfNodes
    <2> QED BY <2>1, <2>2 DEF KnownAfter, Shown, IsNight
  <1>8. SamePeople \/ (Condemned \in Members(TRUE) \cup Members(FALSE) /\ LosesOne(Condemned))
    <2>1. CASE EndMurderedSpeech
      <3>1. Condemned = Victim
        BY <1>1, <2>1, EndMurderedSpeechFacts DEF KnownBefore, Shown
      <3> QED BY <2>1, <3>1, VictimDies
    <2> QED BY <1>1, <2>1, PeopleStay
  <1> QED BY <1>1, <1>4, <1>5, <1>7, <1>8, AsAnnounce

(* While nobody is condemned and the game goes on, the day or the night    *)
(* goes on or ends.                                                        *)
LEMMA PeriodsByTheRules ==
  ASSUME KnownBefore, KnownAfter, fate = "ok", fate' = "ok", ~IsWon(state), ~IsWon(state'),
         UNCHANGED <<character, seated>>, ~GameOver(character),
         state \notin MurderNode, state' \notin MurderNode
  PROVE  Rules!Next \/ UNCHANGED Rules!rules
  <1>1. SamePeople
    BY PeopleStay
  <1>2. Condemned = Nobody /\ Condemned' = Nobody /\ Result' = Result
    BY DEF KnownBefore, KnownAfter, Shown
  <1>3. (AtNight <=> state \in NightPhase) /\ (AtNight' <=> state' \in NightPhase)
    <2>1. (AtNight <=> IsNight(state)) /\ (AtNight' <=> IsNight(state'))
      BY DEF KnownBefore, KnownAfter, Shown, IsNight
    <2> QED BY <2>1, NamesOfNodes
  <1>4. Members(TRUE) # {} /\ Members(FALSE) # {}
    BY DEF KnownBefore, Factions, GameOver
  <1>5. LosesOne(Nobody)
    BY <1>1 DEF LosesOne, SamePeople, KnownBefore, Factions
  <1>6. CASE state \in NightPhase <=> state' \in NightPhase
    BY <1>1, <1>2, <1>3, <1>6, AsStutter
  <1>7. CASE state \in NightPhase <=> state' \notin NightPhase
    <2>1. Members(TRUE)' # {} /\ Members(FALSE)' # {}
      BY <1>1, <1>4 DEF SamePeople
    <2> QED BY <1>2, <1>3, <1>5, <1>7, <2>1, AsEndPeriod
  <1> QED BY <1>6, <1>7

(* Somebody is condemned.                                                  *)
LEMMA CondemnsByTheRules ==
  ASSUME KnownBefore, KnownAfter, fate = "ok", fate' = "ok", ~IsWon(state), ~IsWon(state'),
         UNCHANGED <<character, seated>>, ~GameOver(character),
         state \notin MurderNode, NEW p \in Targets, Announced(p)
  PROVE  Rules!Next
  <1>1. state' = WasMurdered(p) /\ state' \in MurderNode /\ state'[2] = p /\ before' = state
    BY DEF Announced, MurderNode, WasMurdered
  <1>2. Condemned = Nobody /\ Condemned' = p /\ Result' = Result
    BY <1>1 DEF KnownBefore, KnownAfter, Shown
  <1>3. AtNight' <=> AtNight
    BY <1>1 DEF KnownBefore, KnownAfter, Shown, IsNight
  <1>4. Members(TRUE) # {} /\ Members(FALSE) # {}
    BY DEF KnownBefore, Factions, GameOver
  <1> QED BY <1>2, <1>3, <1>4, PeopleStay, AsCondemn

(* The last speech ends the day or the night in which it was given.        *)
LEMMA SpeechByTheRules ==
  ASSUME KnownBefore, KnownAfter, RightTurn, EndMurderedSpeech, ~IsWon(state')
  PROVE  Rules!Next
  <1>1. /\ fate = "ok" /\ fate' = "ok" /\ ~IsWon(state) /\ state \in MurderNode
        /\ state[2] = Victim /\ seated' = seated
        /\ ~GameOver(character')
        /\ state' = next[state] /\ state' \notin MurderNode
        /\ before \in Judging
    <2>1. ~GameOver(character')
      BY EndMurderedSpeechFacts DEF KnownBefore
    <2> QED BY <2>1, EndMurderedSpeechFacts DEF KnownBefore, EndMurderedSpeech, CanCommand
  <1>2. Condemned = Victim /\ (AtNight <=> IsNight(before)) /\ Result = "none"
        /\ Condemned' = Nobody /\ Result' = "none"
    BY <1>1 DEF KnownBefore, KnownAfter, Shown
  <1>3. AtNight' <=> IsNight(state')
    BY <1>1 DEF KnownAfter, Shown, IsNight
  <1>4. Members(TRUE)' # {} /\ Members(FALSE)' # {}
    <2>1. ~NoMafia(character') /\ ~NoVillagers(character')
      BY <1>1 DEF GameOver
    <2>2. ~NoMafia(character)' /\ ~NoVillagers(character)'
      BY <1>1, <2>1 DEF NoMafia, NoVillagers
    <2> QED BY <2>2 DEF KnownAfter, Factions
  <1>5. state = MurderedSpeech(state[2])
    BY <1>1, WhileOk, StatesDiffer DEF KnownBefore, EndMurderedSpeech
  <1>6. IsNight(before) <=> ~IsNight(state')
    <2>1. CASE before \in Ballot
      <3>1. ChoicesLinks
        BY <1>1 DEF KnownBefore, ChoicesInv
      <3>2. state' = TheNight
        BY <1>1, <1>5, <2>1, <3>1 DEF ChoicesLinks, NightFollows
      <3>3. before \notin NightPhase /\ TheNight \in NightPhase
        BY <2>1, DaysDiffer DEF NightPhase
      <3>4. ~IsNight(before) /\ IsNight(TheNight)
        BY <3>3, NamesOfNodes
      <3> QED BY <3>2, <3>4
    <2>2. CASE before = Curing
      <3>1. MorningFollows(next, state, before)
        BY <1>1 DEF KnownBefore, RulesInv
      <3>2. state' = EarlyMorning
        BY <1>1, <1>5, <2>2, <3>1 DEF MorningFollows
      <3>3. EarlyMorning \notin NightPhase /\ Curing \in NightPhase
        BY DaysDiffer DEF NightPhase
      <3>4. IsNight(Curing) /\ ~IsNight(EarlyMorning)
        BY <3>3, NamesOfNodes
      <3> QED BY <2>2, <3>2, <3>4
    <2> QED BY <1>1, <2>1, <2>2 DEF Judging, Curing
  <1>7. AtNight' <=> ~AtNight
    BY <1>2, <1>3, <1>6
  <1>8. Condemned \in Members(TRUE) \cup Members(FALSE) \cup {Nobody} /\ LosesOne(Condemned)
    BY <1>2, VictimDies
  <1> QED BY <1>1, <1>2, <1>4, <1>7, <1>8, AsEndPeriod

(* The room breaks only over a victim who is not in the game any more.     *)
LEMMA BreaksByTheRules ==
  ASSUME KnownBefore, KnownAfter, EndMurderedSpeechHangs \/ EndMurderedSpeechCrashes
  PROVE  Rules!Next
  <1>1. /\ fate = "ok" /\ fate' # "ok" /\ state[1] = "Murdered_players_speech"
        /\ state' = before /\ UNCHANGED <<character, seated>>
        /\ Victim \notin seated \/ TurnsFound(AfterSpeech, Victim) = {}
    BY DEF EndMurderedSpeechHangs, EndMurderedSpeechCrashes, CanCommand, people
  <1>2. /\ ~IsWon(state) /\ state \in MurderNode /\ state[2] = Victim /\ Victim \in Targets
        /\ before \in Judging
        /\ TurnsFound(AfterSpeech, Victim) = TurnsFound(next, Victim)
    BY <1>1, SearchAtTheEnd DEF KnownBefore
  <1>3. ~IsWon(before)
    BY <1>2, NodeKinds, NodeSets, NodesDiffer DEF Judging
  <1>4. Condemned = Victim /\ Victim # Nobody /\ Condemned' = Nobody /\ Result' = Result
    BY <1>1, <1>2, <1>3 DEF KnownBefore, KnownAfter, Shown
  <1>5. AtNight' <=> AtNight
    BY <1>1, <1>2 DEF KnownBefore, KnownAfter, Shown, IsNight
  <1>6. Victim \notin Members(TRUE) \cup Members(FALSE)
    <2>1. Victim \in seated /\ Victim # 0 => character[Victim] = "DEAD"
      <3> SUFFICES ASSUME Victim \in seated, Victim # 0 PROVE character[Victim] = "DEAD"
        OBVIOUS
      <3>1. Victim \in Position /\ Victim \in 1 .. MaxPlayers - 1
        BY <1>1, WhileOk, MaxPlayersAssumption DEF KnownBefore, PeopleTypeOK, Position
      <3>2. next[Speaking(Victim)] = null
        BY <1>1, <1>2, <3>1 DEF TurnsFound, NameContains
      <3> QED BY <1>1, <3>2 DEF KnownBefore, TurnsAreLiving
    <2>2. Members(TRUE) \cup Members(FALSE) \subseteq seated \ {0}
      BY DEF KnownBefore, Factions
    <2>3. \A p \in Members(TRUE) \cup Members(FALSE) : character[p] # "DEAD"
      BY DEF KnownBefore, Factions
    <2> QED BY <2>1, <2>2, <2>3
  <1> QED BY <1>1, <1>4, <1>5, <1>6, PeopleStay, AsBreak

(* A departure.                                                            *)
LEMMA LeavesByTheRules ==
  ASSUME KnownBefore, KnownAfter, NEW p \in Position, LeaveRoom(p)
  PROVE  Rules!Next
  <1>1. /\ fate = "ok" /\ fate' = "ok" /\ UNCHANGED <<state, before, next>>
        /\ seated' = seated \ {p}
        /\ character' = [character EXCEPT ![p] = "NOT_SPECIFIED"]
        /\ character \in [Position -> Character]
    BY WhileOk DEF KnownBefore, LeaveRoom, ring
  <1>2. LosesOne(p)
    <2>1. \A q \in seated \ {p} : character'[q] = character[q]
      BY <1>1
    <2>2. /\ Members(TRUE) = {q \in seated : character[q] = "MAFIA"}
          /\ Members(FALSE) = {q \in seated : character[q] \notin {"MAFIA", "DEAD", "MODERATOR"}}
      BY DEF KnownBefore, Factions
    <2>3. /\ Members(TRUE)' = {q \in seated' : character'[q] = "MAFIA"}
          /\ Members(FALSE)' = {q \in seated' : character'[q] \notin {"MAFIA", "DEAD", "MODERATOR"}}
      BY DEF KnownAfter, Factions
    <2>4. Members(TRUE)' = Members(TRUE) \ {p}
      BY <1>1, <2>1, <2>2, <2>3
    <2>5. Members(FALSE)' = Members(FALSE) \ {p}
      BY <1>1, <2>1, <2>2, <2>3
    <2> QED BY <2>4, <2>5 DEF LosesOne
  <1>3. Condemned' = Condemned /\ Result' = Result /\ (AtNight' <=> AtNight)
    BY <1>1 DEF Condemned, Result, AtNight, IsNight
  <1> QED BY <1>1, <1>2, <1>3, AsLeave

(* NEXT of a game that goes on.                                            *)
LEMMA NextByTheRules ==
  ASSUME KnownBefore, KnownAfter, RightTurn, GoToNextState, ~IsWon(state')
  PROVE  Rules!Next \/ UNCHANGED Rules!rules
  <1>1. IInv /\ ChoicesInv /\ fate = "ok"
    BY DEF KnownBefore, GoToNextState, OpenVoting, CloseVoting, LeaveDoctor, EndMurderedSpeech,
           Advance, EndMurderedSpeechHangs, EndMurderedSpeechCrashes, CanCommand
  <1>2. CASE OpenVoting
    <2>1. /\ ~IsWon(state) /\ state' = TheVoting /\ state \notin MurderNode
          /\ character' = character /\ seated' = seated /\ fate' = "ok"
      BY <1>1, <1>2, OpenVotingFacts
    <2>2. ~GameOver(character)
      <3>1. DOMAIN BuildVotingChain(DeletePreviousVotingChain(next), TheVoting, Nominated) = Node
        BY DEF BuildVotingChain
      <3>2. state \in Node /\ wins \in Nat /\ (IsWon(state) => state[2] <= wins)
        BY <1>1, <2>1, DuringPlay
      <3> QED BY <1>2, <3>1, <3>2, ProceedLeads DEF OpenVoting, TheVoting
    <2>3. state' \notin MurderNode
      BY <2>1, PhasesDiffer
    <2> QED BY <1>1, <2>1, <2>2, <2>3, PeriodsByTheRules
  <1>3. ASSUME state \in Judging, NEW heap, Proceed(state, heap, character),
               heap = next \/ \E p \in Targets : heap = BuildMurderChain(next, state, p)
        PROVE  Rules!Next \/ UNCHANGED Rules!rules
    <2>1. /\ ~IsWon(state) /\ ~GameOver(character)
          /\ character' = character /\ seated' = seated /\ fate' = "ok"
          /\ Passed \/ \E p \in Targets : Announced(p)
      BY <1>1, <1>3, JudgeFacts
    <2>2. state \notin MurderNode /\ next[state] \notin MurderNode
      BY <1>1, <1>3, <2>1, DuringPlay, NodesDiffer, PhasesDiffer DEF Judging, Curing
    <2>3. CASE Passed
      BY <1>1, <2>1, <2>2, <2>3, PeriodsByTheRules DEF Passed
    <2>4. CASE \E p \in Targets : Announced(p)
      BY <1>1, <2>1, <2>2, <2>4, CondemnsByTheRules
    <2> QED BY <2>1, <2>3, <2>4
  <1>4. CASE CloseVoting
    <2>1. state \in Judging
      BY <1>1, <1>4, WhileOk, NodeKinds DEF CloseVoting, Judging
    <2>2. PICK heap : /\ Proceed(state, heap, character)
                      /\ heap = next \/ \E p \in Targets : heap = BuildMurderChain(next, state, p)
      BY <1>4 DEF CloseVoting, Accused, Nominated
    <2> QED BY <1>3, <2>1, <2>2
  <1>5. CASE LeaveDoctor
    <2>1. state \in Judging
      BY <1>5 DEF LeaveDoctor, Judging
    <2>2. murdered >= 0 => murdered \in Targets
      BY <1>1, WhileOk DEF ChoicesTypeOK, Nobody, Disagreement
    <2>3. PICK heap : /\ Proceed(state, heap, character)
                      /\ heap = next \/ \E p \in Targets : heap = BuildMurderChain(next, state, p)
      BY <1>5, <2>2 DEF LeaveDoctor
    <2> QED BY <1>3, <2>1, <2>3
  <1>6. CASE EndMurderedSpeech
    BY <1>6, SpeechByTheRules
  <1>7. CASE EndMurderedSpeechHangs \/ EndMurderedSpeechCrashes
    BY <1>7, BreaksByTheRules
  <1>8. CASE Advance
    <2>1. /\ ~IsWon(state) /\ ~GameOver(character)
          /\ character' = character /\ seated' = seated /\ fate' = "ok"
          /\ before' = before \/ (state \notin MurderNode /\ state' \notin MurderNode)
          /\ state \in MurderNode <=> state' \in MurderNode
          /\ state \in MurderNode => state'[2] = state[2]
      BY <1>1, <1>8, AdvanceFacts
    <2>2. CASE state \in MurderNode
      <3>1. Condemned' = Condemned /\ Result' = Result /\ (AtNight' <=> AtNight)
        BY <1>1, <2>1, <2>2 DEF KnownBefore, KnownAfter, Shown, IsNight
      <3> QED BY <1>1, <2>1, <3>1, PeopleStay, AsStutter
    <2>3. CASE state \notin MurderNode
      BY <1>1, <2>1, <2>3, PeriodsByTheRules
    <2> QED BY <2>2, <2>3
  <1> QED BY <1>2, <1>4, <1>5, <1>6, <1>7, <1>8 DEF GoToNextState

(* Every step of the room is one that the rules allow.                     *)
LEMMA StepsByTheRules ==
  ASSUME KnownBefore, KnownAfter, RightTurn, [Next]_vars
  PROVE  Rules!Next \/ UNCHANGED Rules!rules
  <1>1. CASE Select \/ UNCHANGED vars
    <2>1. UNCHANGED <<ring, people, fate>>
      BY <1>1 DEF Select, NominateForVoting, TryToMurderPlayer, CurePlayer, SetNumberOfVotes, vars
    <2>2. Condemned' = Condemned /\ Result' = Result /\ (AtNight' <=> AtNight)
      BY <2>1 DEF Condemned, Result, AtNight, IsNight, ring
    <2> QED BY <2>1, <2>2, PeopleStay, AsStutter DEF people
  <1>2. CASE GoToNextState
    BY <1>2, EndsByTheRules, NextByTheRules
  <1> QED BY <1>1, <1>2, LeavesByTheRules DEF Next

(* The game starts as the rules say.                                       *)
LEMMA StartsByTheRules ==
  ASSUME Init, Shown, Factions
  PROVE  Rules!Init
  <1>1. state = WakesUp /\ fate = "ok"
    BY DEF Init, WakesUp
  <1>2. state \in Node /\ state \notin MurderNode \cup WonNode \cup NightPhase
    BY <1>1, DaysDiffer DEF NightPhase
  <1>3. ~IsWon(state) /\ ~IsNight(state)
    BY <1>2, NodeKinds, NamesOfNodes
  <1>4. Condemned = Nobody /\ ~AtNight /\ Result = "none"
    BY <1>1, <1>2, <1>3 DEF Shown
  <1>5. AtNight = FALSE
    BY <1>4 DEF AtNight, IsNight
  <1> QED BY <1>1, <1>4, <1>5 DEF Rules!Init, Factions, AtNight

(* The room plays Mafia: whatever is built and deleted in the ring, a day  *)
(* or a night ends with the death of the one player it condemned or of     *)
(* none, nobody else dies, the winner is announced when a faction is gone, *)
(* and the room breaks only over a victim who is not in the game.          *)
THEOREM RoomImplementsRules ==
  ASSUME MaxPlayers <= 10 \/ ClientChecks
  PROVE  Spec => ImplementsRules
  <1> DEFINE Inv == /\ IInv /\ ChoicesInv /\ RulesInv /\ TurnsAreLiving
                    /\ ClientChecks => LiveChoices
             Kept == Inv /\ Shown /\ Factions
  <1>1. Init => Inv
    BY InitIInv, InitChoicesInv, InitRulesInv, InitTurns, InitLiveChoices
  <1>2. ASSUME Inv, [Next]_vars PROVE Inv' /\ RightTurn
    <2>1. RightTurn
      BY <1>2, VictimsOwnTurn DEF RightTurn
    <2>2. EndMurderedSpeech => TurnGone = Victim
      BY <2>1 DEF RightTurn
    <2> QED BY <1>2, <2>1, <2>2, NextIInv, NextChoicesInv, NextRulesInv, NextTurns,
               NextLiveChoices
  <1>3. Inv => Kept
    <2>1. IInv => PeopleTypeOK
      BY DEF IInv, TypeOK
    <2>2. RulesInv => ModeratorInv
      BY DEF RulesInv
    <2> QED BY <2>1, <2>2, WhatIsShown, FactionsAre
  <1>4. Init /\ Kept => Rules!Init
    BY StartsByTheRules
  <1>5. ASSUME Kept, Inv', [Next]_vars PROVE [Rules!Next]_(Rules!rules)
    <2>1. KnownBefore
      BY <1>5 DEF KnownBefore
    <2>2. IInv' /\ RulesInv'
      BY <1>5
    <2>3. ModeratorInv'
      BY <2>2 DEF RulesInv
    <2>4. KnownAfter
      BY <2>2, <2>3, ShownNext DEF KnownAfter
    <2>5. RightTurn
      BY <1>2, <1>5
    <2> QED BY <1>5, <2>1, <2>4, <2>5, StepsByTheRules
  <1> HIDE DEF Inv, Kept
  <1> QED BY <1>1, <1>2, <1>3, <1>4, <1>5, PTL DEF Spec, ImplementsRules, Rules!Spec


-----------------------------------------------------------------------------
(* The ring is one cycle.                                                  *)

(* An endless walk along the pointers of h from s.                         *)
IsWalk(f, h, s) == f = [i \in Nat |-> IF i = 0 THEN s ELSE h[f[i - 1]]]

(* One exists from every node of a closed set: the limit of the walks of   *)
(* finite length.                                                          *)
LEMMA WalkExists ==
  ASSUME NEW L, NEW h, \A n \in L : h[n] \in L, NEW s \in L
  PROVE  \E f : IsWalk(f, h, s)
  <1> DEFINE Path(n, g) == /\ g \in [0 .. n -> L] /\ g[0] = s
                           /\ \A i \in 1 .. n : g[i] = h[g[i - 1]]
  <1>1. ASSUME NEW n \in Nat PROVE \E g : Path(n, g)
    <2> DEFINE Missing == {m \in Nat : ~\E g : Path(m, g)}
    <2> SUFFICES ASSUME Missing # {} PROVE FALSE
      BY <1>1
    <2>1. PICK m \in Missing : \A k \in Missing : m <= k
      BY LeastExists
    <2>2. CASE m = 0
      <3>1. Path(0, [i \in 0 .. 0 |-> s])
        OBVIOUS
      <3> HIDE DEF Path
      <3> QED BY <2>1, <2>2, <3>1
    <2>3. CASE m # 0
      <3>1. m \in Nat /\ m - 1 \in Nat /\ ~(m <= m - 1)
        <4> HIDE DEF Path
        <4> QED BY <2>1, <2>3
      <3> HIDE DEF Missing
      <3>2. m - 1 \notin Missing
        BY <2>1, <3>1
      <3> USE DEF Missing
      <3>3. PICK g : Path(m - 1, g)
        BY <3>1, <3>2
      <3> DEFINE e == [i \in 0 .. m |-> IF i = m THEN h[g[m - 1]] ELSE g[i]]
      <3>4. g[m - 1] \in L /\ h[g[m - 1]] \in L
        BY <3>1, <3>3
      <3>5. e \in [0 .. m -> L] /\ e[0] = s
        BY <3>1, <3>3, <3>4, <2>3
      <3>6. ASSUME NEW i \in 1 .. m PROVE e[i] = h[e[i - 1]]
        <4>1. i - 1 \in 0 .. m - 1 /\ i - 1 # m /\ i - 1 \in 0 .. m /\ i \in 0 .. m
          BY <3>1
        <4>2. CASE i = m
          BY <4>1, <4>2
        <4>3. CASE i # m
          <5>1. i \in 1 .. m - 1
            BY <3>1, <4>3
          <5> QED BY <3>3, <4>1, <4>3, <5>1
        <4> QED BY <4>2, <4>3
      <3>7. Path(m, e)
        BY <3>5, <3>6
      <3> QED BY <2>1, <3>7
    <2> QED BY <2>2, <2>3
  <1>2. ASSUME NEW m \in Nat, NEW n \in Nat, NEW g, NEW k, Path(m, g), Path(n, k),
               NEW j \in Nat, j <= m, j <= n
        PROVE  g[j] = k[j]
    <2> DEFINE Differ == {i \in Nat : i <= m /\ i <= n /\ g[i] # k[i]}
    <2> SUFFICES ASSUME Differ # {} PROVE FALSE
      BY <1>2
    <2>1. PICK i \in Differ : \A l \in Differ : i <= l
      BY LeastExists
    <2>2. i # 0
      BY <1>2, <2>1
    <2>3. i \in 1 .. m /\ i \in 1 .. n /\ i - 1 \in Nat /\ i - 1 \notin Differ
      BY <2>1, <2>2
    <2>4. g[i - 1] = k[i - 1]
      BY <2>3
    <2> QED BY <1>2, <2>1, <2>3, <2>4
  <1> DEFINE P(n) == CHOOSE g : Path(n, g)
             f == [n \in Nat |-> P(n)[n]]
  <1>3. \A n \in Nat : Path(n, P(n))
    BY <1>1
  <1> HIDE DEF P
  <1>4. f[0] = s
    <2>1. Path(0, P(0))
      BY <1>3
    <2> QED BY <2>1
  <1>5. ASSUME NEW n \in Nat, n # 0 PROVE f[n] = h[f[n - 1]]
    <2>1. n - 1 \in Nat /\ n - 1 <= n /\ n - 1 <= n - 1 /\ n \in 1 .. n
      BY <1>5
    <2>2. Path(n, P(n)) /\ Path(n - 1, P(n - 1))
      BY <1>3, <2>1
    <2>3. P(n)[n - 1] = P(n - 1)[n - 1]
      BY <1>2, <2>1, <2>2
    <2> QED BY <2>1, <2>2, <2>3
  <1> HIDE DEF f
  <1>6. f = [i \in Nat |-> IF i = 0 THEN s ELSE h[f[i - 1]]]
    <2>1. f = [i \in Nat |-> f[i]]
      BY DEF f
    <2> QED BY <1>4, <1>5, <2>1
  <1> QED BY <1>6 DEF IsWalk

(* So Visited is one.                                                      *)
LEMMA VisitedWalks ==
  ASSUME state \in LiveIn(next), Closed(next)
  PROVE  /\ Visited[0] = state
         /\ \A i \in Nat \ {0} : Visited[i] = next[Visited[i - 1]]
  <1>1. \E f : IsWalk(f, next, state)
    <2> DEFINE L == LiveIn(next)
    <2>1. \A n \in L : next[n] \in L
      BY DEF Closed
    <2> HIDE DEF L
    <2>2. state \in L
      BY DEF L
    <2> QED BY <2>1, <2>2, WalkExists
  <1>2. IsWalk(Visited, next, state)
    BY <1>1 DEF Visited, IsWalk
  <1> QED BY <1>2 DEF IsWalk

(* No part of the allocated nodes is closed but the whole: they are one    *)
(* cycle.                                                                  *)
OneCycle(h) ==
  \A S \in SUBSET LiveIn(h) : S # {} /\ (\A n \in S : h[n] \in S) => S = LiveIn(h)

(* A heap has finitely many nodes.                                         *)
LEMMA NodesAreFinite == ASSUME NEW h PROVE IsFiniteSet(LiveIn(h))
  <1>1. IsFiniteSet({0}) /\ IsFiniteSet(Targets)
    BY FS_Singleton, TargetsAssumption
  <1>2. IsFiniteSet(1 .. MaxPlayers - 1) /\ IsFiniteSet(1 .. MaxAnnouncements)
    BY MaxPlayersAssumption, MaxAnnouncementsAssumption, FS_Interval
  <1>3. IsFiniteSet(PhaseKind) /\ IsFiniteSet(TurnKind) /\ IsFiniteSet(MarkKind)
        /\ IsFiniteSet(WonKind)
    <2>1. ASSUME NEW a, NEW b PROVE IsFiniteSet({a, b})
      <3>1. {a, b} = {a} \cup {b} /\ IsFiniteSet({a})
        BY FS_Singleton
      <3> QED BY <3>1, FS_AddElement
    <2>2. ASSUME NEW a, NEW b, NEW c PROVE IsFiniteSet({a, b, c})
      <3>1. {a, b, c} = {a, b} \cup {c} /\ IsFiniteSet({a, b})
        BY <2>1
      <3> QED BY <3>1, FS_AddElement
    <2> DEFINE A == {"City_wakes_up", "Voting", "Night"}
               B == {"Mafia_wake_up", "Mafia_murdered", "Detective_checking"}
               C == {"Doctor_curing", "Early_morning"}
    <2>3. PhaseKind = (A \cup B) \cup C
      BY DEF PhaseKind
    <2>4. IsFiniteSet(A) /\ IsFiniteSet(B) /\ IsFiniteSet(C)
      BY <2>1, <2>2
    <2> HIDE DEF A, B, C
    <2>5. IsFiniteSet(A \cup B)
      BY <2>4, FS_Union
    <2>6. IsFiniteSet(PhaseKind)
      BY <2>3, <2>4, <2>5, FS_Union
    <2> QED BY <2>1, <2>2, <2>6 DEF TurnKind, MarkKind, WonKind
  <1>4. IsFiniteSet(Node)
    <2>1. IsFiniteSet(PhaseKind \X {0}) /\ IsFiniteSet(TurnKind \X (1 .. MaxPlayers - 1))
      BY <1>1, <1>2, <1>3, FS_Product
    <2>2. IsFiniteSet(MarkKind \X Targets) /\ IsFiniteSet(WonKind \X (1 .. MaxAnnouncements))
      BY <1>1, <1>2, <1>3, FS_Product
    <2> QED BY <2>1, <2>2, FS_Union DEF Node
  <1> QED BY <1>4, FS_Subset DEF LiveIn

(* Then every node has one predecessor, ...                                *)
LEMMA CycleIsInjective ==
  ASSUME NEW h, LiveIn(h) # {}, Closed(h), OneCycle(h)
  PROVE  \A m, n \in LiveIn(h) : h[m] = h[n] => m = n
  <1> DEFINE L == LiveIn(h)
             f == [n \in L |-> h[n]]
             Image == {h[n] : n \in L}
  <1>1. IsFiniteSet(L)
    BY NodesAreFinite
  <1>2. Image = L
    <2>1. Image \in SUBSET L /\ Image # {} /\ \A n \in Image : h[n] \in Image
      BY DEF Closed
    <2> QED BY <2>1 DEF OneCycle
  <1> HIDE DEF L
  <1>3. f \in Surjection(L, L)
    BY <1>2 DEF Surjection
  <1>4. f \in Injection(L, L)
    BY <1>1, <1>3, FS_SurjSameCardinalityImpliesInj
  <1>5. \A m, n \in L : f[m] = f[n] => m = n
    BY <1>4 DEF Injection, IsInjective
  <1> QED BY <1>5 DEF L

(* ... the walk returns to where it began after all of them, and no        *)
(* earlier.                                                                *)
LEMMA WalkIsCycle ==
  ASSUME NEW h, NEW s \in LiveIn(h), Closed(h), OneCycle(h), NEW f,
         f[0] = s, \A i \in Nat \ {0} : f[i] = h[f[i - 1]],
         NEW N, N = Cardinality(LiveIn(h))
  PROVE  /\ N \in Nat \ {0}
         /\ \A i \in 0 .. N - 1 : f[i] \in LiveIn(h)
         /\ LiveIn(h) = {f[i] : i \in 0 .. N - 1}
         /\ f[N] = s
  <1> DEFINE L == LiveIn(h)
  <1>1. IsFiniteSet(L) /\ N \in Nat /\ N # 0
    BY NodesAreFinite, FS_CardinalityType, FS_EmptySet
  <1>2. \A m, n \in L : h[m] = h[n] => m = n
    BY CycleIsInjective
  <1>3. \A S \in SUBSET L : S # {} /\ (\A n \in S : h[n] \in S) => S = L
    BY DEF OneCycle
  <1>4. s \in L /\ \A n \in L : h[n] \in L
    BY DEF Closed
  <1> HIDE DEF L
  <1>5. ASSUME NEW i \in Nat PROVE f[i] \in L
    <2> DEFINE Out == {j \in Nat : f[j] \notin L}
    <2> SUFFICES ASSUME Out # {} PROVE FALSE
      BY <1>5
    <2>1. PICK j \in Out : \A k \in Out : j <= k
      BY LeastExists
    <2>2. j \in Nat \ {0} /\ j - 1 \in Nat /\ j - 1 \notin Out
      BY <1>4, <2>1
    <2> QED BY <1>4, <2>1, <2>2
  (* Two equal nodes of the walk: so are those before them. *)
  <1>6. ASSUME NEW d \in Nat \ {0}, NEW i \in Nat, f[i] = f[i + d] PROVE f[0] = f[d]
    <2> DEFINE Same == {j \in Nat : f[j] = f[j + d]}
    <2>1. PICK j \in Same : \A k \in Same : j <= k
      BY <1>6, LeastExists
    <2>2. CASE j = 0
      BY <2>1, <2>2
    <2>3. CASE j # 0
      <3>1. j - 1 \in Nat /\ j + d \in Nat \ {0} /\ (j + d) - 1 = (j - 1) + d /\ (j - 1) + d \in Nat
        BY <2>1, <2>3
      <3>2. h[f[j - 1]] = h[f[(j - 1) + d]]
        BY <2>1, <2>3, <3>1
      <3>3. f[j - 1] = f[(j - 1) + d]
        BY <1>2, <1>5, <3>1, <3>2
      <3> QED BY <2>1, <3>1, <3>3
    <2> QED BY <2>2, <2>3
  (* The walk does not return early. *)
  <1>7. ASSUME NEW d \in Nat \ {0}, f[0] = f[d] PROVE N <= d
    <2> DEFINE I == 0 .. d - 1
               S == {f[i] : i \in I}
               g == [i \in I |-> f[i]]
    <2>1. S = L
      <3>1. S \in SUBSET L
        BY <1>5
      <3>2. f[0] \in S
        OBVIOUS
      <3>3. ASSUME NEW i \in I PROVE h[f[i]] \in S
        <4>1. i + 1 \in Nat \ {0} /\ (i + 1) - 1 = i
          OBVIOUS
        <4>2. h[f[i]] = f[i + 1]
          BY <4>1
        <4>3. i + 1 \in I \/ i + 1 = d
          OBVIOUS
        <4> QED BY <1>7, <3>2, <4>2, <4>3
      <3>4. \A n \in S : h[n] \in S
        BY <3>3
      <3>5. S # {}
        BY <3>2
      <3> HIDE DEF S
      <3> QED BY <1>3, <3>1, <3>4, <3>5
    <2>2. IsFiniteSet(I) /\ Cardinality(I) = d
      <3>1. 0 \in Int /\ d - 1 \in Int /\ ~(0 > d - 1) /\ (d - 1) - 0 + 1 = d
        OBVIOUS
      <3>2. IsFiniteSet(0 .. d - 1) /\ Cardinality(0 .. d - 1) = (d - 1) - 0 + 1
        BY <3>1, FS_Interval
      <3> QED BY <3>1, <3>2
    <2>3. g \in Surjection(I, S)
      BY DEF Surjection
    <2> HIDE DEF I, S, g
    <2>4. Cardinality(S) <= d
      BY <2>2, <2>3, FS_Surjection
    <2> QED BY <2>1, <2>4 DEF L
  <1> DEFINE I == 0 .. N - 1
             g == [i \in I |-> f[i]]
  <1>8. \A i, j \in I : f[i] = f[j] => i = j
    <2> SUFFICES ASSUME NEW i \in I, NEW j \in I, f[i] = f[j], i < j PROVE FALSE
      BY <1>1
    <2>1. j - i \in Nat \ {0} /\ i + (j - i) = j /\ i \in Nat /\ j - i < N
      BY <1>1
    <2>2. f[0] = f[j - i]
      BY <1>6, <2>1
    <2> QED BY <1>1, <1>7, <2>1, <2>2
  <1>9. IsFiniteSet(I) /\ Cardinality(I) = N
    <2>1. 0 \in Int /\ N - 1 \in Int /\ ~(0 > N - 1) /\ (N - 1) - 0 + 1 = N
      BY <1>1
    <2>2. IsFiniteSet(0 .. N - 1) /\ Cardinality(0 .. N - 1) = (N - 1) - 0 + 1
      BY <2>1, FS_Interval
    <2> QED BY <2>1, <2>2
  <1>10. I \subseteq Nat
    BY <1>1
  <1>11. g \in Injection(I, L)
    BY <1>5, <1>8, <1>10 DEF Injection, IsInjective
  <1>12. g \in Surjection(I, L)
    <2> HIDE DEF I, g
    <2>1. Cardinality(I) = Cardinality(L)
      BY <1>9 DEF L
    <2> QED BY <1>1, <1>11, <2>1, FS_Injection
  <1>13. L = {f[i] : i \in I}
    <2>1. L = {g[i] : i \in I}
      BY <1>11, <1>12 DEF Surjection, Injection
    <2> QED BY <2>1
  <1>14. f[N] = s
    <2>1. PICK j \in I : f[N] = f[j]
      BY <1>1, <1>5, <1>13
    <2>2. j \in Nat /\ N - j \in Nat \ {0} /\ j + (N - j) = N
      BY <1>1, <2>1
    <2>3. f[0] = f[N - j]
      BY <1>6, <2>1, <2>2
    <2>4. N <= N - j
      BY <1>7, <2>2, <2>3
    <2>5. N - j = N
      BY <1>1, <2>2, <2>4
    <2> QED BY <2>3, <2>5
  <1> QED BY <1>1, <1>5, <1>10, <1>13, <1>14 DEF L

(* The property that the runs check, from the invariant.                   *)
LEMMA OneCycleIsWalked ==
  ASSUME state \in LiveIn(next), Closed(next), OneCycle(next)
  PROVE  RingIsOneCycle
  <1>1. Live = LiveIn(next)
    BY DEF Live, LiveIn
  <1> DEFINE N == Cardinality(LiveIn(next))
  <1>2. /\ N \in Nat \ {0}
        /\ \A i \in 0 .. N - 1 : Visited[i] \in LiveIn(next)
        /\ LiveIn(next) = {Visited[i] : i \in 0 .. N - 1}
        /\ Visited[N] = state
    BY VisitedWalks, WalkIsCycle
  <1> QED BY <1>1, <1>2 DEF RingIsOneCycle

-----------------------------------------------------------------------------
(* What is done to the ring keeps it one cycle.                            *)

(* A node is put after another.                                            *)
LEMMA InsertOne ==
  ASSUME NEW h \in Heap, Closed(h), OneCycle(h),
         NEW s \in LiveIn(h), NEW a \in Node \ LiveIn(h), NEW g, g = BuildEndGameChain(h, s, a)
  PROVE  OneCycle(g)
  <1>1. DOMAIN h = Node /\ s \in Node /\ s # a /\ a # null /\ h[s] \in LiveIn(h)
    BY NodeSets DEF Heap, LiveIn, Closed
  <1>2. g[s] = a /\ g[a] = h[s] /\ \A n \in Node : n # s /\ n # a => g[n] = h[n]
    BY <1>1 DEF BuildEndGameChain
  <1>3. LiveIn(g) = LiveIn(h) \cup {a}
    BY <1>1, <1>2 DEF LiveIn
  <1> SUFFICES ASSUME NEW S \in SUBSET LiveIn(g), S # {}, \A n \in S : g[n] \in S
               PROVE  S = LiveIn(g)
    BY DEF OneCycle
  <1> DEFINE T == S \cap LiveIn(h)
  <1>4. a \in S => h[s] \in S
    BY <1>2
  <1>5. T # {}
    BY <1>1, <1>3, <1>4
  <1>6. ASSUME NEW n \in T PROVE h[n] \in T
    <2>1. n \in Node /\ n # a /\ h[n] \in LiveIn(h)
      BY DEF LiveIn, Closed
    <2>2. CASE n = s
      BY <1>2, <1>4, <2>1, <2>2
    <2>3. CASE n # s
      BY <1>2, <2>1, <2>3
    <2> QED BY <2>2, <2>3
  <1> HIDE DEF T
  <1>7. T = LiveIn(h)
    <2>1. T \in SUBSET LiveIn(h)
      BY DEF T
    <2> QED BY <1>5, <1>6, <2>1 DEF OneCycle
  <1>8. s \in S /\ LiveIn(h) \subseteq S
    BY <1>7 DEF T
  <1> QED BY <1>2, <1>3, <1>8

(* Two nodes are put after another.                                        *)
LEMMA InsertTwo ==
  ASSUME NEW h \in Heap, Closed(h), OneCycle(h), NEW s \in LiveIn(h), NEW p \in Targets,
         LiveIn(h) \cap MurderNode = {}, NEW g, g = BuildMurderChain(h, s, p)
  PROVE  OneCycle(g)
  <1> DEFINE a == WasMurdered(p)
             b == MurderedSpeech(p)
  <1>1. /\ DOMAIN h = Node /\ s \in Node /\ h[s] \in LiveIn(h)
        /\ a \in Node \ LiveIn(h) /\ b \in Node \ LiveIn(h) /\ a # b
        /\ s # a /\ s # b /\ a # null /\ b # null
    <2>1. a \in MurderNode /\ b \in MurderNode /\ a # b
      BY DEF MurderNode, WasMurdered, MurderedSpeech
    <2> HIDE DEF a, b
    <2> QED BY <2>1, NodeSets DEF Heap, LiveIn, Closed
  <1>2. /\ g[s] = a /\ g[a] = b /\ g[b] = h[s]
        /\ \A n \in Node : n # s /\ n # a /\ n # b => g[n] = h[n]
    BY <1>1 DEF BuildMurderChain
  <1> HIDE DEF a, b
  <1>3. LiveIn(g) = LiveIn(h) \cup {a, b}
    BY <1>1, <1>2 DEF LiveIn
  <1> SUFFICES ASSUME NEW S \in SUBSET LiveIn(g), S # {}, \A n \in S : g[n] \in S
               PROVE  S = LiveIn(g)
    BY DEF OneCycle
  <1> DEFINE T == S \cap LiveIn(h)
  <1>4. (a \in S => b \in S) /\ (b \in S => h[s] \in S)
    BY <1>2
  <1>5. T # {}
    BY <1>1, <1>3, <1>4
  <1>6. ASSUME NEW n \in T PROVE h[n] \in T
    <2>1. n \in Node /\ n # a /\ n # b /\ h[n] \in LiveIn(h)
      BY <1>1 DEF LiveIn, Closed
    <2>2. CASE n = s
      BY <1>2, <1>4, <2>1, <2>2
    <2>3. CASE n # s
      BY <1>2, <2>1, <2>3
    <2> QED BY <2>2, <2>3
  <1> HIDE DEF T
  <1>7. T = LiveIn(h)
    <2>1. T \in SUBSET LiveIn(h)
      BY DEF T
    <2> QED BY <1>5, <1>6, <2>1 DEF OneCycle
  <1>8. s \in S /\ LiveIn(h) \subseteq S
    BY <1>7 DEF T
  <1>9. a \in S /\ b \in S
    BY <1>2, <1>4, <1>8
  <1> QED BY <1>3, <1>8, <1>9

(* Two nodes that follow each other and another are deleted: a murder, or  *)
(* a turn.                                                                 *)
LEMMA RemoveTwo ==
  ASSUME NEW h, Closed(h), OneCycle(h),
         NEW s \in LiveIn(h), NEW a \in LiveIn(h), NEW b \in LiveIn(h),
         s # a, s # b, a # b, h[s] = a, h[a] = b, h[b] # a, h[b] # b,
         \A n \in LiveIn(h) : (h[n] = a => n = s) /\ (h[n] = b => n = a),
         NEW g, g[s] = h[b], LiveIn(g) = LiveIn(h) \ {a, b},
         \A n \in LiveIn(g) : n # s => g[n] = h[n]
  PROVE  OneCycle(g)
  <1> SUFFICES ASSUME NEW S \in SUBSET LiveIn(g), S # {}, \A n \in S : g[n] \in S
               PROVE  S = LiveIn(g)
    BY DEF OneCycle
  <1>1. CASE s \in S
    <2> DEFINE T == S \cup {a, b}
    <2>1. T \in SUBSET LiveIn(h) /\ T # {}
      OBVIOUS
    <2>2. ASSUME NEW n \in T PROVE h[n] \in T
      <3>1. CASE n \in {a, b}
        BY <1>1, <3>1
      <3>2. CASE n \notin {a, b} /\ n # s
        BY <3>2
      <3> QED BY <3>1, <3>2
    <2> HIDE DEF T
    <2>3. T = LiveIn(h)
      BY <2>1, <2>2 DEF OneCycle
    <2> QED BY <2>3 DEF T
  <1>2. CASE s \notin S
    <2>1. \A n \in S : h[n] \in S
      BY <1>2
    <2>2. S \in SUBSET LiveIn(h)
      OBVIOUS
    <2>3. S = LiveIn(h)
      BY <2>1, <2>2 DEF OneCycle
    <2> QED BY <1>2, <2>3
  <1> QED BY <1>1, <1>2

(* The ballots form one row, from the voting to the night.                 *)
BallotBlock(h) ==
  /\ \A n \in LiveIn(h) \ Ballot : h[n] \in Ballot => n = TheVoting
  /\ \A b \in LiveIn(h) \cap Ballot : h[b] \in Ballot \cup {TheNight}
  /\ h[TheVoting] \in Ballot \cup {TheNight}

(* The row of yesterday's ballots is deleted.                              *)
LEMMA RemoveBallots ==
  ASSUME NEW h, NEW i \in Nat, WellLinked(h, i), OneCycle(h), BallotBlock(h),
         NEW g, g = DeletePreviousVotingChain(h)
  PROVE  OneCycle(g) /\ g[TheVoting] = TheNight
  <1> USE PhasesDiffer, NodeSets
  <1>1. h \in Heap /\ Closed(h) /\ BallotsEnd(h) /\ {TheVoting, TheNight} \subseteq LiveIn(h)
    BY DaysLive DEF WellLinked
  <1>2. LiveIn(g) = LiveIn(h) \ Ballot
    BY DeletePreviousLinks
  <1>3. \A n \in Node \ Ballot : g[n] = IF h[n] \in Ballot THEN AfterBallots(h) ELSE h[n]
    BY DEF DeletePreviousVotingChain
  <1>4. ASSUME h[TheVoting] \in Ballot PROVE AfterBallots(h) = TheNight
    <2>1. LiveIn(h) \cap Ballot # {}
      BY <1>1, <1>4 DEF Closed
    <2>2. PICK b \in LiveIn(h) \cap Ballot : h[b] \notin Ballot
      BY <1>1, <2>1 DEF BallotsEnd
    <2>3. h[b] \in Node \ Ballot
      BY <1>1, <2>2 DEF Closed, LiveIn
    <2>4. AfterBallots(h) \in Node \ Ballot /\ \E a \in Ballot : h[a] = AfterBallots(h)
      BY <2>2, <2>3 DEF AfterBallots
    <2>5. PICK a \in Ballot : h[a] = AfterBallots(h)
      BY <2>4
    <2>6. a \in LiveIn(h)
      BY <2>4, <2>5 DEF LiveIn
    <2> QED BY <2>4, <2>5, <2>6 DEF BallotBlock
  <1> SUFFICES ASSUME NEW S \in SUBSET LiveIn(g), S # {}, \A n \in S : g[n] \in S
               PROVE  S = LiveIn(g)
    BY <1>3, <1>4 DEF OneCycle, BallotBlock
  <1>5. \A n \in S : n \in Node \ Ballot /\ n \in LiveIn(h)
    BY <1>2 DEF LiveIn
  <1>6. \A n \in S : h[n] \in Ballot => n = TheVoting
    BY <1>5 DEF BallotBlock
  <1>7. CASE TheVoting \in S /\ h[TheVoting] \in Ballot
    <2> DEFINE T == S \cup (LiveIn(h) \cap Ballot)
    <2>1. T \in SUBSET LiveIn(h) /\ T # {}
      BY <1>5
    <2>2. TheNight \in S
      BY <1>3, <1>4, <1>7
    <2>3. ASSUME NEW n \in T PROVE h[n] \in T
      <3>1. h[n] \in LiveIn(h)
        BY <1>1, <1>5 DEF Closed
      <3>2. CASE n \in Ballot
        <4>1. h[n] \in Ballot \cup {TheNight}
          BY <1>5, <3>2 DEF BallotBlock
        <4> QED BY <2>2, <3>1, <4>1
      <3>3. CASE n \notin Ballot
        <4>1. n \in S /\ n \in Node \ Ballot
          BY <1>5, <3>3
        <4>2. h[n] \in Ballot \/ h[n] = g[n]
          BY <1>3, <4>1
        <4> QED BY <3>1, <4>1, <4>2
      <3> QED BY <3>2, <3>3
    <2> HIDE DEF T
    <2>4. T = LiveIn(h)
      BY <2>1, <2>3 DEF OneCycle
    <2> QED BY <1>2, <1>5, <2>4 DEF T
  <1>8. CASE ~(TheVoting \in S /\ h[TheVoting] \in Ballot)
    <2>1. \A n \in S : h[n] \in S
      BY <1>3, <1>5, <1>6, <1>8
    <2>2. S \in SUBSET LiveIn(h)
      BY <1>5
    <2>3. S = LiveIn(h)
      BY <2>1, <2>2 DEF OneCycle
    <2> QED BY <1>2, <2>3
  <1> QED BY <1>7, <1>8

(* Today's row is built, in the order of the positions.                    *)
LEMMA InsertBallots ==
  ASSUME NEW h \in Heap, Closed(h), OneCycle(h), LiveIn(h) \cap Ballot = {},
         TheVoting \in LiveIn(h), NEW M \in SUBSET Targets,
         NEW g, g = BuildVotingChain(h, TheVoting, M)
  PROVE  OneCycle(g)
  <1> USE PhasesDiffer, NodeSets
  <1>1. M \subseteq Nat /\ IsFiniteSet(M)
    BY TargetsAssumption, FS_Subset
  <1>2. CASE M = {}
    <2>1. \A n \in Node : g[n] = h[n]
      BY <1>2 DEF BuildVotingChain
    <2>2. LiveIn(g) = LiveIn(h)
      BY <2>1 DEF LiveIn
    <2>3. \A n \in LiveIn(h) : g[n] = h[n]
      BY <2>1 DEF LiveIn
    <2> QED BY <2>2, <2>3 DEF OneCycle
  <1>3. CASE M # {}
    <2> DEFINE Later(p) == {q \in M : q > p}
               exit == h[TheVoting]
    <2>1. LeastOf(M) \in M /\ \A q \in M : LeastOf(M) <= q
      BY <1>1, <1>3, LeastOfIsLeast
    <2>2. g[TheVoting] = VotingAgainst(LeastOf(M))
      BY <1>3 DEF BuildVotingChain
    <2>3. ASSUME NEW p \in M
          PROVE  /\ VotingAgainst(p) \in Ballot
                 /\ Later(p) = {} => g[VotingAgainst(p)] = exit
                 /\ Later(p) # {} => /\ LeastOf(Later(p)) \in Later(p)
                                     /\ g[VotingAgainst(p)] = VotingAgainst(LeastOf(Later(p)))
                                     /\ \A q \in Later(p) : LeastOf(Later(p)) <= q
      <3>1. /\ VotingAgainst(p) \in Ballot /\ VotingAgainst(p) # TheVoting
            /\ VotingAgainst(p)[1] = "Voting_against_player" /\ VotingAgainst(p)[2] = p
        BY DEF Ballot, VotingAgainst
      <3>2. g[VotingAgainst(p)] = IF Later(p) = {} THEN exit ELSE VotingAgainst(LeastOf(Later(p)))
        BY <3>1 DEF BuildVotingChain
      <3>3. Later(p) \subseteq Nat
        BY <1>1
      <3> HIDE DEF Later
      <3> QED BY <3>1, <3>2, <3>3, LeastOfIsLeast
    <2>4. \A n \in Node \ Ballot : n # TheVoting => g[n] = h[n]
      <3>1. \A n \in Node \ Ballot : n[1] # "Voting_against_player"
        BY NodeKinds DEF IsBallot
      <3> QED BY <3>1 DEF BuildVotingChain
    <2>5. LiveIn(g) = LiveIn(h) \cup {VotingAgainst(p) : p \in M}
      <3>1. \A n \in Node \ Ballot : n \in LiveIn(g) <=> n \in LiveIn(h)
        BY <2>2, <2>4 DEF LiveIn, VotingAgainst, null
      <3>2. \A p \in M : VotingAgainst(p) \in LiveIn(g)
        <4>1. exit # null
          BY DEF LiveIn, Closed
        <4>2. \A q : VotingAgainst(q) # null
          BY DEF VotingAgainst, null
        <4> QED BY <2>3, <4>1, <4>2 DEF LiveIn
      <3>3. ASSUME NEW p \in Targets \ M PROVE VotingAgainst(p) \notin LiveIn(g)
        <4>1. VotingAgainst(p) \in Ballot /\ VotingAgainst(p) # TheVoting /\ VotingAgainst(p)[2] = p
          BY DEF Ballot, VotingAgainst
        <4>2. g[VotingAgainst(p)] = h[VotingAgainst(p)]
          BY <4>1 DEF BuildVotingChain
        <4> QED BY <4>1, <4>2 DEF LiveIn
      <3>4. Ballot = {VotingAgainst(p) : p \in Targets}
        BY DEF Ballot
      <3>5. LiveIn(g) \subseteq Node /\ LiveIn(h) \subseteq Node
        BY DEF LiveIn
      <3> QED BY <3>1, <3>2, <3>3, <3>4, <3>5
    <2> SUFFICES ASSUME NEW S \in SUBSET LiveIn(g), S # {}, \A n \in S : g[n] \in S
                 PROVE  S = LiveIn(g)
      BY DEF OneCycle
    <2> DEFINE In == {p \in M : VotingAgainst(p) \in S}
               T == S \cap LiveIn(h)
    (* A row that is entered is left. *)
    <2>6. In # {} => exit \in S
      <3> SUFFICES ASSUME In # {} PROVE exit \in S
        OBVIOUS
      <3>1. In \subseteq Nat /\ IsFiniteSet(In)
        BY <1>1, FS_Subset
      <3>2. PICK p \in In : \A q \in In : q <= p
        <4> HIDE DEF In
        <4> QED BY <3>1, GreatestExists
      <3>3. g[VotingAgainst(p)] \in S /\ p \in M /\ p \in Nat
        BY <1>1, <3>2
      <3>4. ASSUME Later(p) # {} PROVE FALSE
        <4>1. LeastOf(Later(p)) \in Later(p) /\ VotingAgainst(LeastOf(Later(p))) \in S
          BY <2>3, <3>3, <3>4
        <4>2. LeastOf(Later(p)) \in In /\ LeastOf(Later(p)) > p /\ LeastOf(Later(p)) \in Nat
          BY <1>1, <4>1
        <4> QED BY <3>2, <3>3, <4>2
      <3> QED BY <2>3, <3>3, <3>4
    <2>7. TheVoting \in S => LeastOf(M) \in In
      BY <2>1, <2>2
    <2> HIDE DEF In, Later
    <2>8. exit \in LiveIn(h)
      BY DEF Closed
    <2>9. T # {}
      <3>1. PICK n : n \in S
        OBVIOUS
      <3>2. n \in LiveIn(h) \/ In # {}
        BY <2>5, <3>1 DEF In
      <3> QED BY <2>6, <2>8, <3>1, <3>2
    <2>10. ASSUME NEW n \in T PROVE h[n] \in T
      <3>1. n \in Node \ Ballot /\ h[n] \in LiveIn(h)
        BY DEF LiveIn, Closed
      <3>2. CASE n = TheVoting
        BY <2>6, <2>7, <2>8, <3>2
      <3>3. CASE n # TheVoting
        BY <2>4, <3>1, <3>3
      <3> QED BY <3>2, <3>3
    <2> HIDE DEF T
    <2>11. T = LiveIn(h)
      <3>1. T \in SUBSET LiveIn(h)
        BY DEF T
      <3> QED BY <2>9, <2>10, <3>1 DEF OneCycle
    <2>12. LiveIn(h) \subseteq S /\ TheVoting \in S
      BY <2>11 DEF T
    (* The row is entered at its beginning and walked to its end. *)
    <2>13. M \subseteq In
      <3> DEFINE Out == M \ In
      <3> SUFFICES ASSUME Out # {} PROVE FALSE
        OBVIOUS
      <3>1. PICK p \in Out : \A q \in Out : p <= q
        BY <1>1, LeastExists
      <3>2. p \in M /\ p \in Nat /\ p # LeastOf(M)
        BY <1>1, <2>7, <2>12, <3>1
      <3> DEFINE Earlier == {q \in M : q < p}
      <3>3. LeastOf(M) \in Earlier
        <4>1. LeastOf(M) \in M /\ LeastOf(M) \in Nat /\ LeastOf(M) <= p
          BY <1>1, <2>1, <3>2
        <4>2. LeastOf(M) < p
          BY <3>2, <4>1
        <4> QED BY <4>1, <4>2
      <3>4. Earlier \subseteq Nat /\ IsFiniteSet(Earlier)
        BY <1>1, FS_Subset
      <3>5. PICK r \in Earlier : \A q \in Earlier : q <= r
        <4> HIDE DEF Earlier
        <4> QED BY <3>3, <3>4, GreatestExists
      <3>6. r \in M /\ r < p /\ r \in Nat
        BY <1>1, <3>5
      <3>7. r \in In
        BY <3>1, <3>2, <3>6
      <3>8. p \in Later(r)
        BY <3>2, <3>6 DEF Later
      <3>9. LeastOf(Later(r)) = p
        <4>1. LeastOf(Later(r)) \in Later(r) /\ LeastOf(Later(r)) <= p
          BY <2>3, <3>6, <3>8
        <4>2. LeastOf(Later(r)) \in M /\ LeastOf(Later(r)) > r /\ LeastOf(Later(r)) \in Nat
          BY <1>1, <4>1 DEF Later
        <4>3. ~(LeastOf(Later(r)) < p)
          BY <3>5, <3>6, <4>2
        <4> QED BY <3>2, <4>1, <4>2, <4>3
      <3>10. g[VotingAgainst(r)] = VotingAgainst(p)
        BY <2>3, <3>6, <3>8, <3>9
      <3>11. VotingAgainst(r) \in S
        BY <3>7 DEF In
      <3>12. p \in In
        BY <3>2, <3>10, <3>11 DEF In
      <3> QED BY <3>1, <3>12
    <2>14. \A p \in M : VotingAgainst(p) \in S
      BY <2>13 DEF In
    <2> QED BY <2>5, <2>12, <2>14
  <1> QED BY <1>2, <1>3

(* It is a row.                                                            *)
LEMMA InsertedBlock ==
  ASSUME NEW h \in Heap, Closed(h), LiveIn(h) \cap Ballot = {}, h[TheVoting] = TheNight,
         NEW M \in SUBSET Targets, NEW g, g = BuildVotingChain(h, TheVoting, M)
  PROVE  BallotBlock(g)
  <1> USE PhasesDiffer, NodeSets
  <1>1. M \subseteq Nat
    BY TargetsAssumption
  <1>2. \A n \in Node \ Ballot : n # TheVoting => g[n] = h[n]
    <2>1. \A n \in Node \ Ballot : n[1] # "Voting_against_player"
      BY NodeKinds DEF IsBallot
    <2> QED BY <2>1 DEF BuildVotingChain
  <1>3. g[TheVoting] \in Ballot \cup {TheNight}
    <2>1. M # {} => LeastOf(M) \in M
      BY <1>1, LeastOfIsLeast
    <2>2. M # {} => g[TheVoting] = VotingAgainst(LeastOf(M))
      BY DEF BuildVotingChain
    <2>3. M = {} => g[TheVoting] = TheNight
      BY DEF BuildVotingChain
    <2> QED BY <2>1, <2>2, <2>3 DEF Ballot
  <1>4. ASSUME NEW n \in LiveIn(g) \ Ballot, n # TheVoting PROVE g[n] \notin Ballot
    <2>1. n \in Node \ Ballot /\ g[n] = h[n]
      BY <1>2, <1>4 DEF LiveIn
    <2>2. h[n] \in LiveIn(h)
      BY <2>1 DEF LiveIn, Closed
    <2> QED BY <2>1, <2>2
  <1>5. ASSUME NEW b \in LiveIn(g) \cap Ballot PROVE g[b] \in Ballot \cup {TheNight}
    <2>1. PICK p \in Targets : b = VotingAgainst(p)
      BY DEF Ballot
    <2>2. b \in Node /\ b # TheVoting /\ b[1] = "Voting_against_player" /\ b[2] = p
      BY <2>1 DEF VotingAgainst, LiveIn
    <2> DEFINE later == {q \in M : q > p}
    <2>3. CASE p \in M
      <3>1. g[b] = IF later = {} THEN TheNight ELSE VotingAgainst(LeastOf(later))
        BY <2>2, <2>3 DEF BuildVotingChain
      <3>2. later # {} => LeastOf(later) \in later
        BY <1>1, LeastOfIsLeast
      <3> QED BY <3>1, <3>2 DEF Ballot
    <2>4. CASE p \notin M
      <3>1. g[b] = h[b]
        BY <2>2, <2>4 DEF BuildVotingChain
      <3> QED BY <2>2, <3>1 DEF LiveIn
    <2> QED BY <2>3, <2>4
  <1> QED BY <1>3, <1>4, <1>5 DEF BallotBlock

(* Moving on, to the end of the game or not.                               *)
LEMMA ProceedCycle ==
  ASSUME wins \in Nat, NEW heap, WellLinked(heap, wins), OneCycle(heap),
         NEW from \in LiveIn(heap), NEW chars, Proceed(from, heap, chars)
  PROVE  /\ OneCycle(next')
         /\ GameOver(chars) =>
              /\ next'[state'] = heap[from]
              /\ heap[from] = TheVoting /\ BallotBlock(heap) => BallotBlock(next')
  <1> USE NodeSets, NodesDiffer, PhasesDiffer
  <1>1. CASE ~GameOver(chars)
    BY <1>1 DEF Proceed, Enter
  <1>2. CASE GameOver(chars)
    <2> DEFINE won == WonTheGame(Winner(chars), wins + 1)
    <2>1. /\ next' = BuildEndGameChain(heap, from, won) /\ state' = next'[from]
          /\ wins < MaxAnnouncements
      BY <1>2 DEF Proceed, Enter
    <2>2. won \in WonNode /\ won[2] = wins + 1
      BY <2>1, MaxAnnouncementsAssumption DEF WonNode, WonTheGame, Winner, WonKind
    <2> HIDE DEF won
    <2>3. won \in Node \ LiveIn(heap) /\ heap \in Heap /\ Closed(heap) /\ BallotLinks(heap)
      BY <2>2 DEF WellLinked, WonNumbered
    <2>4. OneCycle(next')
      BY <2>1, <2>3, InsertOne
    <2>5. /\ DOMAIN heap = Node /\ from \in Node /\ from # won
          /\ next'[from] = won /\ next'[won] = heap[from]
          /\ \A n \in Node : n # from /\ n # won => next'[n] = heap[n]
      BY <2>1, <2>3 DEF BuildEndGameChain, Heap, LiveIn
    <2>6. ASSUME heap[from] = TheVoting, BallotBlock(heap) PROVE BallotBlock(next')
      <3>1. from \notin Ballot /\ from # TheVoting
        BY <2>3, <2>6 DEF BallotLinks, Judging, Hearing, TheVoting
      <3>2. won \notin Ballot /\ won # TheVoting
        BY <2>2
      <3>3. \A n \in LiveIn(next') : n # won => n \in LiveIn(heap)
        BY <2>5 DEF LiveIn
      <3>4. ASSUME NEW n \in LiveIn(next') \ Ballot, next'[n] \in Ballot PROVE n = TheVoting
        <4>1. n # from /\ n # won
          BY <2>5, <2>6, <3>2, <3>4
        <4>2. n \in LiveIn(heap) /\ next'[n] = heap[n]
          BY <2>5, <3>3, <4>1 DEF LiveIn
        <4> QED BY <2>6, <3>4, <4>2 DEF BallotBlock
      <3>5. ASSUME NEW b \in LiveIn(next') \cap Ballot PROVE next'[b] \in Ballot \cup {TheNight}
        <4>1. b \in LiveIn(heap) /\ next'[b] = heap[b]
          BY <2>5, <3>1, <3>2, <3>3, <3>5 DEF LiveIn
        <4> QED BY <2>6, <4>1 DEF BallotBlock
      <3>6. next'[TheVoting] = heap[TheVoting]
        BY <2>5, <3>1, <3>2
      <3> QED BY <2>6, <3>4, <3>5, <3>6 DEF BallotBlock
    <2> QED BY <2>1, <2>4, <2>5, <2>6
  <1> QED BY <1>1, <1>2

-----------------------------------------------------------------------------
(* The invariant and its steps.                                            *)

(* Of the ballots of a game that is over it is known only that they form a *)
(* row while the voting is still to be opened.                             *)
CycleInv ==
  /\ OneCycle(next)
  /\ fate = "ok" /\ IsWon(state) /\ next[state] = TheVoting => BallotBlock(next)

(* Moving on keeps it, from a ring that is one cycle.                      *)
LEMMA ProceedCycleInv ==
  ASSUME IInv', wins \in Nat, NEW heap, WellLinked(heap, wins), OneCycle(heap),
         NEW from \in LiveIn(heap), NEW chars, Proceed(from, heap, chars),
         heap[from] = TheVoting => BallotBlock(heap)
  PROVE  CycleInv'
  <1>1. /\ OneCycle(next')
        /\ GameOver(chars) =>
             /\ next'[state'] = heap[from]
             /\ heap[from] = TheVoting /\ BallotBlock(heap) => BallotBlock(next')
    BY ProceedCycle
  <1>2. IsWon(state') => GameOver(chars)
    <2>1. seated' = seated /\ character' = chars
      BY DEF Proceed, Enter
    <2>2. IsWon(state') => GameOver(character)'
      BY DEF IInv, RingInv
    <2> QED BY <2>1, <2>2 DEF GameOver, NoMafia, NoVillagers
  <1> QED BY <1>1, <1>2 DEF CycleInv

(* The step to the voting deletes one row of ballots and builds another.   *)
LEMMA OpenVotingCycle ==
  ASSUME IInv, IInv', ChoicesInv, CycleInv, OpenVoting
  PROVE  CycleInv'
  <1> DEFINE g1 == DeletePreviousVotingChain(next)
             g2 == BuildVotingChain(g1, TheVoting, Nominated)
  <1>1. /\ fate = "ok" /\ next[state] = TheVoting
        /\ Proceed(state, g2, character)
    BY DEF OpenVoting, CanCommand, TheVoting
  <1>2. /\ WellLinked(next, wins) /\ wins \in Nat /\ state \in LiveIn(next)
        /\ Closed(next) /\ BallotLinks(next) /\ PhasesLive(next)
    BY <1>1, WhileOk DEF WellLinked
  <1>3. state \notin Ballot
    BY <1>1, <1>2 DEF BallotLinks, Judging, Hearing, TheVoting
  <1>4. BallotBlock(next)
    <2>1. CASE IsWon(state)
      BY <1>1, <2>1 DEF CycleInv
    <2>2. CASE ~IsWon(state)
      <3>1. PlayLinks(next, state, before) /\ ChoicesLinks /\ state \in Node
        BY <1>1, <2>2, DuringPlay DEF ChoicesInv
      <3>2. LiveIn(next) \cap WonNode = {} /\ PhaseOrder(next)
        BY <3>1 DEF PlayLinks, ChoicesLinks
      <3>3. state \notin MurderNode
        BY <1>1, <3>1, StatesDiffer
           DEF PlayLinks, MurderLinks, MurderOf, MurderNode, Hearing, WasMurdered,
               MurderedSpeech, TheVoting, Phase
      <3>4. NoMurder(next)
        BY <1>1, <2>2, <3>3, DuringPlay
      <3>5. ASSUME NEW n \in LiveIn(next) \ Ballot, next[n] \in Ballot PROVE n = TheVoting
        BY <1>2, <3>2, <3>5 DEF BallotLinks, TheVoting
      <3>6. ASSUME NEW b \in LiveIn(next) \cap Ballot PROVE next[b] \in Ballot \cup {TheNight}
        <4>1. next[b] \in LiveIn(next)
          BY <1>2 DEF Closed
        <4> QED BY <3>2, <3>4, <4>1 DEF PhaseOrder, NoMurder
      <3> QED BY <3>2, <3>5, <3>6 DEF BallotBlock, PhaseOrder
    <2> QED BY <2>1, <2>2
  <1>5. WellLinked(g1, wins) /\ LiveIn(g1) = LiveIn(next) \ Ballot
    BY <1>2, DeletePreviousLinks
  <1>6. OneCycle(g1) /\ g1[TheVoting] = TheNight
    BY <1>2, <1>4, RemoveBallots DEF CycleInv
  <1>7. /\ g1 \in Heap /\ Closed(g1) /\ LiveIn(g1) \cap Ballot = {}
        /\ TheVoting \in LiveIn(g1) /\ Nominated \in SUBSET Targets
    BY <1>5, DaysLive DEF WellLinked, Nominated
  <1>8. WellLinked(g2, wins) /\ LiveIn(g1) \subseteq LiveIn(g2)
    BY <1>2, <1>5, <1>7, VotingChainLinks DEF TheVoting
  <1> HIDE DEF g1
  <1>9. OneCycle(g2) /\ BallotBlock(g2)
    BY <1>6, <1>7, InsertBallots, InsertedBlock
  <1>10. state \in LiveIn(g2)
    BY <1>2, <1>3, <1>5, <1>8
  <1> HIDE DEF g2
  <1> QED BY <1>1, <1>2, <1>8, <1>9, <1>10, ProceedCycleInv

(* Whether somebody is condemned or not.                                   *)
LEMMA JudgeCycle ==
  ASSUME IInv, IInv', CycleInv, fate = "ok", state \in Judging, next[state] \notin Ballot,
         NEW heap, Proceed(state, heap, character),
         heap = next \/ \E p \in Targets : heap = BuildMurderChain(next, state, p)
  PROVE  CycleInv'
  <1>1. ~IsWon(state) /\ state \notin MurderNode
    BY WhileOk, NodesDiffer, NodeKinds DEF Judging
  <1>2. /\ WellLinked(next, wins) /\ wins \in Nat /\ state \in LiveIn(next) /\ NoMurder(next)
        /\ next \in Heap /\ Closed(next) /\ BallotLinks(next)
    BY <1>1, WhileOk, DuringPlay DEF WellLinked
  <1>3. CASE heap = next
    <2>1. next[state] # TheVoting
      BY <1>2 DEF BallotLinks, Hearing, TheVoting
    <2> QED BY <1>2, <1>3, <2>1, ProceedCycleInv DEF CycleInv
  <1>4. ASSUME NEW p \in Targets, heap = BuildMurderChain(next, state, p) PROVE CycleInv'
    <2>1. /\ WellLinked(heap, wins) /\ heap[state] = WasMurdered(p)
          /\ LiveIn(heap) = LiveIn(next) \cup {WasMurdered(p), MurderedSpeech(p)}
      BY <1>2, <1>4, MurderChainLinks
    <2>2. OneCycle(heap)
      BY <1>2, <1>4, InsertTwo DEF CycleInv, NoMurder
    <2>3. heap[state] # TheVoting
      BY <2>1, PhasesDiffer DEF MurderNode
    <2> QED BY <1>2, <2>1, <2>2, <2>3, ProceedCycleInv
  <1> QED BY <1>3, <1>4

(* The voting ends.                                                        *)
LEMMA CloseVotingCycle ==
  ASSUME IInv, IInv', CycleInv, CloseVoting
  PROVE  CycleInv'
  <1>1. /\ fate = "ok" /\ state \in Judging /\ next[state] \notin Ballot
    <2>1. fate = "ok" /\ IsBallot(state) /\ next[state] = TheNight
      BY DEF CloseVoting, CanCommand, TheNight
    <2> QED BY <2>1, WhileOk, NodeKinds, PhasesDiffer DEF Judging
  <1>2. Accused \subseteq Targets
    BY DEF Accused, Nominated
  <1>3. CASE Accused = {} /\ Proceed(state, next, character)
    BY <1>1, <1>3, JudgeCycle
  <1>4. ASSUME NEW p \in Accused, Proceed(state, BuildMurderChain(next, state, p), character)
        PROVE  CycleInv'
    <2>1. p \in Targets
      BY <1>2
    <2> QED BY <1>1, <1>4, <2>1, JudgeCycle
  <1> QED BY <1>3, <1>4 DEF CloseVoting

(* The night ends.                                                         *)
LEMMA LeaveDoctorCycle ==
  ASSUME IInv, IInv', CycleInv, LeaveDoctor
  PROVE  CycleInv'
  <1>1. fate = "ok" /\ state = Phase("Doctor_curing")
    BY DEF LeaveDoctor, CanCommand
  <1>2. state \in Judging /\ next[state] \notin Ballot
    <2>1. BallotLinks(next) /\ state \in LiveIn(next)
      BY <1>1, WhileOk DEF WellLinked
    <2> QED BY <1>1, <2>1, NodesDiffer DEF Judging, BallotLinks
  <1>3. CASE Proceed(state, next, character)
    BY <1>1, <1>2, <1>3, JudgeCycle
  <1>4. CASE murdered >= 0 /\ Proceed(state, BuildMurderChain(next, state, murdered), character)
    <2>1. murdered \in Targets
      BY <1>1, <1>4, WhileOk DEF ChoicesTypeOK, Nobody, Disagreement
    <2> QED BY <1>1, <1>2, <1>4, <2>1, JudgeCycle
  <1> QED BY <1>3, <1>4 DEF LeaveDoctor

(* The nodes of a murder are deleted.                                      *)
LEMMA MurderGone ==
  ASSUME IInv, CycleInv, fate = "ok", state[1] = "Murdered_players_speech"
  PROVE  OneCycle(AfterSpeech)
  <1>1. /\ ~IsWon(state) /\ state = MurderedSpeech(Victim) /\ state \in MurderNode
        /\ state[2] = Victim
    BY AfterSpeechLinks DEF MurderNode, MurderedSpeech
  <1> DEFINE w == WasMurdered(Victim)
             m == MurderedSpeech(Victim)
  <1>2. MurderOf(next, before, Victim)
    BY <1>1, WhileOk DEF PlayLinks, MurderLinks
  <1>3. /\ before \in LiveIn(next) /\ w \in LiveIn(next) /\ m \in LiveIn(next)
        /\ before \notin MurderNode /\ w # m /\ {w, m} \subseteq MurderNode
        /\ next[before] = w /\ next[w] = m
        /\ next[m] \notin MurderNode
        /\ \A n \in LiveIn(next) : (next[n] = w => n = before) /\ (next[n] = m => n = w)
    BY <1>2, NodesDiffer DEF MurderOf, Judging, MurderNode, WasMurdered, MurderedSpeech
  <1>4. /\ LiveIn(AfterSpeech) = LiveIn(next) \ MurderNode
        /\ AfterSpeech[before] = next[m]
        /\ \A n \in LiveIn(AfterSpeech) : n # before => AfterSpeech[n] = next[n]
    BY <1>1, <1>2, WhileOk, DeleteMurderLinks DEF AfterSpeech
  <1>5. LiveIn(AfterSpeech) = LiveIn(next) \ {w, m}
    BY <1>2, <1>4 DEF MurderOf
  <1>6. OneCycle(next) /\ Closed(next)
    BY WhileOk DEF CycleInv, WellLinked
  <1> HIDE DEF w, m, AfterSpeech
  <1> QED BY <1>3, <1>4, <1>5, <1>6, RemoveTwo

(* The two nodes of a turn are deleted.                                    *)
LEMMA TurnGoneCycle ==
  ASSUME NEW h, NEW i \in Nat, WellLinked(h, i), TurnsInOrder(h), OneCycle(h),
         NEW q \in 1 .. MaxPlayers - 1, Speaking(q) \in LiveIn(h),
         NEW r \in Node, h[r] = Speaking(q), NEW g, g = DeleteTurn(h, r, Speaking(q))
  PROVE  OneCycle(g)
  <1> DEFINE t == Speaking(q)
             f == Finished(q)
  <1>1. /\ Closed(h) /\ h \in Heap /\ TurnEntries(h)
        /\ t \in LiveIn(h) /\ f \in LiveIn(h) /\ t # f /\ t \in Turn /\ f \in Turn
    BY DEF WellLinked, TurnPairs, Turn, Speaking, Finished
  <1>2. h[t] = f /\ h[f] # t /\ h[f] # f
    <2>1. h[t] = f /\ h[f] \in {Speaking(p) : p \in q + 1 .. MaxPlayers - 1} \cup {TheVoting}
      BY DEF TurnsInOrder, TheVoting
    <2>2. \A p \in q + 1 .. MaxPlayers - 1 : Speaking(p) # t /\ Speaking(p) # f
      BY DEF Speaking, Finished
    <2>3. TheVoting # t /\ TheVoting # f
      BY <1>1, PhasesDiffer
    <2> QED BY <2>1, <2>2, <2>3
  <1>3. r \in LiveIn(h) /\ r # t /\ r # f
    <2>1. t # null
      BY DEF Speaking, null
    <2> QED BY <1>1, <1>2, <2>1 DEF LiveIn
  <1>4. \A n \in LiveIn(h) : (h[n] = t => n = r) /\ (h[n] = f => n = t)
    BY <1>1, <1>2, <1>3 DEF TurnEntries
  <1>5. /\ LiveIn(g) = LiveIn(h) \ {t, f}
        /\ \A n \in LiveIn(g) : n # r => g[n] = h[n]
    BY DeleteTurnLinks
  <1>6. g[r] = h[f]
    <2>1. DOMAIN h = Node /\ r \in Node /\ t \in Node /\ f \in Node
      BY <1>1 DEF Heap, LiveIn
    <2> HIDE DEF t, f
    <2> QED BY <1>2, <1>3, <2>1 DEF DeleteTurn, t
  <1> HIDE DEF t, f
  <1> QED BY <1>1, <1>2, <1>3, <1>4, <1>5, <1>6, RemoveTwo DEF t

(* The end of a last speech.                                               *)
LEMMA EndMurderedSpeechCycle ==
  ASSUME IInv, IInv', CycleInv, EndMurderedSpeech
  PROVE  CycleInv'
  <1> DEFINE q == LeastOf(TurnsFound(AfterSpeech, Victim))
             chars == [character EXCEPT ![Victim] = "DEAD"]
  <1>1. /\ fate = "ok" /\ state[1] = "Murdered_players_speech"
        /\ TurnsFound(AfterSpeech, Victim) # {}
    BY DEF EndMurderedSpeech, CanCommand
  <1>2. PICK previous \in Node :
          /\ AfterSpeech[previous] = Speaking(q)
          /\ Proceed(before, DeleteTurn(AfterSpeech, previous, Speaking(q)), chars)
    BY DEF EndMurderedSpeech
  <1>3. q \in 1 .. MaxPlayers - 1 /\ Speaking(q) \in LiveIn(AfterSpeech)
    BY <1>1, TurnFoundIsLive
  <1> DEFINE g == DeleteTurn(AfterSpeech, previous, Speaking(q))
  <1> HIDE DEF q, chars
  <1>4. /\ WellLinked(AfterSpeech, wins) /\ TurnsInOrder(AfterSpeech) /\ wins \in Nat
        /\ before \in LiveIn(AfterSpeech) \cap Judging
        /\ LiveIn(AfterSpeech) \cap MurderNode = {}
    BY <1>1, AfterSpeechLinks, WhileOk
  <1>5. OneCycle(g)
    BY <1>1, <1>2, <1>3, <1>4, MurderGone, TurnGoneCycle
  <1>6. WellLinked(g, wins) /\ before \in LiveIn(g)
    <2>1. /\ WellLinked(g, wins)
          /\ LiveIn(g) = LiveIn(AfterSpeech) \ {Speaking(q), Finished(q)}
      BY <1>2, <1>3, <1>4, DeleteTurnLinks
    <2>2. Speaking(q) \in Turn /\ Finished(q) \in Turn
      BY <1>3 DEF Turn
    <2> QED BY <1>4, <2>1, <2>2, NodesDiffer DEF Judging
  <1> HIDE DEF g
  <1>7. g[before] # TheVoting
    BY <1>4, <1>6 DEF WellLinked, BallotLinks, Hearing, TheVoting
  <1> QED BY <1>2, <1>4, <1>5, <1>6, <1>7, ProceedCycleInv DEF g

(* A search that fails has deleted the nodes of the murder, and maybe      *)
(* a turn.                                                                 *)
LEMMA SearchFailsCycle ==
  ASSUME IInv, CycleInv, EndMurderedSpeechHangs \/ EndMurderedSpeechCrashes
  PROVE  CycleInv'
  <1>1. fate = "ok" /\ state[1] = "Murdered_players_speech" /\ fate' # "ok"
    BY DEF EndMurderedSpeechHangs, EndMurderedSpeechCrashes, CanCommand
  <1>2. OneCycle(AfterSpeech)
    BY <1>1, MurderGone
  <1>3. CASE EndMurderedSpeechHangs
    BY <1>1, <1>2, <1>3 DEF EndMurderedSpeechHangs, CycleInv
  <1>4. CASE EndMurderedSpeechCrashes
    <2> DEFINE q == LeastOf(TurnsFound(AfterSpeech, Victim))
    <2>1. TurnsFound(AfterSpeech, Victim) # {}
      BY <1>4 DEF EndMurderedSpeechCrashes
    <2>2. PICK previous \in Node :
            /\ AfterSpeech[previous] = Speaking(q)
            /\ next' = DeleteTurn(AfterSpeech, previous, Speaking(q))
      BY <1>4 DEF EndMurderedSpeechCrashes
    <2>3. q \in 1 .. MaxPlayers - 1 /\ Speaking(q) \in LiveIn(AfterSpeech)
      BY <2>1, TurnFoundIsLive
    <2> HIDE DEF q
    <2>4. WellLinked(AfterSpeech, wins) /\ TurnsInOrder(AfterSpeech) /\ wins \in Nat
      BY <1>1, AfterSpeechLinks, WhileOk
    <2>5. OneCycle(next')
      BY <1>2, <2>2, <2>3, <2>4, TurnGoneCycle
    <2> QED BY <1>1, <2>5 DEF CycleInv
  <1> QED BY <1>3, <1>4

(* Every step keeps the ring one cycle.                                    *)
LEMMA NextCycle ==
  ASSUME IInv, IInv', ChoicesInv, CycleInv, [Next]_vars
  PROVE  CycleInv'
  <1>1. CASE GoToNextState
    <2>1. CASE Advance
      <3>1. fate = "ok" /\ next[state] # TheVoting /\ Proceed(state, next, character)
        BY <2>1 DEF Advance, CanCommand, TheVoting
      <3>2. WellLinked(next, wins) /\ wins \in Nat /\ state \in LiveIn(next) /\ OneCycle(next)
        BY <3>1, WhileOk DEF CycleInv
      <3> QED BY <3>1, <3>2, ProceedCycleInv
    <2> QED BY <1>1, <2>1, OpenVotingCycle, CloseVotingCycle, LeaveDoctorCycle,
               EndMurderedSpeechCycle, SearchFailsCycle DEF GoToNextState
  <1>2. CASE Select \/ (\E p \in Position : LeaveRoom(p)) \/ UNCHANGED vars
    <2>1. UNCHANGED <<state, next, fate>>
      BY <1>2 DEF Select, NominateForVoting, TryToMurderPlayer, CurePlayer, SetNumberOfVotes,
                  LeaveRoom, vars, ring
    <2> QED BY <2>1 DEF CycleInv, OneCycle, LiveIn, BallotBlock
  <1> QED BY <1>1, <1>2 DEF Next

(* The ring that buildStateChain builds is one cycle, for every number of  *)
(* players: every way leads to the voting, and from there everywhere.      *)
LEMMA StateChainCycle == OneCycle(BuildStateChain)
  <1> DEFINE g == BuildStateChain
             I == 1 .. MaxPlayers - 1
             phases == {Phase(k) : k \in PhaseKind}
  <1> USE NodeSets, NodesDiffer, MaxPlayersAssumption
  <1>1. ASSUME NEW q \in I
        PROVE  /\ g[Speaking(q)] = Finished(q)
               /\ g[Finished(q)] = IF q < MaxPlayers - 1 THEN Speaking(q + 1) ELSE TheVoting
    <2>1. Speaking(q) \in Node /\ Finished(q) \in Node
      BY DEF Turn
    <2> QED BY <2>1 DEF BuildStateChain, Speaking, Finished, Phase, TheVoting
  <1>2. /\ g[TheVoting] = TheNight /\ g[TheNight] = WakeUp
        /\ g[WakeUp] = Murdering /\ g[Murdering] = Checking
        /\ g[Checking] = Curing /\ g[Curing] = EarlyMorning
        /\ g[EarlyMorning] = WakesUp /\ g[WakesUp] = Speaking(1)
    <2>1. g[TheVoting] = TheNight /\ g[TheNight] = WakeUp
      BY DaysDiffer DEF BuildStateChain, Phase, TheVoting, TheNight, WakeUp
    <2>2. g[WakeUp] = Murdering /\ g[Murdering] = Checking
      BY DaysDiffer DEF BuildStateChain, Phase, WakeUp, Murdering, Checking
    <2>3. g[Checking] = Curing /\ g[Curing] = EarlyMorning
      BY DaysDiffer DEF BuildStateChain, Phase, Checking, Curing, EarlyMorning
    <2>4. g[EarlyMorning] = WakesUp /\ g[WakesUp] = Speaking(1)
      BY DaysDiffer DEF BuildStateChain, Phase, EarlyMorning, WakesUp
    <2> QED BY <2>1, <2>2, <2>3, <2>4
  <1>3. phases = {TheVoting, TheNight, WakeUp, Murdering, Checking, Curing, EarlyMorning, WakesUp}
    BY DEF PhaseKind, TheVoting, TheNight, WakeUp, Murdering, Checking, Curing, EarlyMorning,
           WakesUp
  <1>4. \A n \in LiveIn(g) : n \in phases \/ \E q \in I : n = Speaking(q) \/ n = Finished(q)
    <2>1. Node = phases \cup Turn \cup Ballot \cup MurderNode \cup WonNode
      BY DEF Node, Turn, Ballot, MurderNode, WonNode, TurnKind, MarkKind, Phase,
             Speaking, Finished, VotingAgainst, WasMurdered, MurderedSpeech
    <2>2. \A n \in Ballot \cup MurderNode \cup WonNode : g[n] = null
      BY DEF BuildStateChain, Ballot, MurderNode, WonNode, WonKind, VotingAgainst,
             WasMurdered, MurderedSpeech, Phase
    <2>3. \A t \in Turn : \E q \in I : t = Speaking(q) \/ t = Finished(q)
      BY DEF Turn
    <2> HIDE DEF g, phases
    <2> QED BY <2>1, <2>2, <2>3 DEF LiveIn
  <1> HIDE DEF g, phases
  <1> SUFFICES ASSUME NEW S \in SUBSET LiveIn(g), S # {}, \A n \in S : g[n] \in S
               PROVE  S = LiveIn(g)
    BY DEF OneCycle, g
  <1>5. WakesUp \in S => Speaking(1) \in S
    BY <1>2
  <1>6. phases \cap S # {} => Speaking(1) \in S
    <2>1. EarlyMorning \in S => WakesUp \in S
      BY <1>2
    <2>2. Checking \in S => Curing \in S
      BY <1>2
    <2>3. Curing \in S => EarlyMorning \in S
      BY <1>2
    <2>4. (WakeUp \in S => Murdering \in S) /\ (Murdering \in S => Checking \in S)
      BY <1>2
    <2>5. (TheVoting \in S => TheNight \in S) /\ (TheNight \in S => WakeUp \in S)
      BY <1>2
    <2> QED BY <1>3, <1>5, <2>1, <2>2, <2>3, <2>4, <2>5
  <1> DEFINE T == {q \in I : Finished(q) \in S}
  <1>7. T # {}
    <2>1. 1 \in I
      OBVIOUS
    <2>2. \A q \in I : Speaking(q) \in S => Finished(q) \in S
      BY <1>1
    <2> QED BY <1>4, <1>6, <2>1, <2>2
  <1>8. TheVoting \in S
    <2>1. T \subseteq Nat /\ IsFiniteSet(T)
      <3>1. 1 \in Int /\ MaxPlayers - 1 \in Int /\ T \subseteq I
        OBVIOUS
      <3>2. IsFiniteSet(I)
        BY <3>1, FS_Interval
      <3> QED BY <3>1, <3>2, FS_Subset
    <2>2. PICK q \in T : \A r \in T : r <= q
      <3> HIDE DEF T
      <3> QED BY <1>7, <2>1, GreatestExists
    <2>3. q \in I /\ g[Finished(q)] \in S
      BY <2>2
    <2>4. ASSUME q < MaxPlayers - 1 PROVE FALSE
      <3>1. q + 1 \in I /\ ~(q + 1 <= q)
        BY <2>3, <2>4
      <3>2. Speaking(q + 1) \in S
        BY <1>1, <2>3, <2>4
      <3>3. Finished(q + 1) \in S
        BY <1>1, <3>1, <3>2
      <3> QED BY <2>2, <3>1, <3>3
    <2> QED BY <1>1, <2>3, <2>4
  <1>9. phases \subseteq S
    <2>1. TheNight \in S
      BY <1>2, <1>8
    <2>2. WakeUp \in S
      BY <1>2, <2>1
    <2>3. Murdering \in S
      BY <1>2, <2>2
    <2>4. Checking \in S
      BY <1>2, <2>3
    <2>5. Curing \in S
      BY <1>2, <2>4
    <2>6. EarlyMorning \in S
      BY <1>2, <2>5
    <2>7. WakesUp \in S
      BY <1>2, <2>6
    <2> QED BY <1>3, <1>8, <2>1, <2>2, <2>3, <2>4, <2>5, <2>6, <2>7
  <1>10. ASSUME NEW q \in I PROVE Speaking(q) \in S
    <2> DEFINE Missing == {r \in I : Speaking(r) \notin S}
    <2> SUFFICES ASSUME Missing # {} PROVE FALSE
      OBVIOUS
    <2>1. PICK r \in Missing : \A x \in Missing : r <= x
      <3>1. Missing \subseteq Nat
        OBVIOUS
      <3> HIDE DEF Missing
      <3> QED BY <3>1, LeastExists
    <2>2. r # 1
      BY <1>3, <1>5, <1>9, <2>1
    <2>3. r \in I /\ r - 1 \in I /\ r - 1 < MaxPlayers - 1 /\ (r - 1) + 1 = r /\ ~(r <= r - 1)
      BY <2>1, <2>2
    <2>4. Speaking(r - 1) \in S
      BY <2>1, <2>3
    <2>5. Finished(r - 1) \in S
      BY <1>1, <2>3, <2>4
    <2>6. Speaking(r) \in S
      BY <1>1, <2>3, <2>5
    <2> QED BY <2>1, <2>6
  <1>11. \A q \in I : Speaking(q) \in S /\ Finished(q) \in S
    BY <1>1, <1>10
  <1>12. \A n \in LiveIn(g) : n \in S
    <2> HIDE DEF I, T
    <2> QED BY <1>4, <1>9, <1>11
  <1> QED BY <1>12

(* The game starts with one cycle.                                         *)
LEMMA InitCycle == ASSUME Init PROVE CycleInv
  <1>1. ~IsWon(state)
    BY DEF Init, IsWon, WonKind, Phase
  <1> QED BY <1>1, StateChainCycle DEF Init, CycleInv

(* The room's nodes form one ring after every operation, whatever clients  *)
(* send and whoever leaves: the walks of deletePreviousVotingChain,        *)
(* deleteMurderedPlayer and ~Room (room.cpp:262-277) meet every node and   *)
(* come back, and no node is leaked.  So it is after a search that failed. *)
THEOREM RingIsWhole == Spec => []RingIsOneCycle
  <1> DEFINE Kept == IInv /\ ChoicesInv /\ CycleInv
  <1>1. Init => Kept
    BY InitIInv, InitChoicesInv, InitCycle
  <1>2. Kept /\ [Next]_vars => Kept'
    BY NextIInv, NextChoicesInv, NextCycle
  <1>3. Kept => RingIsOneCycle
    <2>1. IInv => state \in LiveIn(next) /\ Closed(next)
      BY DEF IInv, RingInv
    <2> QED BY <2>1, OneCycleIsWalked DEF CycleInv
  <1> QED BY <1>1, <1>2, <1>3, PTL DEF Spec
=============================================================================
