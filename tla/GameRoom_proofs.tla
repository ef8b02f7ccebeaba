--------------------------- MODULE GameRoom_proofs ---------------------------
(***************************************************************************)
(* Theorems about GameRoom, for any number of players, any targets and     *)
(* vote counts, bots and deals, with clients that check and clients that   *)
(* do not, with players who leave and players who stay.                    *)
(*                                                                         *)
(* The sections are: the least of a set of positions; the kinds of nodes;  *)
(* what each builder and each deletion of the ring does to the links, for  *)
(* any heap; the steps of the room, one lemma for each; the invariant and  *)
(* what follows from it; the turns of the living, kept by all steps that   *)
(* find the turn of the victim; and the microphones.                       *)
(***************************************************************************)
EXTENDS GameRoomInv, TLAPS, WellFoundedInduction, FiniteSetTheorems

-----------------------------------------------------------------------------
(* The least and the greatest of a set of positions.                       *)

(* Every non-empty set of natural numbers has a least element.             *)
LEMMA LeastExists ==
  ASSUME NEW S, S \subseteq Nat, S # {}
  PROVE  \E x \in S : \A y \in S : x <= y
  <1> DEFINE R == OpToRel(<, Nat)
  <1>1. PICK x \in S : \A y \in S : ~(<<y, x>> \in R)
    BY WFMin, NatLessThanWellFounded
  <1>2. \A y \in S : <<y, x>> \in R <=> y < x
    BY DEF OpToRel
  <1> HIDE DEF R
  <1>3. \A y \in S : ~(y < x)
    BY <1>1, <1>2
  <1> QED BY <1>3

(* A non-empty finite set of natural numbers has a greatest element: the   *)
(* one with the fewest elements above it.                                  *)
LEMMA GreatestExists ==
  ASSUME NEW S, S \subseteq Nat, S # {}, IsFiniteSet(S)
  PROVE  \E x \in S : \A y \in S : y <= x
  <1> DEFINE Above(p) == {q \in S : q > p}
             K == {Cardinality(Above(p)) : p \in S}
  <1>1. \A p \in S : IsFiniteSet(Above(p)) /\ Cardinality(Above(p)) \in Nat
    BY FS_Subset, FS_CardinalityType
  <1>2. PICK k \in K : \A l \in K : k <= l
    <2>1. K \subseteq Nat /\ K # {}
      BY <1>1
    <2> HIDE DEF K
    <2> QED BY <2>1, LeastExists
  <1>3. PICK x \in S : k = Cardinality(Above(x))
    OBVIOUS
  <1>4. ASSUME NEW y \in S, y > x PROVE FALSE
    <2>1. Above(y) \in SUBSET Above(x) /\ y \in Above(x) /\ y \notin Above(y)
      <3> HIDE DEF K
      <3>1. \A q \in S : q > y => q > x
        BY <1>4
      <3>2. x \in Nat /\ y \in Nat
        OBVIOUS
      <3>3. Above(y) \subseteq Above(x)
        BY <3>1
      <3>4. y \in Above(x) /\ y \notin Above(y)
        BY <3>2, <1>4
      <3> QED BY <3>3, <3>4
    <2>2. Cardinality(Above(x)) <= Cardinality(Above(y))
      BY <1>2, <1>3
    <2>3. Cardinality(Above(y)) = Cardinality(Above(x))
      <3> HIDE DEF Above
      <3> QED BY <1>1, <2>1, <2>2, FS_Subset
    <2> QED
      <3> HIDE DEF Above
      <3> QED BY <1>1, <2>1, <2>3, FS_Subset
  <1> QED BY <1>4

(* LeastOf, which orders the ballots and finds the first turn, is right.   *)
LEMMA LeastOfIsLeast ==
  ASSUME NEW S, S \subseteq Nat, S # {}
  PROVE  LeastOf(S) \in S /\ \A q \in S : LeastOf(S) <= q
  <1>1. \E p \in S : IsLeast(p, S)
    BY LeastExists DEF IsLeast
  <1>2. IsLeast(LeastOf(S), S)
    BY <1>1 DEF LeastOf
  <1> QED BY <1>2 DEF IsLeast

-----------------------------------------------------------------------------
(* The nodes.                                                              *)

(* The groups of nodes in the invariant are nodes, and null is none.       *)
LEMMA NodeSets ==
  /\ Ballot \subseteq Node
  /\ Turn \subseteq Node
  /\ MurderNode \subseteq Node
  /\ WonNode \subseteq Node
  /\ \A k \in PhaseKind : Phase(k) \in Node
  /\ null \notin Node
  BY DEF Ballot, Turn, MurderNode, WonNode, Node, Phase, null, PhaseKind, TurnKind,
         MarkKind, WonKind, VotingAgainst, Speaking, Finished, WasMurdered, MurderedSpeech

(* What the name of a node says about the group it is in.                  *)
LEMMA NodeKinds ==
  /\ \A n \in Node : IsWon(n) <=> n \in WonNode
  /\ \A n \in Node : IsBallot(n) <=> n \in Ballot
  /\ \A n \in Node : n[1] = "Was_murdered_player" <=> \E p \in Targets : n = WasMurdered(p)
  /\ \A n \in Node : n[1] = "Murdered_players_speech" <=> \E p \in Targets : n = MurderedSpeech(p)
  /\ \A n \in Ballot \cup MurderNode : n[2] \in Targets
  /\ \A n \in WonNode : n[2] \in 1 .. MaxAnnouncements
  BY DEF Ballot, MurderNode, WonNode, Node, PhaseKind, TurnKind, IsWon, IsBallot,
         MarkKind, WonKind, VotingAgainst, WasMurdered, MurderedSpeech

(* The groups have no node in common.                                      *)
LEMMA NodesDiffer ==
  /\ Ballot \cap Turn = {} /\ Ballot \cap MurderNode = {} /\ Ballot \cap WonNode = {}
  /\ Turn \cap MurderNode = {} /\ Turn \cap WonNode = {} /\ MurderNode \cap WonNode = {}
  /\ \A k \in PhaseKind : Phase(k) \notin Ballot \cup Turn \cup MurderNode \cup WonNode
  /\ {"Voting", "Night", "Doctor_curing"} \subseteq PhaseKind
  /\ Phase("Doctor_curing") # Phase("Voting")
  BY DEF Ballot, Turn, MurderNode, WonNode, Phase, PhaseKind,
         WonKind, VotingAgainst, Speaking, Finished, WasMurdered, MurderedSpeech

(* The order of the turns depends on the pointers of the turns only.       *)
LEMMA OrderKept ==
  ASSUME NEW h, NEW g, TurnsInOrder(h), TurnPairs(g),
         \A n \in LiveIn(g) \cap Turn : n \in LiveIn(h) /\ g[n] = h[n]
  PROVE  TurnsInOrder(g)
  <1> SUFFICES ASSUME NEW q \in 1 .. MaxPlayers - 1, Speaking(q) \in LiveIn(g)
               PROVE  /\ g[Speaking(q)] = Finished(q)
                      /\ g[Finished(q)] \in {Speaking(r) : r \in q + 1 .. MaxPlayers - 1}
                                            \cup {Phase("Voting")}
    BY DEF TurnsInOrder
  <1>1. /\ Speaking(q) \in LiveIn(h) /\ g[Speaking(q)] = h[Speaking(q)]
        /\ g[Finished(q)] = h[Finished(q)]
    BY DEF TurnPairs, Turn
  <1> QED BY <1>1 DEF TurnsInOrder

(* buildEndGameChain on a well-linked heap: a new node that is not yet     *)
(* allocated comes after `from', and the heap stays well-linked.           *)
LEMMA EndGameChainLinks ==
  ASSUME NEW h, NEW from \in LiveIn(h), NEW i \in Nat, NEW won \in WonNode,
         WellLinked(h, i), won[2] = i + 1
  PROVE  LET g == BuildEndGameChain(h, from, won)
         IN  /\ WellLinked(g, i + 1)
             /\ g[from] = won
             /\ LiveIn(g) = LiveIn(h) \cup {won}
  <1> DEFINE g == BuildEndGameChain(h, from, won)
  <1> USE NodeSets, NodesDiffer
  <1>1. won \notin LiveIn(h)
    BY NodeKinds DEF WellLinked, WonNumbered
  <1>2. /\ g \in Heap
        /\ g[from] = won
        /\ g[won] = h[from]
        /\ \A n \in Node : n # from /\ n # won => g[n] = h[n]
        /\ h[from] \in LiveIn(h)
    BY <1>1 DEF WellLinked, Heap, LiveIn, BuildEndGameChain, Closed
  <1>3. LiveIn(g) = LiveIn(h) \cup {won}
    BY <1>1, <1>2 DEF LiveIn
  <1> HIDE DEF g
  <1>4. Closed(g)
    BY <1>1, <1>2, <1>3 DEF Closed, WellLinked, LiveIn
  <1>5. BallotsEnd(g)
    <2> SUFFICES ASSUME LiveIn(g) \cap Ballot # {}
                 PROVE  \E b \in LiveIn(g) \cap Ballot : g[b] \notin Ballot
      BY DEF BallotsEnd
    <2>1. PICK b \in LiveIn(h) \cap Ballot : h[b] \notin Ballot
      BY <1>3 DEF BallotsEnd, WellLinked
    <2>2. b \in LiveIn(g) \cap Ballot /\ g[b] \notin Ballot
      BY <1>2, <1>3, <2>1
    <2> QED BY <2>2
  <1>6. BallotLinks(g)
    BY <1>1, <1>2, <1>3 DEF BallotLinks, WellLinked, LiveIn, Judging, Hearing
  <1>7. TurnPairs(g)
    BY <1>3 DEF TurnPairs, WellLinked, Turn
  <1>8. TurnEntries(g)
    <2> SUFFICES ASSUME NEW t \in Turn, NEW m \in LiveIn(g), NEW n \in LiveIn(g),
                        g[m] = t, g[n] = t
                 PROVE  m = n
      BY DEF TurnEntries
    <2>1. m # from /\ n # from
      BY <1>2
    <2>2. CASE m = won \/ n = won
      BY <1>1, <1>2, <1>3, <2>1, <2>2 DEF WellLinked, TurnEntries, LiveIn
    <2>3. CASE m # won /\ n # won
      BY <1>2, <1>3, <2>1, <2>3 DEF WellLinked, TurnEntries, LiveIn
    <2> QED BY <2>2, <2>3
  <1>9. PhasesLive(g)
    BY <1>3 DEF PhasesLive, WellLinked
  <1>10. WonNumbered(g, i + 1)
    BY <1>3, NodeKinds DEF WonNumbered, WellLinked
  <1> QED BY <1>2, <1>3, <1>4, <1>5, <1>6, <1>7, <1>8, <1>9, <1>10 DEF WellLinked, g

(* buildMurderChain after a ballot or the curing: the two nodes of the     *)
(* murder of p are allocated, and only they, with the links of MurderOf.   *)
LEMMA MurderChainLinks ==
  ASSUME NEW h, NEW i \in Nat, WellLinked(h, i), NoMurder(h),
         NEW s \in LiveIn(h) \cap Judging,
         NEW p \in Targets, h[s] \notin Ballot
  PROVE  LET g == BuildMurderChain(h, s, p)
         IN  /\ WellLinked(g, i)
             /\ g[s] = WasMurdered(p)
             /\ MurderOf(g, s, p)
             /\ LiveIn(g) = LiveIn(h) \cup {WasMurdered(p), MurderedSpeech(p)}
             /\ TurnsInOrder(h) => TurnsInOrder(g)
  <1> DEFINE g == BuildMurderChain(h, s, p)
             w == WasMurdered(p)
             m == MurderedSpeech(p)
  <1> USE NodeSets, NodesDiffer
  <1>1. /\ w \in MurderNode /\ m \in MurderNode
        /\ w # m
        /\ w \notin LiveIn(h) /\ m \notin LiveIn(h)
        /\ w \in Node /\ m \in Node
    BY DEF NoMurder, MurderNode, WasMurdered, MurderedSpeech
  <1>2. s # w /\ s # m
    BY <1>1 DEF Judging
  <1>3. h[s] \in LiveIn(h)
    BY DEF WellLinked, Closed
  <1>4. /\ g \in Heap
        /\ g[s] = w
        /\ g[w] = m
        /\ g[m] = h[s]
        /\ \A n \in Node : n \notin {s, w, m} => g[n] = h[n]
    BY <1>1, <1>2, <1>3 DEF WellLinked, Heap, LiveIn, BuildMurderChain
  <1>5. LiveIn(g) = LiveIn(h) \cup {w, m}
    BY <1>1, <1>3, <1>4 DEF LiveIn
  <1> HIDE DEF g, w, m
  <1>6. Closed(g)
    BY <1>1, <1>2, <1>3, <1>4, <1>5 DEF Closed, WellLinked, LiveIn
  <1>7. BallotsEnd(g)
    <2> SUFFICES ASSUME LiveIn(g) \cap Ballot # {}
                 PROVE  \E b \in LiveIn(g) \cap Ballot : g[b] \notin Ballot
      BY DEF BallotsEnd
    <2>1. PICK b \in LiveIn(h) \cap Ballot : h[b] \notin Ballot
      BY <1>1, <1>5 DEF BallotsEnd, WellLinked
    <2>2. b \in LiveIn(g) \cap Ballot /\ g[b] \notin Ballot
      BY <1>1, <1>4, <1>5, <2>1
    <2> QED BY <2>2
  <1>8. BallotLinks(g)
    BY <1>1, <1>2, <1>3, <1>4, <1>5 DEF BallotLinks, WellLinked, LiveIn, Judging, Hearing
  <1>9. TurnPairs(g)
    BY <1>1, <1>5 DEF TurnPairs, WellLinked, Turn
  <1>10. TurnEntries(g)
    <2> SUFFICES ASSUME NEW t \in Turn, NEW a \in LiveIn(g), NEW b \in LiveIn(g),
                        g[a] = t, g[b] = t
                 PROVE  a = b
      BY DEF TurnEntries
    <2>1. a \notin {s, w} /\ b \notin {s, w}
      BY <1>1, <1>4
    <2>2. CASE a = m \/ b = m
      BY <1>1, <1>3, <1>4, <1>5, <2>1, <2>2 DEF WellLinked, TurnEntries, LiveIn
    <2>3. CASE a # m /\ b # m
      BY <1>4, <1>5, <2>1, <2>3 DEF WellLinked, TurnEntries, LiveIn
    <2> QED BY <2>2, <2>3
  <1>11. PhasesLive(g)
    BY <1>5 DEF PhasesLive, WellLinked
  <1>12. WonNumbered(g, i)
    BY <1>1, <1>5 DEF WonNumbered, WellLinked
  <1>13. MurderOf(g, s, p)
    <2>1. \A n \in LiveIn(g) : (g[n] = w => n = s) /\ (g[n] = m => n = w)
      BY <1>1, <1>2, <1>3, <1>4, <1>5 DEF WellLinked, Closed, LiveIn
    <2>2. LiveIn(g) \cap MurderNode = {w, m}
      BY <1>1, <1>5 DEF NoMurder
    <2>3. g[m] \in LiveIn(g) \ (Ballot \cup MurderNode \cup Hearing)
      BY <1>3, <1>4, <1>5 DEF NoMurder, WellLinked, BallotLinks
    <2> QED BY <1>4, <1>5, <2>1, <2>2, <2>3 DEF MurderOf, w, m
  <1>14. TurnsInOrder(h) => TurnsInOrder(g)
    <2>1. ASSUME NEW n \in LiveIn(g) \cap Turn PROVE n \in LiveIn(h) /\ g[n] = h[n]
      BY <1>1, <1>4, <1>5 DEF LiveIn, Judging
    <2> QED BY <1>9, <2>1, OrderKept
  <1> QED BY <1>4, <1>5, <1>6, <1>7, <1>8, <1>9, <1>10, <1>11, <1>12, <1>13, <1>14
          DEF WellLinked, g, w, m

(* deletePreviousVotingChain frees all the ballots and nothing else, and no *)
(* pointer to one of them is left.                                         *)
LEMMA DeletePreviousLinks ==
  ASSUME NEW h, NEW i \in Nat, WellLinked(h, i)
  PROVE  LET g == DeletePreviousVotingChain(h)
         IN  /\ WellLinked(g, i)
             /\ LiveIn(g) = LiveIn(h) \ Ballot
             /\ \A n \in LiveIn(g) : h[n] \notin Ballot => g[n] = h[n]
             /\ TurnsInOrder(h) => TurnsInOrder(g)
  <1> DEFINE g == DeletePreviousVotingChain(h)
             after == AfterBallots(h)
  <1> USE NodeSets, NodesDiffer
  <1>1. ASSUME NEW n \in LiveIn(h), h[n] \in Ballot
        PROVE  after \in LiveIn(h) \ (Ballot \cup Hearing)
    <2>1. LiveIn(h) \cap Ballot # {}
      BY <1>1 DEF WellLinked, Closed
    <2>2. PICK b \in LiveIn(h) \cap Ballot : h[b] \notin Ballot
      BY <2>1 DEF WellLinked, BallotsEnd
    <2>3. h[b] \in Node \ Ballot
      BY <2>2 DEF WellLinked, Closed, LiveIn
    <2>4. after \in Node \ Ballot /\ \E c \in Ballot : h[c] = after
      BY <2>2, <2>3 DEF AfterBallots
    <2>5. PICK c \in LiveIn(h) \cap Ballot : h[c] = after
      BY <2>4 DEF LiveIn
    <2> QED BY <2>4, <2>5 DEF WellLinked, Closed, BallotLinks, Judging
  <1> HIDE DEF after
  <1>2. \A n \in Node : /\ n \in Ballot => g[n] = null
                        /\ n \notin Ballot /\ h[n] \in Ballot => g[n] = after
                        /\ n \notin Ballot /\ h[n] \notin Ballot => g[n] = h[n]
    BY DEF DeletePreviousVotingChain, after
  <1>3. g \in Heap
    <2>1. ASSUME NEW n \in Node PROVE g[n] \in Node \cup {null}
      BY <1>1, <1>2 DEF WellLinked, Heap, LiveIn
    <2>2. g = [n \in Node |-> g[n]]
      BY DEF DeletePreviousVotingChain
    <2> HIDE DEF g
    <2> QED BY <2>1, <2>2 DEF Heap
  <1> HIDE DEF g
  <1>4. LiveIn(g) = LiveIn(h) \ Ballot
    <2>1. ASSUME NEW n \in Node PROVE n \in LiveIn(g) <=> n \in LiveIn(h) \ Ballot
      BY <1>1, <1>2 DEF LiveIn
    <2> QED BY <2>1 DEF LiveIn
  <1>5. Closed(g)
    BY <1>1, <1>2, <1>4 DEF Closed, WellLinked, LiveIn
  <1>6. BallotsEnd(g)
    BY <1>4 DEF BallotsEnd
  <1>7. BallotLinks(g)
    <2>1. ASSUME NEW n \in LiveIn(g)
          PROVE  /\ g[n] \notin Ballot
                 /\ n \in {Phase("Voting"), Phase("Doctor_curing")} => g[n] \notin Hearing
      BY <1>1, <1>2, <1>4 DEF WellLinked, BallotLinks, LiveIn, Judging
    <2> QED BY <1>4, <2>1 DEF BallotLinks, Judging
  <1>8. TurnPairs(g)
    BY <1>4 DEF TurnPairs, WellLinked, Turn
  <1>9. TurnEntries(g)
    <2> SUFFICES ASSUME NEW t \in Turn, NEW a \in LiveIn(g), NEW b \in LiveIn(g),
                        g[a] = t, g[b] = t
                 PROVE  a = b
      BY DEF TurnEntries
    <2>1. h[a] = t /\ h[b] = t
      BY <1>1, <1>2, <1>4 DEF LiveIn, Hearing
    <2> QED BY <1>4, <2>1 DEF WellLinked, TurnEntries
  <1>10. PhasesLive(g)
    BY <1>4 DEF PhasesLive, WellLinked
  <1>11. WonNumbered(g, i)
    BY <1>4 DEF WonNumbered, WellLinked
  <1>12. \A n \in LiveIn(g) : h[n] \notin Ballot => g[n] = h[n]
    BY <1>2, <1>4 DEF LiveIn
  <1>13. TurnsInOrder(h) => TurnsInOrder(g)
    <2>1. ASSUME NEW n \in LiveIn(g) \cap Turn PROVE n \in LiveIn(h) /\ g[n] = h[n]
      <3>1. h[n] \notin Ballot
        BY <1>4 DEF WellLinked, BallotLinks, LiveIn
      <3> QED BY <1>4, <1>12, <3>1
    <2> QED BY <1>8, <2>1, OrderKept
  <1> QED BY <1>3, <1>4, <1>5, <1>6, <1>7, <1>8, <1>9, <1>10, <1>11, <1>12, <1>13
          DEF WellLinked, g

(* buildVotingChain on a heap without ballots, for every set of nominees:  *)
(* the ballots end, only the voting leads to them, the rest is as before.  *)
LEMMA VotingChainLinks ==
  ASSUME NEW h, NEW i \in Nat, WellLinked(h, i), LiveIn(h) \cap Ballot = {},
         NEW S \in SUBSET Targets
  PROVE  LET g == BuildVotingChain(h, Phase("Voting"), S)
         IN  /\ WellLinked(g, i)
             /\ LiveIn(g) \subseteq LiveIn(h) \cup Ballot
             /\ LiveIn(h) \subseteq LiveIn(g)
             /\ \A n \in LiveIn(h) : n # Phase("Voting") => g[n] = h[n]
             /\ TurnsInOrder(h) => TurnsInOrder(g)
  <1> DEFINE v == Phase("Voting")
             g == BuildVotingChain(h, v, S)
             Later(p) == {q \in S : q > p}
  <1> USE NodeSets, NodesDiffer
  <1>1. S \subseteq Nat /\ IsFiniteSet(S)
    BY TargetsAssumption, FS_Subset
  <1>2. v \in LiveIn(h) /\ v \in Node /\ v \notin Ballot
    BY DEF WellLinked, PhasesLive
  <1>3. h[v] \in LiveIn(h) \ Ballot
    BY <1>2 DEF WellLinked, Closed
  <1>4. CASE S = {}
    <2>1. g = h
      <3>1. \A n \in Node : g[n] = h[n]
        BY <1>4 DEF BuildVotingChain
      <3>2. g = [n \in Node |-> g[n]] /\ h = [n \in Node |-> h[n]]
        BY DEF BuildVotingChain, WellLinked, Heap
      <3> HIDE DEF g
      <3> QED BY <3>1, <3>2
    <2> HIDE DEF g
    <2>2. /\ WellLinked(g, i)
          /\ LiveIn(g) \subseteq LiveIn(h) \cup Ballot
          /\ LiveIn(h) \subseteq LiveIn(g)
          /\ \A n \in LiveIn(h) : g[n] = h[n]
          /\ TurnsInOrder(h) => TurnsInOrder(g)
      BY <2>1
    <2> QED BY <2>2 DEF g
  <1>5. CASE S # {}
    <2>1. /\ LeastOf(S) \in S
          /\ \A p \in S : Later(p) # {} => LeastOf(Later(p)) \in S
      BY <1>1, <1>5, LeastOfIsLeast
    <2>2. \A p \in Targets : VotingAgainst(p) \in Ballot
      BY DEF Ballot
    <2>3. PICK last \in S : Later(last) = {}
      <3>1. PICK x \in S : \A y \in S : y <= x
        BY <1>1, <1>5, GreatestExists
      <3>2. \A y \in S : ~(y > x)
        BY <1>1, <3>1
      <3> QED BY <3>2
    <2>4. \A n \in Node : n[1] = "Voting_against_player" /\ n[2] \in S
                           <=> \E p \in S : n = VotingAgainst(p)
      BY DEF Node, PhaseKind, TurnKind, MarkKind, WonKind, VotingAgainst
    <2>5. /\ g[v] = VotingAgainst(LeastOf(S))
          /\ \A p \in S : g[VotingAgainst(p)] = IF Later(p) = {} THEN h[v]
                                               ELSE VotingAgainst(LeastOf(Later(p)))
          /\ \A n \in Node : n # v /\ n \notin Ballot => g[n] = h[n]
          /\ \A n \in Ballot : (\E p \in S : n = VotingAgainst(p)) \/ g[n] = h[n]
      <3>1. g[v] = VotingAgainst(LeastOf(S))
        BY <1>2, <1>5 DEF BuildVotingChain
      <3>2. ASSUME NEW p \in S
            PROVE  g[VotingAgainst(p)] = IF Later(p) = {} THEN h[v]
                                         ELSE VotingAgainst(LeastOf(Later(p)))
        <4>1. VotingAgainst(p) \in Node /\ VotingAgainst(p) # v
          BY <1>2, <2>2
        <4>2. VotingAgainst(p)[1] = "Voting_against_player" /\ VotingAgainst(p)[2] = p
          BY DEF VotingAgainst
        <4> QED BY <4>1, <4>2 DEF BuildVotingChain
      <3>3. ASSUME NEW n \in Node, n # v, ~ \E p \in S : n = VotingAgainst(p)
            PROVE  g[n] = h[n]
        BY <2>4, <3>3 DEF BuildVotingChain
      <3> HIDE DEF g
      <3>4. ASSUME NEW n \in Node, n # v, n \notin Ballot PROVE g[n] = h[n]
        BY <2>2, <3>3, <3>4
      <3>5. ASSUME NEW n \in Ballot, ~ \E p \in S : n = VotingAgainst(p)
            PROVE  g[n] = h[n]
        BY <1>2, <3>3, <3>5
      <3> QED BY <3>1, <3>2, <3>4, <3>5
    <2>6. g = [n \in Node |-> g[n]]
      BY DEF BuildVotingChain
    <2> HIDE DEF g, Later, v
    <2>7. /\ g[v] \in Ballot
          /\ \A p \in S : g[VotingAgainst(p)] \in Ballot \cup {h[v]}
      BY <2>1, <2>2, <2>5
    <2>8. LiveIn(g) = LiveIn(h) \cup {VotingAgainst(p) : p \in S}
      <3>1. ASSUME NEW n \in Node
            PROVE  n \in LiveIn(g) <=> n \in LiveIn(h) \/ \E p \in S : n = VotingAgainst(p)
        <4>1. CASE n = v
          BY <1>2, <2>7, <4>1 DEF LiveIn
        <4>2. CASE n \in Ballot
          BY <1>3, <2>5, <2>7, <4>2 DEF LiveIn
        <4>3. CASE n # v /\ n \notin Ballot
          BY <2>2, <2>5, <4>3 DEF LiveIn
        <4> QED BY <4>1, <4>2, <4>3
      <3> QED BY <2>2, <3>1 DEF LiveIn
    <2>9. \A n \in LiveIn(g) : \/ n = v
                               \/ \E p \in S : n = VotingAgainst(p)
                               \/ n \in LiveIn(h) /\ n \notin Ballot /\ g[n] = h[n]
      BY <2>5, <2>8 DEF LiveIn
    <2>10. g \in Heap
      <3>1. ASSUME NEW n \in Node PROVE g[n] \in Node \cup {null}
        <4>1. CASE n = v
          BY <2>7, <4>1
        <4>2. CASE n \in Ballot
          BY <1>3, <2>5, <2>7, <4>2 DEF WellLinked, Heap, LiveIn
        <4>3. CASE n # v /\ n \notin Ballot
          BY <2>5, <4>3 DEF WellLinked, Heap
        <4> QED BY <4>1, <4>2, <4>3
      <3> QED BY <2>6, <3>1 DEF Heap
    <2>11. Closed(g)
      <3>1. ASSUME NEW p \in S PROVE g[VotingAgainst(p)] \in LiveIn(g)
        BY <1>3, <2>1, <2>5, <2>8
      <3>2. g[v] \in LiveIn(g)
        BY <2>1, <2>5, <2>8
      <3> QED BY <2>8, <2>9, <3>1, <3>2 DEF WellLinked, Closed
    <2>12. BallotsEnd(g)
      <3>1. VotingAgainst(last) \in LiveIn(g) \cap Ballot
        BY <2>2, <2>8
      <3>2. g[VotingAgainst(last)] \notin Ballot
        BY <1>3, <2>3, <2>5
      <3> QED BY <3>1, <3>2 DEF BallotsEnd
    <2>13. BallotLinks(g)
      <3>1. h[v] \notin Hearing
        BY <1>2 DEF WellLinked, BallotLinks, v
      <3> QED BY <2>2, <2>7, <2>8, <2>9, <3>1 DEF WellLinked, BallotLinks, v, Judging, Hearing
    <2>14. TurnPairs(g)
      BY <2>2, <2>8 DEF TurnPairs, WellLinked, Turn
    <2>15. TurnEntries(g)
      <3>1. h[v] \notin Turn
        BY <1>2 DEF WellLinked, BallotLinks, v, Hearing
      <3>2. ASSUME NEW n \in LiveIn(g), g[n] \in Turn
            PROVE  n \in LiveIn(h) /\ g[n] = h[n]
        BY <2>7, <2>9, <3>1, <3>2
      <3> QED BY <3>2 DEF WellLinked, TurnEntries
    <2>16. PhasesLive(g)
      BY <2>8 DEF PhasesLive, WellLinked
    <2>17. WonNumbered(g, i)
      BY <2>2, <2>8 DEF WonNumbered, WellLinked
    <2>18. \A n \in LiveIn(h) : n # v => g[n] = h[n]
      BY <2>5 DEF LiveIn
    <2>19. TurnsInOrder(h) => TurnsInOrder(g)
      <3>1. ASSUME NEW n \in LiveIn(g) \cap Turn
            PROVE  n \in LiveIn(h) /\ g[n] = h[n]
        BY <2>2, <2>8, <2>18 DEF v
      <3> QED BY <2>14, <3>1, OrderKept
    <2> QED BY <2>2, <2>8, <2>10, <2>11, <2>12, <2>13, <2>14, <2>15, <2>16, <2>17, <2>18, <2>19
            DEF WellLinked, g, v
  <1> QED BY <1>4, <1>5

(* deleteMurderedPlayer, first half: the two nodes of the murder are freed *)
(* and nothing points at them; all other links are as before.              *)
LEMMA DeleteMurderLinks ==
  ASSUME NEW h, NEW i \in Nat, NEW b, NEW p, WellLinked(h, i), MurderOf(h, b, p)
  PROVE  LET g == DeleteMurderChain(h, b, MurderedSpeech(p))
         IN  /\ WellLinked(g, i)
             /\ LiveIn(g) = LiveIn(h) \ MurderNode
             /\ b \in LiveIn(g)
             /\ g[b] = h[MurderedSpeech(p)]
             /\ \A n \in LiveIn(g) : n # b => g[n] = h[n]
             /\ TurnsInOrder(h) => TurnsInOrder(g)
  <1> DEFINE g == DeleteMurderChain(h, b, MurderedSpeech(p))
             w == WasMurdered(p)
             m == MurderedSpeech(p)
  <1> USE NodeSets, NodesDiffer
  <1>1. /\ w \in MurderNode /\ m \in MurderNode
        /\ w # m
        /\ b \in LiveIn(h) \ MurderNode
        /\ b \in Judging
        /\ h[b] = w /\ h[w] = m
        /\ LiveIn(h) \cap MurderNode = {w, m}
        /\ h[m] \in LiveIn(h) \ (Ballot \cup MurderNode \cup Hearing)
        /\ \A n \in LiveIn(h) : (h[n] = w => n = b) /\ (h[n] = m => n = w)
    BY DEF MurderOf, MurderNode, WasMurdered, MurderedSpeech, Judging
  <1>2. b \in Node /\ w \in Node /\ m \in Node /\ b # w /\ b # m
    BY <1>1 DEF LiveIn
  <1>3. /\ g \in Heap
        /\ g[b] = h[m]
        /\ g[w] = null
        /\ g[m] = null
        /\ \A n \in Node : n \notin {b, w, m} => g[n] = h[n]
    <2>1. g = [h EXCEPT ![b] = h[m], ![w] = null, ![m] = null]
      BY <1>1 DEF DeleteMurderChain
    <2> HIDE DEF g, w, m
    <2> QED BY <1>1, <1>2, <2>1 DEF WellLinked, Heap, LiveIn
  <1> HIDE DEF g, w, m
  <1>4. LiveIn(g) = LiveIn(h) \ {w, m}
    BY <1>1, <1>2, <1>3 DEF LiveIn
  <1>5. LiveIn(g) = LiveIn(h) \ MurderNode
    BY <1>1, <1>4
  <1>6. Closed(g)
    BY <1>1, <1>2, <1>3, <1>4 DEF Closed, WellLinked, LiveIn
  <1>7. BallotsEnd(g)
    <2> SUFFICES ASSUME LiveIn(g) \cap Ballot # {}
                 PROVE  \E c \in LiveIn(g) \cap Ballot : g[c] \notin Ballot
      BY DEF BallotsEnd
    <2>1. PICK c \in LiveIn(h) \cap Ballot : h[c] \notin Ballot
      BY <1>5 DEF BallotsEnd, WellLinked
    <2>2. c \in LiveIn(g) \cap Ballot /\ g[c] \notin Ballot
      BY <1>1, <1>3, <1>5, <2>1
    <2> QED BY <2>2
  <1>8. BallotLinks(g)
    BY <1>1, <1>3, <1>5 DEF BallotLinks, WellLinked, LiveIn
  <1>9. TurnPairs(g)
    BY <1>5 DEF TurnPairs, WellLinked, Turn
  <1>10. TurnEntries(g)
    <2> SUFFICES ASSUME NEW t \in Turn, NEW x \in LiveIn(g), NEW y \in LiveIn(g),
                        g[x] = t, g[y] = t
                 PROVE  x = y
      BY DEF TurnEntries
    <2>1. CASE x = b \/ y = b
      BY <1>1, <1>3, <1>4, <2>1 DEF WellLinked, TurnEntries, LiveIn
    <2>2. CASE x # b /\ y # b
      BY <1>3, <1>4, <2>2 DEF WellLinked, TurnEntries, LiveIn
    <2> QED BY <2>1, <2>2
  <1>11. PhasesLive(g)
    BY <1>5 DEF PhasesLive, WellLinked
  <1>12. WonNumbered(g, i)
    BY <1>5 DEF WonNumbered, WellLinked
  <1>13. \A n \in LiveIn(g) : n # b => g[n] = h[n]
    BY <1>3, <1>4 DEF LiveIn
  <1>14. TurnsInOrder(h) => TurnsInOrder(g)
    <2>1. ASSUME NEW n \in LiveIn(g) \cap Turn PROVE n \in LiveIn(h) /\ g[n] = h[n]
      BY <1>1, <1>5, <1>13 DEF Judging
    <2> QED BY <1>9, <2>1, OrderKept
  <1>15. b \in LiveIn(g)
    BY <1>1, <1>5
  <1> QED BY <1>3, <1>5, <1>6, <1>7, <1>8, <1>9, <1>10, <1>11, <1>12, <1>13, <1>14, <1>15
          DEF WellLinked, g, m

(* deleteMurderedPlayer, second half: the speech and its end are freed     *)
(* together, and the turn before comes to lead to the turn after.          *)
LEMMA DeleteTurnLinks ==
  ASSUME NEW h, NEW i \in Nat, WellLinked(h, i), TurnsInOrder(h),
         NEW q \in 1 .. MaxPlayers - 1, Speaking(q) \in LiveIn(h),
         NEW r \in Node, h[r] = Speaking(q)
  PROVE  LET g == DeleteTurn(h, r, Speaking(q))
         IN  /\ WellLinked(g, i)
             /\ TurnsInOrder(g)
             /\ LiveIn(g) = LiveIn(h) \ {Speaking(q), Finished(q)}
             /\ \A n \in LiveIn(g) : n # r => g[n] = h[n]
  <1> DEFINE g == DeleteTurn(h, r, Speaking(q))
             t == Speaking(q)
             f == Finished(q)
  <1> USE NodeSets, NodesDiffer, MaxPlayersAssumption
  <1>1. t \in Turn /\ f \in Turn /\ t # f
    BY DEF Turn, Speaking, Finished
  <1>2. /\ h[t] = f
        /\ f \in LiveIn(h)
        /\ h[f] \in LiveIn(h)
        /\ h[f] \in {Speaking(x) : x \in q + 1 .. MaxPlayers - 1} \cup {Phase("Voting")}
    BY DEF TurnsInOrder, WellLinked, TurnPairs, Closed
  <1>3. h[f] # t /\ h[f] # f
    <2>1. ASSUME NEW x \in q + 1 .. MaxPlayers - 1
          PROVE  Speaking(x) # t /\ Speaking(x) # f
      BY DEF Speaking, Finished
    <2> HIDE DEF t, f
    <2> QED BY <1>1, <1>2, <2>1
  <1>4. r \in LiveIn(h) /\ r # t /\ r # f
    BY <1>1, <1>2, <1>3 DEF LiveIn
  <1>5. /\ g \in Heap
        /\ g[r] = h[f]
        /\ g[t] = null
        /\ g[f] = null
        /\ \A n \in Node : n \notin {r, t, f} => g[n] = h[n]
    <2>1. g = [h EXCEPT ![r] = h[f], ![f] = null, ![t] = null]
      BY <1>2 DEF DeleteTurn
    <2> HIDE DEF g, t, f
    <2> QED BY <1>1, <1>2, <1>4, <2>1 DEF WellLinked, Heap, LiveIn
  <1>6. \A n \in LiveIn(h) : (h[n] = t => n = r) /\ (h[n] = f => n = t)
    BY <1>1, <1>2, <1>4 DEF WellLinked, TurnEntries
  <1>7. LiveIn(g) = LiveIn(h) \ {t, f}
    <2> HIDE DEF g, t, f
    <2> QED BY <1>1, <1>2, <1>4, <1>5 DEF LiveIn
  <1>8. ASSUME NEW x \in 1 .. MaxPlayers - 1, Speaking(x) \in LiveIn(g)
        PROVE  /\ x # q
               /\ Speaking(x) \in LiveIn(h) /\ Finished(x) \in LiveIn(h)
               /\ Speaking(x) # r
               /\ h[Speaking(x)] = Finished(x)
               /\ h[Finished(x)] \in {Speaking(y) : y \in x + 1 .. MaxPlayers - 1}
                                     \cup {Phase("Voting")}
               /\ Speaking(x) \notin {t, f} /\ Finished(x) \notin {t, f}
    <2>1. x # q /\ Speaking(x) \in LiveIn(h)
      BY <1>7, <1>8
    <2>2. Speaking(x) \notin {t, f} /\ Finished(x) \notin {t, f} /\ Finished(x) # t
      BY <2>1 DEF Speaking, Finished
    <2>3. Finished(x) \in LiveIn(h)
      BY <2>1 DEF WellLinked, TurnPairs
    <2>4. /\ h[Speaking(x)] = Finished(x)
          /\ h[Finished(x)] \in {Speaking(y) : y \in x + 1 .. MaxPlayers - 1}
                                \cup {Phase("Voting")}
      BY <2>1 DEF TurnsInOrder
    <2> HIDE DEF t, f
    <2> QED BY <2>1, <2>2, <2>3, <2>4, <1>6, t = Speaking(q) DEF t
  <1>9. TurnsInOrder(g)
    <2> SUFFICES ASSUME NEW x \in 1 .. MaxPlayers - 1, Speaking(x) \in LiveIn(g)
                 PROVE  /\ g[Speaking(x)] = Finished(x)
                        /\ g[Finished(x)] \in {Speaking(y) : y \in x + 1 .. MaxPlayers - 1}
                                              \cup {Phase("Voting")}
      BY DEF TurnsInOrder
    <2>1. g[Speaking(x)] = Finished(x)
      <3> HIDE DEF g, t, f
      <3> QED BY <1>5, <1>8 DEF LiveIn
    <2>2. CASE Finished(x) # r
      <3> HIDE DEF g, t, f
      <3> QED BY <1>5, <1>8, <2>1, <2>2 DEF LiveIn
    <2>3. CASE Finished(x) = r
      <3>1. q > x
        <4>1. Speaking(q) \in {Speaking(y) : y \in x + 1 .. MaxPlayers - 1} \cup {Phase("Voting")}
          BY <1>8, <2>3
        <4>2. PICK y \in x + 1 .. MaxPlayers - 1 : Speaking(q) = Speaking(y)
          BY <1>1, <4>1 DEF Phase, Speaking
        <4> QED BY <4>2 DEF Speaking
      <3>2. \A y \in q + 1 .. MaxPlayers - 1 : y \in x + 1 .. MaxPlayers - 1
        BY <3>1
      <3>3. g[Finished(x)] = h[f]
        BY <1>5, <2>3
      <3> HIDE DEF g, f
      <3> QED BY <1>2, <2>1, <3>2, <3>3
    <2> QED BY <2>1, <2>2, <2>3
  <1> HIDE DEF g
  <1>10. Closed(g)
    BY <1>2, <1>3, <1>4, <1>5, <1>6, <1>7 DEF Closed, WellLinked, LiveIn
  <1>11. \A n \in LiveIn(g) : n # r => g[n] = h[n]
    BY <1>5, <1>7 DEF LiveIn
  <1>12. r \notin Judging \cup {Phase("Voting")} /\ g[r] \notin Ballot
    BY <1>1, <1>2, <1>4, <1>5 DEF WellLinked, BallotLinks, Hearing, Judging
  <1>13. BallotsEnd(g)
    <2> SUFFICES ASSUME LiveIn(g) \cap Ballot # {}
                 PROVE  \E c \in LiveIn(g) \cap Ballot : g[c] \notin Ballot
      BY DEF BallotsEnd
    <2>1. PICK c \in LiveIn(h) \cap Ballot : h[c] \notin Ballot
      BY <1>7 DEF BallotsEnd, WellLinked
    <2>2. c \in LiveIn(g) \cap Ballot /\ g[c] \notin Ballot
      BY <1>1, <1>7, <1>11, <1>12, <2>1 DEF Judging
    <2> QED BY <2>2
  <1>14. BallotLinks(g)
    <2> SUFFICES ASSUME NEW n \in LiveIn(g)
                 PROVE  /\ g[n] \in Ballot => n \in Ballot \cup {Phase("Voting")} \cup WonNode
                        /\ n \in Judging \cup {Phase("Voting")} => g[n] \notin Hearing
      BY DEF BallotLinks
    <2>1. CASE n = r
      BY <1>12, <2>1
    <2>2. CASE n # r
      BY <1>7, <1>11, <2>2 DEF BallotLinks, WellLinked
    <2> QED BY <2>1, <2>2
  <1>15. TurnPairs(g)
    <2>1. \A x \in 1 .. MaxPlayers - 1 : /\ Speaking(x) # f /\ Finished(x) # t
                                         /\ Speaking(x) = t <=> x = q
                                         /\ Finished(x) = f <=> x = q
      BY DEF Speaking, Finished
    <2> HIDE DEF t, f
    <2> QED BY <1>7, <2>1 DEF WellLinked, TurnPairs
  <1>16. TurnEntries(g)
    <2> SUFFICES ASSUME NEW u \in Turn, NEW x \in LiveIn(g), NEW y \in LiveIn(g),
                        g[x] = u, g[y] = u
                 PROVE  x = y
      BY DEF TurnEntries
    <2> HIDE DEF t, f
    <2>1. CASE x = r \/ y = r
      BY <1>2, <1>5, <1>7, <1>11, <2>1 DEF WellLinked, TurnEntries
    <2>2. CASE x # r /\ y # r
      BY <1>7, <1>11, <2>2 DEF WellLinked, TurnEntries
    <2> QED BY <2>1, <2>2
  <1>17. PhasesLive(g) /\ WonNumbered(g, i)
    BY <1>1, <1>7 DEF PhasesLive, WonNumbered, WellLinked
  <1> QED BY <1>5, <1>7, <1>9, <1>10, <1>11, <1>13, <1>14, <1>15, <1>16, <1>17
          DEF WellLinked, g

(* buildStateChain gives a well-linked heap for every number of players.   *)
LEMMA StateChainLinks ==
  /\ WellLinked(BuildStateChain, 0)
  /\ PlayLinks(BuildStateChain, Phase("City_wakes_up"), null)
  /\ Phase("City_wakes_up") \in LiveIn(BuildStateChain)
  <1> DEFINE g == BuildStateChain
             I == 1 .. MaxPlayers - 1
             phases == {Phase(k) : k \in PhaseKind}
  <1> USE NodeSets, NodesDiffer, MaxPlayersAssumption
  <1>1. /\ \A q \in I : g[Speaking(q)] = Finished(q)
        /\ \A q \in I : q < MaxPlayers - 1 => g[Finished(q)] = Speaking(q + 1)
        /\ \A q \in I : q >= MaxPlayers - 1 => g[Finished(q)] = Phase("Voting")
    <2>1. ASSUME NEW q \in I PROVE g[Speaking(q)] = Finished(q)
      <3>1. Speaking(q) \in Node
        BY DEF Turn
      <3> QED BY <3>1 DEF BuildStateChain, Speaking, Finished, Phase
    <2>2. ASSUME NEW q \in I
          PROVE  g[Finished(q)] = IF q < MaxPlayers - 1 THEN Speaking(q + 1)
                                                       ELSE Phase("Voting")
      <3>1. Finished(q) \in Node
        BY DEF Turn
      <3> QED BY <3>1 DEF BuildStateChain, Speaking, Finished, Phase
    <2> QED BY <2>1, <2>2
  <1>2. /\ g[Phase("City_wakes_up")] = Speaking(1)
        /\ \A k \in PhaseKind \ {"City_wakes_up"} : g[Phase(k)] \in phases
        /\ \A k \in PhaseKind : g[Phase(k)] # Phase("Voting")
    <2>1. \A k \in PhaseKind : Phase(k) \in Node
      OBVIOUS
    <2>2. g[Phase("City_wakes_up")] = Speaking(1)
      BY <2>1 DEF BuildStateChain, Phase, PhaseKind
    <2>3. /\ g[Phase("Voting")] = Phase("Night")
          /\ g[Phase("Night")] = Phase("Mafia_wake_up")
          /\ g[Phase("Mafia_wake_up")] = Phase("Mafia_murdered")
          /\ g[Phase("Mafia_murdered")] = Phase("Detective_checking")
      BY <2>1 DEF BuildStateChain, Phase, PhaseKind
    <2>4. /\ g[Phase("Detective_checking")] = Phase("Doctor_curing")
          /\ g[Phase("Doctor_curing")] = Phase("Early_morning")
          /\ g[Phase("Early_morning")] = Phase("City_wakes_up")
      BY <2>1 DEF BuildStateChain, Phase, PhaseKind
    <2> HIDE DEF g
    <2>5. \A k \in PhaseKind \ {"City_wakes_up"} : g[Phase(k)] \in phases
      BY <2>3, <2>4 DEF PhaseKind
    <2>6. \A k \in PhaseKind : g[Phase(k)] # Phase("Voting")
      BY <2>2, <2>3, <2>4 DEF PhaseKind, Phase, Speaking
    <2> QED BY <2>2, <2>5, <2>6
  <1>3. \A n \in Ballot \cup MurderNode \cup WonNode : g[n] = null
    BY DEF BuildStateChain, Ballot, MurderNode, WonNode, WonKind, VotingAgainst,
           WasMurdered, MurderedSpeech, Phase
  <1>4. Node = phases \cup Turn \cup Ballot \cup MurderNode \cup WonNode
    BY DEF Node, Turn, Ballot, MurderNode, WonNode, TurnKind, MarkKind, Phase,
           Speaking, Finished, VotingAgainst, WasMurdered, MurderedSpeech
  <1>5. /\ \A q \in I : Speaking(q) \in Turn /\ Finished(q) \in Turn
        /\ \A t \in Turn : \E q \in I : t = Speaking(q) \/ t = Finished(q)
        /\ \A n \in Turn : g[n] \in Turn \cup phases
    <2>1. \A q \in I : Speaking(q) \in Turn /\ Finished(q) \in Turn
      BY DEF Turn
    <2>2. \A t \in Turn : \E q \in I : t = Speaking(q) \/ t = Finished(q)
      BY DEF Turn
    <2>3. Phase("Voting") \in phases
      OBVIOUS
    <2> HIDE DEF g, phases
    <2> QED BY <1>1, <2>1, <2>2, <2>3
  <1>6. Speaking(1) \in Turn
    BY DEF Turn
  <1>7. \A n \in phases \cup Turn : g[n] \in phases \cup Turn
    BY <1>2, <1>5, <1>6
  <1>8. g = [n \in Node |-> g[n]]
    BY DEF BuildStateChain
  <1> HIDE DEF g
  <1>9. /\ g \in Heap
        /\ LiveIn(g) = phases \cup Turn
    <2>1. phases \cup Turn \subseteq Node
      BY <1>4
    <2>2. g \in Heap
      BY <1>3, <1>4, <1>7, <1>8, <2>1 DEF Heap
    <2>3. \A n \in Node : n \in LiveIn(g) <=> n \in phases \cup Turn
      BY <1>3, <1>4, <1>7, <2>1 DEF LiveIn
    <2> QED BY <2>1, <2>2, <2>3 DEF LiveIn
  <1>10. Closed(g)
    BY <1>7, <1>9 DEF Closed
  <1>11. LiveIn(g) \cap Ballot = {} /\ LiveIn(g) \cap MurderNode = {} /\ LiveIn(g) \cap WonNode = {}
    BY <1>9
  <1>12. BallotLinks(g)
    <2>1. \A n \in LiveIn(g) : g[n] \notin Ballot
      BY <1>7, <1>9
    <2>2. g[Phase("Voting")] \in phases /\ g[Phase("Doctor_curing")] \in phases
      BY <1>2 DEF PhaseKind, Phase
    <2>3. g[Phase("Voting")] # Phase("Voting") /\ g[Phase("Doctor_curing")] # Phase("Voting")
      BY <1>2 DEF PhaseKind, Phase
    <2>4. \A n \in phases : n \notin Turn
      OBVIOUS
    <2> HIDE DEF phases
    <2> QED BY <1>9, <1>11, <2>1, <2>2, <2>3, <2>4 DEF BallotLinks, Judging, Hearing
  <1>13. TurnPairs(g)
    BY <1>5, <1>9 DEF TurnPairs
  <1>14. TurnEntries(g)
    <2>a. /\ \A x, y : Speaking(x) = Speaking(y) => x = y
          /\ \A x, y : Finished(x) = Finished(y) => x = y
          /\ \A x, y : Speaking(x) # Finished(y)
          /\ \A t \in Turn : t \notin phases
      BY DEF Speaking, Finished
    <2>b. Speaking(1) # Phase("Voting") /\ \A k \in PhaseKind : Phase(k) \in phases
      BY DEF Speaking, Phase
    <2>c. ASSUME NEW n \in phases, g[n] \in Turn
          PROVE  n = Phase("City_wakes_up") /\ g[n] = Speaking(1)
      BY <1>2, <2>a, <2>c
    <2>d. ASSUME NEW x \in I, g[Finished(x)] \in Turn
          PROVE  x < MaxPlayers - 1 /\ g[Finished(x)] = Speaking(x + 1)
      BY <1>1, <2>d
    <2> HIDE DEF phases
    <2>1. ASSUME NEW q \in I, NEW n \in LiveIn(g), g[n] = Finished(q)
          PROVE  n = Speaking(q)
      <3>1. CASE n \in phases
        BY <1>5, <2>1, <2>a, <2>c, <3>1
      <3>2. ASSUME NEW x \in I, n = Speaking(x) PROVE n = Speaking(q)
        BY <1>1, <2>1, <2>a, <3>2
      <3>3. ASSUME NEW x \in I, n = Finished(x) PROVE FALSE
        BY <1>5, <2>1, <2>a, <2>d, <3>3
      <3> QED BY <1>5, <1>9, <3>1, <3>2, <3>3
    <2>2. ASSUME NEW q \in I, NEW n \in LiveIn(g), g[n] = Speaking(q)
          PROVE  n = IF q = 1 THEN Phase("City_wakes_up") ELSE Finished(q - 1)
      <3>1. CASE n \in phases
        BY <1>5, <2>2, <2>a, <2>c, <3>1
      <3>2. ASSUME NEW x \in I, n = Speaking(x) PROVE FALSE
        BY <1>1, <2>2, <2>a, <3>2
      <3>3. ASSUME NEW x \in I, n = Finished(x)
            PROVE  n = IF q = 1 THEN Phase("City_wakes_up") ELSE Finished(q - 1)
        <4>1. q = x + 1
          BY <1>5, <2>2, <2>a, <2>d, <3>3
        <4> QED BY <3>3, <4>1
      <3> QED BY <1>5, <1>9, <3>1, <3>2, <3>3
    <2> QED BY <1>5, <2>1, <2>2 DEF TurnEntries
  <1>15. TurnsInOrder(g)
    <2>1. ASSUME NEW q \in I
          PROVE  g[Finished(q)] \in {Speaking(r) : r \in q + 1 .. MaxPlayers - 1}
                                    \cup {Phase("Voting")}
      BY <1>1
    <2> QED BY <1>1, <2>1 DEF TurnsInOrder
  <1>16. PhasesLive(g) /\ BallotsEnd(g) /\ WonNumbered(g, 0)
    BY <1>9, <1>11 DEF PhasesLive, BallotsEnd, WonNumbered
  <1>17. Phase("City_wakes_up") \in LiveIn(g) /\ Phase("City_wakes_up") \notin MurderNode
    BY <1>9 DEF PhaseKind
  <1> QED BY <1>9, <1>10, <1>11, <1>12, <1>13, <1>14, <1>15, <1>16, <1>17
          DEF WellLinked, PlayLinks, MurderLinks, NoMurder, g

-----------------------------------------------------------------------------
(* Steps of the room.                                                      *)

(* The messages of changeRoomState name positions of the game only.        *)
LEMMA HandOverTypes ==
  ASSUME speakers \subseteq Position \cup Targets, NEW from \in Node, NEW to \in Node
  PROVE  HandOver(from, to) \subseteq Position \cup Targets
  <1>1. 0 \in Position /\ 1 .. MaxPlayers - 1 \subseteq Position
    BY MaxPlayersAssumption DEF Position
  <1>2. \A n \in Node : n[1] \in {"Finished_speaking_player", "Speaking_player",
                                  "Murdered_players_speech"}
                          => n[2] \in Position \cup Targets
    BY <1>1 DEF Node, PhaseKind, TurnKind, MarkKind, WonKind
  <1> QED BY <1>1, <1>2 DEF HandOver

(* A player's screen shows one of the four pictures.                       *)
LEMMA ScreenTypes ==
  ASSUME screen \in [Position -> Screen], NEW n, NEW chars
  PROVE  CorrespondingScreen(n, chars) \in [Position -> Screen]
  BY DEF CorrespondingScreen, Screen

(* Proceed, the part common to all steps, keeps the invariant if it starts *)
(* from a well-linked heap and, when the game is not over, from the right  *)
(* links of a game that is played.                                         *)
LEMMA ProceedKeeps ==
  ASSUME RingTypeOK, PeopleTypeOK, fate = "ok",
         NEW heap, NEW from \in LiveIn(heap), NEW chars \in [Position -> Character],
         WellLinked(heap, wins),
         ~GameOver(chars) =>
           PlayLinks(heap, heap[from],
                     IF heap[from][1] = "Was_murdered_player" THEN from ELSE before),
         Proceed(from, heap, chars)
  PROVE  RingTypeOK' /\ PeopleTypeOK' /\ fate' = "ok" /\ RingInv'
  <1>1. /\ heap \in Heap /\ from \in Node /\ heap[from] \in LiveIn(heap)
        /\ heap[from] \in Node
    BY DEF WellLinked, Closed, LiveIn
  <1>2. before' \in Node \cup {null}
    BY <1>1 DEF Proceed, RingTypeOK
  <1>3. ASSUME NEW g \in Heap, g[from] \in Node, Enter(from, g, chars)
        PROVE  /\ state' = g[from] /\ next' = g
               /\ state' \in Node /\ next' \in Heap
               /\ PeopleTypeOK' /\ fate' = "ok"
               /\ character' = chars /\ seated' = seated
    BY <1>3, HandOverTypes, ScreenTypes DEF Enter, PeopleTypeOK, RingTypeOK
  <1>4. CASE ~GameOver(chars)
    <2>1. Enter(from, heap, chars) /\ wins' = wins
      BY <1>4 DEF Proceed
    <2>2. state' = heap[from] /\ next' = heap /\ character' = chars /\ seated' = seated
      BY <1>1, <1>3, <2>1
    <2>3. PlayLinks(next', state', before')
      BY <1>4, <2>2 DEF Proceed
    <2>4. ~IsWon(state')
      <3>1. state' \in LiveIn(next') /\ state' \in Node
        BY <1>1, <2>2
      <3> QED BY <3>1, <2>3, NodeKinds DEF PlayLinks
    <2>5. RingInv'
      <3>1. state' \in LiveIn(next') /\ Closed(next') /\ WellLinked(next', wins')
        BY <1>1, <2>1, <2>2 DEF WellLinked
      <3>2. state'[1] # "Villagers_won_the_game"
        BY <2>4 DEF IsWon, WonKind
      <3> QED BY <3>1, <3>2, <2>3, <2>4 DEF RingInv
    <2> QED BY <1>1, <1>2, <1>3, <2>1, <2>5 DEF RingTypeOK
  <1>5. CASE GameOver(chars)
    <2> DEFINE won == WonTheGame(Winner(chars), wins + 1)
               g == BuildEndGameChain(heap, from, won)
    <2>1. Enter(from, g, chars) /\ wins' = wins + 1 /\ wins < MaxAnnouncements
      BY <1>5 DEF Proceed
    <2>2. wins \in Nat /\ wins + 1 \in 1 .. MaxAnnouncements
      BY <2>1, MaxAnnouncementsAssumption DEF RingTypeOK
    <2>3. won \in WonNode /\ won[2] = wins + 1 /\ won[1] = Winner(chars)
      BY <2>2 DEF WonNode, WonTheGame, Winner, WonKind
    <2> HIDE DEF won
    <2>4. WellLinked(g, wins + 1) /\ g[from] = won /\ won \in LiveIn(g)
      BY <2>2, <2>3, EndGameChainLinks
    <2> HIDE DEF g
    <2>5. g \in Heap /\ won \in Node
      BY <2>3, <2>4, NodeSets DEF WellLinked
    <2>6. state' = won /\ next' = g /\ character' = chars /\ seated' = seated
      BY <1>3, <2>1, <2>4, <2>5
    <2>7. RingInv'
      <3>1. state' \in LiveIn(next') /\ WellLinked(next', wins') /\ Closed(next')
        BY <2>1, <2>4, <2>6 DEF WellLinked
      <3>2. IsWon(state')
        BY <2>3, <2>5, <2>6, NodeKinds
      <3>3. GameOver(character)'
        BY <1>5, <2>6 DEF GameOver, NoMafia, NoVillagers
      <3>4. state'[1] = "Villagers_won_the_game" => NoMafia(character)'
        BY <2>3, <2>6 DEF Winner, NoMafia
      <3>5. fate' = "ok"
        BY <1>3, <2>1, <2>4, <2>5
      <3> QED BY <3>1, <3>2, <3>3, <3>4, <3>5 DEF RingInv
    <2> QED BY <1>2, <1>3, <2>1, <2>2, <2>4, <2>5, <2>7 DEF RingTypeOK
  <1> QED BY <1>4, <1>5

(* What the invariant says while the handlers work.                        *)
LEMMA WhileOk ==
  ASSUME IInv, fate = "ok"
  PROVE  /\ RingTypeOK /\ ChoicesTypeOK /\ PeopleTypeOK
         /\ state \in LiveIn(next) /\ state \in Node
         /\ next[state] \in LiveIn(next)
         /\ WellLinked(next, wins)
         /\ wins \in Nat
         /\ character \in [Position -> Character]
         /\ ~IsWon(state) => PlayLinks(next, state, before)
         /\ IsWon(state) => GameOver(character)
  BY MaxAnnouncementsAssumption
     DEF IInv, TypeOK, RingTypeOK, PeopleTypeOK, RingInv, WellLinked, Closed

(* The step to the voting: old ballots are deleted, then new ones built.   *)
LEMMA OpenVotingKeeps ==
  ASSUME IInv, OpenVoting
  PROVE  IInv'
  <1> DEFINE voting == Phase("Voting")
             g1 == DeletePreviousVotingChain(next)
             g2 == BuildVotingChain(g1, voting, Nominated)
  <1> USE NodeSets, NodesDiffer
  <1>1. fate = "ok" /\ next[state] = voting /\ Proceed(state, g2, character)
        /\ UNCHANGED choices
    BY DEF OpenVoting, CanCommand
  <1>2. state \notin Ballot /\ state # voting
    BY <1>1, WhileOk DEF WellLinked, BallotLinks, Judging, Hearing
  <1>3. Nominated \in SUBSET Targets
    BY DEF Nominated
  <1>4. /\ WellLinked(g1, wins)
        /\ LiveIn(g1) = LiveIn(next) \ Ballot
        /\ \A n \in LiveIn(g1) : next[n] \notin Ballot => g1[n] = next[n]
        /\ TurnsInOrder(next) => TurnsInOrder(g1)
    BY <1>1, WhileOk, DeletePreviousLinks
  <1> HIDE DEF g1
  <1>5. state \in LiveIn(g1) /\ g1[state] = voting
    BY <1>1, <1>2, <1>4, WhileOk
  <1>6. /\ WellLinked(g2, wins)
        /\ LiveIn(g2) \subseteq LiveIn(g1) \cup Ballot
        /\ LiveIn(g1) \subseteq LiveIn(g2)
        /\ \A n \in LiveIn(g1) : n # voting => g2[n] = g1[n]
        /\ TurnsInOrder(g1) => TurnsInOrder(g2)
    BY <1>1, <1>3, <1>4, WhileOk, VotingChainLinks
  <1> HIDE DEF g2
  <1>7. state \in LiveIn(g2) /\ g2[state] = voting
    BY <1>2, <1>5, <1>6
  <1>8. ~GameOver(character) => PlayLinks(g2, voting, before)
    <2> SUFFICES ASSUME ~GameOver(character)
                 PROVE  PlayLinks(g2, voting, before)
      OBVIOUS
    <2>1. PlayLinks(next, state, before)
      BY <1>1, WhileOk
    <2>2. state \notin MurderNode
      BY <1>1, <2>1 DEF PlayLinks, MurderLinks, MurderOf, MurderNode, Hearing,
                        WasMurdered, MurderedSpeech, Phase
    <2> QED BY <1>4, <1>6, <2>1, <2>2 DEF PlayLinks, MurderLinks, NoMurder
  <1>9. voting[1] # "Was_murdered_player"
    BY DEF Phase
  <1> HIDE DEF voting
  <1>10. RingTypeOK' /\ PeopleTypeOK' /\ fate' = "ok" /\ RingInv'
    BY <1>1, <1>6, <1>7, <1>8, <1>9, WhileOk, ProceedKeeps
  <1> QED BY <1>1, <1>10, WhileOk DEF IInv, TypeOK, ChoicesTypeOK, choices

(* The game moves on to the next node of the ring.                         *)
LEMMA PassKeeps ==
  ASSUME IInv, fate = "ok", state[1] # "Murdered_players_speech",
         Proceed(state, next, character)
  PROVE  RingTypeOK' /\ PeopleTypeOK' /\ fate' = "ok" /\ RingInv'
  <1> USE NodeSets, NodesDiffer
  <1>1. ASSUME ~GameOver(character)
        PROVE  PlayLinks(next, next[state],
                         IF next[state][1] = "Was_murdered_player" THEN state ELSE before)
    <2>1. PlayLinks(next, state, before)
      BY <1>1, WhileOk
    <2>2. CASE state \notin MurderNode
      <3>1. NoMurder(next) /\ next[state] \notin MurderNode
        BY <2>1, <2>2, WhileOk DEF PlayLinks, MurderLinks, NoMurder
      <3> DEFINE b == IF next[state][1] = "Was_murdered_player" THEN state ELSE before
      <3> HIDE DEF b
      <3>2. PlayLinks(next, next[state], b)
        BY <2>1, <3>1 DEF PlayLinks, MurderLinks
      <3> QED BY <3>2 DEF b
    <2>3. CASE state \in MurderNode
      <3>1. PICK p \in Targets : state = WasMurdered(p)
        BY <2>3 DEF MurderNode, MurderedSpeech
      <3>2. WasMurdered(p)[2] = p /\ MurderedSpeech(p)[2] = p
            /\ MurderedSpeech(p)[1] # "Was_murdered_player"
        BY DEF WasMurdered, MurderedSpeech
      <3>3. MurderOf(next, before, p) /\ next[state] = MurderedSpeech(p)
        BY <2>1, <2>3, <3>1, <3>2 DEF PlayLinks, MurderLinks, MurderOf
      <3> DEFINE m == MurderedSpeech(p)
      <3>4. m \in MurderNode
        BY DEF MurderNode
      <3>5. m[2] = p /\ m[1] # "Was_murdered_player"
        BY <3>2
      <3> HIDE DEF m
      <3>6. PlayLinks(next, m, before)
        BY <2>1, <3>3, <3>4, <3>5 DEF PlayLinks, MurderLinks
      <3> QED BY <3>3, <3>5, <3>6 DEF m
    <2> QED BY <2>2, <2>3
  <1> QED BY <1>1, WhileOk, ProceedKeeps

(* The chain of a murder is put after a ballot or the curing.              *)
LEMMA CondemnKeeps ==
  ASSUME IInv, fate = "ok", state \in Judging, next[state] \notin Ballot,
         NEW p \in Targets,
         Proceed(state, BuildMurderChain(next, state, p), character)
  PROVE  RingTypeOK' /\ PeopleTypeOK' /\ fate' = "ok" /\ RingInv'
  <1> USE NodeSets, NodesDiffer
  <1>1. state \notin MurderNode /\ ~IsWon(state)
    BY WhileOk, NodeKinds DEF Judging
  <1>2. PlayLinks(next, state, before) /\ NoMurder(next)
    BY <1>1, WhileOk DEF PlayLinks, MurderLinks
  <1> DEFINE g == BuildMurderChain(next, state, p)
  <1>3. /\ WellLinked(g, wins)
        /\ g[state] = WasMurdered(p)
        /\ MurderOf(g, state, p)
        /\ LiveIn(g) = LiveIn(next) \cup {WasMurdered(p), MurderedSpeech(p)}
        /\ TurnsInOrder(next) => TurnsInOrder(g)
    BY <1>2, WhileOk, MurderChainLinks
  <1> HIDE DEF g
  <1>4. /\ WasMurdered(p) \in MurderNode /\ MurderedSpeech(p) \in MurderNode
        /\ WasMurdered(p)[1] = "Was_murdered_player" /\ WasMurdered(p)[2] = p
    BY DEF MurderNode, WasMurdered
  <1>5. PlayLinks(g, g[state],
                  IF g[state][1] = "Was_murdered_player" THEN state ELSE before)
    BY <1>2, <1>3, <1>4 DEF PlayLinks, MurderLinks
  <1>6. state \in LiveIn(g)
    BY <1>3, WhileOk
  <1> QED BY <1>3, <1>5, <1>6, WhileOk, ProceedKeeps DEF g

(* The last ballot, with and without an accused player.                    *)
LEMMA CloseVotingKeeps ==
  ASSUME IInv, CloseVoting
  PROVE  IInv'
  <1> USE NodeSets, NodesDiffer
  <1>1. fate = "ok" /\ state \in Judging /\ next[state] \notin Ballot
        /\ state[1] # "Murdered_players_speech"
    BY WhileOk, NodeKinds DEF CloseVoting, CanCommand, Judging, IsBallot
  <1>2. RingTypeOK' /\ PeopleTypeOK' /\ fate' = "ok" /\ RingInv'
    <2>1. ASSUME NEW p \in Accused,
                 Proceed(state, BuildMurderChain(next, state, p), character)
          PROVE  RingTypeOK' /\ PeopleTypeOK' /\ fate' = "ok" /\ RingInv'
      <3>1. p \in Targets
        BY DEF Accused, Nominated
      <3> QED BY <1>1, <2>1, <3>1, CondemnKeeps
    <2> QED BY <1>1, <2>1, PassKeeps DEF CloseVoting
  <1>3. ChoicesTypeOK'
    BY <1>1, WhileOk DEF CloseVoting, ClearNominees, ChoicesTypeOK
  <1> QED BY <1>2, <1>3 DEF IInv, TypeOK

(* The end of the night, with and without a victim.                        *)
LEMMA LeaveDoctorKeeps ==
  ASSUME IInv, LeaveDoctor
  PROVE  IInv'
  <1> USE NodeSets, NodesDiffer
  <1>1. /\ fate = "ok" /\ state \in Judging /\ state = Phase("Doctor_curing")
        /\ state[1] # "Murdered_players_speech"
    BY WhileOk DEF LeaveDoctor, CanCommand, Judging, Phase
  <1>2. next[state] \notin Ballot
    <2>1. state \notin Ballot /\ state # Phase("Voting") /\ state \notin WonNode
      BY <1>1
    <2> QED BY <1>1, <2>1, WhileOk DEF WellLinked, BallotLinks
  <1>3. murdered >= 0 => murdered \in Targets
    BY <1>1, WhileOk DEF ChoicesTypeOK, Nobody, Disagreement
  <1>4. RingTypeOK' /\ PeopleTypeOK' /\ fate' = "ok" /\ RingInv'
    BY <1>1, <1>2, <1>3, PassKeeps, CondemnKeeps DEF LeaveDoctor
  <1>5. ChoicesTypeOK'
    BY <1>1, WhileOk DEF LeaveDoctor, ClearChoices, ChoicesTypeOK
  <1> QED BY <1>4, <1>5 DEF IInv, TypeOK

(* A step that leaves the ring as it is.                                   *)
LEMMA AdvanceKeeps ==
  ASSUME IInv, Advance
  PROVE  IInv'
  <1>1. fate = "ok" /\ RingTypeOK' /\ PeopleTypeOK' /\ fate' = "ok" /\ RingInv'
    BY PassKeeps DEF Advance, CanCommand
  <1> QED BY <1>1, WhileOk DEF Advance, IInv, TypeOK, ChoicesTypeOK, choices

(* The last speech ends: what the three branches have in common.           *)
LEMMA AfterSpeechLinks ==
  ASSUME IInv, fate = "ok", state[1] = "Murdered_players_speech"
  PROVE  /\ ~IsWon(state)
         /\ Victim \in Targets
         /\ WellLinked(AfterSpeech, wins)
         /\ TurnsInOrder(AfterSpeech)
         /\ LiveIn(AfterSpeech) \cap WonNode = {}
         /\ LiveIn(AfterSpeech) \cap MurderNode = {}
         /\ before \in LiveIn(AfterSpeech) \cap Judging
         /\ state = MurderedSpeech(Victim)
  <1> USE NodeSets, NodesDiffer
  <1>1. PICK p \in Targets : state = MurderedSpeech(p)
    BY WhileOk, NodeKinds
  <1>2. state \in MurderNode /\ state[2] = p /\ WasMurdered(p)[2] = p
    BY <1>1 DEF MurderNode, MurderedSpeech, WasMurdered
  <1>3. ~IsWon(state)
    BY <1>2, WhileOk, NodeKinds
  <1>4. PlayLinks(next, state, before) /\ MurderOf(next, before, p)
    BY <1>2, <1>3, WhileOk DEF PlayLinks, MurderLinks
  <1>5. Victim = p
    BY <1>2, <1>4 DEF Victim, MurderOf
  <1>6. /\ WellLinked(AfterSpeech, wins)
        /\ LiveIn(AfterSpeech) = LiveIn(next) \ MurderNode
        /\ before \in LiveIn(AfterSpeech)
        /\ TurnsInOrder(next) => TurnsInOrder(AfterSpeech)
    BY <1>1, <1>4, WhileOk, DeleteMurderLinks DEF AfterSpeech
  <1> QED BY <1>1, <1>3, <1>4, <1>5, <1>6 DEF PlayLinks, MurderOf

(* The turn the search finds is in the ring.                               *)
LEMMA TurnFoundIsLive ==
  ASSUME NEW h, NEW p, TurnsFound(h, p) # {}
  PROVE  /\ LeastOf(TurnsFound(h, p)) \in 1 .. MaxPlayers - 1
         /\ Speaking(LeastOf(TurnsFound(h, p))) \in LiveIn(h)
  <1>1. TurnsFound(h, p) \subseteq Nat
    BY MaxPlayersAssumption DEF TurnsFound
  <1>2. LeastOf(TurnsFound(h, p)) \in TurnsFound(h, p)
    BY <1>1, LeastOfIsLeast
  <1>3. \A q \in 1 .. MaxPlayers - 1 : Speaking(q) \in Node
    BY NodeSets DEF Turn
  <1> QED BY <1>2, <1>3 DEF TurnsFound, LiveIn

(* deleteMurderedPlayer, when the turn is found and the victim is there.   *)
LEMMA EndMurderedSpeechKeeps ==
  ASSUME IInv, EndMurderedSpeech
  PROVE  IInv'
  <1> USE NodeSets, NodesDiffer
  <1> DEFINE q == LeastOf(TurnsFound(AfterSpeech, Victim))
             chars == [character EXCEPT ![Victim] = "DEAD"]
  <1>1. /\ fate = "ok" /\ state[1] = "Murdered_players_speech"
        /\ TurnsFound(AfterSpeech, Victim) # {} /\ Victim \in seated
        /\ UNCHANGED choices
    BY DEF EndMurderedSpeech, CanCommand
  <1>2. PICK previous \in Node :
          /\ AfterSpeech[previous] = Speaking(q)
          /\ Proceed(before, DeleteTurn(AfterSpeech, previous, Speaking(q)), chars)
    BY DEF EndMurderedSpeech
  <1>3. q \in 1 .. MaxPlayers - 1 /\ Speaking(q) \in LiveIn(AfterSpeech)
    BY <1>1, TurnFoundIsLive
  <1> DEFINE g == DeleteTurn(AfterSpeech, previous, Speaking(q))
  <1>4. chars \in [Position -> Character]
    BY <1>1, WhileOk DEF PeopleTypeOK, Character
  <1> HIDE DEF q, chars
  <1>5. /\ WellLinked(g, wins)
        /\ TurnsInOrder(g)
        /\ LiveIn(g) = LiveIn(AfterSpeech) \ {Speaking(q), Finished(q)}
    BY <1>1, <1>2, <1>3, WhileOk, AfterSpeechLinks, DeleteTurnLinks
  <1>6. before \in LiveIn(g)
    <2>1. Speaking(q) \in Turn /\ Finished(q) \in Turn
      BY <1>3 DEF Turn
    <2>2. before \in LiveIn(AfterSpeech) \cap Judging
      BY <1>1, AfterSpeechLinks
    <2> QED BY <1>5, <2>1, <2>2 DEF Judging
  <1> HIDE DEF g
  <1>7. g[before] \in LiveIn(g) /\ g[before] \notin MurderNode
    BY <1>1, <1>5, <1>6, AfterSpeechLinks DEF WellLinked, Closed
  <1>8. PlayLinks(g, g[before],
                  IF g[before][1] = "Was_murdered_player" THEN before ELSE before)
    BY <1>1, <1>5, <1>7, AfterSpeechLinks DEF PlayLinks, MurderLinks, NoMurder
  <1>9. RingTypeOK' /\ PeopleTypeOK' /\ fate' = "ok" /\ RingInv'
    BY <1>1, <1>2, <1>4, <1>5, <1>6, <1>8, WhileOk, ProceedKeeps DEF g
  <1> QED BY <1>1, <1>9, WhileOk DEF IInv, TypeOK, ChoicesTypeOK, choices

(* Even a search that fails leaves a ring in which no pointer dangles.     *)
LEMMA SearchFailsKeeps ==
  ASSUME IInv, EndMurderedSpeechHangs \/ EndMurderedSpeechCrashes
  PROVE  IInv'
  <1> USE NodeSets, NodesDiffer
  <1>1. /\ fate = "ok" /\ state[1] = "Murdered_players_speech"
        /\ UNCHANGED <<before, wins, choices, people>>
        /\ state' = before
        /\ fate' \in {"hung", "crashed"}
    BY DEF EndMurderedSpeechHangs, EndMurderedSpeechCrashes, CanCommand
  <1>2. state' \in LiveIn(next') /\ WellLinked(next', wins)
    <2>1. CASE EndMurderedSpeechHangs
      BY <1>1, <2>1, AfterSpeechLinks DEF EndMurderedSpeechHangs
    <2>2. CASE EndMurderedSpeechCrashes
      <3> DEFINE q == LeastOf(TurnsFound(AfterSpeech, Victim))
      <3>1. TurnsFound(AfterSpeech, Victim) # {}
        BY <2>2 DEF EndMurderedSpeechCrashes
      <3>2. PICK previous \in Node :
              /\ AfterSpeech[previous] = Speaking(q)
              /\ next' = DeleteTurn(AfterSpeech, previous, Speaking(q))
        BY <2>2 DEF EndMurderedSpeechCrashes
      <3>3. q \in 1 .. MaxPlayers - 1 /\ Speaking(q) \in LiveIn(AfterSpeech)
        BY <3>1, TurnFoundIsLive
      <3> HIDE DEF q
      <3>4. /\ WellLinked(next', wins)
            /\ LiveIn(next') = LiveIn(AfterSpeech) \ {Speaking(q), Finished(q)}
        BY <1>1, <3>2, <3>3, WhileOk, AfterSpeechLinks, DeleteTurnLinks
      <3>5. Speaking(q) \in Turn /\ Finished(q) \in Turn
        BY <3>3 DEF Turn
      <3>6. before \in LiveIn(AfterSpeech) \cap Judging
        BY <1>1, AfterSpeechLinks
      <3> QED BY <1>1, <3>4, <3>5, <3>6 DEF Judging
    <2> QED BY <2>1, <2>2
  <1>3. state' \in Node /\ next' \in Heap
    BY <1>2 DEF WellLinked, LiveIn
  <1>4. RingInv'
    <2>1. ~IsWon(state')
      BY <1>1, <1>3, AfterSpeechLinks, NodeKinds DEF Judging
    <2>2. state'[1] # "Villagers_won_the_game"
      BY <2>1 DEF IsWon, WonKind
    <2> QED BY <1>1, <1>2, <2>1, <2>2 DEF RingInv, WellLinked
  <1>5. TypeOK'
    BY <1>1, <1>3, WhileOk DEF TypeOK, RingTypeOK, ChoicesTypeOK, PeopleTypeOK, choices, people
  <1> QED BY <1>4, <1>5 DEF IInv

(* A SELECT changes the choices only.                                      *)
LEMMA SelectKeeps ==
  ASSUME IInv, Select
  PROVE  IInv'
  <1>1. fate = "ok" /\ UNCHANGED <<ring, people, fate>>
    BY DEF Select, NominateForVoting, TryToMurderPlayer, CurePlayer, SetNumberOfVotes, CanCommand
  <1>2. ChoicesTypeOK'
    <2>1. ASSUME NEW t \in Targets,
                 NominateForVoting(t) \/ TryToMurderPlayer(t) \/ CurePlayer(t)
          PROVE  ChoicesTypeOK'
      BY <1>1, <2>1, WhileOk
         DEF NominateForVoting, TryToMurderPlayer, CurePlayer, ChoicesTypeOK
    <2>2. ASSUME NEW amount \in VoteCounts, SetNumberOfVotes(amount) PROVE ChoicesTypeOK'
      BY <1>1, <2>2, WhileOk DEF SetNumberOfVotes, ChoicesTypeOK
    <2> QED BY <2>1, <2>2 DEF Select
  <1>3. UNCHANGED <<RingTypeOK, PeopleTypeOK, RingInv>>
    BY <1>1 DEF ring, people, RingTypeOK, PeopleTypeOK, RingInv, GameOver, NoMafia, NoVillagers
  <1> QED BY <1>1, <1>2, <1>3, WhileOk DEF IInv, TypeOK

(* A departure cannot undo the end of the game.                            *)
LEMMA LeaveRoomKeeps ==
  ASSUME IInv, NEW p \in Position, LeaveRoom(p)
  PROVE  IInv'
  <1>1. /\ fate = "ok" /\ UNCHANGED <<ring, choices, screen, speakers, fate>>
        /\ seated' = seated \ {p}
        /\ character' = [character EXCEPT ![p] = "NOT_SPECIFIED"]
    BY DEF LeaveRoom
  <1>2. PeopleTypeOK'
    BY <1>1, WhileOk DEF PeopleTypeOK, Character
  <1>3. \A x \in seated' : x \in seated /\ character'[x] = character[x]
    BY <1>1, WhileOk DEF PeopleTypeOK
  <1>4. /\ NoMafia(character) => NoMafia(character)'
        /\ GameOver(character) => GameOver(character)'
    BY <1>3 DEF GameOver, NoMafia, NoVillagers
  <1>5. UNCHANGED <<RingTypeOK, ChoicesTypeOK>>
    BY <1>1 DEF ring, choices, RingTypeOK, ChoicesTypeOK
  <1>6. RingInv'
    BY <1>1, <1>4, WhileOk DEF ring, RingInv, IInv
  <1> QED BY <1>1, <1>2, <1>5, <1>6, WhileOk DEF IInv, TypeOK

(* The ring a game starts with.                                            *)
LEMMA InitIInv ==
  ASSUME Init
  PROVE  IInv
  <1>1. /\ RingTypeOK /\ RingInv
    <2>1. state = Phase("City_wakes_up") /\ next = BuildStateChain /\ wins = 0
          /\ before = null
      BY DEF Init
    <2>2. Phase("City_wakes_up") \in Node /\ ~IsWon(Phase("City_wakes_up"))
          /\ Phase("City_wakes_up")[1] # "Villagers_won_the_game"
      BY NodeSets DEF PhaseKind, IsWon, Phase, WonKind
    <2>3. WellLinked(next, 0) /\ PlayLinks(next, state, null) /\ state \in LiveIn(next)
      BY <2>1, StateChainLinks
    <2> QED BY <2>1, <2>2, <2>3, MaxAnnouncementsAssumption
            DEF RingTypeOK, RingInv, WellLinked
  <1>2. ChoicesTypeOK
    BY DEF Init, ChoicesTypeOK
  <1>3. PeopleTypeOK
    <2>1. character \in [Position -> Character]
      BY DealsAssumption DEF Init, IsDeal, Character
    <2>2. speakers \subseteq Position
      BY MaxPlayersAssumption DEF Init, Position
    <2> QED BY <2>1, <2>2 DEF Init, PeopleTypeOK, Screen
  <1> QED BY <1>1, <1>2, <1>3 DEF IInv, TypeOK, Init

(* Every step keeps the invariant.                                         *)
LEMMA NextIInv ==
  ASSUME IInv, [Next]_vars
  PROVE  IInv'
  <1>1. CASE GoToNextState
    BY <1>1, OpenVotingKeeps, CloseVotingKeeps, LeaveDoctorKeeps, EndMurderedSpeechKeeps,
       SearchFailsKeeps, AdvanceKeeps DEF GoToNextState
  <1>2. CASE Select
    BY <1>2, SelectKeeps
  <1>3. CASE \E p \in Position : LeaveRoom(p)
    BY <1>3, LeaveRoomKeeps
  <1>4. CASE UNCHANGED vars
    BY <1>4 DEF vars, ring, choices, people, IInv, TypeOK, RingTypeOK, ChoicesTypeOK,
                PeopleTypeOK, RingInv, GameOver, NoMafia, NoVillagers
  <1> QED BY <1>1, <1>2, <1>3, <1>4 DEF Next

-----------------------------------------------------------------------------
(* The theorems.                                                           *)

(* IInv is an invariant of the room: in every reachable state the links of *)
(* the ring are the ones the builders and the deletions of room_state.cpp  *)
(* and room.cpp leave, for every number of players and all targets.        *)
THEOREM Inductive == Spec => []IInv
  BY InitIInv, NextIInv, PTL DEF Spec

(* Every variable keeps its type.                                          *)
THEOREM TypeCorrect == Spec => []TypeOK
  <1>1. IInv => TypeOK
    BY DEF IInv
  <1> QED BY <1>1, Inductive, PTL

(* The current state is allocated and no `next' pointer dangles, even when *)
(* a handler hangs or crashes in the middle of deleteMurderedPlayer.       *)
THEOREM NoDanglingPointer == Spec => [](state \in Live /\ Closed(next))
  <1>1. IInv => state \in Live /\ Closed(next)
    BY DEF IInv, RingInv, Live, LiveIn
  <1> QED BY <1>1, Inductive, PTL

(* beforeAssasiation_ leads to the victim whenever deleteMurderedPlayer    *)
(* may come to read it.                                                    *)
THEOREM BeforeIsRight == Spec => []BeforeLeadsToVictim
  <1>1. ASSUME IInv PROVE BeforeLeadsToVictim
    <2> SUFFICES ASSUME fate = "ok",
                        state[1] \in {"Was_murdered_player", "Murdered_players_speech"}
                 PROVE  /\ before \in Live
                        /\ next[before] = WasMurdered(state[2])
                        /\ next[WasMurdered(state[2])] = MurderedSpeech(state[2])
      BY DEF BeforeLeadsToVictim
    <2>1. state \in MurderNode
      BY <1>1, WhileOk, NodeKinds DEF MurderNode
    <2>2. ~IsWon(state)
      BY <2>1, <1>1, WhileOk, NodeKinds, NodesDiffer
    <2> QED BY <1>1, <2>1, <2>2, WhileOk
            DEF PlayLinks, MurderLinks, MurderOf, Live, LiveIn
  <1> QED BY <1>1, Inductive, PTL

(* A game is announced as won only if a faction has no member left.        *)
THEOREM VictoryIsReal == Spec => []WonOnlyIfOver
  <1>1. ASSUME IInv PROVE WonOnlyIfOver
    BY <1>1 DEF WonOnlyIfOver, IInv, RingInv, GameOver, NoMafia, NoVillagers, Members, Alive
  <1> QED BY <1>1, Inductive, PTL

(* The end of the game is final: NEXT leads to another end-of-game node    *)
(* only, and the winner may change only because the mafia has left.        *)
THEOREM Victory == Spec => VictoryIsFinal
  <1> DEFINE Final == IsWon(state) =>
                        /\ IsWon(state')
                        /\ state'[1] # state[1] =>
                             state[1] = "Mafia_won_the_game" /\ NoMafia(character)
  <1>1. ASSUME IInv, [Next]_vars PROVE [Final]_vars
    <2> SUFFICES ASSUME IsWon(state) PROVE Final
      OBVIOUS
    <2>1. /\ fate = "ok" /\ state[1] \in WonKind
          /\ GameOver(character)
          /\ state[1] = "Villagers_won_the_game" => NoMafia(character)
      BY <1>1 DEF IInv, RingInv, IsWon
    <2>2. ASSUME NEW heap, WellLinked(heap, wins), state \in LiveIn(heap),
                 Proceed(state, heap, character)
          PROVE  Final
      <3> DEFINE won == WonTheGame(Winner(character), wins + 1)
      <3>1. /\ state' = BuildEndGameChain(heap, state, won)[state]
            /\ wins < MaxAnnouncements
        BY <2>1, <2>2 DEF Proceed, Enter
      <3>2. wins \in Nat /\ wins + 1 \in 1 .. MaxAnnouncements
        BY <1>1, <2>1, <3>1, WhileOk, MaxAnnouncementsAssumption
      <3>3. won \in WonNode /\ won[2] = wins + 1 /\ won[1] = Winner(character)
        BY <3>2 DEF WonNode, WonTheGame, Winner, WonKind
      <3> HIDE DEF won
      <3>4. state' = won
        BY <2>2, <3>1, <3>2, <3>3, EndGameChainLinks
      <3>5. IsWon(state')
        BY <3>3, <3>4, NodeSets, NodeKinds
      <3>6. state'[1] # state[1] => state[1] = "Mafia_won_the_game" /\ NoMafia(character)
        BY <2>1, <3>3, <3>4 DEF Winner, WonKind
      <3> QED BY <3>5, <3>6
    <2>3. CASE UNCHANGED state
      BY <2>3
    <2>4. CASE OpenVoting
      <3> DEFINE g1 == DeletePreviousVotingChain(next)
                 g2 == BuildVotingChain(g1, Phase("Voting"), Nominated)
      <3>1. state \notin Ballot
        BY <1>1, <2>1, WhileOk, NodeKinds, NodesDiffer
      <3>2. /\ WellLinked(g1, wins)
            /\ LiveIn(g1) = LiveIn(next) \ Ballot
        BY <1>1, <2>1, WhileOk, DeletePreviousLinks
      <3> HIDE DEF g1
      <3>3. WellLinked(g2, wins) /\ LiveIn(g1) \subseteq LiveIn(g2)
        <4>1. LiveIn(g1) \cap Ballot = {} /\ Nominated \in SUBSET Targets
          BY <3>2 DEF Nominated
        <4> QED BY <1>1, <2>1, <3>2, <4>1, WhileOk, VotingChainLinks
      <3>4. Proceed(state, g2, character)
        BY <2>4 DEF OpenVoting, g1
      <3> HIDE DEF g2
      <3> QED BY <1>1, <2>1, <2>2, <3>1, <3>2, <3>3, <3>4, WhileOk
    <2>5. CASE Advance
      BY <1>1, <2>1, <2>2, <2>5, WhileOk DEF Advance
    <2>6. CASE CloseVoting \/ LeaveDoctor \/ EndMurderedSpeech
               \/ EndMurderedSpeechHangs \/ EndMurderedSpeechCrashes
      <3>1. state[1] \in {"Voting_against_player", "Doctor_curing", "Murdered_players_speech"}
        BY <2>6 DEF CloseVoting, LeaveDoctor, EndMurderedSpeech, EndMurderedSpeechHangs,
                    EndMurderedSpeechCrashes, IsBallot, Phase
      <3> QED BY <2>1, <3>1 DEF WonKind
    <2>7. CASE Select \/ \E p \in Position : LeaveRoom(p)
      <3>1. UNCHANGED ring
        BY <2>7 DEF Select, LeaveRoom, NominateForVoting, TryToMurderPlayer, CurePlayer,
                    SetNumberOfVotes
      <3> QED BY <2>3, <3>1 DEF ring
    <2> QED BY <1>1, <2>3, <2>4, <2>5, <2>6, <2>7 DEF Next, GoToNextState, vars, ring
  <1> QED BY <1>1, Inductive, PTL DEF Spec, VictoryIsFinal

(* Only the player whose last speech just ended becomes DEAD, however the  *)
(* positions were searched for in the names of the states.                 *)
THEOREM Deaths == Spec => DeathIsAnnounced
  <1> DEFINE Announced == \A p \in Position :
                            character[p] # "DEAD" /\ character'[p] = "DEAD"
                              => state = MurderedSpeech(p)
  <1>1. ASSUME IInv, [Next]_vars PROVE [Announced]_vars
    <2>1. CASE UNCHANGED character
      BY <2>1
    <2>2. CASE EndMurderedSpeech
      <3>1. fate = "ok" /\ state[1] = "Murdered_players_speech"
        BY <2>2 DEF EndMurderedSpeech, CanCommand
      <3>2. character' = [character EXCEPT ![Victim] = "DEAD"]
        BY <2>2 DEF EndMurderedSpeech, Proceed, Enter
      <3>3. state = MurderedSpeech(Victim)
        BY <1>1, <3>1, AfterSpeechLinks
      <3>4. \A p \in Position : p # Victim => character'[p] = character[p]
        BY <1>1, <3>1, <3>2, WhileOk
      <3> QED BY <3>3, <3>4
    <2>3. ASSUME NEW p \in Position, LeaveRoom(p) PROVE Announced
      <3>1. fate = "ok" /\ character' = [character EXCEPT ![p] = "NOT_SPECIFIED"]
        BY <2>3 DEF LeaveRoom
      <3>2. \A q \in Position : character'[q] \in {character[q], "NOT_SPECIFIED"}
        BY <1>1, <3>1, WhileOk
      <3> QED BY <3>2
    <2>4. CASE OpenVoting \/ CloseVoting \/ LeaveDoctor \/ EndMurderedSpeechHangs
               \/ EndMurderedSpeechCrashes \/ Advance \/ Select
      <3>1. UNCHANGED character
        BY <2>4 DEF OpenVoting, CloseVoting, LeaveDoctor, EndMurderedSpeechHangs, people,
                    EndMurderedSpeechCrashes, Advance, Select, NominateForVoting, Enter,
                    TryToMurderPlayer, CurePlayer, SetNumberOfVotes, Proceed
      <3> QED BY <2>1, <3>1
    <2> HIDE DEF Announced
    <2> QED BY <1>1, <2>2, <2>3, <2>4 DEF Next, GoToNextState
  <1> QED BY <1>1, Inductive, PTL DEF Spec, DeathIsAnnounced

-----------------------------------------------------------------------------
(* The turns of the ring and the living players.                           *)

SameTurns(h, g) ==
  \A q \in 1 .. MaxPlayers - 1 : Speaking(q) \in LiveIn(g) <=> Speaking(q) \in LiveIn(h)

(* Moving on adds and deletes no turn.                                     *)
LEMMA ProceedTurns ==
  ASSUME NEW heap, NEW from \in LiveIn(heap), NEW chars, wins \in Nat,
         WellLinked(heap, wins), Proceed(from, heap, chars)
  PROVE  SameTurns(heap, next') /\ character' = chars /\ seated' = seated
  <1>1. CASE ~GameOver(chars)
    BY <1>1 DEF Proceed, Enter, SameTurns
  <1>2. CASE GameOver(chars)
    <2> DEFINE won == WonTheGame(Winner(chars), wins + 1)
    <2>1. /\ next' = BuildEndGameChain(heap, from, won)
          /\ character' = chars /\ seated' = seated
          /\ wins < MaxAnnouncements
      BY <1>2 DEF Proceed, Enter
    <2>2. won \in WonNode /\ won[2] = wins + 1
      BY <2>1, MaxAnnouncementsAssumption DEF WonNode, WonTheGame, Winner, WonKind
    <2> HIDE DEF won
    <2>3. LiveIn(next') = LiveIn(heap) \cup {won}
      BY <2>1, <2>2, EndGameChainLinks
    <2>4. \A q \in 1 .. MaxPlayers - 1 : Speaking(q) # won
      BY <2>2, NodesDiffer DEF Turn
    <2> QED BY <2>1, <2>3, <2>4 DEF SameTurns
  <1> QED BY <1>1, <1>2

(* A step that keeps the turns, the players and the dead keeps the match.  *)
LEMMA SameTurnsMatch ==
  ASSUME TurnsAreLiving, fate = "ok", SameTurns(next, next'),
         seated' \subseteq seated, seated \subseteq Position,
         \A q \in seated' : character'[q] = character[q]
  PROVE  TurnsAreLiving'
  <1>1. \A q \in Position \ {0} : q \in 1 .. MaxPlayers - 1 /\ Speaking(q) \in Node
    BY MaxPlayersAssumption, NodeSets DEF Position, Turn
  <1>2. \A q \in seated \ {0} : Speaking(q) \in LiveIn(next) <=> character[q] # "DEAD"
    BY <1>1 DEF TurnsAreLiving, LiveIn
  <1>3. \A q \in seated' \ {0} : Speaking(q) \in LiveIn(next') <=> character'[q] # "DEAD"
    BY <1>1, <1>2 DEF SameTurns
  <1> QED BY <1>1, <1>3 DEF TurnsAreLiving, LiveIn

(* The turn that deleteMurderedPlayer finds and deletes.                   *)
TurnGone == LeastOf(TurnsFound(AfterSpeech, Victim))

(* It is the victim's when positions have one digit.                       *)
LEMMA VictimsTurn ==
  ASSUME NEW h, NEW p \in Targets, TurnsFound(h, p) # {}, MaxPlayers <= 10
  PROVE  LeastOf(TurnsFound(h, p)) = p
  <1>1. \A q \in 1 .. MaxPlayers - 1 : NameContains(p, q) => q = p
    <2>1. \A q \in 1 .. MaxPlayers - 1 : q \div 10 = 0
      BY MaxPlayersAssumption
    <2> QED BY <2>1, TargetsAssumption DEF NameContains
  <1>2. TurnsFound(h, p) \subseteq Nat
    BY MaxPlayersAssumption DEF TurnsFound
  <1>3. LeastOf(TurnsFound(h, p)) \in TurnsFound(h, p)
    BY <1>2, LeastOfIsLeast
  <1> QED BY <1>1, <1>3 DEF TurnsFound

(* Every step keeps the match of turns and living players, if the end of a *)
(* last speech finds the turn of the victim.                               *)
LEMMA NextTurns ==
  ASSUME IInv, TurnsAreLiving, [Next]_vars, EndMurderedSpeech => TurnGone = Victim
  PROVE  TurnsAreLiving'
  <1> USE NodeSets, NodesDiffer
  <1>1. CASE fate # "ok"
    BY <1>1 DEF Next, GoToNextState, OpenVoting, CloseVoting, LeaveDoctor, EndMurderedSpeech,
                EndMurderedSpeechHangs, EndMurderedSpeechCrashes, Advance, CanCommand, Select,
                NominateForVoting, TryToMurderPlayer, CurePlayer, SetNumberOfVotes, LeaveRoom,
                vars, TurnsAreLiving
  <1>2. CASE fate' # "ok"
    BY <1>2 DEF TurnsAreLiving
  <1> SUFFICES ASSUME fate = "ok", fate' = "ok"
               PROVE  TurnsAreLiving'
    BY <1>1, <1>2
  <1>3. seated \subseteq Position /\ character \in [Position -> Character]
    BY WhileOk DEF PeopleTypeOK
  <1>4. ASSUME NEW heap, NEW from \in LiveIn(heap), WellLinked(heap, wins),
               SameTurns(next, heap), Proceed(from, heap, character)
        PROVE  TurnsAreLiving'
    <2>1. SameTurns(heap, next') /\ character' = character /\ seated' = seated
      BY <1>4, WhileOk, ProceedTurns
    <2>2. SameTurns(next, next')
      BY <1>4, <2>1 DEF SameTurns
    <2> QED BY <1>3, <2>1, <2>2, SameTurnsMatch
  <1>5. CASE OpenVoting
    <2> DEFINE g1 == DeletePreviousVotingChain(next)
               g2 == BuildVotingChain(g1, Phase("Voting"), Nominated)
    <2>1. next[state] = Phase("Voting") /\ Proceed(state, g2, character)
      BY <1>5 DEF OpenVoting
    <2>2. state \notin Ballot
      BY <2>1, WhileOk DEF WellLinked, BallotLinks, Judging, Hearing
    <2>3. WellLinked(g1, wins) /\ LiveIn(g1) = LiveIn(next) \ Ballot
      BY WhileOk, DeletePreviousLinks
    <2> HIDE DEF g1
    <2>4. /\ WellLinked(g2, wins)
          /\ LiveIn(g2) \subseteq LiveIn(g1) \cup Ballot
          /\ LiveIn(g1) \subseteq LiveIn(g2)
      <3>1. LiveIn(g1) \cap Ballot = {} /\ Nominated \in SUBSET Targets
        BY <2>3 DEF Nominated
      <3> QED BY <2>3, <3>1, WhileOk, VotingChainLinks
    <2> HIDE DEF g2
    <2>5. \A q \in 1 .. MaxPlayers - 1 : Speaking(q) \notin Ballot
      BY DEF Turn
    <2>6. SameTurns(next, g2) /\ state \in LiveIn(g2)
      BY <2>2, <2>3, <2>4, <2>5, WhileOk DEF SameTurns
    <2> QED BY <1>4, <2>1, <2>4, <2>6
  <1>6. ASSUME Proceed(state, next, character) PROVE TurnsAreLiving'
    <2>1. SameTurns(next, next)
      BY DEF SameTurns
    <2> QED BY <1>4, <1>6, <2>1, WhileOk
  <1>7. ASSUME NEW p \in Targets, state \in Judging, next[state] \notin Ballot,
               Proceed(state, BuildMurderChain(next, state, p), character)
        PROVE  TurnsAreLiving'
    <2> DEFINE g == BuildMurderChain(next, state, p)
    <2>1. state \notin MurderNode /\ ~IsWon(state)
      BY <1>7, WhileOk, NodeKinds DEF Judging
    <2>2. NoMurder(next)
      BY <2>1, WhileOk DEF PlayLinks, MurderLinks
    <2>3. /\ WellLinked(g, wins)
          /\ LiveIn(g) = LiveIn(next) \cup {WasMurdered(p), MurderedSpeech(p)}
      BY <1>7, <2>2, WhileOk, MurderChainLinks
    <2> HIDE DEF g
    <2>4. \A q \in 1 .. MaxPlayers - 1 : Speaking(q) \notin {WasMurdered(p), MurderedSpeech(p)}
      BY DEF Speaking, WasMurdered, MurderedSpeech
    <2>5. SameTurns(next, g) /\ state \in LiveIn(g)
      BY <2>3, <2>4, WhileOk DEF SameTurns
    <2> QED BY <1>4, <1>7, <2>3, <2>5 DEF g
  <1>8. CASE CloseVoting
    <2>1. state \in Judging /\ next[state] \notin Ballot
      BY <1>8, WhileOk, NodeKinds DEF CloseVoting, Judging, IsBallot
    <2>2. \A p \in Accused : p \in Targets
      BY DEF Accused, Nominated
    <2> QED BY <1>6, <1>7, <1>8, <2>1, <2>2 DEF CloseVoting
  <1>9. CASE LeaveDoctor
    <2>1. state \in Judging /\ state \notin Ballot \cup WonNode /\ state # Phase("Voting")
      BY <1>9 DEF LeaveDoctor, Judging
    <2>2. next[state] \notin Ballot
      BY <2>1, WhileOk DEF WellLinked, BallotLinks
    <2>3. murdered >= 0 => murdered \in Targets
      BY WhileOk DEF ChoicesTypeOK, Nobody, Disagreement
    <2> QED BY <1>6, <1>7, <1>9, <2>1, <2>2, <2>3 DEF LeaveDoctor
  <1>10. CASE Advance
    BY <1>6, <1>10 DEF Advance
  <1>11. CASE EndMurderedSpeech
    <2> DEFINE q == LeastOf(TurnsFound(AfterSpeech, Victim))
               chars == [character EXCEPT ![Victim] = "DEAD"]
    <2>1. /\ state[1] = "Murdered_players_speech"
          /\ TurnsFound(AfterSpeech, Victim) # {}
          /\ Victim \in seated
      BY <1>11 DEF EndMurderedSpeech
    <2>2. PICK previous \in Node :
            /\ AfterSpeech[previous] = Speaking(q)
            /\ Proceed(before, DeleteTurn(AfterSpeech, previous, Speaking(q)), chars)
      BY <1>11 DEF EndMurderedSpeech
    <2> DEFINE g == DeleteTurn(AfterSpeech, previous, Speaking(q))
    <2>3. q = Victim
      BY <1>11 DEF TurnGone
    <2>4. q \in 1 .. MaxPlayers - 1 /\ Speaking(q) \in LiveIn(AfterSpeech)
      BY <2>1, TurnFoundIsLive
    <2> HIDE DEF q, chars
    <2>5. /\ WellLinked(g, wins)
          /\ LiveIn(g) = LiveIn(AfterSpeech) \ {Speaking(q), Finished(q)}
      BY <2>1, <2>2, <2>4, WhileOk, AfterSpeechLinks, DeleteTurnLinks
    <2> HIDE DEF g
    <2>6. \A r \in 1 .. MaxPlayers - 1 : Speaking(r) \in LiveIn(AfterSpeech)
                                           <=> Speaking(r) \in LiveIn(next)
      <3>1. /\ WasMurdered(Victim) \in MurderNode /\ state = MurderedSpeech(Victim)
            /\ MurderedSpeech(Victim) \in MurderNode
        BY <2>1, AfterSpeechLinks DEF MurderNode
      <3>2. PlayLinks(next, state, before) /\ state[2] = Victim
        BY <2>1, <3>1, WhileOk, AfterSpeechLinks DEF MurderedSpeech
      <3>3. MurderOf(next, before, Victim)
        BY <3>1, <3>2 DEF PlayLinks, MurderLinks
      <3>4. LiveIn(AfterSpeech) = LiveIn(next) \ MurderNode
        BY <3>1, <3>3, WhileOk, DeleteMurderLinks DEF AfterSpeech
      <3>5. \A r \in 1 .. MaxPlayers - 1 : Speaking(r) \notin MurderNode
        BY DEF Turn
      <3> QED BY <3>4, <3>5
    <2>7. before \in LiveIn(g)
      <3>1. Speaking(q) \in Turn /\ Finished(q) \in Turn
        BY <2>4 DEF Turn
      <3>2. before \in LiveIn(AfterSpeech) \cap Judging
        BY <2>1, AfterSpeechLinks
      <3> QED BY <2>5, <3>1, <3>2 DEF Judging
    <2>8. SameTurns(g, next') /\ character' = chars /\ seated' = seated
      BY <2>2, <2>5, <2>7, WhileOk, ProceedTurns DEF g
    <2>9. \A r \in 1 .. MaxPlayers - 1 : Speaking(r) # Finished(q)
                                         /\ (Speaking(r) = Speaking(q) <=> r = q)
      BY DEF Speaking, Finished
    <2>10. \A r \in 1 .. MaxPlayers - 1 :
             Speaking(r) \in LiveIn(next') <=> Speaking(r) \in LiveIn(next) /\ r # q
      BY <2>5, <2>6, <2>8, <2>9 DEF SameTurns
    <2>11. /\ character'[q] = "DEAD"
           /\ \A r \in Position : r # q => character'[r] = character[r]
      BY <1>3, <2>1, <2>3, <2>8 DEF chars
    <2>12. \A r \in Position \ {0} : r \in 1 .. MaxPlayers - 1 /\ Speaking(r) \in Node
      BY MaxPlayersAssumption DEF Position, Turn
    <2>13. \A r \in seated \ {0} : Speaking(r) \in LiveIn(next) <=> character[r] # "DEAD"
      BY <1>3, <2>12 DEF TurnsAreLiving, LiveIn
    <2>14. \A r \in seated \ {0} : Speaking(r) \in LiveIn(next') <=> character'[r] # "DEAD"
      BY <1>3, <2>10, <2>11, <2>12, <2>13
    <2> QED BY <1>3, <2>8, <2>12, <2>14 DEF TurnsAreLiving, LiveIn
  <1>12. CASE EndMurderedSpeechHangs \/ EndMurderedSpeechCrashes
    BY <1>12 DEF EndMurderedSpeechHangs, EndMurderedSpeechCrashes
  <1>13. CASE Select \/ UNCHANGED vars
    <2>1. UNCHANGED <<next, seated, character, fate>>
      BY <1>13 DEF Select, NominateForVoting, TryToMurderPlayer, CurePlayer, SetNumberOfVotes,
                   vars, ring, people
    <2> QED BY <2>1 DEF TurnsAreLiving
  <1>14. ASSUME NEW p \in Position, LeaveRoom(p) PROVE TurnsAreLiving'
    <2>1. /\ next' = next /\ seated' = seated \ {p}
          /\ character' = [character EXCEPT ![p] = "NOT_SPECIFIED"]
      BY <1>14 DEF LeaveRoom, ring
    <2>2. SameTurns(next, next')
      BY <2>1 DEF SameTurns
    <2>3. \A q \in seated' : character'[q] = character[q]
      BY <1>3, <2>1
    <2> QED BY <1>3, <2>1, <2>2, <2>3, SameTurnsMatch
  <1> QED BY <1>5, <1>8, <1>9, <1>10, <1>11, <1>12, <1>13, <1>14 DEF Next, GoToNextState

(* When the game starts everybody has a turn but the moderator.            *)
LEMMA InitTurns == ASSUME Init PROVE TurnsAreLiving
  <1> SUFFICES ASSUME NEW q \in Position \ {0}
               PROVE  next[Speaking(q)] # null /\ character[q] # "DEAD"
    BY DEF Init, TurnsAreLiving
  <1>1. q \in 1 .. MaxPlayers - 1 /\ Speaking(q) \in Node
    BY MaxPlayersAssumption, NodeSets DEF Position, Turn
  <1>2. next[Speaking(q)] = Finished(q)
    BY <1>1 DEF Init, BuildStateChain, Speaking, Phase
  <1>3. character[q] # "DEAD"
    BY DealsAssumption DEF Init, IsDeal, Role
  <1> QED BY <1>2, <1>3 DEF Finished, null

-----------------------------------------------------------------------------
(* The microphones.                                                        *)

(* While the game goes on, Proceed moves along a pointer of the new heap   *)
(* and hands the microphone over.                                          *)
LEMMA ProceedLeads ==
  ASSUME NEW heap, DOMAIN heap = Node, NEW from \in Node, NEW chars, wins \in Nat,
         IsWon(from) => from[2] <= wins,
         Proceed(from, heap, chars), ~IsWon(state')
  PROVE  /\ ~GameOver(chars)
         /\ next' = heap
         /\ state' = next'[from]
         /\ speakers' = HandOver(state, state')
         /\ character' = chars
  <1>1. ASSUME GameOver(chars) PROVE FALSE
    <2> DEFINE won == WonTheGame(Winner(chars), wins + 1)
    <2>1. state' = BuildEndGameChain(heap, from, won)[from]
      BY <1>1 DEF Proceed, Enter
    <2>2. won[1] \in WonKind /\ won[2] = wins + 1
      BY DEF WonTheGame, Winner, WonKind
    <2>3. won # from
      BY <2>2 DEF IsWon
    <2> HIDE DEF won
    <2>4. BuildEndGameChain(heap, from, won)[from] = won
      BY <2>3 DEF BuildEndGameChain
    <2> QED BY <2>1, <2>2, <2>4 DEF IsWon
  <1> QED BY <1>1 DEF Proceed, Enter

(* NEXT moves along a pointer of the new ring: from the current state, or  *)
(* from the one before the murder when the last speech is over.            *)
LEMMA MovesAlong ==
  ASSUME IInv, GoToNextState, fate' = "ok", ~IsWon(state')
  PROVE  /\ fate = "ok" /\ ~IsWon(state)
         /\ speakers' = HandOver(state, state')
         /\ \/ state[1] # "Murdered_players_speech" /\ state' = next'[state]
            \/ /\ state[1] = "Murdered_players_speech"
               /\ before \in Node \cap Judging
               /\ state' = next'[before]
  <1> DEFINE Goal == /\ ~IsWon(state)
                     /\ speakers' = HandOver(state, state')
                     /\ state[1] # "Murdered_players_speech"
                     /\ state' = next'[state]
  <1>1. fate = "ok"
    BY DEF GoToNextState, OpenVoting, CloseVoting, LeaveDoctor, EndMurderedSpeech,
           EndMurderedSpeechHangs, EndMurderedSpeechCrashes, Advance, CanCommand
  <1>2. state \in Node /\ wins \in Nat /\ DOMAIN next = Node
    BY <1>1, WhileOk DEF WellLinked, Heap
  <1>3. IsWon(state) => state[2] <= wins
    BY <1>1, WhileOk, NodeKinds DEF WellLinked, WonNumbered
  <1>4. ASSUME NEW heap, DOMAIN heap = Node, Proceed(state, heap, character),
               state[1] # "Murdered_players_speech"
        PROVE  Goal
    <2>1. /\ ~GameOver(character)
          /\ state' = next'[state]
          /\ speakers' = HandOver(state, state')
      BY <1>2, <1>3, <1>4, ProceedLeads
    <2>2. ~IsWon(state)
      BY <1>1, <2>1, WhileOk
    <2> QED BY <1>4, <2>1, <2>2
  <1>5. CASE EndMurderedSpeech
    <2> DEFINE turn == Speaking(LeastOf(TurnsFound(AfterSpeech, Victim)))
               chars == [character EXCEPT ![Victim] = "DEAD"]
    <2>1. /\ state[1] = "Murdered_players_speech"
          /\ \E previous \in Node :
               Proceed(before, DeleteTurn(AfterSpeech, previous, turn), chars)
      BY <1>5 DEF EndMurderedSpeech
    <2>2. /\ ~IsWon(state)
          /\ before \in LiveIn(AfterSpeech) \cap Judging
      BY <1>1, <2>1, AfterSpeechLinks
    <2>3. before \in Node /\ ~IsWon(before)
      BY <2>2, NodeSets, NodeKinds, NodesDiffer DEF LiveIn, Judging
    <2>4. PICK previous \in Node :
            Proceed(before, DeleteTurn(AfterSpeech, previous, turn), chars)
      BY <2>1
    <2>5. DOMAIN DeleteTurn(AfterSpeech, previous, turn) = Node
      BY <1>2 DEF DeleteTurn, AfterSpeech, DeleteMurderChain
    <2> HIDE DEF turn, chars
    <2>6. state' = next'[before] /\ speakers' = HandOver(state, state')
      BY <1>2, <2>3, <2>4, <2>5, ProceedLeads
    <2> QED BY <1>1, <2>1, <2>2, <2>3, <2>6
  <1>6. CASE OpenVoting
    <2> DEFINE g1 == DeletePreviousVotingChain(next)
               g2 == BuildVotingChain(g1, Phase("Voting"), Nominated)
    <2>1. Proceed(state, g2, character) /\ next[state] = Phase("Voting")
      BY <1>6 DEF OpenVoting
    <2>2. DOMAIN g2 = Node
      BY DEF BuildVotingChain
    <2>3. state[1] # "Murdered_players_speech"
      <3>1. SUFFICES ASSUME state[1] = "Murdered_players_speech" PROVE FALSE
        OBVIOUS
      <3>2. state \in MurderNode /\ ~IsWon(state)
        BY <1>1, <1>2, <3>1, NodeKinds, AfterSpeechLinks DEF MurderNode
      <3>3. MurderOf(next, before, state[2])
        BY <1>1, <3>2, WhileOk DEF PlayLinks, MurderLinks
      <3>4. state = MurderedSpeech(state[2])
        BY <1>2, <3>1, NodeKinds DEF MurderedSpeech
      <3> QED BY <2>1, <3>3, <3>4 DEF MurderOf, Hearing
    <2> HIDE DEF g2
    <2> QED BY <1>1, <1>4, <2>1, <2>2, <2>3
  <1>7. CASE CloseVoting
    <2>1. PICK heap : /\ Proceed(state, heap, character)
                      /\ heap = next \/ \E p \in Accused : heap = BuildMurderChain(next, state, p)
      BY <1>7 DEF CloseVoting
    <2>2. DOMAIN heap = Node
      BY <1>2, <2>1 DEF BuildMurderChain
    <2>3. state[1] # "Murdered_players_speech"
      BY <1>7 DEF CloseVoting, IsBallot
    <2> QED BY <1>1, <1>4, <2>1, <2>2, <2>3
  <1>8. CASE LeaveDoctor
    <2>1. PICK heap : /\ Proceed(state, heap, character)
                      /\ heap = next \/ heap = BuildMurderChain(next, state, murdered)
      BY <1>8 DEF LeaveDoctor
    <2>2. DOMAIN heap = Node
      BY <1>2, <2>1 DEF BuildMurderChain
    <2>3. state[1] # "Murdered_players_speech"
      BY <1>8 DEF LeaveDoctor, Phase
    <2> QED BY <1>1, <1>4, <2>1, <2>2, <2>3
  <1>9. CASE Advance
    BY <1>1, <1>2, <1>4, <1>9 DEF Advance
  <1>10. CASE EndMurderedSpeechHangs \/ EndMurderedSpeechCrashes
    BY <1>10 DEF EndMurderedSpeechHangs, EndMurderedSpeechCrashes
  <1> HIDE DEF Goal
  <1> QED BY <1>5, <1>6, <1>7, <1>8, <1>9, <1>10 DEF GoToNextState

(* What the state before was, when a speech begins or ends.                *)
LEMMA SpeechesFollow ==
  ASSUME IInv', fate' = "ok", ~IsWon(state'),
         NEW n \in Node, state' = next'[n]
  PROVE  /\ \A q \in 1 .. MaxPlayers - 1 : state' = Finished(q) <=> n = Speaking(q)
         /\ n \in Judging => state' \notin Hearing
         /\ \A p \in Targets : state' = MurderedSpeech(p) => n = WasMurdered(p)
  <1>1. /\ state' \in LiveIn(next')
        /\ WellLinked(next', wins')
        /\ PlayLinks(next', state', before')
    BY DEF IInv, RingInv
  <1>2. state' \in Node /\ n \in LiveIn(next')
    BY <1>1, NodeSets DEF LiveIn
  <1>3. ASSUME NEW q \in 1 .. MaxPlayers - 1
        PROVE  state' = Finished(q) <=> n = Speaking(q)
    <2>1. CASE state' = Finished(q)
      <3>1. Finished(q) \in Turn /\ Speaking(q) \in LiveIn(next')
        BY <1>1, <2>1 DEF WellLinked, TurnPairs, Turn
      <3>2. next'[Speaking(q)] = Finished(q)
        BY <1>1, <3>1 DEF PlayLinks, TurnsInOrder
      <3> QED BY <1>1, <1>2, <2>1, <3>1, <3>2 DEF WellLinked, TurnEntries
    <2>2. CASE n = Speaking(q)
      BY <1>1, <1>2, <2>2 DEF PlayLinks, TurnsInOrder
    <2> QED BY <2>1, <2>2
  <1>4. n \in Judging => state' \notin Hearing
    BY <1>1, <1>2 DEF WellLinked, BallotLinks
  <1>5. ASSUME NEW p \in Targets, state' = MurderedSpeech(p) PROVE n = WasMurdered(p)
    <2>1. state' \in MurderNode /\ state'[2] = p
      BY <1>5 DEF MurderNode, MurderedSpeech
    <2>2. MurderOf(next', before', p)
      BY <1>1, <2>1 DEF PlayLinks, MurderLinks
    <2> QED BY <1>2, <1>5, <2>2 DEF MurderOf
  <1> QED BY <1>3, <1>4, <1>5

(* NEXT hands the one microphone over.                                     *)
LEMMA NextSpeaker ==
  ASSUME IInv, IInv', OneSpeaker, GoToNextState
  PROVE  OneSpeaker'
  <1> SUFFICES ASSUME fate' = "ok", ~IsWon(state')
               PROVE  speakers' = IF state'[1] \in {"Speaking_player", "Murdered_players_speech"}
                                  THEN {state'[2]} ELSE {0}
    BY DEF OneSpeaker
  <1>1. /\ fate = "ok" /\ ~IsWon(state)
        /\ speakers' = HandOver(state, state')
    BY MovesAlong
  <1>2. speakers = IF state[1] \in {"Speaking_player", "Murdered_players_speech"}
                   THEN {state[2]} ELSE {0}
    BY <1>1 DEF OneSpeaker
  <1>3. state \in Node /\ state' \in Node
    BY <1>1, WhileOk DEF IInv, RingInv, LiveIn
  <1>4. /\ \A n \in Node : n[1] = "Speaking_player"
             <=> \E q \in 1 .. MaxPlayers - 1 : n = Speaking(q)
        /\ \A n \in Node : n[1] = "Finished_speaking_player"
             <=> \E q \in 1 .. MaxPlayers - 1 : n = Finished(q)
        /\ \A n \in Node : n[1] = "Murdered_players_speech"
             <=> \E p \in Targets : n = MurderedSpeech(p)
    BY DEF Node, PhaseKind, TurnKind, MarkKind, WonKind, Speaking, Finished, MurderedSpeech
  <1>5. CASE state[1] = "Murdered_players_speech"
    <2>1. before \in Node \cap Judging /\ state' = next'[before]
      BY <1>5, MovesAlong
    <2>2. state' \notin Hearing
      BY <2>1, SpeechesFollow
    <2>3. \A p \in Targets : state' # MurderedSpeech(p)
      <3>1. \A p \in Targets : before # WasMurdered(p)
        BY <2>1 DEF Judging, Ballot, VotingAgainst, WasMurdered, Phase
      <3> QED BY <2>1, <3>1, SpeechesFollow
    <2>4. state'[1] \notin {"Speaking_player", "Finished_speaking_player",
                            "Murdered_players_speech"}
      BY <1>3, <1>4, <2>2, <2>3 DEF Hearing, Turn
    <2> QED BY <1>1, <1>2, <1>5, <2>4 DEF HandOver
  <1>6. CASE state[1] # "Murdered_players_speech"
    <2>1. state' = next'[state]
      BY <1>6, MovesAlong
    <2>2. /\ \A q \in 1 .. MaxPlayers - 1 : state' = Finished(q) <=> state = Speaking(q)
          /\ \A p \in Targets : state' = MurderedSpeech(p) => state = WasMurdered(p)
      BY <1>3, <2>1, SpeechesFollow
    <2>3. CASE state'[1] = "Finished_speaking_player"
      <3>1. PICK q \in 1 .. MaxPlayers - 1 : state' = Finished(q) /\ state = Speaking(q)
        BY <1>3, <1>4, <2>2, <2>3
      <3> QED BY <1>1, <1>2, <3>1 DEF HandOver, Finished, Speaking
    <2>4. CASE state'[1] # "Finished_speaking_player"
      <3>1. state[1] # "Speaking_player"
        BY <1>3, <1>4, <2>2, <2>4 DEF Finished
      <3>2. speakers = {0}
        BY <1>2, <1>6, <3>1
      <3> QED BY <1>1, <1>6, <2>4, <3>2 DEF HandOver
    <2> QED BY <2>3, <2>4
  <1> QED BY <1>5, <1>6

(* Whoever is nominated, condemned or gone, while the game is played one   *)
(* microphone is on, and it is that of the player whose turn it is.        *)
THEOREM OneMicrophone == Spec => []OneSpeaker
  <1>1. Init => OneSpeaker
    BY DEF Init, OneSpeaker, Phase
  <1>2. ASSUME IInv, IInv', OneSpeaker, [Next]_vars PROVE OneSpeaker'
    <2>1. CASE GoToNextState
      BY <1>2, <2>1, NextSpeaker
    <2>2. CASE Select \/ (\E p \in Position : LeaveRoom(p)) \/ UNCHANGED vars
      <3>1. UNCHANGED <<state, speakers, fate>>
        BY <2>2 DEF Select, LeaveRoom, NominateForVoting, TryToMurderPlayer, CurePlayer,
                    SetNumberOfVotes, vars, ring, people
      <3> QED BY <1>2, <3>1 DEF OneSpeaker
    <2> QED BY <1>2, <2>1, <2>2 DEF Next
  <1> QED BY <1>1, <1>2, Inductive, PTL DEF Spec
=============================================================================
