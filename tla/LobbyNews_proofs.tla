-------------------------- MODULE LobbyNews_proofs --------------------------
(***************************************************************************)
(* Theorems about Lobby and LobbyNews, for any number of players, rooms    *)
(* and sizes of rooms, when handlers do not overlap (Threads = 1): what    *)
(* rooms promise to their members, and what clients are told of them.      *)
(* OneHandlerAssumption of LobbyNews says so.                              *)
(*                                                                         *)
(* The sections are: the invariant; sets and sequences; one lemma for each *)
(* step of a handler; the theorems about rooms; and the news.              *)
(***************************************************************************)
EXTENDS LobbyNews, Lobby_proofs, FiniteSetTheorems, SequenceTheorems

(* The members whose position is marked: all but those who have no         *)
(* position yet, or have given it back.                                    *)
Seated(r) == {p \in members[r] : at[p] \notin {"check", "find", "take", "erase"}}
Size(r) == Cardinality(members[r])

RoomTypes ==
  /\ capacity \in [Room -> Capacity \cup Garbage \cup {BotCapacity}]
  /\ taken \in [Room -> SUBSET Seat]
  /\ timer \subseteq Room
  /\ position \in [Player -> 0 .. NPos]
  /\ seat \in [Player -> Seat \cup {NPos}]

SerialTypes == RoomTypes /\ position \in [Player -> Seat] /\ aborted = FALSE

(* One handler runs at a time, and bots have none.                         *)
OneHandler ==
  /\ \A b \in Bot : at[b] = "idle"
  /\ \A p, q \in Human : at[p] # "idle" /\ at[q] # "idle" => p = q

(* The mask has the positions of the seated, which differ and are less     *)
(* than the room is for, and one that is free for who is about to take it, *)
(* unless the room is for more players than the mask.                      *)
Masks ==
  /\ \A r \in Room :
       /\ taken[r] = {position[p] : p \in Seated(r)}
       /\ \A p, q \in Seated(r) : position[p] = position[q] => p = q
       /\ taken[r] \subseteq 0 .. capacity[r] - 1
  /\ \A p \in Human : at[p] = "take" =>
       \/ seat[p] \in ((0 .. capacity[goal[p]] - 1) \cap Seat) \ taken[goal[p]]
       \/ seat[p] = NPos /\ capacity[goal[p]] > MaskSize

(* A room has no more players than it is for, unless it is for none and    *)
(* the first is about to be counted.  A room that waits is full only while *)
(* somebody is about to start it.                                          *)
Sizes ==
  \A r \in Room :
    /\ \/ Size(r) <= capacity[r]
       \/ capacity[r] = 0 /\ \E p \in Human : at[p] = "check" /\ goal[p] = r
    /\ status[r] = "WAITING" /\ Size(r) = capacity[r] /\ capacity[r] # 0 =>
         \E p \in Human : at[p] \in Inside /\ goal[p] = r

(* What the running handler has found out still holds.                     *)
Entering ==
  \A p \in Human :
    /\ at[p] \in {"size", "insert"} \cup Inside => status[goal[p]] = "WAITING"
    /\ at[p] \in {"deal", "start"} => Size(goal[p]) = capacity[goal[p]]
    /\ at[p] \in {"size", "status", "insert"} => goal[p] \in listed
    /\ at[p] \in {"size", "delete"} => members[goal[p]] = {}

(* Occupied rooms are listed, and their timers run or are about to.        *)
Runs ==
  \A r \in Room : members[r] # {} =>
    /\ r \in listed
    /\ r \in timer \/ \E p \in Human : at[p] = "check" /\ members[r] = {p}

(* Before a game starts its players have the positions from 0 on, and the  *)
(* one at 0 is the moderator.                                              *)
Dealt ==
  \A p \in Human : at[p] = "start" =>
    /\ {position[q] : q \in members[goal[p]]} = 0 .. capacity[goal[p]] - 1
    /\ \A q \in members[goal[p]] : character[q] = "MODERATOR" <=> position[q] = 0

SerialInv ==
  SerialTypes /\ OneHandler /\ Masks /\ Sizes /\ Entering /\ Runs /\ Dealt

(* The server has stopped in a handler of a room of an impossible size.    *)
Stopped ==
  /\ RoomTypes /\ aborted = TRUE
  /\ \E p \in Human : at[p] # "idle" /\ capacity[goal[p]] \notin 3 .. MaskSize

(* The lists are as the rooms are, unless a handler runs that will send    *)
(* new ones.                                                               *)
ListsCurrent ==
  /\ DOMAIN list = Human
  /\ \A p \in Human \ connected : list[p] = {}
  /\ (\A p \in Human : at[p] # "idle" => at[p] = "status" /\ status[goal[p]] = "PLAYING") =>
       \A q \in connected : room[q] = NoRoom => list[q] \subseteq {RoomList}

(* A member knows his room as it is, unless a handler is at work in it.    *)
InfoCurrent ==
  \A q \in Human, r \in Room :
    /\ q \in members[r]
    /\ \A p \in Human : at[p] # "idle" /\ goal[p] = r => at[p] = "status"
    => info[q] = {RoomInformation(q, r)}

(* A player knows his role.                                                *)
RolesCurrent ==
  \A q \in Human, r \in Room :
    q \in members[r] /\ status[r] = "PLAYING" => role[q] = {RoleOf(q)}

NewsInv == ListsCurrent /\ InfoCurrent /\ RolesCurrent

-----------------------------------------------------------------------------
(* Sets and sequences.                                                     *)

(* The least element of a set of natural numbers.                          *)
LEMMA MinOfFinds ==
  ASSUME NEW S, S \subseteq Nat, S # {}
  PROVE  MinOf(S) \in S /\ \A y \in S : MinOf(S) <= y
  <1> DEFINE R == OpToRel(<, Nat)
  <1>1. PICK x \in S : \A y \in S : ~(<<y, x>> \in R)
    BY WFMin, NatLessThanWellFounded
  <1>2. \A y \in S : <<y, x>> \in R <=> y < x
    BY DEF OpToRel
  <1> HIDE DEF R
  <1>3. \A y \in S : ~(y < x)
    BY <1>1, <1>2
  <1>4. \E z \in S : \A y \in S : z <= y
    BY <1>3
  <1>5. (CHOOSE z \in S : \A y \in S : z <= y) \in S /\
        \A y \in S : (CHOOSE z \in S : \A y1 \in S : z <= y1) <= y
    BY <1>4, Zenon
  <1> QED BY <1>5, Zenon DEF MinOf

(* The greatest element of a non-empty part of 1 .. n.                     *)
LEMMA MaxFinds ==
  ASSUME NEW n \in Nat, NEW S, S \subseteq 1 .. n, S # {}
  PROVE  Max(S) \in S
  <1> DEFINE T == {n - i : i \in S}
  <1>1. T \subseteq Nat /\ T # {}
    <2>1. \A i \in 1 .. n : n - i \in Nat
      OBVIOUS
    <2> QED BY <2>1
  <1>2. MinOf(T) \in T /\ \A t \in T : MinOf(T) <= t
    BY <1>1, MinOfFinds
  <1> DEFINE t0 == MinOf(T)
  <1> HIDE DEF t0
  <1>4. PICK x \in S : t0 = n - x
    BY <1>2 DEF t0
  <1>5. \A y \in S : n - x <= n - y
    BY <1>2, <1>4 DEF t0
  <1>3. ASSUME NEW y \in S PROVE x >= y
    <2>1. x \in Int /\ y \in Int /\ n - x <= n - y
      BY <1>5
    <2> QED BY <2>1
  <1> QED BY <1>3, Zenon DEF Max

(* The order of a finite set has every element once.                       *)
LEMMA OrderIsBijection ==
  ASSUME NEW S, IsFiniteSet(S), NEW order \in SetToSeqs(S)
  PROVE  /\ Cardinality(S) \in Nat
         /\ DOMAIN order = 1 .. Cardinality(S) /\ Len(order) = Cardinality(S)
         /\ \A i \in 1 .. Cardinality(S) : order[i] \in S
         /\ \A i, j \in 1 .. Cardinality(S) : order[i] = order[j] => i = j
         /\ \A x \in S : \E i \in 1 .. Cardinality(S) : order[i] = x
  <1> DEFINE n == Cardinality(S)
  <1>1. n \in Nat
    BY FS_CardinalityType
  <1>2. order \in [1 .. n -> S] /\ \A i, j \in 1 .. n : order[i] = order[j] => i = j
    BY DEF SetToSeqs
  <1>3. order \in Seq(S) /\ Len(order) = n
    BY <1>1, <1>2, SeqDef
  <1>4. order \in Injection(1 .. n, S)
    BY <1>2 DEF Injection, IsInjective
  <1>5. Cardinality(1 .. n) = n
    BY <1>1, FS_Interval
  <1>6. order \in Surjection(1 .. n, S)
    BY <1>4, <1>5, FS_Injection
  <1> QED BY <1>1, <1>2, <1>3, <1>6 DEF Surjection

(* The positions that an order gives are those from 0 on, one for each.    *)
LEMMA IndexInFinds ==
  ASSUME NEW S, IsFiniteSet(S), NEW order \in SetToSeqs(S)
  PROVE  /\ \A x \in S : IndexIn(order, x) - 1 \in 0 .. Cardinality(S) - 1
         /\ \A x, y \in S : IndexIn(order, x) - 1 = IndexIn(order, y) - 1 => x = y
         /\ {IndexIn(order, x) - 1 : x \in S} = 0 .. Cardinality(S) - 1
         /\ \A i \in 1 .. Cardinality(S) : IndexIn(order, order[i]) = i
  <1> DEFINE n == Cardinality(S)
  <1>1. /\ n \in Nat /\ Len(order) = n
        /\ \A i \in 1 .. n : order[i] \in S
        /\ \A i, j \in 1 .. n : order[i] = order[j] => i = j
        /\ \A x \in S : \E i \in 1 .. n : order[i] = x
    BY OrderIsBijection
  <1>2. ASSUME NEW x \in S PROVE IndexIn(order, x) \in 1 .. n /\ order[IndexIn(order, x)] = x
    <2>1. PICK i \in 1 .. n : order[i] = x
      BY <1>1
    <2>2. {j \in 1 .. Len(order) : order[j] = x} = {i}
      BY <1>1, <2>1
    <2>3. Min({i}) = i
      BY <2>1 DEF Min
    <2>4. IndexIn(order, x) = i
      BY <2>2, <2>3 DEF IndexIn, SelectInSeq
    <2> QED BY <2>1, <2>4
  <1>3. \A i \in 1 .. n : IndexIn(order, order[i]) = i
    BY <1>1, <1>2
  <1> HIDE DEF n
  <1>4. \A x \in S : IndexIn(order, x) - 1 \in 0 .. n - 1
    BY <1>1, <1>2
  <1>5. \A x, y \in S : IndexIn(order, x) - 1 = IndexIn(order, y) - 1 => x = y
    <2> TAKE x, y \in S
    <2>1. IndexIn(order, x) \in Int /\ IndexIn(order, y) \in Int
      BY <1>1, <1>2
    <2>2. IndexIn(order, x) - 1 = IndexIn(order, y) - 1 => IndexIn(order, x) = IndexIn(order, y)
      BY <2>1
    <2> QED BY <1>2, <2>2
  <1>6. \A k \in 0 .. n - 1 : \E x \in S : IndexIn(order, x) - 1 = k
    <2> TAKE k \in 0 .. n - 1
    <2>1. k + 1 \in 1 .. n /\ (k + 1) - 1 = k
      BY <1>1
    <2> QED BY <1>1, <1>3, <2>1
  <1> QED BY <1>3, <1>4, <1>5, <1>6 DEF n

(* The mask has a first position, npos is after the last, and the first    *)
(* free position of a mask is one or the other.                            *)
LEMMA MaskHasSeats == 0 \in Seat /\ MaskSize \in Nat /\ NPos \in Nat /\ NPos >= MaskSize
  <1>1. IsFiniteSet(Bot) /\ Cardinality(Player) \in Nat
    BY PlayersAssumption, FS_Subset, FS_CardinalityType DEF Player
  <1>2. Cardinality(Bot) \in Nat /\ Cardinality(Bot) # 0
    BY <1>1, PlayersAssumption, FS_CardinalityType, FS_EmptySet
  <1>3. MaskSize \in Nat /\ MaskSize > 0
    BY <1>2, CapacityAssumption, BoundsAssumption
  <1> QED BY <1>1, <1>3 DEF Seat, NPos

(* positionMask_.find('0') gives the first free position, or npos.         *)
LEMMA FirstFreeFinds ==
  ASSUME NEW T
  PROVE  \/ Seat \subseteq T /\ FirstFree(T) = NPos
         \/ FirstFree(T) \in Seat \ T /\ \A y \in Seat \ T : FirstFree(T) <= y
  <1>1. CASE Seat \subseteq T
    BY <1>1 DEF FirstFree
  <1>2. CASE ~(Seat \subseteq T)
    <2> DEFINE F == Seat \ T
    <2>1. F \subseteq Nat /\ F # {}
      BY <1>2 DEF Seat
    <2> HIDE DEF F
    <2>2. MinOf(F) \in F /\ \A y \in F : MinOf(F) <= y
      BY <2>1, MinOfFinds
    <2> QED BY <1>2, <2>2 DEF F, FirstFree
  <1> QED BY <1>1, <1>2

(* A room that is not full has a free position it is for, or is for more   *)
(* players than the mask.                                                  *)
LEMMA SeatIsFree ==
  ASSUME NEW c \in Nat, NEW T, T \subseteq 0 .. c - 1, Cardinality(T) < c
  PROVE  \/ FirstFree(T) \in ((0 .. c - 1) \cap Seat) \ T
         \/ FirstFree(T) = NPos /\ c > MaskSize
  <1>1. IsFiniteSet(0 .. c - 1) /\ Cardinality(0 .. c - 1) = c
    <2>1. /\ IsFiniteSet(0 .. c - 1)
          /\ Cardinality(0 .. c - 1) = IF 0 > c - 1 THEN 0 ELSE c - 1 - 0 + 1
      BY FS_Interval
    <2> QED BY <2>1
  <1>2. PICK k \in 0 .. c - 1 : k \notin T
    <2>1. Cardinality(0 .. c - 1) = c /\ ~(c < c)
      BY <1>1
    <2>2. T # 0 .. c - 1
      BY <2>1
    <2> QED BY <2>2
  <1>3. k \in Nat /\ MaskSize \in Nat
    BY MaskHasSeats
  <1>4. CASE Seat \subseteq T /\ FirstFree(T) = NPos
    <2>1. ~(k < MaskSize)
      BY <1>2, <1>3, <1>4 DEF Seat
    <2> QED BY <1>2, <1>3, <1>4, <2>1
  <1>5. CASE FirstFree(T) \in Seat \ T /\ \A y \in Seat \ T : FirstFree(T) <= y
    <2>1. FirstFree(T) \in Nat /\ FirstFree(T) < MaskSize
      BY <1>3, <1>5 DEF Seat
    <2>2. FirstFree(T) <= k
      <3>1. CASE k < MaskSize
        BY <1>2, <1>3, <1>5, <3>1 DEF Seat
      <3>2. CASE ~(k < MaskSize)
        BY <1>3, <2>1, <3>2
      <3> QED BY <3>1, <3>2
    <2>3. FirstFree(T) \in 0 .. c - 1
      BY <1>2, <1>3, <2>1, <2>2
    <2> QED BY <1>5, <2>3
  <1> QED BY <1>4, <1>5, FirstFreeFinds

(* The first free position of a full room is none of those it is for.      *)
LEMMA FullHasNoSeat ==
  ASSUME NEW c \in Nat, c <= MaskSize, NEW k \in 0 .. c - 1
  PROVE  ~(FirstFree(0 .. c - 1) < k)
  <1>1. CASE FirstFree(0 .. c - 1) = NPos
    BY <1>1, MaskHasSeats
  <1>2. CASE FirstFree(0 .. c - 1) \in Seat \ (0 .. c - 1)
    <2>1. FirstFree(0 .. c - 1) \in Nat /\ ~(FirstFree(0 .. c - 1) \in 0 .. c - 1)
      BY <1>2, MaskHasSeats DEF Seat
    <2> QED BY <2>1
  <1> QED BY <1>1, <1>2, FirstFreeFinds

(* In a full room resetPlayerPositionsConsequently moves nobody, whatever  *)
(* the order of the set.                                                   *)
LEMMA ResetMaskKeeps ==
  ASSUME NEW r \in Room, IsFiniteSet(members[r]), NEW order \in SetToSeqs(members[r]),
         NEW c \in Nat, c <= MaskSize, taken[r] = 0 .. c - 1,
         \A p \in members[r] : position[p] \in 0 .. c - 1
  PROVE  ResetMask(r, order) = taken[r]
  <1> DEFINE n == Cardinality(members[r])
             D == DOMAIN order
             Moved(mask, p) == LET free == FirstFree(mask)
                               IN  IF free < position[p]
                                   THEN (mask \ {position[p]}) \cup {free} ELSE mask
             Good(f) == f = [s \in SUBSET D |->
                               IF s = {} THEN taken[r]
                               ELSE Moved(f[s \ {Max(s)}], order[Max(s)])]
  <1>1. n \in Nat /\ D = 1 .. n /\ \A i \in D : order[i] \in members[r]
    BY OrderIsBijection
  <1>2. \A i \in D : Moved(taken[r], order[i]) = taken[r]
    BY <1>1, FullHasNoSeat
  <1>3. \A s \in SUBSET D : s # {} => Max(s) \in s
    BY <1>1, MaxFinds
  <1>4. ResetMask(r, order) = (CHOOSE f : Good(f))[D]
    BY DEF ResetMask, FoldLeft, MapThenFoldSet
  <1> HIDE DEF Moved, D
  <1>5. Good([s \in SUBSET D |-> taken[r]])
    BY <1>2, <1>3
  <1>6. ASSUME NEW f, Good(f) PROVE f[D] = taken[r]
    <2> DEFINE Wrong == {s \in SUBSET D : f[s] # taken[r]}
    <2> SUFFICES ASSUME Wrong # {} PROVE FALSE
      OBVIOUS
    <2>1. SUBSET D = FiniteSubsetsOf(D)
      <3>1. n \in Int /\ 1 \in Int /\ D = 1 .. n
        BY <1>1
      <3>2. IsFiniteSet(1 .. n)
        BY <3>1, FS_Interval
      <3> QED BY <3>1, <3>2, FS_FiniteSubsetsOfFinite
    <2>2. PICK s \in Wrong : \A t \in Wrong : ~(<<t, s>> \in StrictSubsetOrdering(D))
      <3> DEFINE R == StrictSubsetOrdering(D)
      <3>1. Wrong \subseteq FiniteSubsetsOf(D) /\ Wrong # {}
        BY <2>1
      <3>2. IsWellFoundedOn(R, FiniteSubsetsOf(D))
        BY FS_StrictSubsetOrderingWellFounded
      <3> HIDE DEF R, Wrong
      <3>3. \E s \in Wrong : \A t \in Wrong : ~(<<t, s>> \in R)
        BY <3>1, <3>2, WFMin
      <3> QED BY <3>3 DEF R
    <2>3. s # {}
      BY <1>6
    <2> DEFINE t == s \ {Max(s)}
    <2>4. Max(s) \in s /\ t \in SUBSET D /\ s \in SUBSET D /\ t # s /\ t \subseteq s
      BY <1>3, <2>3
    <2>5. <<t, s>> \in StrictSubsetOrdering(D)
      BY <2>4 DEF StrictSubsetOrdering
    <2>6. f[t] = taken[r]
      BY <2>2, <2>4, <2>5
    <2>7. f[s] = Moved(f[t], order[Max(s)])
      BY <1>6, <2>3, <2>4
    <2> QED BY <1>2, <2>4, <2>6, <2>7
  <1> HIDE DEF Good
  <1> QED BY <1>4, <1>5, <1>6

-----------------------------------------------------------------------------
(* The steps of handlers.                                                  *)

(* Rooms are finite.                                                       *)
LEMMA RoomsAreFinite ==
  ASSUME LobbyInv, SerialInv, NEW r \in Room
  PROVE  /\ IsFiniteSet(members[r]) /\ Size(r) \in Nat
         /\ capacity[r] \in Nat
         /\ Size(r) = 0 <=> members[r] = {}
  <1>1. members[r] \subseteq Player /\ IsFiniteSet(Player)
    BY PlayersAssumption DEF LobbyInv, Types, Player
  <1>2. IsFiniteSet(members[r])
    BY <1>1, FS_Subset
  <1>3. capacity[r] \in Nat
    BY CapacityAssumption DEF SerialInv, SerialTypes, RoomTypes
  <1>4. Size(r) \in Nat /\ (Size(r) = 0 <=> members[r] = {})
    BY <1>2, FS_CardinalityType, FS_EmptySet DEF Size
  <1> QED BY <1>2, <1>3, <1>4

(* While one handler runs, and when one begins, there is no other.         *)
LEMMA RunsAlone ==
  ASSUME SerialInv, NEW p \in Human, at[p] # "idle"
  PROVE  \A q \in Player : q # p => at[q] = "idle"
  BY DEF SerialInv, OneHandler, Player

(* A handler that runs is at work in a room.                               *)
LEMMA GoalIsRoom ==
  ASSUME LobbyInv, NEW p \in Human, at[p] # "idle"
  PROVE  goal[p] \in Room
  <1>1. goal[p] \in 1 .. created /\ created \in 1 .. MaxRooms
    BY DEF LobbyInv, Types, Handlers, Room, Player
  <1> QED BY <1>1, BoundsAssumption DEF Room

(* A handler that starts finds no other running.                           *)
LEMMA NobodyRuns ==
  ASSUME SerialInv, Cardinality(Running) < Threads
  PROVE  \A q \in Player : at[q] = "idle"
  <1> SUFFICES ASSUME NEW q \in Human, at[q] # "idle" PROVE FALSE
    BY DEF SerialInv, OneHandler, Player
  <1>1. Running = {q}
    BY DEF Running, SerialInv, OneHandler
  <1>2. Cardinality({q}) = 1
    BY FS_Singleton
  <1> QED BY <1>1, <1>2, OneHandlerAssumption

(* A handler that goes on or ends and changes no room.                     *)
LEMMA WalkKeeps ==
  ASSUME LobbyInv, SerialInv, NEW p \in Human, NEW step, NEW g,
         \A q \in Player : q # p => at[q] = "idle",
         at' = [at EXCEPT ![p] = step], goal' = [goal EXCEPT ![p] = g],
         UNCHANGED <<listed, capacity, members, taken, status, timer, position, character,
                     seat, aborted>>,
         at[p] \notin {"check", "find", "take", "erase", "start"},
         step \notin {"size", "check", "find", "take", "erase", "start"},
         at[p] \in Inside => IF step \in Inside THEN g = goal[p]
                                                ELSE Size(goal[p]) # capacity[goal[p]],
         step \in {"insert"} \cup Inside => status[g] = "WAITING",
         step = "deal" => Size(g) = capacity[g],
         step \in {"status", "insert"} => g \in listed,
         step = "delete" => members[g] = {}
  PROVE  SerialInv'
  <1>1. /\ at'[p] = step /\ goal'[p] = g
        /\ \A q \in Player : q # p => at'[q] = "idle" /\ goal'[q] = goal[q]
    BY DEF LobbyInv, Types, Player
  <1>2. \A r \in Room : Seated(r)' = Seated(r) /\ Size(r)' = Size(r)
    BY <1>1 DEF Seated, Size, LobbyInv, Types
  <1>3. SerialTypes'
    BY DEF SerialInv, SerialTypes, RoomTypes
  <1>4. OneHandler'
    BY <1>1, PlayersAssumption DEF OneHandler, Player
  <1>5. Masks'
    BY <1>1, <1>2 DEF SerialInv, Masks, Player
  <1>6. Sizes'
    BY <1>1, <1>2 DEF SerialInv, Sizes, Inside, Player
  <1>7. Entering'
    BY <1>1 DEF Entering, Size, Inside, Player
  <1>8. Runs'
    BY <1>1 DEF SerialInv, Runs, Player
  <1>9. Dealt'
    BY <1>1, <1>2 DEF SerialInv, Dealt, Player
  <1> QED BY <1>3, <1>4, <1>5, <1>6, <1>7, <1>8, <1>9 DEF SerialInv

(* Coming and going: a room is looked up and tested, and a handler of      *)
(* whoever leaves begins.                                                  *)
LEMMA EnterSerial ==
  ASSUME LobbyInv, SerialInv, NEW p \in Human, NEW r \in Room, EnterRoom(p, r)
  PROVE  SerialInv'
  <1>1. \A q \in Player : at[q] = "idle"
    BY NobodyRuns DEF EnterRoom, Ready
  <1> QED BY <1>1, WalkKeeps DEF EnterRoom, Begin, Inside, rooms, players, Player

(* enterRoom finds the room waiting, or gives up.                          *)
LEMMA TestStatusSerial ==
  ASSUME LobbyInv, SerialInv, NEW p \in Human, TestStatus(p)
  PROVE  SerialInv'
  <1>1. at[p] = "status" /\ \A q \in Player : q # p => at[q] = "idle"
    BY RunsAlone DEF TestStatus, Step
  <1>2. goal[p] \in listed /\ goal[p] \in Room
    BY <1>1, GoalIsRoom DEF SerialInv, Entering
  <1>3. CASE status[goal[p]] = "PLAYING"
    BY <1>1, <1>3, WalkKeeps DEF TestStatus, Goto, Begin, Inside, rooms, players
  <1>4. CASE status[goal[p]] = "WAITING"
    BY <1>1, <1>2, <1>4, WalkKeeps DEF TestStatus, Goto, Begin, Inside, rooms, players
  <1> QED BY <1>2, <1>3, <1>4 DEF LobbyInv, Types

(* The last seat starts the game, any other ends the handler.              *)
LEMMA TestFullSerial ==
  ASSUME LobbyInv, SerialInv, NEW p \in Human, TestFull(p)
  PROVE  SerialInv'
  <1>1. at[p] = "full" /\ \A q \in Player : q # p => at[q] = "idle"
    BY RunsAlone DEF TestFull, Step
  <1>2. status[goal[p]] = "WAITING"
    BY <1>1 DEF SerialInv, Entering, Inside
  <1>3. CASE Size(goal[p]) = capacity[goal[p]]
    BY <1>1, <1>2, <1>3, WalkKeeps DEF TestFull, Goto, Begin, Inside, Size, rooms, players
  <1>4. CASE Size(goal[p]) # capacity[goal[p]]
    BY <1>1, <1>4, WalkKeeps DEF TestFull, Goto, Begin, Inside, Size, rooms, players
  <1> QED BY <1>3, <1>4

(* leaveRoom takes the player out of the room.                             *)
LEMMA LeaveSerial ==
  ASSUME LobbyInv, SerialInv, NEW p \in Human, LeaveRoom(p) \/ Disconnect(p)
  PROVE  SerialInv'
  <1>1. \A q \in Player : at[q] = "idle"
    BY NobodyRuns DEF LeaveRoom, Disconnect, Ready
  <1>2. /\ at[p] = "idle"
        /\ UNCHANGED <<listed, capacity, members, taken, status, timer, position, character,
                       seat, aborted>>
    BY <1>1 DEF LeaveRoom, Disconnect, rooms, players, Player
  <1>3. PICK step \in {"free", "idle"}, h \in {room[p]} : Begin(p, step, h)
    BY DEF LeaveRoom, Disconnect
  <1>4. PICK g : at' = [at EXCEPT ![p] = step] /\ goal' = [goal EXCEPT ![p] = g]
    BY <1>3 DEF Begin
  <1> QED BY <1>1, <1>2, <1>4, WalkKeeps DEF Inside

(* The last to leave deletes the room.                                     *)
LEMMA TestEmptySerial ==
  ASSUME LobbyInv, SerialInv, NEW p \in Human, TestEmpty(p)
  PROVE  SerialInv'
  <1>1. at[p] = "empty" /\ \A q \in Player : q # p => at[q] = "idle"
    BY RunsAlone DEF TestEmpty, Step
  <1>2. CASE members[goal[p]] = {}
    BY <1>1, <1>2, WalkKeeps DEF TestEmpty, Goto, Begin, Inside, rooms, players
  <1>3. CASE members[goal[p]] # {}
    BY <1>1, <1>3, WalkKeeps DEF TestEmpty, Goto, Begin, Inside, rooms, players
  <1> QED BY <1>2, <1>3

(* A connection that is accepted, and a timer that stops, change no room.  *)
LEMMA ConnectSerial ==
  ASSUME SerialInv, NEW p \in Human, Connect(p)
  PROVE  SerialInv'
  <1>1. UNCHANGED <<rooms, position, character, handler, aborted>>
    BY DEF Connect
  <1> QED
    BY <1>1 DEF rooms, handler, SerialInv, SerialTypes, RoomTypes, OneHandler, Masks, Sizes, Entering,
                Runs, Dealt, Seated, Size

(* A timer stops only when nobody is left in its room.                     *)
LEMMA TimerStopsSerial ==
  ASSUME LobbyInv, SerialInv, NEW s \in Room, TimerStops(s)
  PROVE  SerialInv'
  <1>1. /\ UNCHANGED <<listed, capacity, members, taken, status, position, character, at,
                       goal, seat, aborted>>
        /\ timer' = timer \ {s} /\ members[s] = {}
    BY DEF TimerStops, players, handler
  <1>2. SerialTypes' /\ OneHandler' /\ Masks' /\ Sizes' /\ Entering' /\ Dealt'
    BY <1>1 DEF SerialInv, SerialTypes, RoomTypes, OneHandler, Masks, Sizes, Entering, Dealt, Seated, Size
  <1>3. Runs'
    BY <1>1 DEF SerialInv, Runs
  <1> QED BY <1>2, <1>3 DEF SerialInv

(* The size of an empty room, which may be a new one, is what it may be.   *)
LEMMA SizeKeeps ==
  ASSUME LobbyInv, SerialInv, NEW p \in Human, NEW n \in Room,
         NEW size \in Capacity \cup Garbage, NEW step \in {"size", "status"},
         \A q \in Player : q # p => at[q] = "idle",
         at[p] \in {"idle", "size"}, members[n] = {}, status[n] = "WAITING",
         listed \subseteq listed', n \in listed',
         capacity' = [capacity EXCEPT ![n] = size],
         at' = [at EXCEPT ![p] = step], goal' = [goal EXCEPT ![p] = n],
         UNCHANGED <<members, taken, status, timer, position, character, seat, aborted>>
  PROVE  SerialInv'
  <1>1. /\ at'[p] = step /\ goal'[p] = n
        /\ \A q \in Player : q # p => at'[q] = "idle" /\ goal'[q] = goal[q]
    BY DEF LobbyInv, Types, Player
  <1>2. size \in Nat
    BY CapacityAssumption
  <1>3. Seated(n) = {} /\ Size(n) = 0 /\ taken[n] = {}
    BY FS_EmptySet DEF Seated, Size, SerialInv, Masks
  <1>4. \A r \in Room : Seated(r)' = Seated(r) /\ Size(r)' = Size(r)
    BY <1>1 DEF Seated, Size, LobbyInv, Types
  <1>5. /\ capacity'[n] = size
        /\ \A r \in Room : r # n => capacity'[r] = capacity[r]
    BY DEF SerialInv, SerialTypes, RoomTypes
  <1>6. SerialTypes'
    BY DEF SerialInv, SerialTypes, RoomTypes
  <1>7. OneHandler'
    BY <1>1, PlayersAssumption DEF OneHandler, Player
  <1>8. Masks'
    <2>1. taken[n] \subseteq 0 .. capacity'[n] - 1
      BY <1>3
    <2> QED BY <1>1, <1>4, <1>5, <2>1 DEF SerialInv, Masks, Player
  <1>9. Sizes'
    <2>1. ASSUME NEW r \in Room
          PROVE  /\ Size(r)' <= capacity'[r]
                 /\ ~(status'[r] = "WAITING" /\ Size(r)' = capacity'[r] /\ capacity'[r] # 0)
      <3>1. CASE r = n
        BY <1>2, <1>3, <1>4, <1>5, <3>1
      <3>2. CASE r # n
        BY <1>4, <1>5, <3>2 DEF SerialInv, Sizes, Inside, Player
      <3> QED BY <3>1, <3>2
    <2> QED BY <2>1 DEF Sizes
  <1>10. Entering'
    BY <1>1 DEF Entering, Inside, Player
  <1>11. Runs'
    BY <1>1 DEF SerialInv, Runs, Player
  <1>12. Dealt'
    BY <1>1 DEF Dealt, Player
  <1> QED BY <1>6, <1>7, <1>8, <1>9, <1>10, <1>11, <1>12 DEF SerialInv

(* A room is created: an empty one, of no particular size.                 *)
LEMMA CreateSerial ==
  ASSUME LobbyInv, SerialInv, NEW p \in Human, CreateNewRoom(p)
  PROVE  SerialInv'
  <1> DEFINE n == created + 1
  <1>1. PICK garbage \in Garbage : capacity' = [capacity EXCEPT ![n] = garbage]
    BY DEF CreateNewRoom
  <1>2. /\ listed' = listed \cup {n}
        /\ at' = [at EXCEPT ![p] = "size"] /\ goal' = [goal EXCEPT ![p] = n]
        /\ UNCHANGED <<members, taken, status, timer, position, character, seat, aborted>>
    BY DEF CreateNewRoom, Begin, players
  <1>3. n \in Room /\ n > created /\ created \in Nat
    BY BoundsAssumption DEF CreateNewRoom, LobbyInv, Types, Room
  <1> HIDE DEF n
  <1>4. members[n] = {}
    <2>1. ASSUME NEW q \in members[n] PROVE FALSE
      <3>1. q \in Player /\ room[q] = n /\ room[q] \in 0 .. created
        BY <1>3, <2>1 DEF LobbyInv, Types, Members
      <3> QED BY <1>3, <3>1
    <2> QED BY <2>1
  <1>5. status[n] = "WAITING"
    BY <1>3 DEF LobbyInv, Unused
  <1>6. \A q \in Player : at[q] = "idle"
    BY NobodyRuns DEF CreateNewRoom, Ready
  <1>7. at[p] = "idle"
    BY <1>6 DEF Player
  <1> QED BY <1>1, <1>2, <1>3, <1>4, <1>5, <1>6, <1>7, SizeKeeps

(* The room of the creator, who is not yet in it, gets its size.           *)
LEMMA SetSizeSerial ==
  ASSUME LobbyInv, SerialInv, NEW p \in Human, NEW size \in Capacity, SetMaximumPlayers(p, size)
  PROVE  SerialInv'
  <1>0. PICK g : g = goal[p]
    OBVIOUS
  <1>1. /\ at[p] = "size"
        /\ capacity' = [capacity EXCEPT ![g] = size]
        /\ at' = [at EXCEPT ![p] = "status"] /\ goal' = [goal EXCEPT ![p] = g]
        /\ UNCHANGED <<listed, members, taken, status, timer, position, character, seat, aborted>>
    BY <1>0 DEF SetMaximumPlayers, Step, Goto, Begin, players
  <1>2. g \in Room /\ g \in listed /\ members[g] = {} /\ status[g] = "WAITING"
    BY <1>0, <1>1, GoalIsRoom DEF SerialInv, Entering
  <1>3. \A q \in Player : q # p => at[q] = "idle"
    BY <1>1, RunsAlone
  <1> QED BY <1>1, <1>2, <1>3, SizeKeeps

(* A player is in a room that waits and is not full, without a position.   *)
LEMMA InsertSerial ==
  ASSUME LobbyInv, SerialInv, NEW p \in Human, Insert(p)
  PROVE  SerialInv'
  <1>0. PICK g : g = goal[p]
    OBVIOUS
  <1>1. /\ at[p] = "insert"
        /\ members' = [members EXCEPT ![g] = @ \cup {p}]
        /\ at' = [at EXCEPT ![p] = "check"]
        /\ goal' = [goal EXCEPT ![p] = g]
        /\ UNCHANGED <<listed, capacity, taken, status, timer, position, character, seat, aborted>>
    BY <1>0 DEF Insert, Step, Goto, Begin
  <1>2. g \in Room /\ g \in listed /\ status[g] = "WAITING" /\ room[p] = NoRoom
    BY <1>0, <1>1, GoalIsRoom DEF SerialInv, Entering, LobbyInv, Handlers, Player
  <1>3. \A r \in Room : p \notin members[r]
    BY <1>2 DEF LobbyInv, Members, NoRoom, Room, Player
  <1>4. \A q \in Player : q # p => at[q] = "idle"
    BY <1>1, RunsAlone
  <1>5. /\ at'[p] = "check" /\ goal'[p] = g
        /\ \A q \in Player : q # p => at'[q] = "idle" /\ goal'[q] = goal[q]
    BY <1>1, <1>4 DEF LobbyInv, Types, Player
  <1>6. /\ members'[g] = members[g] \cup {p}
        /\ \A r \in Room : r # g => members'[r] = members[r]
    BY <1>1, <1>2 DEF LobbyInv, Types
  <1>7. ASSUME NEW r \in Room PROVE Seated(r)' = Seated(r)
    <2>1. \A q \in members[r] : q # p /\ q \in Player
      BY <1>3 DEF LobbyInv, Types
    <2>2. \A q \in members[r] : at'[q] = at[q]
      BY <1>4, <1>5, <2>1
    <2>3. \A q : q \in members'[r] /\ at'[q] \notin {"check", "find", "take", "erase"} =>
            q \in members[r]
      BY <1>2, <1>5, <1>6
    <2> QED BY <1>2, <1>6, <2>2, <2>3 DEF Seated
  <1>8. /\ Size(g)' = Size(g) + 1 /\ Size(g) \in Nat /\ capacity[g] \in Nat
        /\ capacity[g] # 0 => Size(g) <= capacity[g] /\ Size(g) # capacity[g]
        /\ \A r \in Room : r # g => Size(r)' = Size(r)
    <2>1. Size(g)' = Size(g) + 1
      <3>1. IsFiniteSet(members[g]) /\ p \notin members[g]
        BY <1>2, <1>3, RoomsAreFinite
      <3>2. Cardinality(members[g] \cup {p}) = Cardinality(members[g]) + 1
        BY <3>1, FS_AddElement
      <3> QED BY <1>6, <3>2 DEF Size
    <2>2. capacity[g] # 0 => Size(g) <= capacity[g] /\ Size(g) # capacity[g]
      BY <1>1, <1>2, <1>4 DEF SerialInv, Sizes, Inside, Player
    <2> QED BY <1>2, <1>6, <2>1, <2>2, RoomsAreFinite DEF Size
  <1>9. SerialTypes'
    BY <1>1 DEF SerialInv, SerialTypes, RoomTypes
  <1>10. OneHandler'
    BY <1>5, PlayersAssumption DEF OneHandler, Player
  <1>11. Masks'
    BY <1>1, <1>5, <1>7 DEF SerialInv, Masks, Player
  <1>12. Sizes'
    <2>1. at'[p] = "check" /\ at'[p] \in Inside /\ goal'[p] = g
      BY <1>5 DEF Inside
    <2>2. capacity[g] # 0 => Size(g)' <= capacity[g]
      BY <1>8
    <2>3. ASSUME NEW r \in Room, r # g
          PROVE  /\ Size(r)' = Size(r) /\ Size(r) <= capacity[r]
                 /\ ~(status[r] = "WAITING" /\ Size(r) = capacity[r] /\ capacity[r] # 0)
      BY <1>1, <1>4, <1>8, <2>3 DEF SerialInv, Sizes, Inside, Player
    <2> QED BY <1>1, <2>1, <2>2, <2>3 DEF Sizes
  <1>13. Entering'
    BY <1>1, <1>2, <1>5 DEF Entering, Inside, Player
  <1>14. Runs'
    <2>1. ASSUME NEW r \in Room, members[r] # {} PROVE r \in listed /\ r \in timer
      BY <1>1, <1>4, <2>1 DEF SerialInv, Runs, Player
    <2>2. members[g] = {} => members'[g] = {p} /\ at'[p] = "check"
      BY <1>5, <1>6
    <2> QED BY <1>1, <1>2, <1>6, <2>1, <2>2 DEF Runs
  <1>15. Dealt'
    BY <1>5 DEF Dealt, Player
  <1> QED BY <1>9, <1>10, <1>11, <1>12, <1>13, <1>14, <1>15 DEF SerialInv

(* The assertion on the number of players holds, and the first of them     *)
(* starts the timer, unless the room is for nobody.                        *)
LEMMA CheckSizeSerial ==
  ASSUME LobbyInv, SerialInv, NEW p \in Human, CheckSize(p)
  PROVE  SerialInv' \/ Stopped'
  <1>0. PICK g : g = goal[p]
    OBVIOUS
  <1>1. /\ at[p] = "check"
        /\ aborted' = (Size(g) > capacity[g])
        /\ timer' = IF ~aborted' /\ Size(g) = 1 THEN timer \cup {g} ELSE timer
        /\ at' = [at EXCEPT ![p] = "find"]
        /\ goal' = [goal EXCEPT ![p] = g]
        /\ UNCHANGED <<listed, capacity, members, taken, status, position, character, seat>>
    BY <1>0 DEF CheckSize, Step, Goto, Begin, players, Size
  <1>2. g \in Room /\ status[g] = "WAITING" /\ p \in members[g] /\ p \in Player
    BY <1>0, <1>1, GoalIsRoom
       DEF SerialInv, Entering, Inside, LobbyInv, Handlers, Members, Player
  <1>3. \A q \in Player : q # p => at[q] = "idle"
    BY <1>1, RunsAlone
  <1>4. /\ at'[p] = "find" /\ goal'[p] = g
        /\ \A q \in Player : q # p => at'[q] = "idle" /\ goal'[q] = goal[q]
    BY <1>1, <1>3 DEF LobbyInv, Types, Player
  <1>5. Size(g) \in Nat /\ capacity[g] \in Nat /\ (Size(g) <= capacity[g] \/ capacity[g] = 0)
    BY <1>2, RoomsAreFinite DEF SerialInv, Sizes
  <1>6. timer' \subseteq Room
    BY <1>1, <1>2 DEF SerialInv, SerialTypes, RoomTypes
  <1>7. RoomTypes'
    BY <1>1, <1>6 DEF SerialInv, SerialTypes, RoomTypes
  <1>8. CASE Size(g) > capacity[g]
    <2>1. capacity[g] = 0 /\ 0 \notin 3 .. MaskSize
      BY <1>5, <1>8
    <2>2. aborted' = TRUE
      BY <1>1, <1>8, Zenon
    <2> QED BY <1>1, <1>4, <1>7, <2>1, <2>2 DEF Stopped
  <1>9. CASE Size(g) <= capacity[g]
    <2>1. aborted' = FALSE /\ timer' = IF Size(g) = 1 THEN timer \cup {g} ELSE timer
      <3>1. (Size(g) > capacity[g]) = FALSE
        BY <1>5, <1>9
      <3>2. aborted' = FALSE
        BY <1>1, <3>1, Zenon
      <3> QED BY <1>1, <3>2
    <2>2. \A r \in Room : Seated(r)' = Seated(r) /\ Size(r)' = Size(r)
      BY <1>1, <1>4 DEF Seated, Size, LobbyInv, Types
    <2>3. SerialTypes'
      BY <1>1, <1>7, <2>1 DEF SerialInv, SerialTypes
    <2>4. OneHandler'
      BY <1>4, PlayersAssumption DEF OneHandler, Player
    <2>5. Masks'
      BY <1>1, <1>4, <2>2 DEF SerialInv, Masks, Player
    <2>6. Sizes'
      <3>1. \A r \in Room : Size(r) <= capacity[r]
        BY <1>0, <1>3, <1>9 DEF SerialInv, Sizes, Player
      <3>2. at'[p] \in Inside /\ goal'[p] = g
        BY <1>4 DEF Inside
      <3>3. ASSUME NEW r \in Room, r # g
            PROVE  ~(status[r] = "WAITING" /\ Size(r) = capacity[r] /\ capacity[r] # 0)
        BY <1>0, <1>3, <3>3 DEF SerialInv, Sizes, Inside, Player
      <3> QED BY <1>1, <2>2, <3>1, <3>2, <3>3 DEF Sizes
    <2>7. Entering'
      BY <1>1, <1>2, <1>4 DEF Entering, Inside, Player
    <2>8. Runs'
      <3> SUFFICES ASSUME NEW r \in Room, members[r] # {} PROVE r \in listed /\ r \in timer'
        BY <1>1 DEF Runs
      <3>1. r \in listed /\ (r \in timer \/ \E q \in Human : at[q] = "check" /\ members[r] = {q})
        BY DEF SerialInv, Runs
      <3>2. ASSUME members[r] = {p} PROVE r = g /\ Size(g) = 1
        <4>1. r = g
          BY <1>2, <3>2 DEF LobbyInv, Members, Types
        <4> QED BY <3>2, <4>1, FS_Singleton DEF Size
      <3> QED BY <1>3, <2>1, <3>1, <3>2 DEF Player
    <2>9. Dealt'
      BY <1>4 DEF Dealt, Player
    <2> QED BY <2>1, <2>3, <2>4, <2>5, <2>6, <2>7, <2>8, <2>9 DEF SerialInv
  <1> QED BY <1>5, <1>8, <1>9

(* The position that is found is free and one that the room is for.        *)
LEMMA FindSeatSerial ==
  ASSUME LobbyInv, SerialInv, NEW p \in Human, FindSeat(p)
  PROVE  SerialInv'
  <1>0. PICK g, s : g = goal[p] /\ s = FirstFree(taken[g])
    OBVIOUS
  <1>1. /\ at[p] = "find"
        /\ seat' = [seat EXCEPT ![p] = s]
        /\ at' = [at EXCEPT ![p] = "take"]
        /\ goal' = [goal EXCEPT ![p] = g]
        /\ UNCHANGED <<listed, capacity, members, taken, status, timer, position, character, aborted>>
    BY <1>0 DEF FindSeat, Step, Goto, Begin, rooms, players
  <1>2. g \in Room /\ status[g] = "WAITING" /\ p \in members[g]
    BY <1>0, <1>1, GoalIsRoom
       DEF SerialInv, Entering, Inside, LobbyInv, Handlers, Members, Player
  <1>3. \A q \in Player : q # p => at[q] = "idle"
    BY <1>1, RunsAlone
  <1>4. /\ at'[p] = "take" /\ goal'[p] = g
        /\ \A q \in Player : q # p => at'[q] = "idle" /\ goal'[q] = goal[q]
    BY <1>1, <1>3 DEF LobbyInv, Types, Player
  <1>5. \A r \in Room : Seated(r)' = Seated(r) /\ Size(r)' = Size(r)
    BY <1>1, <1>4 DEF Seated, Size, LobbyInv, Types
  <1>6. s \in ((0 .. capacity[g] - 1) \cap Seat) \ taken[g] \/ (s = NPos /\ capacity[g] > MaskSize)
    <2> DEFINE S == members[g] \ {p}
    <2>1. /\ IsFiniteSet(members[g]) /\ capacity[g] \in Nat /\ Cardinality(members[g]) \in Nat
          /\ Cardinality(members[g]) <= capacity[g]
      BY <1>0, <1>1, <1>2, <1>3, RoomsAreFinite DEF SerialInv, Sizes, Size, Player
    <2>2. Seated(g) = S
      BY <1>1, <1>2, <1>3 DEF Seated, LobbyInv, Types
    <2>3. IsFiniteSet(S) /\ Cardinality(S) = Cardinality(members[g]) - 1
      BY <1>2, <2>1, FS_RemoveElement
    <2> HIDE DEF S
    <2>4. taken[g] = {position[q] : q \in S} /\ taken[g] \subseteq 0 .. capacity[g] - 1
      BY <1>2, <2>2 DEF SerialInv, Masks
    <2>5. Cardinality(taken[g]) <= Cardinality(S) /\ IsFiniteSet(taken[g])
      <3> DEFINE f == [q \in S |-> position[q]]
      <3>1. f \in Surjection(S, taken[g])
        BY <2>4 DEF Surjection
      <3> HIDE DEF f
      <3> QED BY <2>3, <3>1, FS_Surjection
    <2>6. Cardinality(taken[g]) \in Nat
      BY <2>5, FS_CardinalityType
    <2>7. Cardinality(taken[g]) < capacity[g]
      BY <2>1, <2>3, <2>5, <2>6
    <2> QED BY <1>0, <2>1, <2>4, <2>7, SeatIsFree
  <1>7. s \in Seat \cup {NPos}
    BY <1>6
  <1>8. SerialTypes'
    BY <1>1, <1>7 DEF SerialInv, SerialTypes, RoomTypes
  <1>9. OneHandler'
    BY <1>4, PlayersAssumption DEF OneHandler, Player
  <1>10. Masks'
    <2>1. seat'[p] = s
      BY <1>1 DEF SerialInv, SerialTypes, RoomTypes, Player
    <2>2. \A q \in Human : at'[q] = "take" =>
            \/ seat'[q] \in ((0 .. capacity'[goal'[q]] - 1) \cap Seat) \ taken'[goal'[q]]
            \/ seat'[q] = NPos /\ capacity'[goal'[q]] > MaskSize
      BY <1>1, <1>4, <1>6, <2>1 DEF Player
    <2>3. \A r \in Room :
            /\ taken'[r] = {position[q] : q \in Seated(r)'}
            /\ \A q1, q2 \in Seated(r)' : position[q1] = position[q2] => q1 = q2
            /\ taken'[r] \subseteq 0 .. capacity[r] - 1
      BY <1>1, <1>5 DEF SerialInv, Masks
    <2> QED BY <1>1, <2>2, <2>3 DEF Masks
  <1>11. Sizes'
    BY <1>0, <1>1, <1>4, <1>5 DEF SerialInv, Sizes, Inside, Player
  <1>12. Entering'
    BY <1>1, <1>2, <1>4 DEF Entering, Inside, Player
  <1>13. Runs'
    BY <1>1, <1>3 DEF SerialInv, Runs, Player
  <1>14. Dealt'
    BY <1>1, <1>4, <1>5 DEF SerialInv, Dealt, Player
  <1> QED BY <1>8, <1>9, <1>10, <1>11, <1>12, <1>13, <1>14 DEF SerialInv

(* The position is taken.                                                  *)
LEMMA TakeSeatSerial ==
  ASSUME LobbyInv, SerialInv, NEW p \in Human, TakeSeat(p), seat[p] # NPos
  PROVE  SerialInv'
  <1>0. PICK g, s : g = goal[p] /\ s = seat[p]
    OBVIOUS
  <1>1. /\ at[p] = "take" /\ s # NPos
        /\ position' = [position EXCEPT ![p] = s]
        /\ taken' = [taken EXCEPT ![g] = @ \cup ({s} \cap Seat)]
        /\ seat' = [seat EXCEPT ![p] = 0]
        /\ at' = [at EXCEPT ![p] = "full"]
        /\ goal' = [goal EXCEPT ![p] = g]
        /\ UNCHANGED <<listed, capacity, members, status, timer, character>>
    BY <1>0 DEF TakeSeat, Step, Goto, Begin
  <1>2. g \in Room /\ status[g] = "WAITING" /\ p \in members[g] /\ p \in Player
    BY <1>0, <1>1, GoalIsRoom
       DEF SerialInv, Entering, Inside, LobbyInv, Handlers, Members, Player
  <1>3. \A q \in Player : q # p => at[q] = "idle"
    BY <1>1, RunsAlone
  <1>4. /\ at'[p] = "full" /\ goal'[p] = g
        /\ \A q \in Player : q # p => at'[q] = "idle" /\ goal'[q] = goal[q]
    BY <1>1, <1>3 DEF LobbyInv, Types, Player
  <1>5. /\ s \in (0 .. capacity[g] - 1) \ taken[g] /\ s \in Seat /\ {s} \cap Seat = {s}
        /\ aborted' = FALSE
    <2>1. s \in ((0 .. capacity[g] - 1) \cap Seat) \ taken[g]
      BY <1>0, <1>1 DEF SerialInv, Masks
    <2>2. (s = NPos) = FALSE
      BY <1>1
    <2>3. aborted' = FALSE
      BY <1>0, <2>2, Zenon DEF TakeSeat
    <2> QED BY <2>1, <2>3
  <1>6. /\ position'[p] = s
        /\ \A q \in Player : q # p => position'[q] = position[q]
        /\ taken'[g] = taken[g] \cup {s}
        /\ \A r \in Room : r # g => taken'[r] = taken[r]
    BY <1>1, <1>2, <1>5 DEF SerialInv, SerialTypes, RoomTypes
  <1>7. /\ Seated(g)' = Seated(g) \cup {p}
        /\ \A r \in Room : r # g => Seated(r)' = Seated(r)
        /\ \A r \in Room : p \notin Seated(r) /\ Seated(r) \subseteq Player
    <2>1. \A r \in Room : r # g => p \notin members[r]
      BY <1>2 DEF LobbyInv, Members
    <2>2. \A r \in Room : \A q \in members[r] : q # p => at'[q] = at[q]
      BY <1>3, <1>4 DEF LobbyInv, Types
    <2>3. \A r \in Room : p \notin Seated(r) /\ Seated(r) \subseteq Player
      BY <1>1 DEF Seated, LobbyInv, Types
    <2>4. Seated(g)' = Seated(g) \cup {p}
      BY <1>1, <1>2, <1>4, <2>2 DEF Seated
    <2>5. ASSUME NEW r \in Room, r # g PROVE Seated(r)' = Seated(r)
      BY <1>1, <2>1, <2>2, <2>5 DEF Seated
    <2> QED BY <2>3, <2>4, <2>5
  <1>8. \A r \in Room : Size(r)' = Size(r)
    BY <1>1 DEF Size
  <1>9. SerialTypes'
    <2>1. s \in 0 .. NPos /\ 0 \in Seat
      BY <1>5, MaskHasSeats DEF Seat
    <2>2. taken[g] \cup ({s} \cap Seat) \subseteq Seat
      BY <1>2 DEF SerialInv, SerialTypes, RoomTypes
    <2> QED BY <1>1, <1>2, <1>5, <2>1, <2>2 DEF SerialInv, SerialTypes, RoomTypes
  <1>10. OneHandler'
    BY <1>4, PlayersAssumption DEF OneHandler, Player
  <1>11. Masks'
    <2>1. \A q \in Human : at'[q] # "take"
      BY <1>4 DEF Player
    <2> SUFFICES ASSUME NEW r \in Room
                 PROVE  /\ taken'[r] = {position'[q] : q \in Seated(r)'}
                        /\ \A q1, q2 \in Seated(r)' : position'[q1] = position'[q2] => q1 = q2
                        /\ taken'[r] \subseteq 0 .. capacity'[r] - 1
      BY <2>1 DEF Masks
    <2>2. /\ taken[r] = {position[q] : q \in Seated(r)}
          /\ \A q1, q2 \in Seated(r) : position[q1] = position[q2] => q1 = q2
          /\ taken[r] \subseteq 0 .. capacity[r] - 1
      BY DEF SerialInv, Masks
    <2>3. \A q \in Seated(r) : position'[q] = position[q]
      BY <1>6, <1>7
    <2>4. CASE r = g
      <3>1. \A q \in Seated(g) : position'[q] # s
        BY <1>5, <2>2, <2>3, <2>4
      <3> QED BY <1>1, <1>5, <1>6, <1>7, <2>2, <2>3, <2>4, <3>1
    <2>5. CASE r # g
      BY <1>1, <1>6, <1>7, <2>2, <2>3, <2>5
    <2> QED BY <2>4, <2>5
  <1>12. Sizes'
    BY <1>0, <1>1, <1>4, <1>8 DEF SerialInv, Sizes, Inside, Player
  <1>13. Entering'
    BY <1>1, <1>2, <1>4 DEF Entering, Inside, Player
  <1>14. Runs'
    BY <1>1, <1>3 DEF SerialInv, Runs, Player
  <1>15. Dealt'
    BY <1>4 DEF Dealt, Player
  <1> QED BY <1>9, <1>10, <1>11, <1>12, <1>13, <1>14, <1>15 DEF SerialInv

(* Without a position left in the mask the server stops.                   *)
LEMMA TakeSeatStops ==
  ASSUME LobbyInv, SerialInv, NEW p \in Human, TakeSeat(p), seat[p] = NPos
  PROVE  Stopped'
  <1>0. PICK g : g = goal[p]
    OBVIOUS
  <1>1. /\ at[p] = "take"
        /\ position' = [position EXCEPT ![p] = NPos]
        /\ taken' = [taken EXCEPT ![g] = @ \cup ({NPos} \cap Seat)]
        /\ seat' = [seat EXCEPT ![p] = 0]
        /\ at' = [at EXCEPT ![p] = "full"]
        /\ goal' = [goal EXCEPT ![p] = g]
        /\ UNCHANGED <<capacity, timer>>
    BY <1>0 DEF TakeSeat, Step, Goto, Begin
  <1>2. aborted' = TRUE
    BY Zenon DEF TakeSeat
  <1>3. at'[p] = "full" /\ goal'[p] = g /\ g \in Room
    BY <1>0, <1>1, GoalIsRoom DEF LobbyInv, Types, Player
  <1>4. capacity[g] \in Nat /\ capacity[g] > MaskSize
    <2>1. NPos \notin Seat
      BY MaskHasSeats DEF Seat
    <2>2. capacity[g] > MaskSize
      BY <1>0, <1>1, <2>1 DEF SerialInv, Masks
    <2> QED BY <1>3, <2>2, RoomsAreFinite
  <1>5. RoomTypes'
    <2>1. NPos \in 0 .. NPos /\ 0 \in Seat \cup {NPos}
      BY MaskHasSeats
    <2> QED BY <1>1, <1>3, <2>1 DEF SerialInv, SerialTypes, RoomTypes
  <1>6. capacity'[g] \notin 3 .. MaskSize
    BY <1>1, <1>4, MaskHasSeats
  <1> QED BY <1>2, <1>3, <1>5, <1>6 DEF Stopped

(* A full room has enough players for the characters if it is for three.   *)
LEMMA FullIsEnough ==
  ASSUME NEW r, capacity[r] \in Nat, Cardinality(members[r]) = capacity[r]
  PROVE  EnoughPlayers(r) <=> capacity[r] >= 3
  <1>1. PICK c, k : c = capacity[r] /\ k = (c - 2) \div 3
    OBVIOUS
  <1>2. EnoughPlayers(r) <=> c >= 2 /\ 3 + k <= c
    BY <1>1 DEF EnoughPlayers
  <1>3. c >= 3 => k \in Int /\ 0 <= k /\ 3 * k <= c - 2
    BY <1>1
  <1>4. c = 2 => k = 0
    BY <1>1
  <1>5. c \in Nat
    BY <1>1
  <1>6. CASE c >= 3
    BY <1>1, <1>2, <1>3, <1>5, <1>6
  <1>7. CASE ~(c >= 3)
    BY <1>1, <1>2, <1>4, <1>5, <1>7
  <1> QED BY <1>6, <1>7

(* The roles are dealt in a full room, if it is for three: the mask stays  *)
(* as it is, everybody gets another position, and whoever has the first is *)
(* the moderator.                                                          *)
LEMMA DealSerial ==
  ASSUME LobbyInv, SerialInv, NEW p \in Human, Deal(p)
  PROVE  SerialInv' \/ Stopped'
  <1>0. PICK g, c, M : g = goal[p] /\ c = capacity[g] /\ M = members[g]
    OBVIOUS
  <1>1. PICK order \in SetToSeqs(M) : taken' = [taken EXCEPT ![g] = ResetMask(g, order)]
    BY <1>0 DEF Deal
  <1>2. PICK seating \in SetToSeqs(M) :
          /\ seating[1] \in MayModerate(g)
          /\ position' = Reseated(g, seating)
          /\ character' = [q \in Player |->
               CASE q \notin M      -> character[q]
                 [] q = seating[1] -> "MODERATOR"
                 [] OTHER          -> "PLAYER"]
    BY <1>0 DEF Deal
  <1>3. aborted' = ~(EnoughPlayers(g) /\ PositionsInMask(g))
    BY <1>0, Zenon DEF Deal
  <1>4. /\ at[p] = "deal"
        /\ at' = [at EXCEPT ![p] = "start"]
        /\ goal' = [goal EXCEPT ![p] = g]
        /\ UNCHANGED <<listed, capacity, members, status, timer, seat>>
    BY <1>0 DEF Deal, Step, Goto, Begin
  <1>5. g \in Room /\ status[g] = "WAITING" /\ p \in M /\ p \in Player /\ Size(g) = c
    BY <1>0, <1>4, GoalIsRoom
       DEF SerialInv, Entering, Inside, LobbyInv, Handlers, Members, Player
  <1>6. \A q \in Player : q # p => at[q] = "idle"
    BY <1>4, RunsAlone
  <1>7. /\ at'[p] = "start" /\ goal'[p] = g
        /\ \A q \in Player : q # p => at'[q] = "idle" /\ goal'[q] = goal[q]
    BY <1>4, <1>6 DEF LobbyInv, Types, Player
  <1>8. /\ IsFiniteSet(M) /\ c \in Nat /\ Cardinality(M) = c
        /\ M \subseteq Player
    BY <1>0, <1>5, RoomsAreFinite DEF Size, LobbyInv, Types
  <1>9. /\ c >= 3 => aborted' = FALSE
        /\ ~(c >= 3) => aborted' = TRUE
    <2>1. EnoughPlayers(g) <=> c >= 3
      BY <1>0, <1>8, FullIsEnough
    <2>2. PositionsInMask(g)
      BY <1>0, <1>8 DEF PositionsInMask, SerialInv, SerialTypes
    <2>3. c >= 3 => (~(EnoughPlayers(g) /\ PositionsInMask(g))) = FALSE
      BY <2>1, <2>2
    <2>4. ~(c >= 3) => (~(EnoughPlayers(g) /\ PositionsInMask(g))) = TRUE
      BY <2>1, <2>2
    <2> QED BY <1>3, <2>3, <2>4, Zenon
  <1>10. /\ \A r \in Room : Seated(r)' = Seated(r) /\ Size(r)' = Size(r)
        /\ Seated(g) = M
    BY <1>0, <1>4, <1>5, <1>6, <1>7 DEF Seated, Size, LobbyInv, Types
  <1>11. /\ taken[g] = 0 .. c - 1
        /\ \A q \in M : position[q] \in 0 .. c - 1
    <2>1. /\ taken[g] = {position[q] : q \in M}
          /\ \A q1, q2 \in M : position[q1] = position[q2] => q1 = q2
          /\ taken[g] \subseteq 0 .. c - 1
      BY <1>0, <1>5, <1>10 DEF SerialInv, Masks
    <2> DEFINE f == [q \in M |-> position[q]]
    <2>2. f \in Surjection(M, taken[g]) /\ f \in Injection(M, taken[g])
      BY <2>1 DEF Surjection, Injection, IsInjective
    <2> HIDE DEF f
    <2>3. Cardinality(taken[g]) = c
      BY <1>8, <2>2, FS_Surjection
    <2>4. IsFiniteSet(0 .. c - 1) /\ Cardinality(0 .. c - 1) = c
      <3>1. /\ IsFiniteSet(0 .. c - 1)
            /\ Cardinality(0 .. c - 1) = IF 0 > c - 1 THEN 0 ELSE c - 1 - 0 + 1
        BY <1>8, FS_Interval
      <3> QED BY <1>8, <3>1
    <2>5. taken[g] = 0 .. c - 1
      BY <2>1, <2>3, <2>4, FS_Subset
    <2> QED BY <2>1, <2>5
  <1>12. taken' = taken /\ c <= MaskSize
    <2>1. c <= MaskSize
      <3>1. 0 .. c - 1 \subseteq Seat
        BY <1>5, <1>11 DEF SerialInv, SerialTypes, RoomTypes
      <3>2. c = 0 \/ c - 1 \in 0 .. c - 1
        BY <1>8
      <3> QED BY <1>8, <3>1, <3>2, MaskHasSeats DEF Seat
    <2>2. ResetMask(g, order) = taken[g]
      BY <1>0, <1>5, <1>8, <1>11, <2>1, ResetMaskKeeps
    <2> QED BY <1>5, <1>1, <2>1, <2>2 DEF SerialInv, SerialTypes, RoomTypes
  <1>13. /\ \A q \in M : position'[q] = IndexIn(seating, q) - 1
         /\ \A q \in Player : q \notin M => position'[q] = position[q]
    BY <1>0, <1>8, <1>2 DEF Reseated
  <1>14. /\ \A q \in M : position'[q] \in 0 .. c - 1
         /\ \A q1, q2 \in M : position'[q1] = position'[q2] => q1 = q2
         /\ {position'[q] : q \in M} = 0 .. c - 1
    <2>1. /\ \A q \in M : IndexIn(seating, q) - 1 \in 0 .. c - 1
          /\ \A q1, q2 \in M : IndexIn(seating, q1) - 1 = IndexIn(seating, q2) - 1 => q1 = q2
          /\ {IndexIn(seating, q) - 1 : q \in M} = 0 .. c - 1
      BY <1>8, IndexInFinds
    <2> QED BY <1>13, <2>1
  <1>15. \A r \in Room, q \in Player : q \in members[r] /\ r # g => q \notin M
    BY <1>0, <1>5 DEF LobbyInv, Members
  <1>16. RoomTypes' /\ position' \in [Player -> Seat]
    <2>1. \A k \in 0 .. c - 1 : k \in Seat
      BY <1>8, <1>12, MaskHasSeats DEF Seat
    <2>2. \A q \in Player : position'[q] \in Seat
      BY <1>13, <1>14, <2>1 DEF SerialInv, SerialTypes
    <2>3. \A k \in Seat : k \in 0 .. NPos
      BY MaskHasSeats DEF Seat
    <2>4. position' \in [Player -> Seat] /\ position' \in [Player -> 0 .. NPos]
      BY <1>2, <2>2, <2>3 DEF Reseated
    <2> QED BY <1>4, <1>12, <2>4 DEF SerialInv, SerialTypes, RoomTypes
  <1>17. OneHandler'
    BY <1>7, PlayersAssumption DEF OneHandler, Player
  <1>18. Masks'
    <2>1. \A q \in Human : at'[q] # "take"
      BY <1>7 DEF Player
    <2> SUFFICES ASSUME NEW r \in Room
                 PROVE  /\ taken[r] = {position'[q] : q \in Seated(r)}
                        /\ \A q1, q2 \in Seated(r) : position'[q1] = position'[q2] => q1 = q2
                        /\ taken[r] \subseteq 0 .. capacity[r] - 1
      BY <1>4, <1>10, <1>12, <2>1 DEF Masks
    <2>2. /\ taken[r] = {position[q] : q \in Seated(r)}
          /\ \A q1, q2 \in Seated(r) : position[q1] = position[q2] => q1 = q2
          /\ taken[r] \subseteq 0 .. capacity[r] - 1
      BY DEF SerialInv, Masks
    <2>3. CASE r = g
      BY <1>0, <1>10, <1>11, <1>14, <2>3
    <2>4. CASE r # g
      <3>1. \A q \in Seated(r) : q \in Player /\ q \notin M
        BY <1>15, <2>4 DEF Seated, LobbyInv, Types
      <3>2. \A q \in Seated(r) : position'[q] = position[q]
        BY <1>13, <3>1
      <3> QED BY <2>2, <3>2
    <2> QED BY <2>3, <2>4
  <1>19. Sizes'
    BY <1>0, <1>4, <1>7, <1>10 DEF SerialInv, Sizes, Inside, Player
  <1>20. Entering'
    <2>1. Size(g)' = Size(g)
      BY <1>5, <1>10
    <2> QED BY <1>0, <1>4, <1>5, <1>7, <2>1 DEF Entering, Inside, Player, Size
  <1>21. Runs'
    BY <1>4, <1>6 DEF SerialInv, Runs, Player
  <1>22. Dealt'
    <2>1. seating[1] \in M /\ 1 \in 1 .. c
      <3>1. seating[1] \in M
        BY <1>0, <1>2 DEF MayModerate
      <3>2. c # 0
        BY <1>0, <1>5, RoomsAreFinite
      <3> QED BY <1>8, <3>1, <3>2
    <2>2. IndexIn(seating, seating[1]) = 1
      BY <1>2, <1>8, <2>1, IndexInFinds
    <2>3. \A q \in M : character'[q] = "MODERATOR" <=> q = seating[1]
      BY <1>2, <1>8
    <2>4. \A q \in M : position'[q] = 0 <=> q = seating[1]
      BY <1>13, <1>14, <2>1, <2>2
    <2> QED BY <1>0, <1>4, <1>7, <1>14, <2>3, <2>4 DEF Dealt, Player
  <1>23. CASE c >= 3
    BY <1>9, <1>16, <1>17, <1>18, <1>19, <1>20, <1>21, <1>22, <1>23 DEF SerialInv, SerialTypes
  <1>24. CASE ~(c >= 3)
    <2>1. c \notin 3 .. MaskSize
      BY <1>8, <1>24
    <2> QED BY <1>0, <1>4, <1>7, <1>9, <1>16, <1>24, <2>1 DEF Stopped
  <1> QED BY <1>23, <1>24

(* The game is played.                                                     *)
LEMMA StartSerial ==
  ASSUME LobbyInv, SerialInv, NEW p \in Human, StartGame(p)
  PROVE  SerialInv'
  <1>0. PICK g : g = goal[p]
    OBVIOUS
  <1>1. /\ at[p] = "start"
        /\ status' = [status EXCEPT ![g] = "PLAYING"]
        /\ at' = [at EXCEPT ![p] = "idle"]
        /\ UNCHANGED <<listed, capacity, members, taken, timer, position, character, seat, aborted>>
    BY <1>0 DEF StartGame, Step, Goto, Begin, players
  <1>2. g \in Room /\ Size(g) = capacity[g]
    BY <1>0, <1>1, GoalIsRoom DEF SerialInv, Entering
  <1>3. \A q \in Player : q # p => at[q] = "idle"
    BY <1>1, RunsAlone
  <1>4. \A q \in Player : at'[q] = "idle"
    BY <1>1, <1>3 DEF LobbyInv, Types, Player
  <1>5. \A r \in Room : Seated(r)' = Seated(r) /\ Size(r)' = Size(r)
    BY <1>1, <1>3, <1>4 DEF Seated, Size, LobbyInv, Types
  <1>6. SerialTypes' /\ OneHandler' /\ Entering'
    BY <1>1, <1>4 DEF SerialInv, SerialTypes, RoomTypes, OneHandler, Entering, Inside, Player
  <1>7. Masks'
    BY <1>1, <1>4, <1>5 DEF SerialInv, Masks, Player
  <1>8. Sizes'
    BY <1>0, <1>1, <1>2, <1>3, <1>5 DEF SerialInv, Sizes, Inside, Player, LobbyInv, Types
  <1>9. Runs'
    BY <1>1, <1>3 DEF SerialInv, Runs, Player
  <1>10. Dealt'
    BY <1>4 DEF Dealt, Player
  <1> QED BY <1>6, <1>7, <1>8, <1>9, <1>10 DEF SerialInv

(* The position is given back.                                             *)
LEMMA FreeSeatSerial ==
  ASSUME LobbyInv, SerialInv, NEW p \in Human, FreeSeat(p)
  PROVE  SerialInv'
  <1>0. PICK g : g = goal[p]
    OBVIOUS
  <1>1. /\ at[p] = "free"
        /\ taken' = [taken EXCEPT ![g] = @ \ {position[p]}]
        /\ at' = [at EXCEPT ![p] = "erase"]
        /\ goal' = [goal EXCEPT ![p] = g]
        /\ UNCHANGED <<listed, capacity, members, status, timer, position, character, seat>>
    BY <1>0 DEF FreeSeat, Step, Goto, Begin, players
  <1>2. g \in Room /\ p \in members[g] /\ p \in Player
    BY <1>0, <1>1, GoalIsRoom DEF LobbyInv, Handlers, Members, Player
  <1>3. \A q \in Player : q # p => at[q] = "idle"
    BY <1>1, RunsAlone
  <1>4. /\ at'[p] = "erase" /\ goal'[p] = g
        /\ \A q \in Player : q # p => at'[q] = "idle" /\ goal'[q] = goal[q]
    BY <1>1, <1>3 DEF LobbyInv, Types, Player
  <1>5. /\ taken'[g] = taken[g] \ {position[p]}
        /\ \A r \in Room : r # g => taken'[r] = taken[r]
    BY <1>1, <1>2 DEF SerialInv, SerialTypes, RoomTypes
  <1>6. /\ Seated(g)' = Seated(g) \ {p} /\ p \in Seated(g)
        /\ \A r \in Room : r # g => Seated(r)' = Seated(r)
    <2>1. \A r \in Room : r # g => p \notin members[r]
      BY <1>2 DEF LobbyInv, Members
    <2>2. \A r \in Room : \A q \in members[r] : q # p => at'[q] = at[q]
      BY <1>3, <1>4 DEF LobbyInv, Types
    <2>3. p \in Seated(g)
      BY <1>1, <1>2 DEF Seated
    <2>4. Seated(g)' = Seated(g) \ {p}
      BY <1>1, <1>2, <1>4, <2>2 DEF Seated
    <2>5. ASSUME NEW r \in Room, r # g PROVE Seated(r)' = Seated(r)
      BY <1>1, <2>1, <2>2, <2>5 DEF Seated
    <2> QED BY <2>3, <2>4, <2>5
  <1>7. \A r \in Room : Size(r)' = Size(r)
    BY <1>1 DEF Size
  <1>8. SerialTypes'
    <2>1. (position[p] \notin Seat) = FALSE
      BY <1>2 DEF SerialInv, SerialTypes
    <2>2. aborted' = FALSE
      BY <2>1, Zenon DEF FreeSeat
    <2> QED BY <1>1, <2>2 DEF SerialInv, SerialTypes, RoomTypes
  <1>9. OneHandler'
    BY <1>4, PlayersAssumption DEF OneHandler, Player
  <1>10. Masks'
    <2>1. \A q \in Human : at'[q] # "take"
      BY <1>4 DEF Player
    <2> SUFFICES ASSUME NEW r \in Room
                 PROVE  /\ taken'[r] = {position[q] : q \in Seated(r)'}
                        /\ \A q1, q2 \in Seated(r)' : position[q1] = position[q2] => q1 = q2
                        /\ taken'[r] \subseteq 0 .. capacity[r] - 1
      BY <1>1, <2>1 DEF Masks
    <2>2. /\ taken[r] = {position[q] : q \in Seated(r)}
          /\ \A q1, q2 \in Seated(r) : position[q1] = position[q2] => q1 = q2
          /\ taken[r] \subseteq 0 .. capacity[r] - 1
      BY DEF SerialInv, Masks
    <2>3. CASE r = g
      BY <1>5, <1>6, <2>2, <2>3
    <2>4. CASE r # g
      BY <1>5, <1>6, <2>2, <2>4
    <2> QED BY <2>3, <2>4
  <1>11. Sizes'
    BY <1>1, <1>3, <1>7 DEF SerialInv, Sizes, Inside, Player
  <1>12. Entering'
    BY <1>1, <1>4 DEF Entering, Inside, Player
  <1>13. Runs'
    BY <1>1, <1>3 DEF SerialInv, Runs, Player
  <1>14. Dealt'
    BY <1>4 DEF Dealt, Player
  <1> QED BY <1>8, <1>9, <1>10, <1>11, <1>12, <1>13, <1>14 DEF SerialInv

(* The player is out of the room, which is not full after that.            *)
LEMMA EraseSerial ==
  ASSUME LobbyInv, SerialInv, NEW p \in Human, ErasePlayer(p)
  PROVE  SerialInv'
  <1>0. PICK g : g = goal[p]
    OBVIOUS
  <1>1. /\ at[p] = "erase"
        /\ members' = [members EXCEPT ![g] = @ \ {p}]
        /\ position' = [position EXCEPT ![p] = 0]
        /\ character' = [character EXCEPT ![p] = "NOT_SPECIFIED"]
        /\ at' = [at EXCEPT ![p] = "empty"]
        /\ goal' = [goal EXCEPT ![p] = g]
        /\ UNCHANGED <<listed, capacity, taken, status, timer, seat, aborted>>
    BY <1>0 DEF ErasePlayer, Step, Goto, Begin
  <1>2. g \in Room /\ p \in members[g] /\ p \in Player
    BY <1>0, <1>1, GoalIsRoom DEF LobbyInv, Handlers, Members, Player
  <1>3. \A q \in Player : q # p => at[q] = "idle"
    BY <1>1, RunsAlone
  <1>4. /\ at'[p] = "empty" /\ goal'[p] = g
        /\ \A q \in Player : q # p => at'[q] = "idle" /\ goal'[q] = goal[q]
    BY <1>1, <1>3 DEF LobbyInv, Types, Player
  <1>5. /\ members'[g] = members[g] \ {p}
        /\ \A r \in Room : r # g => members'[r] = members[r]
        /\ \A r \in Room : members'[r] \subseteq members[r] /\ members'[r] \subseteq Player
        /\ \A r \in Room : p \notin members'[r]
    BY <1>1, <1>2 DEF LobbyInv, Types, Members
  <1>6. \A q \in Player : q # p => position'[q] = position[q] /\ character'[q] = character[q]
    BY <1>1 DEF SerialInv, SerialTypes, RoomTypes, LobbyInv, Types
  <1>7. \A r \in Room : Seated(r)' = Seated(r) /\ p \notin Seated(r) /\ Seated(r) \subseteq Player
    <2> TAKE r \in Room
    <2>1. \A q \in members'[r] : at'[q] = at[q]
      BY <1>3, <1>4, <1>5
    <2>2. \A q \in members[r] : q # p => q \in members'[r]
      BY <1>5
    <2>3. p \notin Seated(r) /\ Seated(r) \subseteq Player
      BY <1>1 DEF Seated, LobbyInv, Types
    <2>4. Seated(r)' \subseteq Seated(r)
      BY <1>5, <2>1 DEF Seated
    <2>5. Seated(r) \subseteq Seated(r)'
      BY <2>1, <2>2, <2>3 DEF Seated
    <2> QED BY <2>3, <2>4, <2>5
  <1>8. /\ Size(g)' <= capacity[g] /\ Size(g)' # capacity[g]
        /\ \A r \in Room : r # g => Size(r)' = Size(r)
    <2>1. IsFiniteSet(members[g]) /\ Size(g) \in Nat /\ capacity[g] \in Nat /\ Size(g) <= capacity[g]
      BY <1>1, <1>2, <1>3, RoomsAreFinite DEF SerialInv, Sizes, Player
    <2>2. Cardinality(members[g] \ {p}) = Cardinality(members[g]) - 1
      BY <1>2, <2>1, FS_RemoveElement
    <2>3. Size(g)' = Size(g) - 1
      BY <1>5, <2>2 DEF Size
    <2> QED BY <1>5, <2>1, <2>3 DEF Size
  <1>9. SerialTypes'
    <2>1. 0 \in Seat /\ 0 \in 0 .. NPos
      BY MaskHasSeats
    <2> QED BY <1>1, <2>1 DEF SerialInv, SerialTypes, RoomTypes
  <1>10. OneHandler'
    BY <1>4, PlayersAssumption DEF OneHandler, Player
  <1>11. Masks'
    <2>1. \A q \in Human : at'[q] # "take"
      BY <1>4 DEF Player
    <2>2. \A r \in Room : \A q \in Seated(r) : position'[q] = position[q]
      BY <1>6, <1>7
    <2> QED BY <1>1, <1>7, <2>1, <2>2 DEF SerialInv, Masks
  <1>12. Sizes'
    <2> SUFFICES ASSUME NEW r \in Room
                 PROVE  /\ Size(r)' <= capacity[r]
                        /\ ~(status[r] = "WAITING" /\ Size(r)' = capacity[r] /\ capacity[r] # 0)
      BY <1>1 DEF Sizes
    <2>1. CASE r = g
      BY <1>8, <2>1
    <2>2. CASE r # g
      BY <1>1, <1>3, <1>8, <2>2 DEF SerialInv, Sizes, Inside, Player
    <2> QED BY <2>1, <2>2
  <1>13. Entering'
    BY <1>1, <1>4 DEF Entering, Inside, Player
  <1>14. Runs'
    BY <1>1, <1>3, <1>5 DEF SerialInv, Runs, Player
  <1>15. Dealt'
    BY <1>4 DEF Dealt, Player
  <1> QED BY <1>9, <1>10, <1>11, <1>12, <1>13, <1>14, <1>15 DEF SerialInv

(* An empty room is deleted.                                               *)
LEMMA DeleteSerial ==
  ASSUME LobbyInv, SerialInv, NEW p \in Human, DeleteRoom(p)
  PROVE  SerialInv'
  <1>0. PICK g : g = goal[p]
    OBVIOUS
  <1>1. /\ at[p] = "delete" /\ members[g] = {}
        /\ listed' = listed \ {g}
        /\ at' = [at EXCEPT ![p] = "idle"]
        /\ UNCHANGED <<capacity, members, taken, status, timer, position, character, seat, aborted>>
    BY <1>0 DEF DeleteRoom, Step, Goto, Begin, players, SerialInv, Entering
  <1>2. \A q \in Player : q # p => at[q] = "idle"
    BY <1>1, RunsAlone
  <1>3. \A q \in Player : at'[q] = "idle"
    BY <1>1, <1>2 DEF LobbyInv, Types, Player
  <1>4. \A r \in Room : Seated(r)' = Seated(r) /\ Size(r)' = Size(r)
    BY <1>1, <1>2, <1>3 DEF Seated, Size, LobbyInv, Types
  <1>5. SerialTypes' /\ OneHandler' /\ Entering'
    BY <1>1, <1>3 DEF SerialInv, SerialTypes, RoomTypes, OneHandler, Entering, Inside, Player
  <1>6. Masks'
    BY <1>1, <1>3, <1>4 DEF SerialInv, Masks, Player
  <1>7. Sizes'
    BY <1>1, <1>2, <1>4 DEF SerialInv, Sizes, Inside, Player
  <1>8. Runs'
    BY <1>1, <1>2 DEF SerialInv, Runs, Player
  <1>9. Dealt'
    BY <1>3 DEF Dealt, Player
  <1> QED BY <1>5, <1>6, <1>7, <1>8, <1>9 DEF SerialInv

(* The server after addBots: the bots have the first positions of a room   *)
(* that is not full.                                                       *)
LEMMA InitSerial == ASSUME Init PROVE SerialInv
  <1>1. PICK order \in SetToSeqs(Bot) :
          position = [p \in Player |-> IF p \in Bot THEN IndexIn(order, p) - 1 ELSE 0]
    BY DEF Init
  <1>2. /\ IsFiniteSet(Bot) /\ Cardinality(Bot) \in Nat /\ Cardinality(Bot) # 0
        /\ BotCapacity \in Nat /\ MaskSize \in Nat
        /\ Cardinality(Bot) < BotCapacity /\ Cardinality(Bot) <= MaskSize
    <2>1. IsFiniteSet(Bot)
      BY PlayersAssumption, FS_Subset
    <2>2. Cardinality(Bot) \in Nat /\ (Cardinality(Bot) = 0 <=> Bot = {})
      BY <2>1, FS_CardinalityType, FS_EmptySet
    <2> QED BY <2>1, <2>2, PlayersAssumption, CapacityAssumption, BoundsAssumption
  <1>3. /\ \A b \in Bot : position[b] = IndexIn(order, b) - 1
        /\ \A p \in Player : p \notin Bot => position[p] = 0
    BY <1>1 DEF Player
  <1>4. /\ \A b \in Bot : position[b] \in 0 .. Cardinality(Bot) - 1
        /\ \A a, b \in Bot : position[a] = position[b] => a = b
        /\ {position[b] : b \in Bot} = 0 .. Cardinality(Bot) - 1
    <2>1. /\ \A b \in Bot : IndexIn(order, b) - 1 \in 0 .. Cardinality(Bot) - 1
          /\ \A a, b \in Bot : IndexIn(order, a) - 1 = IndexIn(order, b) - 1 => a = b
          /\ {IndexIn(order, b) - 1 : b \in Bot} = 0 .. Cardinality(Bot) - 1
      BY <1>2, IndexInFinds
    <2> QED BY <1>3, <2>1
  <1>5. \A k \in 0 .. Cardinality(Bot) - 1 : k \in Seat /\ k \in 0 .. BotCapacity - 1
    BY <1>2 DEF Seat
  <1>6. 0 \in Seat /\ 1 \in Room
    BY <1>2, BoundsAssumption DEF Seat, Room
  <1>7. \A p \in Player : at[p] = "idle"
    BY DEF Init
  <1>8. SerialTypes
    <2>1. \A p \in Player : position[p] \in Seat
      BY <1>3, <1>4, <1>5, <1>6
    <2>2. \A k \in Seat : k \in 0 .. NPos
      BY MaskHasSeats DEF Seat
    <2>3. position \in [Player -> Seat] /\ position \in [Player -> 0 .. NPos]
      BY <1>1, <2>1, <2>2
    <2> QED BY <1>5, <1>6, <2>3 DEF Init, SerialTypes, RoomTypes
  <1>9. OneHandler /\ Entering
    BY <1>7 DEF OneHandler, Entering, Inside, Player
  <1>10. \A r \in Room : Seated(r) = IF r = 1 THEN Bot ELSE {}
    BY <1>7 DEF Init, Seated, Player
  <1>11. Masks
    BY <1>4, <1>5, <1>7, <1>10 DEF Init, Masks, Player
  <1>12. \A r \in Room : Size(r) \in Nat /\ Size(r) < capacity[r]
    BY <1>2, FS_EmptySet DEF Init, Size
  <1>13. Sizes /\ Dealt
    <2>1. \A r \in Room : Size(r) <= capacity[r] /\ Size(r) # capacity[r]
      BY <1>2, <1>12 DEF Init
    <2> QED BY <1>7, <2>1 DEF Sizes, Dealt, Player
  <1>14. Runs
    BY DEF Init, Runs
  <1> QED BY <1>8, <1>9, <1>11, <1>13, <1>14 DEF SerialInv

(* A server that has stopped does nothing any more.                        *)
LEMMA StoppedIsStill == ASSUME Stopped, [Next]_vars PROVE UNCHANGED vars
  BY DEF Stopped, Next, Come, Go, Connect, CreateNewRoom, SetMaximumPlayers, EnterRoom,
         TestStatus, Insert, CheckSize, FindSeat, TakeSeat, TestFull, Deal, StartGame,
         LeaveRoom, Disconnect, FreeSeat, ErasePlayer, TestEmpty, DeleteRoom, TimerStops,
         Ready, Step

(* Hence it stays stopped.                                                 *)
LEMMA StoppedStays == ASSUME Stopped, [Next]_vars PROVE Stopped'
  BY StoppedIsStill DEF vars, rooms, players, handler, Stopped, RoomTypes

(* Every step of a server whose handlers do not overlap keeps the          *)
(* invariant, or stops it for the size of a room.                          *)
LEMMA NextSerial ==
  ASSUME LobbyInv, SerialInv, [Next]_vars
  PROVE  SerialInv' \/ Stopped'
  <1>1. CASE UNCHANGED vars
    BY <1>1 DEF vars, rooms, players, handler, SerialInv, SerialTypes, RoomTypes, OneHandler,
                Masks, Sizes, Entering, Runs, Dealt, Seated, Size
  <1>2. ASSUME NEW p \in Human, Come(p) PROVE SerialInv' \/ Stopped'
    BY <1>2, ConnectSerial, CreateSerial, SetSizeSerial, EnterSerial, TestStatusSerial,
       InsertSerial, CheckSizeSerial, FindSeatSerial, TakeSeatSerial, TakeSeatStops,
       TestFullSerial, DealSerial, StartSerial DEF Come
  <1>3. ASSUME NEW p \in Human, Go(p) PROVE SerialInv'
    BY <1>3, LeaveSerial, FreeSeatSerial, EraseSerial, TestEmptySerial, DeleteSerial DEF Go
  <1> QED BY <1>1, <1>2, <1>3, TimerStopsSerial DEF Next

-----------------------------------------------------------------------------
(* What rooms promise.                                                     *)

(* The handlers of LobbyNews are those of Lobby.                           *)
LEMMA NewsIsLobby == [NewsNext]_<<vars, news>> => [Next]_vars
  BY DEF NewsNext, Silent, Enter, Exit, Join, JoinAndStart, Leave, LeaveLast, Forget,
         AskRoomList, AskRoomInfo, Next, Come, Go

(* In a server whose handlers do not overlap the invariants hold until,    *)
(* and unless, it stops in a room of an impossible size.                   *)
THEOREM RoomsInductive == NewsSpec => [](LobbyInv /\ (SerialInv \/ Stopped))
  <1>1. NewsInit => LobbyInv /\ (SerialInv \/ Stopped)
    BY InitLobbyInv, InitSerial DEF NewsInit
  <1>2. /\ LobbyInv /\ (SerialInv \/ Stopped) /\ [NewsNext]_<<vars, news>>
        => (LobbyInv /\ (SerialInv \/ Stopped))'
    BY NewsIsLobby, NextLobbyInv, NextSerial, StoppedStays
  <1> QED BY <1>1, <1>2, PTL DEF NewsSpec

(* Every variable keeps its type for rooms of any size, also when the      *)
(* server has stopped.                                                     *)
THEOREM LobbyTypes == NewsSpec => []TypeOK
  <1>1. LobbyInv /\ (SerialInv \/ Stopped) => TypeOK
    <2> SUFFICES ASSUME LobbyInv, RoomTypes, aborted \in BOOLEAN PROVE TypeOK
      BY DEF SerialInv, SerialTypes, Stopped
    <2>1. room \in [Player -> Room \cup {NoRoom}]
      <3>1. 0 .. created \subseteq Room \cup {NoRoom}
        BY BoundsAssumption DEF LobbyInv, Types, Room, NoRoom
      <3> QED BY <3>1 DEF LobbyInv, Types
    <2> QED BY <2>1 DEF LobbyInv, Types, RoomTypes, TypeOK
  <1> QED BY <1>1, RoomsInductive, PTL

(* Whatever sizes clients ask for, the server stops in no handler of a     *)
(* room for three or more players, up to the length of the mask: there the *)
(* assertion of Room::join holds, who comes finds a free position, and     *)
(* there are as many players as characters are dealt.                      *)
THEOREM OnlySizesAbort == NewsSpec => []AbortsOnlyBySize
  <1>1. SerialInv \/ Stopped => AbortsOnlyBySize
    BY DEF SerialInv, SerialTypes, Stopped, AbortsOnlyBySize
  <1> QED BY <1>1, RoomsInductive, PTL

(* When the handler has ended the mask shows the positions of the members, *)
(* which differ.                                                           *)
THEOREM MasksAgree == NewsSpec => []MaskShowsSeats
  <1>1. LobbyInv /\ (SerialInv \/ Stopped) => MaskShowsSeats
    <2> SUFFICES ASSUME LobbyInv, SerialInv, Quiet, NEW r \in listed
                 PROVE  /\ taken[r] = {position[p] : p \in members[r]}
                        /\ Cardinality(taken[r]) = Cardinality(members[r])
      BY DEF MaskShowsSeats, Stopped, Quiet
    <2>1. r \in Room
      BY BoundsAssumption DEF LobbyInv, Types, Room
    <2>2. Seated(r) = members[r]
      <3>1. \A p \in members[r] : at[p] = "idle"
        BY <2>1 DEF Quiet, Running, SerialInv, OneHandler, LobbyInv, Types, Player
      <3> QED BY <3>1 DEF Seated
    <2>3. /\ taken[r] = {position[p] : p \in members[r]}
          /\ \A p, q \in members[r] : position[p] = position[q] => p = q
      BY <2>1, <2>2 DEF SerialInv, Masks
    <2>4. IsFiniteSet(members[r])
      BY <2>1, RoomsAreFinite
    <2> DEFINE f == [p \in members[r] |-> position[p]]
    <2>5. f \in Surjection(members[r], taken[r]) /\ f \in Injection(members[r], taken[r])
      BY <2>3 DEF Surjection, Injection, IsInjective
    <2> HIDE DEF f
    <2>6. Cardinality(taken[r]) = Cardinality(members[r])
      BY <2>4, <2>5, FS_Surjection
    <2> QED BY <2>3, <2>6
  <1> QED BY <1>1, RoomsInductive, PTL

(* An occupied room is in the list, and its timer is armed.                *)
THEOREM OccupiedRun == NewsSpec => []OccupiedRoomsRun
  <1>1. SerialInv \/ Stopped => OccupiedRoomsRun
    BY DEF Stopped, SerialInv, Runs, OccupiedRoomsRun, Quiet, Running
  <1> QED BY <1>1, RoomsInductive, PTL

(* A game starts full, with everybody seated and a moderator at the first  *)
(* position, and a full room does not wait, whatever the sizes of rooms.   *)
THEOREM FullGames == NewsSpec => GamesStartFull
  <1> DEFINE A == \A r \in Room : status[r] = "WAITING" /\ status'[r] = "PLAYING" =>
                    /\ Cardinality(members[r]) = capacity[r]
                    /\ {position[p] : p \in members[r]} = 0 .. capacity[r] - 1
                    /\ \A p \in members[r] : character[p] = "MODERATOR" <=> position[p] = 0
             B == \A r \in listed : status[r] = "WAITING" => Cardinality(members[r]) < capacity[r]
             C == /\ A
                  /\ Quiet' => \A r \in listed' :
                       status'[r] = "WAITING" => Cardinality(members'[r]) < capacity'[r]
  <1>1. LobbyInv /\ SerialInv /\ [Next]_vars => [A]_vars
    <2> SUFFICES ASSUME LobbyInv, SerialInv, Next,
                        NEW r \in Room, status[r] = "WAITING", status'[r] = "PLAYING"
                 PROVE  /\ Cardinality(members[r]) = capacity[r]
                        /\ {position[p] : p \in members[r]} = 0 .. capacity[r] - 1
                        /\ \A p \in members[r] : character[p] = "MODERATOR" <=> position[p] = 0
      OBVIOUS
    <2>1. ASSUME NEW p \in Human, Come(p) \/ Go(p)
          PROVE  StartGame(p) \/ UNCHANGED status
      BY <2>1 DEF Come, Go, Connect, CreateNewRoom, SetMaximumPlayers, EnterRoom, TestStatus,
                  Insert, CheckSize, FindSeat, TakeSeat, TestFull, Deal, LeaveRoom, Disconnect,
                  FreeSeat, ErasePlayer, TestEmpty, DeleteRoom, rooms
    <2>2. ASSUME NEW s \in Room, TimerStops(s) PROVE UNCHANGED status
      BY <2>2 DEF TimerStops
    <2>3. PICK p \in Human : StartGame(p)
      BY <2>1, <2>2 DEF Next
    <2>4. at[p] = "start" /\ goal[p] = r
      BY <2>3 DEF StartGame, Step, LobbyInv, Types
    <2> QED BY <2>4 DEF SerialInv, Entering, Dealt, Size
  <1>2. LobbyInv /\ (SerialInv \/ Stopped) /\ Quiet => B
    <2> SUFFICES ASSUME LobbyInv, SerialInv, Quiet, NEW r \in listed, status[r] = "WAITING"
                 PROVE  Cardinality(members[r]) < capacity[r]
      BY DEF Stopped, Quiet
    <2>1. r \in Room
      BY BoundsAssumption DEF LobbyInv, Types, Room
    <2>2. \A p \in Human : at[p] = "idle"
      BY DEF Quiet, Running
    <2>3. members[r] # {}
      BY <2>2 DEF LobbyInv, Tended, Tends
    <2>4. /\ Size(r) \in Nat /\ Size(r) # 0 /\ capacity[r] \in Nat
          /\ Size(r) <= capacity[r] /\ (capacity[r] # 0 => Size(r) # capacity[r])
      BY <2>1, <2>2, <2>3, RoomsAreFinite DEF SerialInv, Sizes, Inside
    <2> QED BY <2>4 DEF Size
  <1>3. /\ LobbyInv /\ (SerialInv \/ Stopped) /\ [NewsNext]_<<vars, news>>
        => [A]_vars
    BY <1>1, NewsIsLobby, StoppedIsStill
  <1>4. NewsSpec => [][NewsNext]_<<vars, news>>
    BY PTL DEF NewsSpec
  <1>5. [A /\ (Quiet => B)']_vars => [C]_vars
    OBVIOUS
  <1> HIDE DEF A, B
  <1>6. NewsSpec => [][A /\ (Quiet => B)']_vars
    BY <1>2, <1>3, <1>4, RoomsInductive, PTL
  <1>7. NewsSpec => [][C]_vars
    BY <1>5, <1>6, PTL
  <1> QED BY <1>7 DEF GamesStartFull, A, C

(* Nobody joins a game that is played, and the roles are dealt once.       *)
THEOREM GamesClosed == NewsSpec => GamesAreClosed
  <1> DEFINE A == \A r \in Room : status[r] = "PLAYING" =>
                    /\ members'[r] \subseteq members[r]
                    /\ \A p \in members'[r] : character'[p] = character[p]
  <1>1. LobbyInv /\ (SerialInv \/ Stopped) /\ [NewsNext]_<<vars, news>> => [A]_vars
    <2> SUFFICES ASSUME LobbyInv, SerialInv, Next, NEW r \in Room, status[r] = "PLAYING"
                 PROVE  /\ members'[r] \subseteq members[r]
                        /\ \A p \in members'[r] : character'[p] = character[p]
      BY NewsIsLobby, StoppedIsStill
    <2>1. CASE UNCHANGED <<members, character>>
      BY <2>1
    <2>2. ASSUME NEW p \in Human, Insert(p) \/ Deal(p)
          PROVE  goal[p] \in Room /\ goal[p] # r
      <3>1. at[p] \in {"insert", "deal"}
        BY <2>2 DEF Insert, Deal, Step
      <3> QED BY <3>1, GoalIsRoom DEF SerialInv, Entering, Inside
    <2>3. ASSUME NEW p \in Human, Insert(p)
          PROVE  members'[r] = members[r] /\ character' = character
      BY <2>2, <2>3 DEF Insert, LobbyInv, Types
    <2>4. ASSUME NEW p \in Human, Deal(p)
          PROVE  members' = members /\ \A q \in members[r] : character'[q] = character[q]
      <3>1. \A q \in members[r] : q \in Player /\ q \notin members[goal[p]]
        BY <2>2, <2>4 DEF LobbyInv, Types, Members
      <3>2. PICK seating \in SetToSeqs(members[goal[p]]) :
              /\ seating[1] \in MayModerate(goal[p])
              /\ character' = [q \in Player |->
                   CASE q \notin members[goal[p]] -> character[q]
                     [] q = seating[1]            -> "MODERATOR"
                     [] OTHER                     -> "PLAYER"]
        BY <2>4 DEF Deal
      <3>3. seating[1] \in members[goal[p]]
        BY <3>2 DEF MayModerate
      <3>4. \A q \in members[r] : character'[q] = character[q]
        BY <3>1, <3>2, <3>3
      <3> QED BY <2>4, <3>4 DEF Deal
    <2>5. ASSUME NEW p \in Human, ErasePlayer(p)
          PROVE  /\ members'[r] \subseteq members[r]
                 /\ \A q \in members'[r] : character'[q] = character[q]
      <3>1. /\ p \in members[goal[p]] /\ goal[p] \in Room
            /\ members' = [members EXCEPT ![goal[p]] = @ \ {p}]
            /\ character' = [character EXCEPT ![p] = "NOT_SPECIFIED"]
        BY <2>5, GoalIsRoom DEF ErasePlayer, Step, LobbyInv, Handlers, Members, Player
      <3>2. members'[r] \subseteq members[r] /\ p \notin members'[r]
        BY <3>1 DEF LobbyInv, Types, Members
      <3> QED BY <3>1, <3>2 DEF LobbyInv, Types
    <2>6. ASSUME NEW p \in Human, Come(p) \/ Go(p)
          PROVE  \/ Insert(p) \/ Deal(p) \/ ErasePlayer(p)
                 \/ UNCHANGED <<members, character>>
      BY <2>6 DEF Come, Go, Connect, CreateNewRoom, SetMaximumPlayers, EnterRoom, TestStatus,
                  CheckSize, FindSeat, TakeSeat, TestFull, StartGame, LeaveRoom, Disconnect, FreeSeat, TestEmpty,
                  DeleteRoom, rooms, players
    <2>7. ASSUME NEW s \in Room, TimerStops(s) PROVE UNCHANGED <<members, character>>
      BY <2>7 DEF TimerStops, players
    <2> QED BY <2>1, <2>3, <2>4, <2>5, <2>6, <2>7 DEF Next
  <1>2. NewsSpec => [][NewsNext]_<<vars, news>>
    BY PTL DEF NewsSpec
  <1> QED BY <1>1, <1>2, RoomsInductive, PTL DEF GamesAreClosed

-----------------------------------------------------------------------------
(* The news.                                                               *)

(* What a client is told of a room he is in depends on that room alone.    *)
LEMMA SameInformation ==
  ASSUME NEW q, NEW r, members'[r] = members[r], taken'[r] = taken[r], position'[q] = position[q]
  PROVE  RoomInformation(q, r)' = RoomInformation(q, r)
  BY DEF RoomInformation

(* What does not touch the rooms does not change their list.               *)
LEMMA SameList ==
  ASSUME UNCHANGED <<listed, status, members, capacity>>
  PROVE  RoomList' = RoomList
  BY DEF RoomList

(* A role is as its player, so it changes only with him.                   *)
LEMMA SameRole ==
  ASSUME NEW q, character'[q] = character[q], position'[q] = position[q]
  PROVE  RoleOf(q)' = RoleOf(q)
  BY DEF RoleOf

(* A handler that has begun to change a room tells nobody yet, and the     *)
(* members of the other rooms still know theirs.                           *)
LEMMA WorkKeepsNews ==
  ASSUME NewsInv, NEW p \in Human, NEW g,
         \A q \in Human : q # p => at[q] = "idle" /\ at'[q] = "idle",
         at'[p] \notin {"idle", "status"}, goal'[p] = g,
         at[p] \in {"idle", "status"} \/ goal[p] = g,
         \A r \in Room : r # g => members'[r] = members[r] /\ taken'[r] = taken[r],
         \A q \in Human, r \in Room : q \in members[r] /\ r # g => position'[q] = position[q],
         \A q \in Human, r \in Room : q \in members'[r] => info'[q] = info[q] /\ role'[q] = role[q],
         \A q \in Human, r \in Room : q \in members'[r] /\ status'[r] = "PLAYING" =>
           /\ q \in members[r] /\ status[r] = "PLAYING"
           /\ character'[q] = character[q] /\ position'[q] = position[q],
         \A q \in Human \ connected' : list'[q] = {}, DOMAIN list' = DOMAIN list
  PROVE  NewsInv'
  <1>1. ListsCurrent'
    BY DEF NewsInv, ListsCurrent
  <1>2. InfoCurrent'
    <2> SUFFICES ASSUME NEW q \in Human, NEW r \in Room, q \in members'[r], r # g
                 PROVE  info'[q] = {RoomInformation(q, r)'}
      BY DEF InfoCurrent
    <2>1. /\ members'[r] = members[r] /\ taken'[r] = taken[r] /\ q \in members[r]
          /\ position'[q] = position[q] /\ info'[q] = info[q]
      OBVIOUS
    <2>2. \A s \in Human : at[s] # "idle" /\ goal[s] = r => at[s] = "status"
      OBVIOUS
    <2>3. info[q] = {RoomInformation(q, r)}
      BY <2>1, <2>2 DEF NewsInv, InfoCurrent
    <2> QED BY <2>1, <2>3, SameInformation
  <1>3. RolesCurrent'
    BY SameRole DEF NewsInv, RolesCurrent
  <1> QED BY <1>1, <1>2, <1>3 DEF NewsInv

(* A handler begins or ends and has changed no room.                       *)
LEMMA StillKeepsNews ==
  ASSUME NewsInv, UNCHANGED <<listed, status, members, capacity, taken, position, character>>,
         UNCHANGED <<info, role>>,
         \A p \in Human : at[p] # "idle" => at[p] = "status" /\ status[goal[p]] = "PLAYING",
         \A q \in Human \ connected' : list'[q] = {}, DOMAIN list' = DOMAIN list,
         \A q \in connected' : room'[q] = NoRoom =>
           \/ list'[q] = {} \/ list'[q] = {RoomList}
           \/ q \in connected /\ room[q] = NoRoom /\ list'[q] = list[q]
  PROVE  NewsInv'
  <1>1. ListsCurrent'
    BY SameList DEF NewsInv, ListsCurrent
  <1>2. InfoCurrent'
    <2> SUFFICES ASSUME NEW q \in Human, NEW r \in Room, q \in members[r]
                 PROVE  info[q] = {RoomInformation(q, r)'}
      BY DEF InfoCurrent
    <2>1. info[q] = {RoomInformation(q, r)}
      BY DEF NewsInv, InfoCurrent
    <2> QED BY <2>1, SameInformation
  <1>3. RolesCurrent'
    BY SameRole DEF NewsInv, RolesCurrent
  <1> QED BY <1>1, <1>2, <1>3 DEF NewsInv

(* A handler ends and tells the members of its room of the room, and       *)
(* everybody who is in none of the rooms.                                  *)
LEMMA EndKeepsNews ==
  ASSUME LobbyInv', NewsInv, NEW p \in Human, NEW g \in Room, goal[p] = g,
         \A q \in Human : q # p => at[q] = "idle",
         UNCHANGED <<members, taken, position, character, connected>>,
         UpdateRoomList(g), UpdateRoomInfo(g) \/ (members[g] = {} /\ info' = info),
         \A q \in Human, r \in Room : q \in members[r] /\ status'[r] = "PLAYING" =>
           role'[q] = {RoleOf(q)}
  PROVE  NewsInv'
  <1>1. ListsCurrent'
    BY DEF NewsInv, ListsCurrent, UpdateRoomList, LobbyInv, Types
  <1>2. InfoCurrent'
    <2> SUFFICES ASSUME NEW q \in Human, NEW r \in Room, q \in members'[r]
                 PROVE  info'[q] = {RoomInformation(q, r)'}
      BY DEF InfoCurrent
    <2>1. CASE r = g
      BY <2>1 DEF UpdateRoomInfo
    <2>2. CASE r # g
      <3>1. q \notin members'[g]
        BY <2>2 DEF LobbyInv, Members, Player
      <3>2. info'[q] = info[q]
        BY <3>1 DEF UpdateRoomInfo
      <3>3. info[q] = {RoomInformation(q, r)}
        BY <2>2 DEF NewsInv, InfoCurrent
      <3> QED BY <3>2, <3>3, SameInformation
    <2> QED BY <2>1, <2>2
  <1>3. RolesCurrent'
    BY SameRole DEF RolesCurrent
  <1> QED BY <1>1, <1>2, <1>3 DEF NewsInv

(* The steps that send nothing.                                            *)
LEMMA SilentKeepsNews ==
  ASSUME LobbyInv, SerialInv, NewsInv, NEW p \in Human, Silent(p)
  PROVE  NewsInv'
  <1>0. PICK g : g = goal[p]
    OBVIOUS
  <1>1. UNCHANGED <<list, info, role>> /\ p \in Player /\ \A q \in Human : q \in Player
    BY DEF Silent, news, Player
  <1>2. CASE Connect(p)
    <2>1. /\ UNCHANGED <<listed, status, members, capacity, taken, position, character, room, at, goal>>
          /\ connected' = connected \cup {p} /\ p \notin connected
      BY <1>2 DEF Connect, rooms, handler
    <2>2. InfoCurrent' /\ RolesCurrent'
      BY <1>1, <2>1 DEF NewsInv, InfoCurrent, RolesCurrent, RoomInformation, RoleOf
    <2>3. ListsCurrent'
      <3>1. list[p] = {}
        BY <2>1 DEF NewsInv, ListsCurrent
      <3> QED BY <1>1, <2>1, <3>1, SameList DEF NewsInv, ListsCurrent
    <2> QED BY <2>2, <2>3 DEF NewsInv
  <1>3. CASE CreateNewRoom(p) \/ \E size \in Capacity : SetMaximumPlayers(p, size)
    <2>1. PICK n \in Room, step \in {"size", "status"} :
            /\ at' = [at EXCEPT ![p] = step] /\ goal' = [goal EXCEPT ![p] = n]
            /\ UNCHANGED <<status, members, taken, position, character, room, connected>>
            /\ status[n] = "WAITING"
            /\ \A q \in Player : at[q] = "idle" \/ (at[q] = "size" /\ members[goal[q]] = {})
      <3>1. CASE CreateNewRoom(p)
        <4>1. created \in Nat /\ created + 1 \in Room /\ created + 1 > created
          BY <3>1, BoundsAssumption DEF CreateNewRoom, LobbyInv, Types, Room
        <4>2. status[created + 1] = "WAITING"
          BY <4>1 DEF LobbyInv, Unused
        <4>3. \A q \in Player : at[q] = "idle"
          BY <3>1, NobodyRuns DEF CreateNewRoom, Ready
        <4> QED BY <3>1, <4>1, <4>2, <4>3 DEF CreateNewRoom, Begin, players
      <3>2. CASE \E size \in Capacity : SetMaximumPlayers(p, size)
        <4>1. /\ at[p] = "size"
              /\ at' = [at EXCEPT ![p] = "status"] /\ goal' = [goal EXCEPT ![p] = g]
              /\ UNCHANGED <<status, members, taken, position, character, room, connected>>
          BY <1>0, <3>2 DEF SetMaximumPlayers, Step, Goto, Begin, players
        <4>2. g \in Room /\ members[g] = {} /\ status[g] = "WAITING"
          BY <1>0, <4>1, GoalIsRoom DEF SerialInv, Entering
        <4>3. \A q \in Player : q # p => at[q] = "idle"
          BY <4>1, RunsAlone
        <4> QED BY <1>0, <4>1, <4>2, <4>3
      <3> QED BY <1>3, <3>1, <3>2
    <2>2. /\ at'[p] = step /\ goal'[p] = n
          /\ \A q \in Human : q # p => at'[q] = at[q] /\ goal'[q] = goal[q]
      BY <1>1, <2>1 DEF LobbyInv, Types
    <2>3. ListsCurrent'
      BY <1>1, <2>1, <2>2 DEF NewsInv, ListsCurrent
    <2>4. InfoCurrent'
      <3> SUFFICES ASSUME NEW q \in Human, NEW r \in Room, q \in members[r]
                   PROVE  info[q] = {RoomInformation(q, r)'}
        BY <1>1, <2>1 DEF InfoCurrent
      <3>1. info[q] = {RoomInformation(q, r)}
        BY <1>1, <2>1 DEF NewsInv, InfoCurrent
      <3> QED BY <2>1, <3>1, SameInformation
    <2>5. RolesCurrent'
      BY <1>1, <2>1, SameRole DEF NewsInv, RolesCurrent
    <2> QED BY <2>3, <2>4, <2>5 DEF NewsInv
  <1>4. CASE \E r \in Room : EnterRoom(p, r)
    <2>1. /\ UNCHANGED <<listed, status, members, capacity, taken, position, character, room, connected>>
          /\ \A q \in Player : at[q] = "idle"
      BY <1>4, NobodyRuns DEF EnterRoom, Ready, rooms, players
    <2> QED BY <1>1, <2>1, StillKeepsNews DEF NewsInv, ListsCurrent
  <1>5. CASE TestStatus(p)
    <2>1. /\ UNCHANGED <<listed, status, members, capacity, taken, position, character, room, connected>>
          /\ at[p] = "status" /\ goal[p] \in Room
          /\ at' = [at EXCEPT ![p] = IF status[g] = "PLAYING" THEN "idle" ELSE "insert"]
          /\ status[g] # "PLAYING" => goal' = [goal EXCEPT ![p] = g]
      BY <1>0, <1>5, GoalIsRoom DEF TestStatus, Step, Goto, Begin, rooms, players
    <2>2. \A q \in Player : q # p => at[q] = "idle"
      BY <2>1, RunsAlone
    <2>3. \A q \in Human \ connected' : list'[q] = {}
      BY <1>1, <2>1 DEF NewsInv, ListsCurrent
    <2>4. CASE status[g] = "PLAYING"
      BY <1>0, <1>1, <2>1, <2>2, <2>3, <2>4, StillKeepsNews
    <2>5. CASE status[g] # "PLAYING"
      <3>1. at'[p] = "insert" /\ goal'[p] = g /\ \A q \in Human : q # p => at'[q] = "idle"
        BY <1>1, <2>1, <2>2, <2>5 DEF LobbyInv, Types
      <3> QED BY <1>0, <1>1, <2>1, <2>2, <2>3, <3>1, WorkKeepsNews
    <2> QED BY <2>4, <2>5
  <1>6. CASE \/ CheckSize(p) \/ FindSeat(p) \/ ((TestFull(p) \/ TestEmpty(p)) /\ at'[p] # "idle")
             \/ TakeSeat(p) \/ FreeSeat(p)
    <2>1. PICK step \in IncomingSteps \cup LeavingSteps :
            /\ at' = [at EXCEPT ![p] = step] /\ goal' = [goal EXCEPT ![p] = g] /\ step # "status"
            /\ UNCHANGED <<status, members, character, connected>>
            /\ at[p] # "idle"
      BY <1>0, <1>1, <1>6 DEF CheckSize, FindSeat, TestFull, TestEmpty, TakeSeat, FreeSeat, Step,
         Goto, Begin, rooms, players, IncomingSteps, LeavingSteps, LobbyInv, Types
    <2>2. \A q \in Player : q # p => at[q] = "idle"
      BY <2>1, RunsAlone
    <2>3. /\ at'[p] = step /\ goal'[p] = g /\ step # "idle"
          /\ \A q \in Human : q # p => at'[q] = "idle"
      BY <1>1, <2>1, <2>2 DEF LobbyInv, Types, IncomingSteps, LeavingSteps
    <2>4. /\ \A r \in Room : r # g => taken'[r] = taken[r]
          /\ \A q \in Player : q # p => position'[q] = position[q]
          /\ position'[p] = position[p] \/ at[p] = "take"
      BY <1>0, <1>1, <1>6 DEF CheckSize, FindSeat, TestFull, TestEmpty, TakeSeat, FreeSeat, Step,
         rooms, players, SerialInv, SerialTypes, RoomTypes
    <2>5. g \in Room /\ \A r \in Room : r # g /\ p \in members[r] => position'[p] = position[p]
      <3>1. at[p] = "take" => \A r \in Room : r # g => p \notin members[r]
        BY <1>0, <1>1 DEF LobbyInv, Handlers, Members, Inside
      <3> QED BY <1>0, <2>1, <2>4, <3>1, GoalIsRoom
    <2>6. at[p] = "take" => status[g] = "WAITING"
      BY <1>0 DEF SerialInv, Entering, Inside
    <2>7. \A q \in Human, r \in Room : q \in members[r] /\ status[r] = "PLAYING" =>
            position'[q] = position[q]
      BY <1>1, <2>4, <2>5, <2>6
    <2>8. \A q \in Human \ connected' : list'[q] = {}
      BY <1>1, <2>1 DEF NewsInv, ListsCurrent
    <2>9. \A q \in Human, r \in Room : q \in members[r] /\ r # g => position'[q] = position[q]
      BY <1>1, <2>4, <2>5
    <2> QED
      BY <1>0, <1>1, <2>1, <2>2, <2>3, <2>4, <2>7, <2>8, <2>9, WorkKeepsNews
  <1>7. CASE Deal(p)
    <2>1. /\ at' = [at EXCEPT ![p] = "start"] /\ goal' = [goal EXCEPT ![p] = g]
          /\ UNCHANGED <<status, members, connected>>
          /\ at[p] = "deal"
          /\ \A r \in Room : r # g => taken'[r] = taken[r]
      BY <1>0, <1>7 DEF Deal, Step, Goto, Begin, SerialInv, SerialTypes, RoomTypes
    <2>2. \A q \in Player : q # p => at[q] = "idle"
      BY <2>1, RunsAlone
    <2>3. at'[p] = "start" /\ goal'[p] = g /\ \A q \in Human : q # p => at'[q] = "idle"
      BY <1>1, <2>1, <2>2 DEF LobbyInv, Types
    <2>4. g \in Room /\ status[g] = "WAITING"
      BY <1>0, <2>1, GoalIsRoom DEF SerialInv, Entering, Inside
    <2>5. PICK seating \in SetToSeqs(members[g]) :
            /\ seating[1] \in MayModerate(g)
            /\ position' = Reseated(g, seating)
            /\ character' = [q \in Player |->
                 CASE q \notin members[g] -> character[q]
                   [] q = seating[1]      -> "MODERATOR"
                   [] OTHER               -> "PLAYER"]
      BY <1>0, <1>7 DEF Deal
    <2>6. \A q \in Player : q \notin members[g] =>
            character'[q] = character[q] /\ position'[q] = position[q]
      BY <2>5 DEF MayModerate, Reseated
    <2>7. \A q \in Human, r \in Room : q \in members[r] /\ r # g =>
            character'[q] = character[q] /\ position'[q] = position[q]
      BY <1>1, <2>4, <2>6 DEF LobbyInv, Members
    <2>8. \A q \in Human \ connected' : list'[q] = {}
      BY <1>1, <2>1 DEF NewsInv, ListsCurrent
    <2> QED BY <1>0, <1>1, <2>1, <2>2, <2>3, <2>4, <2>7, <2>8, WorkKeepsNews
  <1>8. CASE LeaveRoom(p)
    <2>1. /\ UNCHANGED <<listed, status, members, capacity, taken, position, character, room, connected>>
          /\ at' = [at EXCEPT ![p] = "free"]
          /\ \A q \in Player : at[q] = "idle"
      BY <1>8, NobodyRuns DEF LeaveRoom, Ready, Begin, rooms, players
    <2>2. PICK h : h = goal'[p]
      OBVIOUS
    <2>3. at'[p] = "free" /\ \A q \in Human : q # p => at'[q] = "idle"
      BY <1>1, <2>1 DEF LobbyInv, Types
    <2>4. \A q \in Human \ connected' : list'[q] = {}
      BY <1>1, <2>1 DEF NewsInv, ListsCurrent
    <2> QED BY <1>1, <2>1, <2>2, <2>3, <2>4, WorkKeepsNews
  <1>9. \/ Connect(p)
        \/ CreateNewRoom(p) \/ \E size \in Capacity : SetMaximumPlayers(p, size)
        \/ \E r \in Room : EnterRoom(p, r)
        \/ TestStatus(p) \/ CheckSize(p) \/ FindSeat(p) \/ TakeSeat(p)
        \/ ((TestFull(p) \/ TestEmpty(p)) /\ at'[p] # "idle")
        \/ Deal(p)
        \/ LeaveRoom(p) \/ FreeSeat(p)
    BY Zenon DEF Silent
  <1> HIDE DEF Silent
  <1> QED BY <1>2, <1>3, <1>4, <1>5, <1>6, <1>7, <1>8, <1>9

(* Whoever enters, leaves or fails forgets what he was told.               *)
LEMMA ForgetKeepsNews ==
  ASSUME LobbyInv, SerialInv, NewsInv, NEW p \in Human, Enter(p) \/ Exit(p) \/ Forget(p)
  PROVE  NewsInv'
  <1>0. PICK g, h : g = goal[p] /\ h = goal'[p]
    OBVIOUS
  <1>1. p \in Player /\ \A q \in Human : q \in Player
    BY DEF Player
  <1>2. CASE Enter(p) \/ Exit(p)
    <2>1. /\ at[p] \in {"insert", "erase"}
          /\ at' = [at EXCEPT ![p] = IF at[p] = "insert" THEN "check" ELSE "empty"]
          /\ goal' = [goal EXCEPT ![p] = g]
          /\ UNCHANGED <<status, taken, connected>>
      BY <1>0, <1>2 DEF Enter, Exit, Insert, ErasePlayer, Step, Goto, Begin
    <2>2. /\ \A q \in Player : q # p => at[q] = "idle"
          /\ g \in Room
      BY <1>0, <2>1, RunsAlone, GoalIsRoom
    <2>3. /\ at'[p] \notin {"idle", "status"} /\ goal'[p] = g
          /\ \A q \in Human : q # p => at'[q] = "idle"
      BY <1>1, <2>1, <2>2 DEF LobbyInv, Types
    <2>4. DOMAIN list' = DOMAIN list /\ \A q \in Human \ connected' : list'[q] = {}
      <3>1. list' = list \/ list' = [list EXCEPT ![p] = {}]
        BY <1>2 DEF Enter, Exit
      <3>2. DOMAIN list = Human /\ \A q \in Human \ connected : list[q] = {}
        BY DEF NewsInv, ListsCurrent
      <3>3. Enter(p) => p \in connected
        BY <1>1 DEF Enter, Insert, Step, LobbyInv, Handlers, LeavingSteps
      <3> QED BY <1>2, <2>1, <3>1, <3>2, <3>3 DEF Enter, Exit
    <2>5. CASE Enter(p)
      <3>1. /\ members' = [members EXCEPT ![g] = @ \cup {p}]
            /\ UNCHANGED <<position, character, info, role>>
            /\ status[g] = "WAITING"
        BY <1>0, <2>5 DEF Enter, Insert, Step, SerialInv, Entering
      <3>2. \A r \in Room : r # g => members'[r] = members[r]
        BY <3>1 DEF LobbyInv, Types
      <3> QED BY <1>0, <2>1, <2>2, <2>3, <2>4, <3>1, <3>2, WorkKeepsNews
    <2>6. CASE Exit(p)
      <3>1. /\ members' = [members EXCEPT ![g] = @ \ {p}]
            /\ position' = [position EXCEPT ![p] = 0]
            /\ character' = [character EXCEPT ![p] = "NOT_SPECIFIED"]
            /\ \A q \in Human : q # p => info'[q] = info[q] /\ role'[q] = role[q]
            /\ room[p] = g
        BY <1>0, <1>1, <2>6 DEF Exit, ErasePlayer, Step, LobbyInv, Handlers
      <3>2. \A r \in Room : /\ r # g => members'[r] = members[r]
                            /\ members'[r] \subseteq members[r]
                            /\ p \notin members'[r]
        BY <1>1, <2>2, <3>1 DEF LobbyInv, Types, Members
      <3>3. \A q \in Player : q # p => position'[q] = position[q] /\ character'[q] = character[q]
        BY <3>1 DEF SerialInv, SerialTypes, RoomTypes, LobbyInv, Types
      <3> QED BY <1>0, <1>1, <2>1, <2>2, <2>3, <2>4, <3>1, <3>2, <3>3, WorkKeepsNews
    <2> QED BY <1>2, <2>5, <2>6
  <1>3. CASE Forget(p)
    <2>1. /\ UNCHANGED <<listed, status, members, capacity, taken, position, character, room>>
          /\ UNCHANGED <<info, role>>
          /\ connected' = connected \ {p}
          /\ list' = [list EXCEPT ![p] = {}]
          /\ at' = [at EXCEPT ![p] = IF room[p] = NoRoom THEN "idle" ELSE "free"]
          /\ \A q \in Player : at[q] = "idle"
      BY <1>3, NobodyRuns DEF Forget, Disconnect, Ready, Begin, rooms
    <2>2. at'[p] \in {"idle", "free"} /\ \A q \in Human : q # p => at'[q] = "idle"
      BY <1>1, <2>1 DEF LobbyInv, Types
    <2>3. DOMAIN list' = DOMAIN list /\ \A q \in Human \ connected' : list'[q] = {}
      <3>1. DOMAIN list = Human /\ \A q \in Human \ connected : list[q] = {}
        BY DEF NewsInv, ListsCurrent
      <3> QED BY <2>1, <3>1
    <2>4. \A q \in connected' : q # p /\ q \in connected /\ list'[q] = list[q]
      BY <2>1 DEF LobbyInv, Types
    <2> QED BY <1>1, <2>1, <2>3, <2>4, StillKeepsNews
  <1> QED BY <1>2, <1>3

(* Handlers end with the news.                                             *)
LEMMA TellKeepsNews ==
  ASSUME LobbyInv, LobbyInv', SerialInv, NewsInv, NEW p \in Human,
         Join(p) \/ JoinAndStart(p) \/ Leave(p) \/ LeaveLast(p)
  PROVE  NewsInv'
  <1>0. PICK g : g = goal[p]
    OBVIOUS
  <1>1. at[p] # "idle" /\ UNCHANGED <<members, taken, position, character, connected>>
    BY DEF Join, JoinAndStart, Leave, LeaveLast, TestFull, StartGame, TestEmpty, DeleteRoom, Step,
           rooms, players
  <1>2. /\ \A q \in Human : q # p => at[q] = "idle"
        /\ g \in Room
    BY <1>0, <1>1, RunsAlone, GoalIsRoom DEF Player
  <1>3. UpdateRoomList(g) /\ (UpdateRoomInfo(g) \/ (members[g] = {} /\ info' = info))
    <2>1. Join(p) \/ JoinAndStart(p) \/ Leave(p) => UpdateRoomList(g) /\ UpdateRoomInfo(g)
      BY <1>0 DEF Join, JoinAndStart, Leave, UpdateRoomList, UpdateRoomInfo
    <2>2. LeaveLast(p) => UpdateRoomList(g) /\ info' = info /\ at[p] = "delete"
      BY <1>0 DEF LeaveLast, DeleteRoom, Step, UpdateRoomList
    <2>3. at[p] = "delete" => members[g] = {}
      BY <1>0 DEF SerialInv, Entering
    <2>4. CASE Join(p) \/ JoinAndStart(p) \/ Leave(p)
      BY Zenon, <2>1, <2>4
    <2>5. CASE LeaveLast(p)
      BY Zenon, <2>2, <2>3, <2>5
    <2> QED BY <2>4, <2>5
  <1>4. \A q \in Human, r \in Room : q \in members[r] /\ status'[r] = "PLAYING" =>
          role'[q] = {RoleOf(q)}
    <2>1. CASE status' = status /\ role' = role
      BY <2>1 DEF NewsInv, RolesCurrent
    <2>2. CASE JoinAndStart(p)
      <3>1. /\ status' = [status EXCEPT ![g] = "PLAYING"]
            /\ role' = [q \in Human |-> IF q \in members[g] THEN {RoleOf(q)} ELSE role[q]]
        BY <1>0, <2>2 DEF JoinAndStart, StartGame
      <3> QED BY <1>2, <3>1 DEF NewsInv, RolesCurrent, LobbyInv, Types
    <2> QED BY <2>1, <2>2 DEF Join, Leave, LeaveLast, TestFull, TestEmpty, DeleteRoom, rooms
  <1> QED BY <1>0, <1>1, <1>2, <1>3, <1>4, EndKeepsNews

(* A client asks.                                                          *)
LEMMA AskKeepsNews ==
  ASSUME LobbyInv, SerialInv, NewsInv, NEW p \in Human, AskRoomList(p) \/ AskRoomInfo(p)
  PROVE  NewsInv'
  <1>1. /\ UNCHANGED <<listed, status, members, capacity, taken, position, character, room,
                       connected, at, goal>>
        /\ p \in connected /\ UNCHANGED role /\ p \in Player
    BY DEF AskRoomList, AskRoomInfo, vars, rooms, players, handler, Ready, Player
  <1>2. \A q \in Player : at[q] = "idle"
    BY NobodyRuns DEF AskRoomList, AskRoomInfo, Ready
  <1>3. DOMAIN list = Human /\ \A q \in Human \ connected : list[q] = {}
    BY DEF NewsInv, ListsCurrent
  <1>4. CASE AskRoomList(p)
    BY <1>1, <1>2, <1>3, <1>4, StillKeepsNews DEF AskRoomList, Player, LobbyInv, Types
  <1>5. CASE AskRoomInfo(p)
    <2>1. list' = list /\ info' = [info EXCEPT ![p] = {RoomInformation(p, room[p])}]
      BY <1>5 DEF AskRoomInfo
    <2>2. ListsCurrent' /\ RolesCurrent'
      BY <1>1, <2>1, SameList, SameRole DEF NewsInv, ListsCurrent, RolesCurrent
    <2>3. InfoCurrent'
      <3> SUFFICES ASSUME NEW q \in Human, NEW r \in Room, q \in members[r],
                          \A s \in Human : at[s] # "idle" /\ goal[s] = r => at[s] = "status"
                   PROVE  info'[q] = {RoomInformation(q, r)'}
        BY <1>1 DEF InfoCurrent
      <3>1. info[q] = {RoomInformation(q, r)}
        BY DEF NewsInv, InfoCurrent
      <3>2. q = p => room[p] = r
        BY <1>1 DEF LobbyInv, Members
      <3>3. info'[q] = {RoomInformation(q, r)}
        BY <2>1, <3>1, <3>2
      <3> QED BY <1>1, <3>3, SameInformation
    <2> QED BY <2>2, <2>3 DEF NewsInv
  <1> QED BY <1>4, <1>5

(* Nobody has been told anything.                                          *)
LEMMA InitNews == ASSUME NewsInit PROVE NewsInv
  <1>1. ListsCurrent
    BY PlayersAssumption DEF NewsInit, Init, ListsCurrent
  <1>2. \A q \in Human, r \in Room : q \notin members[r]
    BY PlayersAssumption DEF NewsInit, Init
  <1> QED BY <1>1, <1>2 DEF NewsInv, InfoCurrent, RolesCurrent

(* Every step keeps the news current.                                      *)
LEMMA NextNews ==
  ASSUME LobbyInv, SerialInv, NewsInv, [NewsNext]_<<vars, news>>
  PROVE  NewsInv'
  <1>1. LobbyInv'
    BY NewsIsLobby, NextLobbyInv
  <1>2. CASE UNCHANGED <<vars, news>>
    BY <1>2 DEF vars, rooms, players, handler, news, NewsInv, ListsCurrent, InfoCurrent,
                RolesCurrent, RoomList, RoomInformation, RoleOf
  <1>3. ASSUME NEW r \in Room, TimerStops(r) /\ UNCHANGED news
        PROVE  NewsInv'
    BY <1>3 DEF TimerStops, players, handler, news, NewsInv, ListsCurrent, InfoCurrent,
                RolesCurrent, RoomList, RoomInformation, RoleOf
  <1> QED
    BY <1>1, <1>2, <1>3, SilentKeepsNews, ForgetKeepsNews, TellKeepsNews, AskKeepsNews DEF NewsNext

(* Between two handlers nobody is shown rooms that are different now, nor  *)
(* a role that is not his.                                                 *)
THEOREM NewsAreCurrent == NewsSpec => []ClientsAreCurrent
  <1>1. NewsInit => LobbyInv /\ ((SerialInv /\ NewsInv) \/ Stopped)
    BY InitLobbyInv, InitSerial, InitNews DEF NewsInit
  <1>2. /\ LobbyInv /\ ((SerialInv /\ NewsInv) \/ Stopped) /\ [NewsNext]_<<vars, news>>
        => (LobbyInv /\ ((SerialInv /\ NewsInv) \/ Stopped))'
    BY NewsIsLobby, NextLobbyInv, NextSerial, NextNews, StoppedStays
  <1>3. LobbyInv /\ ((SerialInv /\ NewsInv) \/ Stopped) => ClientsAreCurrent
    <2> SUFFICES ASSUME LobbyInv, SerialInv, NewsInv, Quiet, NEW p \in connected
                 PROVE  /\ room[p] = NoRoom => list[p] \subseteq {RoomList}
                        /\ room[p] # NoRoom => info[p] = {RoomInformation(p, room[p])}
                        /\ room[p] # NoRoom /\ status[room[p]] = "PLAYING" => role[p] = {RoleOf(p)}
      BY DEF ClientsAreCurrent, Stopped, Quiet
    <2>1. \A q \in Human : at[q] = "idle"
      BY DEF Quiet, Running
    <2>2. p \in Human /\ p \in Player
      BY DEF LobbyInv, Types, Player
    <2>3. room[p] # NoRoom => room[p] \in Room /\ p \in members[room[p]]
      <3>1. room[p] \in 0 .. created /\ created \in 1 .. MaxRooms
        BY <2>2 DEF LobbyInv, Types, Room
      <3>2. room[p] # NoRoom => room[p] \in Room
        BY <3>1, BoundsAssumption DEF Room, NoRoom
      <3> QED BY <2>2, <3>2 DEF LobbyInv, Members
    <2> QED BY <2>1, <2>2, <2>3 DEF NewsInv, ListsCurrent, InfoCurrent, RolesCurrent
  <1> QED BY <1>1, <1>2, <1>3, PTL DEF NewsSpec
==============================================================================
