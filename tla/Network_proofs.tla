---------------------------- MODULE Network_proofs ----------------------------
(***************************************************************************)
(* Theorems about Network, for any number of connections and messages: one *)
(* write and one read at a time, players are those who are connected, and  *)
(* the connections implement Mailbox.                                      *)
(*                                                                         *)
(* The sections are: the invariant, whose parts speak of one connection;   *)
(* lemmas about a strand to which a handler is appended or from which the  *)
(* first is taken; one lemma for each step; and the theorems.              *)
(***************************************************************************)
EXTENDS Network, FiniteSetTheorems, SequenceTheorems, TLAPS

Handlers ==
  [kind : Kinds \ {"dispatchSend"}, arg : BOOLEAN] \cup [kind : {"dispatchSend"}, arg : Nat]

Types ==
  /\ accepting \in Conn \cup {NoConn}
  /\ queue \in [Conn -> Seq(Handlers)]
  /\ pendingSends \in [Conn -> Seq(Nat)]
  /\ pendingReceives \in [Conn -> 0 .. 1]
  /\ writes \in [Conn -> Seq(Nat)]
  /\ reads \in [Conn -> Nat]
  /\ errorState \subseteq Conn
  /\ playersById \subseteq Conn
  /\ chosen \subseteq Conn
  /\ sent \in [Conn -> 0 .. MaxSent]
  /\ wire \in [Conn -> Seq(Nat)]
  /\ udpReads \in 0 .. 1 /\ udpPackets = 1 - udpReads
  /\ shutdown \in BOOLEAN
  /\ crashed \in BOOLEAN

(* Handlers of a kind in the strand q.                                     *)
Count(q, kind) == Cardinality({i \in 1 .. Len(q) : q[i].kind = kind})

(* A write is in progress, or its end is in the strand q, at most once; it *)
(* is that of the first message of the list p, and p waits for it.         *)
WriteOrder(q, p, w) ==
  /\ Len(w) + Count(q, "send") <= 1
  /\ Len(w) + Count(q, "send") = 1 => p # <<>>
  /\ w # <<>> => Head(p) = Head(w)

WriteGoesOn(q, p, w) == p # <<>> => Len(w) + Count(q, "send") = 1

(* The same of r reads, with pr receives in their list.                    *)
ReadOrder(q, r, pr) ==
  /\ r + Count(q, "receive") + Count(q, "dispatchReceive") <= 1
  /\ r + Count(q, "receive") = 1 => pr = 1
  /\ Count(q, "dispatchReceive") = 1 => pr = 0

ReadGoesOn(q, r) == r + Count(q, "receive") + Count(q, "dispatchReceive") = 1

(* Of the n messages sent the first b are done, those of the list p follow *)
(* and then, in order, those which the strand q has not yet put on it.     *)
IsSend(q, i) == q[i].kind = "dispatchSend"

Numbered(q, p, n, b) ==
  /\ b \in Nat
  /\ b + Len(p) <= n
  /\ \A i \in 1 .. Len(p) : p[i] = b + i
  /\ \A i \in 1 .. Len(q) : IsSend(q, i) => q[i].arg \in b + Len(p) + 1 .. n
  /\ \A k \in b + Len(p) + 1 .. n : \E i \in 1 .. Len(q) : IsSend(q, i) /\ q[i].arg = k
  /\ \A i, j \in 1 .. Len(q) : i < j /\ IsSend(q, i) /\ IsSend(q, j) => q[i].arg < q[j].arg

(* The end of a write that went well has not been handled.                 *)
Acked(q) == \E i \in 1 .. Len(q) : q[i].kind = "send" /\ q[i].arg = TRUE

(* Until the connection fails, what is done has been written to t.         *)
UpToWire(q, t, b) ==
  /\ Acked(q) => Len(t) = b + 1
  /\ ~Acked(q) => Len(t) = b

ConnInv(c) ==
  /\ WriteOrder(queue[c], pendingSends[c], writes[c])
  /\ c \notin errorState => WriteGoesOn(queue[c], pendingSends[c], writes[c])
  /\ ReadOrder(queue[c], reads[c], pendingReceives[c])
  /\ c \in playersById => ReadGoesOn(queue[c], reads[c])
  /\ \E b \in Nat : /\ Numbered(queue[c], pendingSends[c], sent[c], b)
                    /\ c \notin errorState => UpToWire(queue[c], wire[c], b)
  /\ c \in chosen => sent[c] < MaxSent

(* A connection nothing was sent to is not yet accepted.                   *)
Untouched(c) ==
  /\ c \notin playersById \cup errorState \cup chosen
  /\ queue[c] \in {<<>>, <<Handler("accept", TRUE)>>, <<Handler("accept", FALSE)>>}
  /\ pendingSends[c] = <<>> /\ writes[c] = <<>> /\ wire[c] = <<>>
  /\ pendingReceives[c] = 0 /\ reads[c] = 0

(* One connection is being accepted at a time.                             *)
AcceptInv ==
  /\ \A c \in Conn : sent[c] = 0 => Untouched(c)
  /\ \A c \in Conn : sent[c] > 0 => \A i \in 1 .. Len(queue[c]) : queue[c][i].kind # "accept"
  /\ accepting # NoConn => \A c \in Conn : sent[c] = 0 => queue[c] = <<>>
  /\ accepting # NoConn => sent[accepting] = 0
  /\ \A c, d \in Conn :
       sent[c] = 0 /\ queue[c] # <<>> /\ sent[d] = 0 /\ queue[d] # <<>> => c = d

NetInv ==
  /\ Types
  /\ \A c \in Conn : ConnInv(c)
  /\ Up => AcceptInv
  /\ PlayersAreConnected

-----------------------------------------------------------------------------
(* Counting handlers.                                                      *)
(* The handlers of one kind in a strand are finitely many.                 *)
LEMMA CountIsNat ==
  ASSUME NEW q \in Seq(Handlers), NEW kind
  PROVE  /\ Count(q, kind) \in Nat
         /\ IsFiniteSet({i \in 1 .. Len(q) : q[i].kind = kind})
         /\ Count(q, kind) = 0 <=> \A i \in 1 .. Len(q) : q[i].kind # kind
  <1> DEFINE S == {i \in 1 .. Len(q) : q[i].kind = kind}
  <1>1. IsFiniteSet(1 .. Len(q)) /\ S \in SUBSET (1 .. Len(q))
    BY FS_Interval, LenProperties
  <1>2. S = {} <=> \A i \in 1 .. Len(q) : q[i].kind # kind
    OBVIOUS
  <1>3. Count(q, kind) = Cardinality(S)
    BY DEF Count
  <1> HIDE DEF S
  <1>4. IsFiniteSet(S)
    BY <1>1, FS_Subset
  <1>5. Cardinality(S) \in Nat /\ (Cardinality(S) = 0 <=> S = {})
    BY <1>4, FS_CardinalityType, FS_EmptySet
  <1>6. /\ Count(q, kind) \in Nat
        /\ Count(q, kind) = 0 <=> \A i \in 1 .. Len(q) : q[i].kind # kind
    BY <1>2, <1>3, <1>5
  <1> QED BY <1>4, <1>6 DEF S

(* What Append does, place by place.                                       *)
LEMMA AppendIs ==
  ASSUME NEW q \in Seq(Handlers), NEW h \in Handlers
  PROVE  /\ Append(q, h) \in Seq(Handlers) /\ Len(Append(q, h)) = Len(q) + 1
         /\ Append(q, h)[Len(q) + 1] = h
         /\ \A i \in 1 .. Len(q) : Append(q, h)[i] = q[i]
  OBVIOUS

(* A handler that is appended.                                             *)
LEMMA CountAppend ==
  ASSUME NEW q \in Seq(Handlers), NEW h \in Handlers, NEW kind
  PROVE  /\ Count(q, kind) \in Nat
         /\ h.kind = kind => Count(Append(q, h), kind) = Count(q, kind) + 1
         /\ h.kind # kind => Count(Append(q, h), kind) = Count(q, kind)
  <1> DEFINE S == {i \in 1 .. Len(q) : q[i].kind = kind}
             T == {i \in 1 .. Len(Append(q, h)) : Append(q, h)[i].kind = kind}
  <1>1. /\ Len(q) \in Nat /\ Len(Append(q, h)) = Len(q) + 1
        /\ \A i \in 1 .. Len(q) : Append(q, h)[i] = q[i]
        /\ Append(q, h)[Len(q) + 1] = h
    OBVIOUS
  <1>2. Count(q, kind) = Cardinality(S) /\ Count(Append(q, h), kind) = Cardinality(T)
    BY DEF Count
  <1>3. IsFiniteSet(S) /\ Count(q, kind) \in Nat
    BY CountIsNat
  <1>4. h.kind = kind => T = S \cup {Len(q) + 1}
    BY <1>1
  <1>5. h.kind # kind => T = S
    BY <1>1
  <1>6. Len(q) + 1 \notin S
    BY <1>1
  <1> HIDE DEF S, T
  <1>7. Cardinality(S \cup {Len(q) + 1}) = Cardinality(S) + 1
    BY <1>3, <1>6, FS_AddElement
  <1>8. CASE h.kind = kind
    BY <1>2, <1>3, <1>4, <1>7, <1>8
  <1>9. CASE h.kind # kind
    BY <1>2, <1>3, <1>5, <1>9
  <1> QED BY <1>8, <1>9

(* A handler that is taken.                                                *)
LEMMA CountTail ==
  ASSUME NEW q \in Seq(Handlers), q # <<>>, NEW kind
  PROVE  /\ Count(q, kind) \in Nat /\ Count(Tail(q), kind) \in Nat
         /\ Head(q).kind = kind => Count(q, kind) = Count(Tail(q), kind) + 1
         /\ Head(q).kind # kind => Count(q, kind) = Count(Tail(q), kind)
  <1> DEFINE S == {i \in 1 .. Len(q) : q[i].kind = kind}
             T == {i \in 1 .. Len(Tail(q)) : Tail(q)[i].kind = kind}
             f == [i \in T |-> i + 1]
  <1>1. /\ Len(q) \in Nat \ {0} /\ Len(Tail(q)) = Len(q) - 1
        /\ \A i \in 1 .. Len(q) - 1 : Tail(q)[i] = q[i + 1]
        /\ Head(q) = q[1] /\ Tail(q) \in Seq(Handlers)
    BY HeadTailProperties, EmptySeq
  <1>2. f \in [T -> S \ {1}]
    BY <1>1
  <1>3. \A i, j \in T : f[i] = f[j] => i = j
    BY <1>1
  <1>4. \A j \in S \ {1} : \E i \in T : f[i] = j
    <2> SUFFICES ASSUME NEW j \in S \ {1} PROVE j - 1 \in T /\ f[j - 1] = j
      OBVIOUS
    <2> QED BY <1>1
  <1>5. 1 \in S <=> Head(q).kind = kind
    BY <1>1
  <1>6. Count(q, kind) = Cardinality(S) /\ Count(Tail(q), kind) = Cardinality(T)
    BY DEF Count
  <1>7. IsFiniteSet(S) /\ IsFiniteSet(T) /\ Count(q, kind) \in Nat /\ Count(Tail(q), kind) \in Nat
    BY <1>1, CountIsNat
  <1> HIDE DEF S, T, f
  <1>8. f \in Bijection(T, S \ {1})
    BY <1>2, <1>3, <1>4 DEF Bijection, Injection, IsInjective, Surjection
  <1>9. Cardinality(S \ {1}) = Cardinality(T)
    BY <1>7, <1>8, FS_Bijection DEF ExistsBijection
  <1>10. Cardinality(S \ {1}) = IF 1 \in S THEN Cardinality(S) - 1 ELSE Cardinality(S)
    BY <1>7, FS_RemoveElement
  <1> QED BY <1>5, <1>6, <1>7, <1>9, <1>10

-----------------------------------------------------------------------------
(* A strand to which a handler is appended, ...                            *)
LEMMA Appended ==
  ASSUME NEW q \in Seq(Handlers), NEW h \in Handlers
  PROVE  /\ Append(q, h) \in Seq(Handlers)
         /\ Append(q, h) # <<>>
         /\ Acked(Append(q, h)) <=> Acked(q) \/ (h.kind = "send" /\ h.arg = TRUE)
         /\ \A p, n, b : h.kind # "dispatchSend" /\ p \in Seq(Nat) /\ n \in Nat /\ Numbered(q, p, n, b)
                           => Numbered(Append(q, h), p, n, b)
         /\ h.kind # "accept" /\ (\A i \in 1 .. Len(q) : q[i].kind # "accept")
              => \A i \in 1 .. Len(Append(q, h)) : Append(q, h)[i].kind # "accept"
  <1>1. /\ Len(q) \in Nat /\ Len(Append(q, h)) = Len(q) + 1
        /\ \A i \in 1 .. Len(q) : Append(q, h)[i] = q[i]
        /\ Append(q, h)[Len(q) + 1] = h
        /\ Append(q, h) \in Seq(Handlers) /\ Append(q, h) # <<>>
    OBVIOUS
  <1>2. Acked(Append(q, h)) <=> Acked(q) \/ (h.kind = "send" /\ h.arg = TRUE)
    <2>1. Acked(q) => Acked(Append(q, h))
      BY <1>1 DEF Acked
    <2>2. h.kind = "send" /\ h.arg = TRUE => Acked(Append(q, h))
      BY <1>1 DEF Acked
    <2>3. Acked(Append(q, h)) => Acked(q) \/ (h.kind = "send" /\ h.arg = TRUE)
      BY <1>1 DEF Acked
    <2> QED BY <2>1, <2>2, <2>3
  <1>3. ASSUME NEW p \in Seq(Nat), NEW n \in Nat, NEW b,
               h.kind # "dispatchSend", Numbered(q, p, n, b)
        PROVE  Numbered(Append(q, h), p, n, b)
    <2> DEFINE r == Append(q, h)
    <2>1. \A i \in 1 .. Len(r) : IsSend(r, i) => i \in 1 .. Len(q) /\ IsSend(q, i) /\ r[i] = q[i]
      BY <1>1, <1>3 DEF IsSend
    <2>2. \A i \in 1 .. Len(q) : IsSend(q, i) => i \in 1 .. Len(r) /\ IsSend(r, i) /\ r[i] = q[i]
      BY <1>1 DEF IsSend
    <2> HIDE DEF r
    <2>3. Numbered(r, p, n, b)
      BY <1>3, <2>1, <2>2 DEF Numbered
    <2> QED BY <2>3 DEF r
  <1>4. h.kind # "accept" /\ (\A i \in 1 .. Len(q) : q[i].kind # "accept")
          => \A i \in 1 .. Len(Append(q, h)) : Append(q, h)[i].kind # "accept"
    BY <1>1
  <1> QED BY <1>1, <1>2, <1>3, <1>4

(* Two handlers at once are one and then the other.                        *)
LEMMA PairAppended ==
  ASSUME NEW x \in Handlers, NEW y \in Handlers
  PROVE  <<>> \o <<x, y>> = Append(Append(<<>>, x), y)
  <1> DEFINE s == Append(<<>>, x)
             t == Append(s, y)
  <1>1. <<x, y>> \in Seq(Handlers) /\ Len(<<x, y>>) = 2
    OBVIOUS
  <1>2. <<x, y>>[1] = x /\ <<x, y>>[2] = y
    OBVIOUS
  <1>3. s \in Seq(Handlers) /\ Len(s) = 1 /\ s[1] = x
    BY EmptySeq
  <1> HIDE DEF s
  <1>4. t \in Seq(Handlers) /\ Len(t) = 2 /\ t[1] = x /\ t[2] = y
    <2>1. /\ t \in Seq(Handlers) /\ Len(t) = Len(s) + 1
          /\ t[Len(s) + 1] = y /\ \A i \in 1 .. Len(s) : t[i] = s[i]
      BY <1>3, AppendIs
    <2> HIDE DEF t
    <2>2. 1 \in 1 .. 1 /\ 1 + 1 = 2
      OBVIOUS
    <2> QED BY <1>3, <2>1, <2>2
  <1> HIDE DEF t
  <1>5. \A i \in 1 .. 2 : i = 1 \/ i = 2
    OBVIOUS
  <1>6. <<x, y>> = t
    BY <1>1, <1>2, <1>4, <1>5, SeqEqual
  <1>7. <<>> \o <<x, y>> = <<x, y>>
    BY <1>1, ConcatEmptySeq
  <1> QED BY <1>6, <1>7 DEF s, t

(* ... among them a message, ...                                           *)
LEMMA SendAppended ==
  ASSUME NEW q \in Seq(Handlers), NEW p \in Seq(Nat), NEW n \in Nat, NEW b, Numbered(q, p, n, b)
  PROVE  Numbered(Append(q, Handler("dispatchSend", n + 1)), p, n + 1, b)
  <1> DEFINE h == Handler("dispatchSend", n + 1)
             r == Append(q, h)
  <1>1. /\ Len(q) \in Nat /\ Len(r) = Len(q) + 1 /\ Len(p) \in Nat
        /\ \A i \in 1 .. Len(q) : r[i] = q[i]
        /\ r[Len(q) + 1] = h
    BY DEF Handlers, Kinds, Handler
  <1>2. h.kind = "dispatchSend" /\ h.arg = n + 1
    BY DEF Handler
  <1>3. \A i \in 1 .. Len(q) : r[i] = q[i] /\ (IsSend(r, i) <=> IsSend(q, i))
    BY <1>1 DEF IsSend
  <1>4. IsSend(r, Len(q) + 1) /\ r[Len(q) + 1].arg = n + 1
    BY <1>1, <1>2 DEF IsSend
  <1> HIDE DEF r, h
  <1>5. Numbered(r, p, n + 1, b)
    <2>1. b \in Nat /\ b + Len(p) <= n + 1 /\ \A i \in 1 .. Len(p) : p[i] = b + i
      BY <1>1 DEF Numbered
    <2>2. ASSUME NEW i \in 1 .. Len(r), IsSend(r, i) PROVE r[i].arg \in b + Len(p) + 1 .. n + 1
      <3>1. CASE i = Len(q) + 1
        BY <1>1, <1>4, <2>1, <2>2, <3>1 DEF Numbered
      <3>2. CASE i # Len(q) + 1
        <4>1. i \in 1 .. Len(q) /\ IsSend(q, i) /\ r[i] = q[i]
          BY <1>1, <1>3, <2>2, <3>2
        <4>2. r[i].arg \in b + Len(p) + 1 .. n
          BY <4>1 DEF Numbered
        <4> QED BY <1>1, <2>1, <4>2
      <3> QED BY <3>1, <3>2
    <2>3. ASSUME NEW k \in b + Len(p) + 1 .. n + 1
          PROVE  \E i \in 1 .. Len(r) : IsSend(r, i) /\ r[i].arg = k
      <3>1. CASE k = n + 1
        BY <1>1, <1>4, <3>1
      <3>2. CASE k # n + 1
        <4>1. k \in b + Len(p) + 1 .. n
          BY <3>2, <1>1, <2>1
        <4> QED BY <1>1, <1>3, <4>1, SMTT(60) DEF Numbered
      <3> QED BY <3>1, <3>2
    <2>4. ASSUME NEW i \in 1 .. Len(r), NEW j \in 1 .. Len(r), i < j, IsSend(r, i), IsSend(r, j)
          PROVE  r[i].arg < r[j].arg
      <3>0. i \in 1 .. Len(q) /\ IsSend(q, i) /\ r[i] = q[i] /\ q[i].arg \in b + Len(p) + 1 .. n
        BY <1>1, <1>3, <2>4 DEF Numbered
      <3>1. CASE j = Len(q) + 1
        BY <1>1, <1>4, <2>1, <3>0, <3>1
      <3>2. CASE j # Len(q) + 1
        <4>1. j \in 1 .. Len(q) /\ IsSend(q, j) /\ r[j] = q[j]
          BY <1>1, <1>3, <2>4, <3>2
        <4> QED BY <2>4, <3>0, <4>1 DEF Numbered
      <3> QED BY <3>1, <3>2
    <2> QED BY <2>1, <2>2, <2>3, <2>4 DEF Numbered
  <1> QED BY <1>5 DEF r, h

(* ... a strand whose first handler is taken, ...                          *)
LEMMA Taken ==
  ASSUME NEW q \in Seq(Handlers), q # <<>>
  PROVE  /\ Tail(q) \in Seq(Handlers)
         /\ Head(q) \in Handlers
         /\ Head(q).kind # "send" => (Acked(Tail(q)) <=> Acked(q))
         /\ \A p, n, b : Head(q).kind # "dispatchSend" /\ p \in Seq(Nat) /\ n \in Nat /\ Numbered(q, p, n, b)
                           => Numbered(Tail(q), p, n, b)
  <1>1. /\ Len(q) \in Nat \ {0} /\ Len(Tail(q)) = Len(q) - 1
        /\ \A i \in 1 .. Len(q) - 1 : Tail(q)[i] = q[i + 1]
        /\ Head(q) = q[1] /\ Tail(q) \in Seq(Handlers) /\ Head(q) \in Handlers
    BY HeadTailProperties, EmptySeq
  <1>2. ASSUME Head(q).kind # "send" PROVE Acked(Tail(q)) <=> Acked(q)
    <2>1. Acked(Tail(q)) => Acked(q)
      BY <1>1 DEF Acked
    <2>2. ASSUME NEW i \in 1 .. Len(q), q[i].kind = "send", q[i].arg = TRUE PROVE Acked(Tail(q))
      <3>1. i # 1 /\ i - 1 \in 1 .. Len(Tail(q)) /\ Tail(q)[i - 1] = q[i]
        BY <1>1, <1>2, <2>2
      <3> QED BY <2>2, <3>1 DEF Acked
    <2> QED BY <2>1, <2>2 DEF Acked
  <1>3. ASSUME NEW p \in Seq(Nat), NEW n \in Nat, NEW b,
               Head(q).kind # "dispatchSend", Numbered(q, p, n, b)
        PROVE  Numbered(Tail(q), p, n, b)
    <2> DEFINE r == Tail(q)
    <2>1. \A i \in 1 .. Len(r) : i + 1 \in 1 .. Len(q) /\ r[i] = q[i + 1] /\ (IsSend(r, i) <=> IsSend(q, i + 1))
      BY <1>1 DEF IsSend
    <2>2. \A i \in 1 .. Len(q) : IsSend(q, i) =>
            i - 1 \in 1 .. Len(r) /\ IsSend(r, i - 1) /\ r[i - 1] = q[i]
      BY <1>1, <1>3 DEF IsSend
    <2> HIDE DEF r
    <2>3. \A i \in 1 .. Len(r) : IsSend(r, i) => r[i].arg \in b + Len(p) + 1 .. n
      BY <1>3, <2>1 DEF Numbered
    <2>4. \A k \in b + Len(p) + 1 .. n : \E i \in 1 .. Len(r) : IsSend(r, i) /\ r[i].arg = k
      BY <1>3, <2>2, ZenonT(60) DEF Numbered
    <2>5. ASSUME NEW i \in 1 .. Len(r), NEW j \in 1 .. Len(r), i < j, IsSend(r, i), IsSend(r, j)
          PROVE  r[i].arg < r[j].arg
      <3>1. i + 1 \in 1 .. Len(q) /\ j + 1 \in 1 .. Len(q) /\ i + 1 < j + 1
            /\ IsSend(q, i + 1) /\ IsSend(q, j + 1)
        BY <2>1, <2>5
      <3>2. q[i + 1].arg < q[j + 1].arg
        BY <1>3, <3>1 DEF Numbered
      <3> QED BY <2>1, <3>2
    <2>6. Numbered(r, p, n, b)
      BY <1>3, <2>3, <2>4, <2>5 DEF Numbered
    <2> QED BY <2>6 DEF r
  <1> QED BY <1>1, <1>2, <1>3

(* ... and put on the list of messages.                                    *)
LEMMA SendTaken ==
  ASSUME NEW q \in Seq(Handlers), q # <<>>, IsSend(q, 1),
         NEW p \in Seq(Nat), NEW n \in Nat, NEW b, Numbered(q, p, n, b)
  PROVE  /\ Head(q).arg = b + Len(p) + 1
         /\ Numbered(Tail(q), Append(p, Head(q).arg), n, b)
  <1> DEFINE r == Tail(q)
             a == Head(q).arg
             s == Append(p, a)
  <1>1. /\ Len(q) \in Nat \ {0} /\ Len(r) = Len(q) - 1 /\ Len(p) \in Nat
        /\ \A i \in 1 .. Len(q) - 1 : r[i] = q[i + 1]
        /\ Head(q) = q[1]
    BY HeadTailProperties, EmptySeq
  <1>2. b \in Nat /\ a \in b + Len(p) + 1 .. n
    BY <1>1 DEF Numbered
  <1>3. a = b + Len(p) + 1
    <2>1. PICK i \in 1 .. Len(q) : IsSend(q, i) /\ q[i].arg = b + Len(p) + 1
      BY <1>1, <1>2, SMTT(60) DEF Numbered
    <2>2. i # 1 => a < b + Len(p) + 1
      BY <1>1, <2>1 DEF Numbered
    <2> QED BY <1>1, <1>2, <2>1, <2>2
  <1>4. Len(s) = Len(p) + 1 /\ s[Len(p) + 1] = a /\ \A i \in 1 .. Len(p) : s[i] = p[i]
    BY <1>1, <1>2
  <1>5. \A i \in 1 .. Len(r) : i + 1 \in 1 .. Len(q) /\ r[i] = q[i + 1] /\ (IsSend(r, i) <=> IsSend(q, i + 1))
    BY <1>1 DEF IsSend
  <1>6. \A i \in 2 .. Len(q) : i - 1 \in 1 .. Len(r) /\ r[i - 1] = q[i] /\ (IsSend(r, i - 1) <=> IsSend(q, i))
    BY <1>1 DEF IsSend
  <1>7. q[1].arg = a
    BY <1>1
  <1> HIDE DEF r, a, s
  <1>8. Numbered(r, s, n, b)
    <2>1. b \in Nat /\ b + Len(s) <= n
      BY <1>1, <1>2, <1>3, <1>4
    <2>2. ASSUME NEW i \in 1 .. Len(s) PROVE s[i] = b + i
      <3>1. CASE i = Len(p) + 1
        <4> HIDE DEF Numbered
        <4> QED BY <1>1, <1>2, <1>3, <1>4, <3>1
      <3>2. CASE i # Len(p) + 1
        <4>1. i \in 1 .. Len(p)
          BY <1>1, <1>4, <3>2
        <4> QED BY <1>4, <4>1 DEF Numbered
      <3> QED BY <3>1, <3>2
    <2>3. ASSUME NEW i \in 1 .. Len(r), IsSend(r, i) PROVE r[i].arg \in b + Len(s) + 1 .. n
      <3>1. IsSend(q, i + 1) /\ i + 1 \in 1 .. Len(q) /\ r[i] = q[i + 1] /\ 1 < i + 1
        BY <1>5, <2>3
      <3>2. q[i + 1].arg \in b + Len(p) + 1 .. n
        BY <3>1 DEF Numbered
      <3>3. 1 \in 1 .. Len(q) /\ IsSend(q, 1)
        BY <1>1
      <3>4. q[1].arg < q[i + 1].arg
        BY <3>1, <3>3 DEF Numbered
      <3>5. Len(s) = Len(p) + 1 /\ Len(p) \in Nat /\ b \in Nat /\ n \in Nat
        BY <1>1, <1>2, <1>4
      <3>6. b + Len(p) + 1 < q[i + 1].arg
        BY <1>3, <1>7, <3>4
      <3>7. q[i + 1].arg \in b + Len(s) + 1 .. n
        BY <3>2, <3>5, <3>6
      <3> QED BY <3>1, <3>7
    <2>4. ASSUME NEW k \in b + Len(s) + 1 .. n
          PROVE  \E i \in 1 .. Len(r) : IsSend(r, i) /\ r[i].arg = k
      <3>1. k \in b + Len(p) + 1 .. n /\ k # a
        BY <1>1, <1>2, <1>3, <1>4, <2>4
      <3>2. PICK i \in 1 .. Len(q) : IsSend(q, i) /\ q[i].arg = k
        BY <3>1 DEF Numbered
      <3>3. i \in 2 .. Len(q)
        BY <1>7, <3>1, <3>2
      <3> QED BY <1>6, <3>2, <3>3
    <2>5. ASSUME NEW i \in 1 .. Len(r), NEW j \in 1 .. Len(r), i < j, IsSend(r, i), IsSend(r, j)
          PROVE  r[i].arg < r[j].arg
      <3>1. i + 1 \in 1 .. Len(q) /\ j + 1 \in 1 .. Len(q) /\ i + 1 < j + 1
            /\ IsSend(q, i + 1) /\ IsSend(q, j + 1)
        BY <1>5, <2>5
      <3>2. q[i + 1].arg < q[j + 1].arg
        BY <3>1 DEF Numbered
      <3> QED BY <1>5, <3>2
    <2> QED BY <2>1, <2>2, <2>3, <2>4, <2>5 DEF Numbered
  <1> QED BY <1>3, <1>8 DEF r, s, a

(* A message that is done leaves the list.                                 *)
LEMMA SendDone ==
  ASSUME NEW q \in Seq(Handlers), NEW p \in Seq(Nat), p # <<>>,
         NEW n \in Nat, NEW b, Numbered(q, p, n, b)
  PROVE  /\ Tail(p) \in Seq(Nat)
         /\ Numbered(q, Tail(p), n, b + 1)
  <1>1. /\ Len(p) \in Nat \ {0} /\ Len(Tail(p)) = Len(p) - 1
        /\ \A i \in 1 .. Len(p) - 1 : Tail(p)[i] = p[i + 1]
        /\ Tail(p) \in Seq(Nat)
    BY HeadTailProperties, EmptySeq
  <1>2. b \in Nat /\ b + 1 + Len(Tail(p)) = b + Len(p)
    BY <1>1 DEF Numbered
  <1>3. \A i \in 1 .. Len(Tail(p)) : Tail(p)[i] = b + 1 + i
    BY <1>1, <1>2 DEF Numbered
  <1> QED BY <1>1, <1>2, <1>3 DEF Numbered

-----------------------------------------------------------------------------
(* A step concerns one connection, c.                                      *)
OnlyAt(c) ==
  \A d \in Conn \ {c} :
    /\ queue'[d] = queue[d] /\ pendingSends'[d] = pendingSends[d] /\ writes'[d] = writes[d]
    /\ pendingReceives'[d] = pendingReceives[d] /\ reads'[d] = reads[d]
    /\ sent'[d] = sent[d] /\ wire'[d] = wire[d]
    /\ d \in errorState' <=> d \in errorState
    /\ d \in playersById' <=> d \in playersById
    /\ d \in chosen' <=> d \in chosen

(* A connection that a step leaves alone keeps its part.                   *)
LEMMA OthersKeep ==
  ASSUME NetInv, NEW c \in Conn, OnlyAt(c), NEW d \in Conn \ {c}
  PROVE  ConnInv(d)'
  <1>1. ConnInv(d)
    BY DEF NetInv
  <1>2. /\ queue'[d] = queue[d] /\ pendingSends'[d] = pendingSends[d] /\ writes'[d] = writes[d]
        /\ pendingReceives'[d] = pendingReceives[d] /\ reads'[d] = reads[d]
        /\ sent'[d] = sent[d] /\ wire'[d] = wire[d]
        /\ d \in errorState' <=> d \in errorState
        /\ d \in playersById' <=> d \in playersById
        /\ d \in chosen' <=> d \in chosen
    BY DEF OnlyAt
  <1> QED BY <1>1, <1>2 DEF ConnInv

(* A step of a connection which has been accepted, and at which nothing is *)
(* accepted, keeps the invariant if it keeps the part of c.                *)
LEMMA StepAt ==
  ASSUME NetInv, Up, NEW c \in Conn, OnlyAt(c), Types', ConnInv(c)',
         sent[c] > 0, sent'[c] > 0, accepting' = accepting,
         \A i \in 1 .. Len(queue'[c]) : queue'[c][i].kind # "accept",
         Up' => (c \in playersById' <=> c \notin errorState')
  PROVE  NetInv'
  <1>1. \A d \in Conn : ConnInv(d)'
    BY OthersKeep
  <1>2. PlayersAreConnected'
    BY DEF NetInv, PlayersAreConnected, OnlyAt, Up
  <1>3. AcceptInv'
    <2>1. AcceptInv
      BY DEF NetInv
    <2>2. \A d \in Conn : sent'[d] = 0 => d # c /\ sent[d] = 0
      BY SMTT(60) DEF OnlyAt, Types
    <2>3. \A d \in Conn : sent'[d] = 0 => Untouched(d)'
      BY <2>1, <2>2, ZenonT(60) DEF OnlyAt, AcceptInv, Untouched
    <2>4. \A d \in Conn : sent'[d] > 0 =>
            \A i \in 1 .. Len(queue'[d]) : queue'[d][i].kind # "accept"
      BY <2>1 DEF OnlyAt, AcceptInv
    <2>5. accepting' # NoConn => \A d \in Conn : sent'[d] = 0 => queue'[d] = <<>>
      BY <2>1, <2>2 DEF OnlyAt, AcceptInv
    <2>6. accepting' # NoConn => sent'[accepting'] = 0
      <3>1. accepting # NoConn => accepting \in Conn /\ sent[accepting] = 0
        BY <2>1 DEF AcceptInv, NetInv, Types
      <3> QED BY <3>1 DEF OnlyAt
    <2>7. \A d, e \in Conn :
            sent'[d] = 0 /\ queue'[d] # <<>> /\ sent'[e] = 0 /\ queue'[e] # <<>> => d = e
      BY <2>1, <2>2 DEF OnlyAt, AcceptInv
    <2> QED BY <2>3, <2>4, <2>5, <2>6, <2>7 DEF AcceptInv
  <1> QED BY <1>1, <1>2, <1>3 DEF NetInv

(* What the invariant says of the connection whose handler is run.         *)
LEMMA AtHandler ==
  ASSUME NetInv, NEW c \in Conn, NEW kind, kind # "accept", IsNext(c, kind)
  PROVE  /\ Up /\ sent[c] > 0 /\ sent[c] \in Nat
         /\ queue[c] \in Seq(Handlers) /\ queue[c] # <<>> /\ Head(queue[c]).kind = kind
         /\ Head(queue[c]) = queue[c][1] /\ Len(queue[c]) \in Nat \ {0}
         /\ \A i \in 1 .. Len(Tail(queue[c])) : Tail(queue[c])[i].kind # "accept"
  <1>1. Up /\ queue[c] # <<>> /\ Head(queue[c]).kind = kind
    BY DEF IsNext
  <1>2. queue[c] \in Seq(Handlers) /\ sent[c] \in 0 .. MaxSent
    BY DEF NetInv, Types
  <1>3. /\ Head(queue[c]) = queue[c][1] /\ Len(queue[c]) \in Nat \ {0}
        /\ Len(Tail(queue[c])) = Len(queue[c]) - 1
        /\ \A i \in 1 .. Len(Tail(queue[c])) : Tail(queue[c])[i] = queue[c][i + 1]
    BY <1>1, <1>2, HeadTailProperties, EmptySeq
  <1>4. AcceptInv
    BY <1>1 DEF NetInv
  <1>5. ASSUME sent[c] = 0 PROVE FALSE
    <2>1. queue[c] = <<Handler("accept", TRUE)>> \/ queue[c] = <<Handler("accept", FALSE)>>
      BY <1>1, <1>4, <1>5 DEF AcceptInv, Untouched
    <2>2. Head(queue[c]).kind = "accept"
      BY <2>1 DEF Handler
    <2> QED BY <1>1, <2>2
  <1>6. sent[c] > 0 /\ sent[c] \in Nat
    BY <1>2, <1>5, MaxSentAssumption
  <1>7. \A i \in 1 .. Len(queue[c]) : queue[c][i].kind # "accept"
    BY <1>4, <1>6 DEF AcceptInv
  <1> QED BY <1>1, <1>2, <1>3, <1>6, <1>7

(* A write that is started for the first message of a list.                *)
LEMMA OneWrite ==
  ASSUME NEW q, NEW p, p # <<>>, Count(q, "send") = 0
  PROVE  /\ WriteOrder(q, p, <<Head(p)>>)
         /\ WriteGoesOn(q, p, <<Head(p)>>)
  <1>1. \A x : Len(<<x>>) = 1 /\ Head(<<x>>) = x
    OBVIOUS
  <1>2. Len(<<Head(p)>>) = 1 /\ Head(<<Head(p)>>) = Head(p)
    BY <1>1
  <1> QED BY <1>2 DEF WriteOrder, WriteGoesOn

(* dispatchSend lists the message, and writes it if it is alone.           *)
LEMMA DispatchSendKeeps ==
  ASSUME NetInv, NEW c \in Conn, DispatchSend(c)
  PROVE  NetInv'
  <1> DEFINE q == queue[c]
             p == pendingSends[c]
             a == Head(q).arg
  <1>1. IsNext(c, "dispatchSend")
    BY DEF DispatchSend
  <1>2. /\ Up /\ sent[c] > 0 /\ sent[c] \in Nat
        /\ q \in Seq(Handlers) /\ q # <<>> /\ Head(q).kind = "dispatchSend"
        /\ Head(q) = q[1] /\ Len(q) \in Nat \ {0}
        /\ \A i \in 1 .. Len(Tail(q)) : Tail(q)[i].kind # "accept"
    BY <1>1, AtHandler
  <1>3. Types /\ ConnInv(c)
    BY DEF NetInv
  <1>4. /\ queue' = [queue EXCEPT ![c] = Tail(q)]
        /\ pendingSends' = [pendingSends EXCEPT ![c] = Append(p, a)]
        /\ writes' = IF p = <<>> THEN [writes EXCEPT ![c] = <<a>>] ELSE writes
        /\ UNCHANGED <<accepting, reads, wire, pendingReceives, errorState, playersById, chosen,
                       sent, udpReads, udpPackets, shutdown, crashed>>
    BY DEF DispatchSend, Done, Arg, hive
  <1>5. Tail(q) \in Seq(Handlers) /\ (Acked(Tail(q)) <=> Acked(q)) /\ Head(q) \in Handlers
    BY <1>2, Taken
  <1>6. PICK b \in Nat : /\ Numbered(q, p, sent[c], b)
                         /\ c \notin errorState => UpToWire(q, wire[c], b)
    BY <1>3 DEF ConnInv
  <1>7. p \in Seq(Nat)
    BY <1>3 DEF Types
  <1>8. /\ a = b + Len(p) + 1
        /\ Numbered(Tail(q), Append(p, a), sent[c], b)
    BY <1>2, <1>6, <1>7, SendTaken DEF IsSend
  <1>9. a \in Nat
    BY <1>7, <1>8
  <1>10. Types'
    <2>1. Append(p, a) \in Seq(Nat) /\ <<a>> \in Seq(Nat)
      BY <1>7, <1>9
    <2>2. queue' \in [Conn -> Seq(Handlers)] /\ pendingSends' \in [Conn -> Seq(Nat)]
          /\ writes' \in [Conn -> Seq(Nat)]
      BY <1>3, <1>4, <1>5, <2>1 DEF Types
    <2> QED BY <1>3, <1>4, <2>2 DEF Types
  <1>11. /\ queue'[c] = Tail(q) /\ pendingSends'[c] = Append(p, a)
         /\ writes'[c] = IF p = <<>> THEN <<a>> ELSE writes[c]
    BY <1>3, <1>4 DEF Types
  <1>12. /\ Count(q, "send") = Count(Tail(q), "send")
         /\ Count(q, "receive") = Count(Tail(q), "receive")
         /\ Count(q, "dispatchReceive") = Count(Tail(q), "dispatchReceive")
         /\ Count(Tail(q), "send") \in Nat
    BY <1>2, CountTail
  <1>13. /\ WriteOrder(queue'[c], pendingSends'[c], writes'[c])
         /\ c \notin errorState => WriteGoesOn(queue'[c], pendingSends'[c], writes'[c])
    <2>1. Len(writes[c]) \in Nat /\ Append(p, a) # <<>>
      <3>1. writes[c] \in Seq(Nat)
        BY <1>3 DEF Types
      <3>2. Len(writes[c]) \in Nat
        BY <3>1
      <3>3. Append(p, a) # <<>>
        BY <1>7, <1>9, SMTT(30)
      <3> QED BY <3>2, <3>3
    <2>2. CASE p = <<>>
      <3>1. Len(writes[c]) = 0 /\ Count(q, "send") = 0
        BY <1>3, <1>12, <2>1, <2>2 DEF ConnInv, WriteOrder
      <3>2. writes'[c] = <<a>> /\ Append(p, a) = <<a>> /\ Len(<<a>>) = 1
        BY <1>11, <2>2
      <3>3. /\ queue'[c] = Tail(q) /\ pendingSends'[c] = <<a>>
            /\ Count(Tail(q), "send") = 0 /\ <<a>> # <<>>
        BY <1>11, <1>12, <3>1, <3>2
      <3> QED BY <3>2, <3>3 DEF WriteOrder, WriteGoesOn
    <2>3. CASE p # <<>>
      <3>1. Head(Append(p, a)) = Head(p)
        BY <1>7, <1>9, <2>3
      <3> QED BY <1>3, <1>11, <1>12, <2>1, <2>3, <3>1 DEF ConnInv, WriteOrder, WriteGoesOn
    <2> QED BY <2>2, <2>3
  <1>14. /\ ReadOrder(queue'[c], reads[c], pendingReceives[c])
         /\ c \in playersById => ReadGoesOn(queue'[c], reads[c])
    BY <1>3, <1>11, <1>12 DEF ConnInv, ReadOrder, ReadGoesOn
  <1>15. /\ Numbered(queue'[c], pendingSends'[c], sent[c], b)
         /\ c \notin errorState => UpToWire(queue'[c], wire[c], b)
    BY <1>5, <1>6, <1>8, <1>11 DEF UpToWire
  <1>16. ConnInv(c)'
    BY <1>3, <1>4, <1>13, <1>14, <1>15 DEF ConnInv
  <1>17. OnlyAt(c)
    BY <1>3, <1>4 DEF OnlyAt, Types
  <1>18. c \in playersById <=> c \notin errorState
    BY <1>2 DEF NetInv, PlayersAreConnected
  <1> QED BY <1>2, <1>4, <1>10, <1>11, <1>16, <1>17, <1>18, StepAt

(* handleSend and handleReceive when the connection fails, or has failed.  *)
LEMMA FailureKeeps ==
  ASSUME NetInv, NEW c \in Conn, NEW kind \in {"send", "receive"}, IsNext(c, kind),
         StartError(c), Done(c),
         UNCHANGED <<accepting, reads, writes, wire, pendingSends, pendingReceives, chosen, sent,
                     udpReads, udpPackets, shutdown>>
  PROVE  NetInv'
  <1> DEFINE q == queue[c]
  <1>1. /\ Up /\ sent[c] > 0 /\ sent[c] \in Nat
        /\ q \in Seq(Handlers) /\ q # <<>> /\ Head(q).kind = kind
        /\ \A i \in 1 .. Len(Tail(q)) : Tail(q)[i].kind # "accept"
    BY AtHandler
  <1>2. Types /\ ConnInv(c)
    BY DEF NetInv
  <1>3. /\ queue' = [queue EXCEPT ![c] = Tail(q)]
        /\ errorState' = errorState \cup {c}
        /\ playersById' = playersById \ {c}
        /\ crashed' \in BOOLEAN
    BY DEF Done, StartError
  <1>4. /\ Tail(q) \in Seq(Handlers)
        /\ \A p, n, b : p \in Seq(Nat) /\ n \in Nat /\ Numbered(q, p, n, b)
                          => Numbered(Tail(q), p, n, b)
    BY <1>1, Taken
  <1>5. Types'
    BY <1>2, <1>3, <1>4 DEF Types
  <1>6. queue'[c] = Tail(q) /\ c \in errorState' /\ c \notin playersById'
    BY <1>2, <1>3 DEF Types
  <1>7. /\ Count(Tail(q), "send") \in Nat /\ Count(Tail(q), "receive") \in Nat
        /\ Count(Tail(q), "dispatchReceive") \in Nat
        /\ Count(q, "send") = Count(Tail(q), "send") \/ Count(q, "send") = Count(Tail(q), "send") + 1
        /\ \/ Count(q, "receive") = Count(Tail(q), "receive")
           \/ Count(q, "receive") = Count(Tail(q), "receive") + 1
        /\ Count(q, "dispatchReceive") = Count(Tail(q), "dispatchReceive")
    BY <1>1, CountTail
  <1>8. writes[c] \in Seq(Nat) /\ Len(writes[c]) \in Nat /\ reads[c] \in Nat
    BY <1>2 DEF Types
  <1>9. WriteOrder(queue'[c], pendingSends[c], writes[c])
    BY <1>2, <1>6, <1>7, <1>8 DEF ConnInv, WriteOrder
  <1>10. ReadOrder(queue'[c], reads[c], pendingReceives[c])
    BY <1>2, <1>6, <1>7, <1>8 DEF ConnInv, ReadOrder
  <1>11. \E b \in Nat : Numbered(queue'[c], pendingSends[c], sent[c], b)
    BY <1>1, <1>2, <1>4, <1>6 DEF ConnInv, Types
  <1>12. ConnInv(c)'
    BY <1>2, <1>6, <1>9, <1>10, <1>11 DEF ConnInv
  <1>13. OnlyAt(c)
    BY <1>2, <1>3 DEF OnlyAt, Types
  <1> QED BY <1>1, <1>5, <1>6, <1>12, <1>13, StepAt

(* handleSend drops the written message and writes the next.               *)
LEMMA HandleSendKeeps ==
  ASSUME NetInv, NEW c \in Conn, HandleSend(c)
  PROVE  NetInv'
  <1> DEFINE q == queue[c]
             p == pendingSends[c]
  <1>1. IsNext(c, "send")
    BY DEF HandleSend
  <1>2. CASE StartError(c) /\ UNCHANGED <<pendingSends, writes>>
    BY <1>1, <1>2, FailureKeeps DEF HandleSend
  <1>3. CASE /\ Arg(c) /\ c \notin errorState /\ ~shutdown
             /\ pendingSends' = [pendingSends EXCEPT ![c] = Tail(@)]
             /\ writes' = [writes EXCEPT ![c] =
                             IF Tail(pendingSends[c]) # <<>>
                             THEN <<Head(Tail(pendingSends[c]))>> ELSE @]
             /\ UNCHANGED <<errorState, playersById, crashed>>
    <2>1. /\ Up /\ sent[c] > 0 /\ sent[c] \in Nat
          /\ q \in Seq(Handlers) /\ q # <<>> /\ Head(q).kind = "send"
          /\ Head(q) = q[1] /\ Len(q) \in Nat \ {0}
          /\ \A i \in 1 .. Len(Tail(q)) : Tail(q)[i].kind # "accept"
      BY <1>1, AtHandler
    <2>2. Types /\ ConnInv(c) /\ p \in Seq(Nat) /\ writes[c] \in Seq(Nat) /\ Len(writes[c]) \in Nat
      BY SMTT(60) DEF NetInv, Types
    <2>3. /\ Tail(q) \in Seq(Handlers) /\ Head(q) \in Handlers
          /\ \A n, b : n \in Nat /\ Numbered(q, p, n, b) => Numbered(Tail(q), p, n, b)
      BY <2>1, <2>2, Taken
    <2>4. /\ Count(q, "send") = Count(Tail(q), "send") + 1
          /\ Count(q, "receive") = Count(Tail(q), "receive")
          /\ Count(q, "dispatchReceive") = Count(Tail(q), "dispatchReceive")
          /\ Count(Tail(q), "send") \in Nat
      BY <2>1, CountTail
    <2>5. Count(Tail(q), "send") = 0 /\ Len(writes[c]) = 0 /\ p # <<>>
      BY <2>2, <2>4 DEF ConnInv, WriteOrder
    <2>6. ~Acked(Tail(q))
      <3>1. \A i \in 1 .. Len(Tail(q)) : Tail(q)[i].kind # "send"
        BY <2>3, <2>5, CountIsNat
      <3> QED BY <3>1 DEF Acked
    <2>7. Acked(q)
      <3>1. Head(q).arg = TRUE
        BY <1>3, <2>1, <2>3 DEF Arg, Handlers
      <3> QED BY <2>1, <3>1 DEF Acked
    <2>8. PICK b \in Nat : Numbered(q, p, sent[c], b) /\ UpToWire(q, wire[c], b)
      BY <1>3, <2>2 DEF ConnInv
    <2>9. Tail(p) \in Seq(Nat) /\ Numbered(Tail(q), Tail(p), sent[c], b + 1)
      BY <2>1, <2>2, <2>3, <2>5, <2>8, SendDone
    <2>10. UpToWire(Tail(q), wire[c], b + 1)
      BY <2>6, <2>7, <2>8 DEF UpToWire
    <2>11. writes[c] = <<>>
      BY <2>2, <2>5
    <2>12. Tail(p) # <<>> => Head(Tail(p)) \in Nat /\ <<Head(Tail(p))>> \in Seq(Nat)
      BY <2>9, HeadTailProperties, SMTT(60)
    <2>13. /\ queue' = [queue EXCEPT ![c] = Tail(q)]
           /\ UNCHANGED <<accepting, reads, wire, pendingReceives, chosen, sent, udpReads,
                          udpPackets, shutdown>>
      BY DEF HandleSend, Done
    <2>14. /\ queue'[c] = Tail(q) /\ pendingSends'[c] = Tail(p)
           /\ Tail(p) # <<>> => writes'[c] = <<Head(Tail(p))>>
           /\ Tail(p) = <<>> => writes'[c] = <<>>
      BY <1>3, <2>2, <2>11, <2>13 DEF Types
    <2>15. Types'
      <3>1. queue' \in [Conn -> Seq(Handlers)] /\ pendingSends' \in [Conn -> Seq(Nat)]
        BY <1>3, <2>2, <2>3, <2>9, <2>13 DEF Types
      <3>2. writes' \in [Conn -> Seq(Nat)]
        BY <1>3, <2>2, <2>12 DEF Types
      <3> QED BY <1>3, <2>2, <2>13, <3>1, <3>2 DEF Types
    <2>16. /\ WriteOrder(queue'[c], pendingSends'[c], writes'[c])
           /\ WriteGoesOn(queue'[c], pendingSends'[c], writes'[c])
      <3>1. CASE Tail(p) = <<>>
        <4>1. Len(<<>>) = 0
          OBVIOUS
        <4> QED BY <2>5, <2>14, <3>1, <4>1 DEF WriteOrder, WriteGoesOn
      <3>2. CASE Tail(p) # <<>>
        BY <2>5, <2>14, <3>2, OneWrite
      <3> QED BY <3>1, <3>2
    <2>17. /\ ReadOrder(queue'[c], reads[c], pendingReceives[c])
           /\ c \in playersById => ReadGoesOn(queue'[c], reads[c])
      BY <2>2, <2>4, <2>14 DEF ConnInv, ReadOrder, ReadGoesOn
    <2>18. /\ Numbered(queue'[c], pendingSends'[c], sent[c], b + 1)
           /\ UpToWire(queue'[c], wire[c], b + 1)
           /\ b + 1 \in Nat
      BY <2>9, <2>10, <2>14
    <2>19. ConnInv(c)'
      BY <1>3, <2>2, <2>13, <2>16, <2>17, <2>18 DEF ConnInv
    <2>20. OnlyAt(c)
      BY <1>3, <2>2, <2>13 DEF OnlyAt, Types
    <2>21. c \in playersById <=> c \notin errorState
      BY <2>1 DEF NetInv, PlayersAreConnected
    <2> QED BY <1>3, <2>1, <2>13, <2>14, <2>15, <2>19, <2>20, <2>21, StepAt
  <1> QED BY <1>2, <1>3 DEF HandleSend

(* The read that is under way is the only one.                             *)
LEMMA OneRead ==
  ASSUME NEW q \in Seq(Handlers), NEW r \in Nat, NEW pr \in 0 .. 1, ReadOrder(q, r, pr)
  PROVE  /\ Count(q, "dispatchReceive") # 0 =>
              r = 0 /\ pr = 0 /\ Count(q, "receive") = 0 /\ Count(q, "dispatchReceive") = 1
         /\ Count(q, "receive") # 0 =>
              r = 0 /\ pr = 1 /\ Count(q, "receive") = 1 /\ Count(q, "dispatchReceive") = 0
  <1>1. Count(q, "receive") \in Nat /\ Count(q, "dispatchReceive") \in Nat
    BY CountIsNat
  <1>2. /\ r + Count(q, "receive") + Count(q, "dispatchReceive") <= 1
        /\ r + Count(q, "receive") = 1 => pr = 1
        /\ Count(q, "dispatchReceive") = 1 => pr = 0
    BY DEF ReadOrder
  <1> QED BY <1>1, <1>2

(* dispatchReceive reads at once, or lists the request.                    *)
LEMMA DispatchReceiveKeeps ==
  ASSUME NetInv, NEW c \in Conn, DispatchReceive(c)
  PROVE  NetInv'
  <1> DEFINE q == queue[c]
  <1>1. /\ Up /\ sent[c] > 0 /\ sent[c] \in Nat
        /\ q \in Seq(Handlers) /\ q # <<>> /\ Head(q).kind = "dispatchReceive"
        /\ \A i \in 1 .. Len(Tail(q)) : Tail(q)[i].kind # "accept"
    BY AtHandler DEF DispatchReceive
  <1>2. Types /\ ConnInv(c)
    BY DEF NetInv
  <1>3. /\ queue' = [queue EXCEPT ![c] = Tail(q)]
        /\ pendingReceives' = [pendingReceives EXCEPT ![c] = @ + 1]
        /\ reads' = IF pendingReceives[c] = 0 THEN [reads EXCEPT ![c] = @ + 1] ELSE reads
        /\ UNCHANGED <<accepting, writes, wire, pendingSends, errorState, playersById, chosen,
                       sent, udpReads, udpPackets, shutdown, crashed>>
    BY DEF DispatchReceive, Done, hive
  <1>4. /\ Tail(q) \in Seq(Handlers) /\ (Acked(Tail(q)) <=> Acked(q))
        /\ \A p, n, b : p \in Seq(Nat) /\ n \in Nat /\ Numbered(q, p, n, b)
                          => Numbered(Tail(q), p, n, b)
    BY <1>1, Taken
  <1>5. /\ Count(q, "send") = Count(Tail(q), "send")
        /\ Count(q, "receive") = Count(Tail(q), "receive")
        /\ Count(q, "dispatchReceive") = Count(Tail(q), "dispatchReceive") + 1
        /\ Count(Tail(q), "receive") \in Nat /\ Count(Tail(q), "dispatchReceive") \in Nat
    BY <1>1, CountTail
  <1>6. reads[c] \in Nat /\ pendingReceives[c] \in 0 .. 1
    BY <1>2 DEF Types
  <1>7. /\ reads[c] = 0 /\ pendingReceives[c] = 0
        /\ Count(Tail(q), "receive") = 0 /\ Count(Tail(q), "dispatchReceive") = 0
    <2>1. ReadOrder(q, reads[c], pendingReceives[c])
      BY <1>2 DEF ConnInv
    <2>2. Count(q, "dispatchReceive") # 0
      BY <1>5
    <2>3. /\ reads[c] = 0 /\ pendingReceives[c] = 0
          /\ Count(q, "receive") = 0 /\ Count(q, "dispatchReceive") = 1
      BY <1>1, <1>6, <2>1, <2>2, OneRead
    <2> QED BY <1>5, <2>3
  <1>8. queue'[c] = Tail(q) /\ reads'[c] = 1 /\ pendingReceives'[c] = 1
    BY <1>2, <1>3, <1>7 DEF Types
  <1>9. Types'
    BY <1>2, <1>3, <1>4, <1>7, SMTT(60) DEF Types
  <1>10. /\ ReadOrder(queue'[c], reads'[c], pendingReceives'[c])
         /\ ReadGoesOn(queue'[c], reads'[c])
    BY <1>7, <1>8 DEF ReadOrder, ReadGoesOn
  <1>11. /\ WriteOrder(queue'[c], pendingSends[c], writes[c])
         /\ c \notin errorState => WriteGoesOn(queue'[c], pendingSends[c], writes[c])
    BY <1>2, <1>5, <1>8 DEF ConnInv, WriteOrder, WriteGoesOn
  <1>12. \E b \in Nat : /\ Numbered(queue'[c], pendingSends[c], sent[c], b)
                        /\ c \notin errorState => UpToWire(queue'[c], wire[c], b)
    <2>1. PICK b \in Nat : /\ Numbered(q, pendingSends[c], sent[c], b)
                           /\ c \notin errorState => UpToWire(q, wire[c], b)
      BY <1>2 DEF ConnInv
    <2>2. Numbered(Tail(q), pendingSends[c], sent[c], b)
      BY <1>1, <1>2, <1>4, <2>1 DEF Types
    <2> QED BY <1>4, <1>8, <2>1, <2>2 DEF UpToWire
  <1>13. ConnInv(c)'
    BY <1>2, <1>3, <1>10, <1>11, <1>12 DEF ConnInv
  <1>14. OnlyAt(c)
    BY <1>2, <1>3 DEF OnlyAt, Types
  <1>15. c \in playersById <=> c \notin errorState
    BY <1>1 DEF NetInv, PlayersAreConnected
  <1> QED BY <1>1, <1>3, <1>8, <1>9, <1>13, <1>14, <1>15, StepAt

(* handleReceive asks for more when a read has ended.                      *)
LEMMA HandleReceiveKeeps ==
  ASSUME NetInv, NEW c \in Conn, HandleReceive(c)
  PROVE  NetInv'
  <1> DEFINE q == queue[c]
             h == Handler("dispatchReceive", TRUE)
             r == Append(Tail(q), h)
  <1>1. IsNext(c, "receive")
    BY DEF HandleReceive
  <1>2. CASE StartError(c) /\ Done(c) /\ UNCHANGED <<pendingReceives, reads>>
    BY <1>1, <1>2, FailureKeeps DEF HandleReceive
  <1>3. CASE /\ Arg(c) /\ c \notin errorState /\ ~shutdown
             /\ DoneAndPost(c, <<h>>)
             /\ pendingReceives' = [pendingReceives EXCEPT ![c] = @ - 1]
             /\ reads' = IF pendingReceives[c] > 1 THEN [reads EXCEPT ![c] = @ + 1] ELSE reads
             /\ UNCHANGED <<errorState, playersById, crashed>>
    <2>0. /\ c \notin errorState
          /\ queue' = [queue EXCEPT ![c] = Tail(q) \o <<h>>]
          /\ pendingReceives' = [pendingReceives EXCEPT ![c] = @ - 1]
          /\ reads' = IF pendingReceives[c] > 1 THEN [reads EXCEPT ![c] = @ + 1] ELSE reads
          /\ UNCHANGED <<errorState, playersById, crashed>>
          /\ UNCHANGED <<accepting, writes, wire, pendingSends, chosen, sent, udpReads,
                         udpPackets, shutdown>>
      BY <1>3 DEF HandleReceive, DoneAndPost
    <2>1. /\ Up /\ sent[c] > 0 /\ sent[c] \in Nat
          /\ q \in Seq(Handlers) /\ q # <<>> /\ Head(q).kind = "receive"
          /\ \A i \in 1 .. Len(Tail(q)) : Tail(q)[i].kind # "accept"
      BY <1>1, AtHandler
    <2>2. Types /\ ConnInv(c) /\ reads[c] \in Nat /\ pendingReceives[c] \in 0 .. 1
      BY DEF NetInv, Types
    <2>3. /\ Tail(q) \in Seq(Handlers) /\ (Acked(Tail(q)) <=> Acked(q))
          /\ \A p, n, b : p \in Seq(Nat) /\ n \in Nat /\ Numbered(q, p, n, b)
                            => Numbered(Tail(q), p, n, b)
      BY <2>1, Taken
    <2>4. h \in Handlers /\ h.kind = "dispatchReceive" /\ Tail(q) \o <<h>> = r
      BY <2>3 DEF Handler, Handlers, Kinds
    <2>5. /\ r \in Seq(Handlers) /\ (Acked(r) <=> Acked(q))
          /\ \A p, n, b : p \in Seq(Nat) /\ n \in Nat /\ Numbered(q, p, n, b)
                            => Numbered(r, p, n, b)
      BY <2>3, <2>4, Appended
    <2>6. \A i \in 1 .. Len(r) : r[i].kind # "accept"
      <3>1. h.kind # "accept"
        BY <2>4
      <3> HIDE DEF h
      <3> QED BY <2>1, <2>3, <2>4, <3>1, Appended
    <2>7. /\ Count(q, "send") = Count(Tail(q), "send")
          /\ Count(q, "receive") = Count(Tail(q), "receive") + 1
          /\ Count(q, "dispatchReceive") = Count(Tail(q), "dispatchReceive")
          /\ Count(Tail(q), "receive") \in Nat /\ Count(Tail(q), "dispatchReceive") \in Nat
      BY <2>1, CountTail
    <2>8. /\ Count(r, "send") = Count(Tail(q), "send")
          /\ Count(r, "receive") = Count(Tail(q), "receive")
          /\ Count(r, "dispatchReceive") = Count(Tail(q), "dispatchReceive") + 1
      BY <2>3, <2>4, CountAppend
    <2>9. /\ reads[c] = 0 /\ pendingReceives[c] = 1
          /\ Count(r, "receive") = 0 /\ Count(r, "dispatchReceive") = 1
      <3>1. ReadOrder(q, reads[c], pendingReceives[c])
        BY <2>2 DEF ConnInv
      <3>2. Count(q, "receive") # 0
        BY <2>7
      <3>3. /\ reads[c] = 0 /\ pendingReceives[c] = 1
            /\ Count(q, "receive") = 1 /\ Count(q, "dispatchReceive") = 0
        BY <2>1, <2>2, <3>1, <3>2, OneRead
      <3> HIDE DEF r
      <3> QED BY <2>7, <2>8, <3>3
    <2> HIDE DEF r, h
    <2>10. /\ queue' = [queue EXCEPT ![c] = r] /\ reads' = reads
           /\ UNCHANGED <<accepting, writes, wire, pendingSends, chosen, sent, udpReads,
                          udpPackets, shutdown>>
      <3>1. reads' = reads
        BY <2>0, <2>9
      <3>2. queue' = [queue EXCEPT ![c] = r]
        BY <2>0, <2>4
      <3> QED BY <2>0, <3>1, <3>2
    <2>11. queue'[c] = r /\ pendingReceives'[c] = 0
      BY <2>0, <2>2, <2>9, <2>10 DEF Types
    <2>12. Types'
      <3>1. queue' \in [Conn -> Seq(Handlers)]
        BY <2>2, <2>5, <2>10 DEF Types
      <3>2. pendingReceives' \in [Conn -> 0 .. 1]
        BY <2>0, <2>2, <2>9 DEF Types
      <3> QED BY <2>0, <2>2, <2>10, <3>1, <3>2 DEF Types
    <2>13. ReadOrder(r, reads[c], 0) /\ ReadGoesOn(r, reads[c])
      BY <2>9 DEF ReadOrder, ReadGoesOn
    <2>14. /\ WriteOrder(r, pendingSends[c], writes[c])
           /\ WriteGoesOn(r, pendingSends[c], writes[c])
      BY <2>0, <2>2, <2>7, <2>8 DEF ConnInv, WriteOrder, WriteGoesOn
    <2>15. \E b \in Nat : Numbered(r, pendingSends[c], sent[c], b) /\ UpToWire(r, wire[c], b)
      <3>1. PICK b \in Nat : Numbered(q, pendingSends[c], sent[c], b) /\ UpToWire(q, wire[c], b)
        BY <2>0, <2>2 DEF ConnInv
      <3>2. Numbered(r, pendingSends[c], sent[c], b)
        BY <2>1, <2>2, <2>5, <3>1 DEF Types
      <3> QED BY <2>5, <3>1, <3>2 DEF UpToWire
    <2>16. ConnInv(c)'
      BY <2>0, <2>2, <2>10, <2>11, <2>13, <2>14, <2>15 DEF ConnInv
    <2>17. OnlyAt(c)
      BY <2>0, <2>2, <2>10 DEF OnlyAt, Types
    <2>18. c \in playersById <=> c \notin errorState
      BY <2>1 DEF NetInv, PlayersAreConnected
    <2> QED BY <2>0, <2>1, <2>6, <2>10, <2>11, <2>12, <2>16, <2>17, <2>18, StepAt
  <1>4. CASE /\ crashed' = TRUE
             /\ UNCHANGED <<queue, pendingReceives, reads, errorState, playersById>>
    <2>1. /\ crashed' = TRUE
          /\ UNCHANGED <<queue, pendingReceives, reads, errorState, playersById, accepting, writes,
                         wire, pendingSends, chosen, sent, udpReads, udpPackets, shutdown>>
      BY <1>4 DEF HandleReceive
    <2>2. Types'
      BY <2>1 DEF NetInv, Types
    <2>3. ASSUME NEW d \in Conn PROVE ConnInv(d)'
      BY <2>1 DEF NetInv, ConnInv
    <2>4. ~Up'
      BY <2>1 DEF Up
    <2> QED BY <2>2, <2>3, <2>4 DEF NetInv, PlayersAreConnected
  <1> QED BY <1>2, <1>3, <1>4 DEF HandleReceive

(* The write that is under way is the only one.                            *)
LEMMA WriteUnderWay ==
  ASSUME NEW q \in Seq(Handlers), NEW p, NEW w \in Seq(Nat), w # <<>>, WriteOrder(q, p, w)
  PROVE  /\ Len(w) = 1 /\ Count(q, "send") = 0
         /\ p # <<>> /\ Head(p) = Head(w)
         /\ Head(w) \in Nat /\ Tail(w) = <<>>
         /\ Tail(w) \in Seq(Nat) /\ Len(Tail(w)) = 0
  <1>1. /\ Len(w) \in Nat \ {0} /\ Len(Tail(w)) = Len(w) - 1 /\ Head(w) \in Nat
        /\ Tail(w) \in Seq(Nat)
    BY HeadTailProperties, EmptySeq
  <1>2. /\ Len(w) + Count(q, "send") <= 1
        /\ Len(w) + Count(q, "send") = 1 => p # <<>>
        /\ Head(p) = Head(w)
    BY DEF WriteOrder
  <1>3. Count(q, "send") \in Nat
    BY CountIsNat
  <1>4. Len(w) = 1 /\ Count(q, "send") = 0
    BY <1>1, <1>2, <1>3
  <1>5. Len(Tail(w)) = 0
    BY <1>1, <1>4
  <1>6. \A s \in Seq(Nat) : Len(s) = 0 => s = <<>>
    OBVIOUS
  <1>7. Tail(w) = <<>>
    BY <1>1, <1>5, <1>6
  <1> QED BY <1>1, <1>2, <1>4, <1>5, <1>7

(* A connection at which something is under way has been accepted.         *)
LEMMA AtWork ==
  ASSUME NetInv, Up, NEW c \in Conn, writes[c] # <<>> \/ reads[c] > 0 \/ c \in playersById
  PROVE  /\ sent[c] > 0 /\ sent[c] \in Nat
         /\ queue[c] \in Seq(Handlers)
         /\ \A i \in 1 .. Len(queue[c]) : queue[c][i].kind # "accept"
  <1>1. AcceptInv /\ queue[c] \in Seq(Handlers) /\ sent[c] \in 0 .. MaxSent
    BY DEF NetInv, Types
  <1>2. ASSUME sent[c] = 0 PROVE FALSE
    <2>1. Untouched(c)
      BY <1>1, <1>2 DEF AcceptInv
    <2>2. writes[c] = <<>> /\ reads[c] = 0 /\ c \notin playersById
      BY <2>1 DEF Untouched
    <2> QED BY <2>2
  <1>3. sent[c] > 0 /\ sent[c] \in Nat
    BY <1>1, <1>2, MaxSentAssumption
  <1> QED BY <1>1, <1>3 DEF AcceptInv

(* The operating system ends a write, well or with an error, ...           *)
LEMMA WrittenKeeps ==
  ASSUME NetInv, NEW c \in Conn, NEW ok \in BOOLEAN, Written(c, ok)
  PROVE  NetInv'
  <1> DEFINE q == queue[c]
             h == Handler("send", ok)
             r == Append(q, h)
             w == writes[c]
  <1>1. /\ Up /\ w # <<>>
        /\ queue' = [queue EXCEPT ![c] = r]
        /\ writes' = [writes EXCEPT ![c] = Tail(w)]
        /\ UNCHANGED <<accepting, reads, pendingSends, pendingReceives, errorState, playersById,
                       chosen, sent, udpReads, udpPackets, shutdown, crashed>>
    BY DEF Written, Post, hive
  <1>2. ok = TRUE => c \notin errorState /\ wire' = [wire EXCEPT ![c] = Append(@, Head(w))]
    BY DEF Written
  <1>3. ok = FALSE => wire' = wire
    BY DEF Written
  <1>4. /\ sent[c] > 0 /\ sent[c] \in Nat
        /\ q \in Seq(Handlers) /\ \A i \in 1 .. Len(q) : q[i].kind # "accept"
    BY <1>1, AtWork
  <1>5. h \in Handlers /\ h.kind = "send" /\ h.arg = ok
    BY DEF Handler, Handlers, Kinds
  <1>6. Types /\ ConnInv(c) /\ w \in Seq(Nat) /\ wire[c] \in Seq(Nat) /\ pendingSends[c] \in Seq(Nat)
    BY DEF NetInv, Types
  <1> HIDE DEF h
  <1>7. /\ r \in Seq(Handlers) /\ (Acked(r) <=> Acked(q) \/ ok = TRUE)
        /\ \A p, n, b : p \in Seq(Nat) /\ n \in Nat /\ Numbered(q, p, n, b)
                          => Numbered(r, p, n, b)
        /\ \A i \in 1 .. Len(r) : r[i].kind # "accept"
    BY <1>4, <1>5, Appended
  <1>8. /\ Count(r, "send") = Count(q, "send") + 1 /\ Count(q, "send") \in Nat
        /\ Count(r, "receive") = Count(q, "receive")
        /\ Count(r, "dispatchReceive") = Count(q, "dispatchReceive")
    BY <1>4, <1>5, CountAppend
  <1> HIDE DEF r
  <1>9. WriteOrder(q, pendingSends[c], w)
    BY <1>6 DEF ConnInv
  <1>10. /\ Count(q, "send") = 0 /\ pendingSends[c] # <<>>
         /\ Head(w) \in Nat /\ Tail(w) = <<>>
         /\ Tail(w) \in Seq(Nat) /\ Len(Tail(w)) = 0
    BY <1>1, <1>4, <1>6, <1>9, WriteUnderWay
  <1>13. queue'[c] = r /\ writes'[c] = Tail(w)
    BY <1>1, <1>6 DEF Types
  <1>14. WriteOrder(queue'[c], pendingSends[c], writes'[c])
         /\ WriteGoesOn(queue'[c], pendingSends[c], writes'[c])
    BY <1>8, <1>10, <1>13 DEF WriteOrder, WriteGoesOn
  <1>15. /\ ReadOrder(queue'[c], reads[c], pendingReceives[c])
         /\ c \in playersById => ReadGoesOn(queue'[c], reads[c])
    BY <1>6, <1>8, <1>13 DEF ConnInv, ReadOrder, ReadGoesOn
  <1>16. ~Acked(q)
    <2>1. \A i \in 1 .. Len(q) : q[i].kind # "send"
      BY <1>4, <1>10, CountIsNat
    <2> QED BY <2>1 DEF Acked
  <1>17. wire' \in [Conn -> Seq(Nat)]
    <2>1. Append(wire[c], Head(w)) \in Seq(Nat)
      BY <1>6, <1>10
    <2>2. CASE ok = TRUE
      BY <1>2, <1>6, <2>1, <2>2 DEF Types
    <2>3. CASE ok = FALSE
      BY <1>3, <1>6, <2>3 DEF Types
    <2> QED BY <2>2, <2>3
  <1>18. PICK b \in Nat : /\ Numbered(q, pendingSends[c], sent[c], b)
                          /\ c \notin errorState => UpToWire(q, wire[c], b)
    BY <1>6 DEF ConnInv
  <1>19. Numbered(queue'[c], pendingSends[c], sent[c], b)
    BY <1>4, <1>6, <1>7, <1>13, <1>18
  <1>20. c \notin errorState => UpToWire(queue'[c], wire'[c], b)
    <2>1. CASE ok = TRUE
      <3>1. wire'[c] = Append(wire[c], Head(w))
        BY <1>2, <1>6, <2>1 DEF Types
      <3>2. Len(wire'[c]) = Len(wire[c]) + 1
        BY <1>6, <1>10, <3>1
      <3> QED BY <1>7, <1>13, <1>16, <1>18, <2>1, <3>2 DEF UpToWire
    <2>2. CASE ok = FALSE
      BY <1>3, <1>7, <1>13, <1>18, <2>2 DEF UpToWire
    <2> QED BY <2>1, <2>2
  <1>21. ConnInv(c)'
    BY <1>1, <1>6, <1>14, <1>15, <1>18, <1>19, <1>20 DEF ConnInv
  <1>22. Types'
    BY <1>1, <1>6, <1>7, <1>10, <1>17 DEF Types
  <1>23. OnlyAt(c)
    <2>1. \A d \in Conn \ {c} : wire'[d] = wire[d]
      BY <1>2, <1>3, <1>6 DEF Types
    <2> QED BY <1>1, <1>6, <2>1 DEF OnlyAt, Types
  <1>24. c \in playersById <=> c \notin errorState
    BY <1>1, <1>4 DEF NetInv, PlayersAreConnected
  <1> QED BY <1>1, <1>4, <1>7, <1>13, <1>21, <1>22, <1>23, <1>24, StepAt

(* ... and a read.                                                         *)
LEMMA ReadKeeps ==
  ASSUME NetInv, NEW c \in Conn, NEW ok \in BOOLEAN, Read(c, ok)
  PROVE  NetInv'
  <1> DEFINE q == queue[c]
             h == Handler("receive", ok)
             r == Append(q, h)
  <1>1. /\ Up /\ reads[c] > 0
        /\ queue' = [queue EXCEPT ![c] = r]
        /\ reads' = [reads EXCEPT ![c] = @ - 1]
        /\ UNCHANGED <<accepting, writes, wire, pendingSends, pendingReceives, errorState,
                       playersById, chosen, sent, udpReads, udpPackets, shutdown, crashed>>
    BY DEF Read, Post, hive
  <1>2. /\ sent[c] > 0 /\ sent[c] \in Nat
        /\ q \in Seq(Handlers) /\ \A i \in 1 .. Len(q) : q[i].kind # "accept"
    BY <1>1, AtWork
  <1>3. h \in Handlers /\ h.kind = "receive" /\ h.arg = ok
    BY DEF Handler, Handlers, Kinds
  <1>4. Types /\ ConnInv(c) /\ reads[c] \in Nat /\ pendingSends[c] \in Seq(Nat)
    BY DEF NetInv, Types
  <1> HIDE DEF h
  <1>5. /\ r \in Seq(Handlers) /\ (Acked(r) <=> Acked(q))
        /\ \A p, n, b : p \in Seq(Nat) /\ n \in Nat /\ Numbered(q, p, n, b)
                          => Numbered(r, p, n, b)
        /\ \A i \in 1 .. Len(r) : r[i].kind # "accept"
    BY <1>2, <1>3, Appended
  <1>6. /\ Count(r, "send") = Count(q, "send")
        /\ Count(r, "receive") = Count(q, "receive") + 1 /\ Count(q, "receive") \in Nat
        /\ Count(r, "dispatchReceive") = Count(q, "dispatchReceive")
        /\ Count(q, "dispatchReceive") \in Nat
    BY <1>2, <1>3, CountAppend
  <1> HIDE DEF r
  <1>7. queue'[c] = r /\ reads'[c] = reads[c] - 1 /\ reads'[c] \in Nat
    BY <1>1, <1>4 DEF Types
  <1>8. /\ ReadOrder(queue'[c], reads'[c], pendingReceives[c])
        /\ c \in playersById => ReadGoesOn(queue'[c], reads'[c])
    <2>1. reads'[c] + Count(r, "receive") = reads[c] + Count(q, "receive")
      BY <1>4, <1>6, <1>7
    <2> QED BY <1>4, <1>6, <1>7, <2>1 DEF ConnInv, ReadOrder, ReadGoesOn
  <1>9. /\ WriteOrder(queue'[c], pendingSends[c], writes[c])
        /\ c \notin errorState => WriteGoesOn(queue'[c], pendingSends[c], writes[c])
    BY <1>4, <1>6, <1>7 DEF ConnInv, WriteOrder, WriteGoesOn
  <1>10. PICK b \in Nat : /\ Numbered(q, pendingSends[c], sent[c], b)
                          /\ c \notin errorState => UpToWire(q, wire[c], b)
    BY <1>4 DEF ConnInv
  <1>11. /\ Numbered(queue'[c], pendingSends[c], sent[c], b)
         /\ c \notin errorState => UpToWire(queue'[c], wire[c], b)
    BY <1>2, <1>4, <1>5, <1>7, <1>10 DEF UpToWire
  <1>12. ConnInv(c)'
    BY <1>1, <1>4, <1>8, <1>9, <1>10, <1>11 DEF ConnInv
  <1>13. Types'
    BY <1>1, <1>4, <1>5, <1>7 DEF Types
  <1>14. OnlyAt(c)
    BY <1>1, <1>4 DEF OnlyAt, Types
  <1>15. c \in playersById <=> c \notin errorState
    BY <1>1, <1>2 DEF NetInv, PlayersAreConnected
  <1> QED BY <1>1, <1>2, <1>5, <1>7, <1>12, <1>13, <1>14, <1>15, StepAt

(* A sender decides whom to write to, ...                                  *)
LEMMA ChooseKeeps ==
  ASSUME NetInv, NEW c \in Conn, Choose(c)
  PROVE  NetInv'
  <1>1. /\ Up /\ c \in playersById /\ sent[c] < MaxSent
        /\ chosen' = chosen \cup {c}
        /\ UNCHANGED <<accepting, reads, writes, wire, queue, pendingSends, pendingReceives,
                       errorState, playersById, sent, udpReads, udpPackets, shutdown, crashed>>
    BY DEF Choose, socket, connection, hive
  <1>2. Types /\ ConnInv(c)
    BY DEF NetInv
  <1>3. sent[c] > 0 /\ \A i \in 1 .. Len(queue[c]) : queue[c][i].kind # "accept"
    BY <1>1, AtWork
  <1>4. Types'
    BY <1>1, <1>2 DEF Types
  <1>5. ConnInv(c)'
    BY <1>1, <1>2 DEF ConnInv
  <1>6. OnlyAt(c)
    BY <1>1 DEF OnlyAt
  <1>7. c \in playersById <=> c \notin errorState
    BY <1>1, <1>3 DEF NetInv, PlayersAreConnected
  <1> QED BY <1>1, <1>3, <1>4, <1>5, <1>6, <1>7, StepAt

(* ... and does so, if the player is still there.                          *)
LEMMA SendToKeeps ==
  ASSUME NetInv, NEW c \in Conn, SendTo(c)
  PROVE  NetInv'
  <1> DEFINE q == queue[c]
             h == Handler("dispatchSend", sent[c] + 1)
             r == Append(q, h)
  <1>1. /\ Up /\ c \in chosen /\ chosen' = chosen \ {c}
        /\ UNCHANGED <<accepting, reads, writes, wire, pendingSends, pendingReceives, errorState,
                       playersById, udpReads, udpPackets, shutdown>>
    BY DEF SendTo, socket
  <1>2. Types /\ ConnInv(c) /\ pendingSends[c] \in Seq(Nat) /\ sent[c] \in Nat
    BY MaxSentAssumption, SMTT(60) DEF NetInv, Types
  <1>3. sent[c] < MaxSent
    BY <1>1, <1>2 DEF ConnInv
  <1>4. CASE c \in playersById /\ UNCHANGED crashed
             /\ sent' = [sent EXCEPT ![c] = @ + 1]
             /\ Post(c, Handler("dispatchSend", sent'[c]))
    <2>1. sent[c] > 0 /\ q \in Seq(Handlers) /\ \A i \in 1 .. Len(q) : q[i].kind # "accept"
      BY <1>1, <1>4, AtWork
    <2>2. sent'[c] = sent[c] + 1
      BY <1>2, <1>4 DEF Types
    <2>3. queue' = [queue EXCEPT ![c] = r]
      BY <1>4, <2>2 DEF Post
    <2>4. h \in Handlers /\ h.kind = "dispatchSend"
      BY <1>2 DEF Handler, Handlers
    <2>5. \A b : Numbered(q, pendingSends[c], sent[c], b)
                   => Numbered(r, pendingSends[c], sent[c] + 1, b)
      BY <1>2, <2>1, SendAppended
    <2> HIDE DEF h
    <2>6. /\ r \in Seq(Handlers) /\ (Acked(r) <=> Acked(q))
          /\ \A i \in 1 .. Len(r) : r[i].kind # "accept"
      BY <2>1, <2>4, Appended
    <2>7. /\ Count(r, "send") = Count(q, "send") /\ Count(r, "receive") = Count(q, "receive")
          /\ Count(r, "dispatchReceive") = Count(q, "dispatchReceive")
      BY <2>1, <2>4, CountAppend
    <2> HIDE DEF r
    <2>8. queue'[c] = r
      BY <1>2, <2>3 DEF Types
    <2>9. sent' \in [Conn -> 0 .. MaxSent]
      BY <1>2, <1>3, <1>4, MaxSentAssumption DEF Types
    <2>10. Types'
      <3>1. queue' \in [Conn -> Seq(Handlers)]
        BY <1>2, <2>3, <2>6 DEF Types
      <3> QED BY <1>1, <1>2, <1>4, <2>9, <3>1 DEF Types
    <2>11. /\ ReadOrder(r, reads[c], pendingReceives[c])
           /\ c \in playersById => ReadGoesOn(r, reads[c])
      BY <1>2, <2>7 DEF ConnInv, ReadOrder, ReadGoesOn
    <2>12. /\ WriteOrder(r, pendingSends[c], writes[c])
           /\ c \notin errorState => WriteGoesOn(r, pendingSends[c], writes[c])
      BY <1>2, <2>7 DEF ConnInv, WriteOrder, WriteGoesOn
    <2>13. PICK b \in Nat : /\ Numbered(q, pendingSends[c], sent[c], b)
                            /\ c \notin errorState => UpToWire(q, wire[c], b)
      BY <1>2 DEF ConnInv
    <2>14. /\ Numbered(r, pendingSends[c], sent[c] + 1, b)
           /\ c \notin errorState => UpToWire(r, wire[c], b)
      BY <2>5, <2>6, <2>13 DEF UpToWire
    <2>15. ConnInv(c)'
      BY <1>1, <1>2, <2>2, <2>8, <2>11, <2>12, <2>13, <2>14 DEF ConnInv
    <2>16. OnlyAt(c)
      BY <1>1, <1>2, <1>4, <2>3 DEF OnlyAt, Types
    <2>17. c \in playersById <=> c \notin errorState
      BY <1>1, <2>1 DEF NetInv, PlayersAreConnected
    <2>18. sent'[c] > 0
      BY <1>2, <2>2
    <2> QED BY <1>1, <1>4, <2>1, <2>6, <2>8, <2>10, <2>15, <2>16, <2>17, <2>18, StepAt
  <1>5. CASE c \notin playersById /\ crashed' = TRUE /\ UNCHANGED <<sent, queue>>
    <2>1. Types'
      BY <1>1, <1>2, <1>5 DEF Types
    <2>2. ConnInv(c)'
      BY <1>1, <1>2, <1>5 DEF ConnInv
    <2>3. OnlyAt(c)
      BY <1>1, <1>5 DEF OnlyAt
    <2>4. ~Up'
      BY <1>5 DEF Up
    <2>5. \A d \in Conn : ConnInv(d)'
      BY <2>2, <2>3, OthersKeep
    <2> QED BY <2>1, <2>4, <2>5 DEF NetInv, PlayersAreConnected
  <1> QED BY <1>4, <1>5 DEF SendTo

(* The strand of a connection that is accepted has no other handler.       *)
LEMMA AtAccept ==
  ASSUME NetInv, NEW c \in Conn, IsNext(c, "accept")
  PROVE  /\ Up /\ AcceptInv /\ sent[c] = 0 /\ Untouched(c) /\ accepting = NoConn
         /\ Tail(queue[c]) = <<>> /\ queue[c] # <<>>
         /\ \A d \in Conn : sent[d] = 0 /\ d # c => queue[d] = <<>>
  <1>1. Up /\ queue[c] # <<>> /\ Head(queue[c]).kind = "accept"
    BY DEF IsNext
  <1>2. AcceptInv /\ queue[c] \in Seq(Handlers) /\ sent[c] \in 0 .. MaxSent
        /\ accepting \in Conn \cup {NoConn}
    BY <1>1 DEF NetInv, Types
  <1>3. Len(queue[c]) \in Nat \ {0} /\ Head(queue[c]) = queue[c][1]
    BY <1>1, <1>2, EmptySeq
  <1>4. sent[c] = 0
    <2>1. ~(sent[c] > 0)
      BY <1>1, <1>2, <1>3 DEF AcceptInv
    <2> QED BY <1>2, <2>1, MaxSentAssumption
  <1>5. Untouched(c)
    BY <1>2, <1>4 DEF AcceptInv
  <1>6. Tail(queue[c]) = <<>>
    <2>1. \A x : Tail(<<x>>) = <<>>
      OBVIOUS
    <2> QED BY <1>1, <1>5, <2>1 DEF Untouched
  <1>7. \A d \in Conn : sent[d] = 0 /\ d # c => queue[d] = <<>>
    BY <1>1, <1>2, <1>4 DEF AcceptInv
  <1>8. accepting = NoConn
    BY <1>1, <1>2, <1>4 DEF AcceptInv
  <1> QED BY <1>1, <1>2, <1>4, <1>5, <1>6, <1>7, <1>8

(* Where no handler is, none is counted.                                   *)
LEMMA EmptyStrand ==
  /\ <<>> \in Seq(Handlers)
  /\ \A kind : Count(<<>>, kind) = 0
  /\ ~Acked(<<>>)
  /\ Numbered(<<>>, <<>>, 0, 0)
  <1>1. <<>> \in Seq(Handlers) /\ Len(<<>>) = 0
    BY EmptySeq
  <1>2. \A i \in 1 .. Len(<<>>) : FALSE
    BY <1>1
  <1>3. \A kind : Count(<<>>, kind) = 0
    BY <1>1, <1>2, CountIsNat
  <1>4. ~Acked(<<>>)
    BY <1>2 DEF Acked
  <1>5. Numbered(<<>>, <<>>, 0, 0)
    <2>1. \A k \in 0 + Len(<<>>) + 1 .. 0 : FALSE
      BY <1>1
    <2> QED BY <1>1, <1>2, <2>1 DEF Numbered
  <1> QED BY <1>1, <1>3, <1>4, <1>5

(* An accept that fails, or throws, ends the run.                          *)
LEMMA AcceptFailsKeeps ==
  ASSUME NetInv, NEW c \in Conn, IsNext(c, "accept"), Done(c), crashed' = TRUE,
         \/ errorState' = errorState \cup {c} /\ playersById' = playersById \ {c}
         \/ UNCHANGED <<errorState, playersById>>,
         UNCHANGED <<accepting, sent, reads, writes, wire, pendingSends, pendingReceives, chosen,
                     udpReads, udpPackets, shutdown>>
  PROVE  NetInv'
  <1>1. Untouched(c) /\ sent[c] = 0 /\ Tail(queue[c]) = <<>>
    BY AtAccept
  <1>2. Types /\ ConnInv(c)
    BY DEF NetInv
  <1>3. queue' = [queue EXCEPT ![c] = <<>>]
    BY <1>1 DEF Done
  <1>4. queue'[c] = <<>> /\ <<>> \in Seq(Handlers)
    BY <1>2, <1>3, EmptyStrand DEF Types
  <1>5. Types'
    BY <1>2, <1>3, <1>4 DEF Types
  <1>6. /\ pendingSends[c] = <<>> /\ writes[c] = <<>> /\ wire[c] = <<>>
        /\ pendingReceives[c] = 0 /\ reads[c] = 0 /\ sent[c] = 0
        /\ c \notin playersById /\ c \notin chosen
    BY <1>1 DEF Untouched
  <1>7. c \notin playersById' /\ c \notin chosen'
    BY <1>6
  <1>8. /\ WriteOrder(<<>>, <<>>, <<>>) /\ WriteGoesOn(<<>>, <<>>, <<>>)
        /\ ReadOrder(<<>>, 0, 0) /\ UpToWire(<<>>, <<>>, 0) /\ Numbered(<<>>, <<>>, 0, 0)
    <2>1. Len(<<>>) = 0
      OBVIOUS
    <2> QED BY <2>1, EmptyStrand DEF WriteOrder, WriteGoesOn, ReadOrder, UpToWire
  <1>9. ConnInv(c)'
    <2>1. 0 \in Nat
      OBVIOUS
    <2>2. /\ queue'[c] = <<>> /\ pendingSends'[c] = <<>> /\ writes'[c] = <<>> /\ wire'[c] = <<>>
          /\ pendingReceives'[c] = 0 /\ reads'[c] = 0 /\ sent'[c] = 0
      BY <1>4, <1>6
    <2> QED BY <1>7, <1>8, <2>1, <2>2 DEF ConnInv
  <1>10. OnlyAt(c)
    BY <1>2, <1>3 DEF OnlyAt, Types
  <1>11. \A d \in Conn : ConnInv(d)'
    BY <1>9, <1>10, OthersKeep
  <1>12. ~Up'
    BY DEF Up
  <1> QED BY <1>5, <1>11, <1>12 DEF NetInv, PlayersAreConnected

(* An accept that succeeds makes a player of the connection, ...           *)
LEMMA HandleAcceptKeeps ==
  ASSUME NetInv, NEW c \in Conn, HandleAccept(c)
  PROVE  NetInv'
  <1> DEFINE h == Handler("dispatchSend", 1)
             g == Handler("dispatchReceive", TRUE)
             r == Append(Append(<<>>, h), g)
             unused == {d \in Conn \ {c} : sent[d] = 0}
  <1>1. IsNext(c, "accept")
        /\ UNCHANGED <<reads, writes, wire, pendingSends, pendingReceives, chosen, udpReads,
                       udpPackets, shutdown>>
    BY DEF HandleAccept
  <1>2. /\ Up /\ AcceptInv /\ sent[c] = 0 /\ Untouched(c) /\ accepting = NoConn
        /\ Tail(queue[c]) = <<>>
        /\ \A d \in Conn : sent[d] = 0 /\ d # c => queue[d] = <<>>
    BY <1>1, AtAccept
  <1>3. CASE StartError(c) /\ Done(c) /\ UNCHANGED <<accepting, sent>>
    <2>1. crashed' = TRUE
      BY <1>2, <1>3 DEF StartError, Untouched
    <2> QED BY <1>1, <1>3, <2>1, AcceptFailsKeeps DEF StartError
  <1>4. CASE crashed' = TRUE /\ Done(c) /\ UNCHANGED <<accepting, sent, errorState, playersById>>
    BY <1>1, <1>4, AcceptFailsKeeps
  <1>5. CASE /\ accepting' \in IF unused = {} THEN {NoConn} ELSE unused
             /\ playersById' = playersById \cup {c}
             /\ sent' = [sent EXCEPT ![c] = @ + 1]
             /\ DoneAndPost(c, <<h, g>>)
             /\ UNCHANGED <<errorState, crashed>>
    <2>1. Types
      BY DEF NetInv
    <2>2. /\ pendingSends[c] = <<>> /\ writes[c] = <<>> /\ wire[c] = <<>>
          /\ pendingReceives[c] = 0 /\ reads[c] = 0
          /\ c \notin errorState /\ c \notin chosen
      BY <1>2 DEF Untouched
    <2>3. /\ h \in Handlers /\ h.kind = "dispatchSend"
          /\ g \in Handlers /\ g.kind = "dispatchReceive"
      BY DEF Handler, Handlers, Kinds
    <2>4. Numbered(Append(<<>>, h), <<>>, 1, 0)
      <3>1. Numbered(Append(<<>>, Handler("dispatchSend", 0 + 1)), <<>>, 0 + 1, 0)
        BY EmptyStrand, EmptySeq, SendAppended
      <3>2. 0 + 1 = 1
        OBVIOUS
      <3> QED BY <3>1, <3>2
    <2>5. <<>> \o <<h, g>> = r
      BY <2>3, PairAppended
    <2>6. queue' = [queue EXCEPT ![c] = r]
      BY <1>2, <1>5, <2>5 DEF DoneAndPost
    <2> HIDE DEF h, g
    <2>7. /\ Append(<<>>, h) \in Seq(Handlers) /\ ~Acked(Append(<<>>, h))
          /\ \A i \in 1 .. Len(Append(<<>>, h)) : Append(<<>>, h)[i].kind # "accept"
      <3>1. \A i \in 1 .. Len(<<>>) : <<>>[i].kind # "accept"
        BY EmptySeq
      <3> QED BY <2>3, <3>1, EmptyStrand, Appended
    <2>8. /\ Count(Append(<<>>, h), "send") = 0 /\ Count(Append(<<>>, h), "receive") = 0
          /\ Count(Append(<<>>, h), "dispatchReceive") = 0
      BY <2>3, EmptyStrand, CountAppend
    <2>9. /\ r \in Seq(Handlers) /\ ~Acked(r) /\ Numbered(r, <<>>, 1, 0)
          /\ \A i \in 1 .. Len(r) : r[i].kind # "accept"
      BY <2>3, <2>4, <2>7, EmptySeq, Appended
    <2>10. /\ Count(r, "send") = 0 /\ Count(r, "receive") = 0
           /\ Count(r, "dispatchReceive") = 1
      <3> DEFINE s == Append(<<>>, h)
      <3> HIDE DEF s
      <3>1. s \in Seq(Handlers) /\ r = Append(s, g)
        BY <2>7 DEF s
      <3>2. /\ Count(s, "send") = 0 /\ Count(s, "receive") = 0 /\ Count(s, "dispatchReceive") = 0
        BY <2>8 DEF s
      <3>3. /\ Count(Append(s, g), "send") = 0 /\ Count(Append(s, g), "receive") = 0
            /\ Count(Append(s, g), "dispatchReceive") = 1
        BY <2>3, <3>1, <3>2, CountAppend
      <3> QED BY <3>1, <3>3
    <2> HIDE DEF r
    <2>11. /\ WriteOrder(r, <<>>, <<>>) /\ WriteGoesOn(r, <<>>, <<>>)
           /\ ReadOrder(r, 0, 0) /\ ReadGoesOn(r, 0) /\ UpToWire(r, <<>>, 0)
      <3>1. Len(<<>>) = 0
        OBVIOUS
      <3> QED BY <2>9, <2>10, <3>1 DEF WriteOrder, WriteGoesOn, ReadOrder, ReadGoesOn, UpToWire
    <2>12. queue'[c] = r /\ sent'[c] = 1 /\ c \in playersById' /\ c \notin errorState'
      BY <1>2, <1>5, <2>1, <2>2, <2>6 DEF Types
    <2>13. ConnInv(c)'
      <3>1. 0 \in Nat
        OBVIOUS
      <3>2. /\ pendingSends'[c] = <<>> /\ writes'[c] = <<>> /\ wire'[c] = <<>>
            /\ pendingReceives'[c] = 0 /\ reads'[c] = 0 /\ c \notin chosen'
        BY <1>1, <2>2
      <3> QED BY <2>9, <2>11, <2>12, <3>1, <3>2 DEF ConnInv
    <2>14. OnlyAt(c)
      BY <1>1, <1>5, <2>1, <2>6 DEF OnlyAt, Types
    <2>15. \A d \in Conn : ConnInv(d)'
      BY <2>13, <2>14, OthersKeep
    <2>16. accepting' = NoConn \/ (accepting' \in Conn \ {c} /\ sent[accepting'] = 0)
      BY <1>5
    <2>17. Types'
      <3>1. queue' \in [Conn -> Seq(Handlers)]
        BY <2>1, <2>6, <2>9 DEF Types
      <3>2. sent' \in [Conn -> 0 .. MaxSent]
        BY <1>2, <1>5, <2>1, MaxSentAssumption DEF Types
      <3> QED BY <1>1, <1>5, <2>1, <2>16, <3>1, <3>2 DEF Types
    <2>18. PlayersAreConnected'
      BY <1>5, <2>12, <2>14 DEF NetInv, PlayersAreConnected, OnlyAt, Up
    <2>19. AcceptInv'
      <3>1. \A d \in Conn : sent'[d] = 0 => d # c /\ sent[d] = 0 /\ sent'[d] = sent[d]
        BY <2>12, <2>14 DEF OnlyAt
      <3>2. \A d \in Conn : sent'[d] = 0 => Untouched(d)'
        BY <1>2, <2>14, <3>1, ZenonT(60) DEF OnlyAt, AcceptInv, Untouched
      <3>3. \A d \in Conn : sent'[d] > 0 =>
              \A i \in 1 .. Len(queue'[d]) : queue'[d][i].kind # "accept"
        BY <1>2, <2>9, <2>12, <2>14 DEF OnlyAt, AcceptInv
      <3>4. \A d \in Conn : sent'[d] = 0 => queue'[d] = <<>>
        BY <1>2, <2>14, <3>1 DEF OnlyAt
      <3>5. accepting' # NoConn => sent'[accepting'] = 0
        BY <2>14, <2>16 DEF OnlyAt
      <3> QED BY <3>2, <3>3, <3>4, <3>5 DEF AcceptInv
    <2> QED BY <2>15, <2>17, <2>18, <2>19 DEF NetInv
  <1> QED BY <1>3, <1>4, <1>5 DEF HandleAccept

(* ... once a client has connected.                                        *)
LEMMA ConnectsKeeps ==
  ASSUME NetInv, NEW ok \in BOOLEAN, Connects(ok), NEW c \in Conn, accepting = c
  PROVE  NetInv'
  <1> DEFINE h == Handler("accept", ok)
  <1>1. /\ Up /\ accepting # NoConn /\ accepting' = NoConn
        /\ queue' = [queue EXCEPT ![c] = Append(@, h)]
        /\ UNCHANGED <<reads, writes, wire, pendingSends, pendingReceives, errorState,
                       playersById, chosen, sent, udpReads, udpPackets, shutdown, crashed>>
    BY DEF Connects, Post, hive
  <1>2. Types /\ AcceptInv
    BY <1>1 DEF NetInv
  <1>3. sent[c] = 0 /\ Untouched(c) /\ \A d \in Conn : sent[d] = 0 => queue[d] = <<>>
    BY <1>1, <1>2 DEF AcceptInv
  <1>4. Append(<<>>, h) = <<h>>
    OBVIOUS
  <1>5. queue' = [queue EXCEPT ![c] = Append(<<>>, h)] /\ queue'[c] = Append(<<>>, h)
    BY <1>1, <1>2, <1>3 DEF Types
  <1>6. h \in Handlers /\ h.kind = "accept"
    BY DEF Handler, Handlers, Kinds
  <1>7. queue'[c] \in {<<>>, <<Handler("accept", TRUE)>>, <<Handler("accept", FALSE)>>}
    BY <1>4, <1>5
  <1>8. OnlyAt(c)
    BY <1>1, <1>2 DEF OnlyAt, Types
  <1>9. \A d \in Conn \ {c} : ConnInv(d)'
    BY <1>2, <1>8, OthersKeep
  <1>10. /\ pendingSends[c] = <<>> /\ writes[c] = <<>> /\ wire[c] = <<>>
         /\ pendingReceives[c] = 0 /\ reads[c] = 0
         /\ c \notin playersById /\ c \notin chosen /\ c \notin errorState
    BY <1>3 DEF Untouched
  <1> HIDE DEF h
  <1>11. /\ Append(<<>>, h) \in Seq(Handlers) /\ ~Acked(Append(<<>>, h))
         /\ Numbered(Append(<<>>, h), <<>>, 0, 0)
    BY <1>6, EmptyStrand, EmptySeq, Appended
  <1>12. /\ Count(Append(<<>>, h), "send") = 0 /\ Count(Append(<<>>, h), "receive") = 0
         /\ Count(Append(<<>>, h), "dispatchReceive") = 0
    BY <1>6, EmptyStrand, CountAppend
  <1>13. ConnInv(c)'
    <2> DEFINE r == Append(<<>>, h)
    <2> HIDE DEF r
    <2>1. Len(<<>>) = 0 /\ 0 \in Nat
      OBVIOUS
    <2>2. /\ WriteOrder(r, <<>>, <<>>) /\ WriteGoesOn(r, <<>>, <<>>)
          /\ ReadOrder(r, 0, 0) /\ UpToWire(r, <<>>, 0)
      BY <1>11, <1>12, <2>1 DEF r, WriteOrder, WriteGoesOn, ReadOrder, UpToWire
    <2>3. /\ queue'[c] = r /\ pendingSends'[c] = <<>> /\ writes'[c] = <<>> /\ wire'[c] = <<>>
          /\ pendingReceives'[c] = 0 /\ reads'[c] = 0 /\ sent'[c] = 0
          /\ c \notin chosen' /\ c \notin playersById'
      BY <1>1, <1>3, <1>5, <1>10 DEF r
    <2>4. Numbered(r, <<>>, 0, 0)
      BY <1>11 DEF r
    <2> QED BY <2>1, <2>2, <2>3, <2>4 DEF ConnInv
  <1>14. Types'
    <2>1. queue' \in [Conn -> Seq(Handlers)]
      BY <1>2, <1>5, <1>11 DEF Types
    <2> QED BY <1>1, <1>2, <2>1 DEF Types
  <1>15. PlayersAreConnected'
    BY <1>1 DEF NetInv, PlayersAreConnected, Up
  <1>16. AcceptInv'
    <2>1. \A d \in Conn : sent'[d] = 0 => Untouched(d)'
      BY <1>1, <1>2, <1>7, <1>8, <1>3 DEF AcceptInv, Untouched, OnlyAt
    <2>2. \A d \in Conn : sent'[d] > 0 =>
            \A i \in 1 .. Len(queue'[d]) : queue'[d][i].kind # "accept"
      BY <1>1, <1>2, <1>3, <1>8 DEF AcceptInv, OnlyAt
    <2>3. \A d \in Conn : sent'[d] = 0 /\ queue'[d] # <<>> => d = c
      BY <1>1, <1>3, <1>8 DEF OnlyAt
    <2> QED BY <1>1, <2>1, <2>2, <2>3 DEF AcceptInv
  <1> QED BY <1>9, <1>13, <1>14, <1>15, <1>16 DEF NetInv

-----------------------------------------------------------------------------
(* The invariant holds initially, ...                                      *)
LEMMA InitNetInv == Init => NetInv
  <1> SUFFICES ASSUME Init PROVE NetInv
    OBVIOUS
  <1>1. Types
    <2>1. <<>> \in Seq(Handlers) /\ <<>> \in Seq(Nat)
      BY EmptySeq
    <2>2. /\ queue \in [Conn -> Seq(Handlers)] /\ pendingSends \in [Conn -> Seq(Nat)]
          /\ writes \in [Conn -> Seq(Nat)] /\ wire \in [Conn -> Seq(Nat)]
      BY <2>1 DEF Init
    <2>3. 0 \in 0 .. MaxSent /\ 1 \in 0 .. 1 /\ 0 \in 0 .. 1 /\ 0 = 1 - 1
      BY MaxSentAssumption
    <2>4. /\ sent \in [Conn -> 0 .. MaxSent] /\ reads \in [Conn -> Nat]
          /\ pendingReceives \in [Conn -> 0 .. 1]
      BY <2>3 DEF Init
    <2> QED BY <2>2, <2>3, <2>4 DEF Init, Types
  <1>2. ASSUME NEW c \in Conn PROVE ConnInv(c)
    <2>1. /\ queue[c] = <<>> /\ pendingSends[c] = <<>> /\ writes[c] = <<>> /\ wire[c] = <<>>
          /\ pendingReceives[c] = 0 /\ reads[c] = 0 /\ sent[c] = 0
          /\ c \notin playersById /\ c \notin chosen
      BY DEF Init
    <2>2. Len(<<>>) = 0 /\ 0 \in Nat
      OBVIOUS
    <2>3. /\ WriteOrder(<<>>, <<>>, <<>>) /\ WriteGoesOn(<<>>, <<>>, <<>>)
          /\ ReadOrder(<<>>, 0, 0) /\ UpToWire(<<>>, <<>>, 0) /\ Numbered(<<>>, <<>>, 0, 0)
      BY <2>2, EmptyStrand DEF WriteOrder, WriteGoesOn, ReadOrder, UpToWire
    <2> QED BY <2>1, <2>2, <2>3 DEF ConnInv
  <1>3. AcceptInv
    BY DEF Init, AcceptInv, Untouched
  <1>4. PlayersAreConnected
    BY DEF Init, PlayersAreConnected
  <1> QED BY <1>1, <1>2, <1>3, <1>4 DEF NetInv

(* ... and every step keeps it.                                            *)
LEMMA NextNetInv == NetInv /\ [Next]_vars => NetInv'
  <1> SUFFICES ASSUME NetInv, [Next]_vars PROVE NetInv'
    OBVIOUS
  <1>1. ASSUME NEW ok \in BOOLEAN, Connects(ok) PROVE NetInv'
    <2>1. accepting \in Conn
      BY <1>1 DEF Connects, NetInv, Types
    <2> QED BY <1>1, <2>1, ConnectsKeeps
  <1>2. ASSUME NEW c \in Conn, RunHandler(c) PROVE NetInv'
    BY <1>2, HandleAcceptKeeps, DispatchSendKeeps, HandleSendKeeps, DispatchReceiveKeeps,
       HandleReceiveKeeps DEF RunHandler
  <1>3. ASSUME NEW c \in Conn, NEW ok \in BOOLEAN, Written(c, ok) \/ Read(c, ok) PROVE NetInv'
    BY <1>3, WrittenKeeps, ReadKeeps
  <1>4. ASSUME NEW c \in Conn, Choose(c) \/ SendTo(c) PROVE NetInv'
    BY <1>4, ChooseKeeps, SendToKeeps
  <1>5. CASE PacketArrives \/ HandlePacket \/ Stop \/ UNCHANGED vars
    <2>1. UNCHANGED <<socket, connection, playersById, chosen, sent, crashed>>
      BY <1>5 DEF PacketArrives, HandlePacket, Stop, vars, hive
    <2>2. /\ udpReads' \in 0 .. 1 /\ udpPackets' = 1 - udpReads'
          /\ shutdown' \in BOOLEAN
      <3>1. udpReads \in 0 .. 1 /\ udpPackets = 1 - udpReads /\ shutdown \in BOOLEAN
        BY DEF NetInv, Types
      <3>2. CASE PacketArrives
        BY <3>1, <3>2 DEF PacketArrives
      <3>3. CASE HandlePacket
        BY <3>1, <3>3 DEF HandlePacket
      <3>4. CASE Stop \/ UNCHANGED vars
        <4>1. UNCHANGED <<udpReads, udpPackets>> /\ (shutdown' = TRUE \/ shutdown' = shutdown)
          BY <3>4 DEF Stop, vars, hive
        <4> QED BY <3>1, <4>1
      <3> QED BY <1>5, <3>2, <3>3, <3>4
    <2>3. Types'
      BY <2>1, <2>2 DEF NetInv, Types, socket, connection
    <2>4. \A c \in Conn : ConnInv(c)'
      BY <2>1 DEF NetInv, ConnInv, socket, connection
    <2>5. Up' => AcceptInv'
      BY <2>1 DEF NetInv, AcceptInv, Untouched, Up, socket, connection
    <2>6. PlayersAreConnected'
      BY <2>1 DEF NetInv, PlayersAreConnected, Up, socket, connection
    <2> QED BY <2>3, <2>4, <2>5, <2>6 DEF NetInv
  <1> QED BY <1>1, <1>2, <1>3, <1>4, <1>5 DEF Next

(* NetInv is an inductive invariant of the sockets.                        *)
THEOREM NetInductive == Spec => []NetInv
  <1> QED BY InitNetInv, NextNetInv, PTL DEF Spec

(* The handlers of a strand, the messages of a client and the packets are  *)
(* of the kinds that the code has, within the bound on messages.           *)
THEOREM NetTypeCorrect == Spec => []TypeOK
  <1>1. NetInv => TypeOK
    <2> SUFFICES ASSUME NetInv PROVE TypeOK
      OBVIOUS
    <2>1. Types /\ MaxSent \in Nat
      BY MaxSentAssumption DEF NetInv
    <2>2. ASSUME NEW c \in Conn, NEW i \in 1 .. Len(queue[c])
          PROVE  LET h == queue[c][i]
                 IN  h.kind \in Kinds /\ h.arg \in IF h.kind = "dispatchSend" THEN 1 .. MaxSent ELSE BOOLEAN
      <3>1. queue[c][i] \in Handlers /\ pendingSends[c] \in Seq(Nat) /\ sent[c] \in 0 .. MaxSent
        BY <2>1 DEF Types
      <3>2. PICK b \in Nat : Numbered(queue[c], pendingSends[c], sent[c], b)
        BY DEF NetInv, ConnInv
      <3>3. CASE IsSend(queue[c], i)
        <4>1. queue[c][i].arg \in b + Len(pendingSends[c]) + 1 .. sent[c]
          BY <3>2, <3>3 DEF Numbered
        <4>2. Len(pendingSends[c]) \in Nat
          BY <3>1
        <4>3. queue[c][i].arg \in 1 .. MaxSent
          BY <2>1, <3>1, <4>1, <4>2
        <4> QED BY <3>1, <3>3, <4>3 DEF IsSend, Kinds
      <3>4. CASE ~IsSend(queue[c], i)
        BY <3>1, <3>4 DEF IsSend, Handlers, Kinds
      <3> QED BY <3>3, <3>4
    <2>3. ASSUME NEW c \in Conn
          PROVE  /\ \A i \in 1 .. Len(pendingSends[c]) : pendingSends[c][i] \in 1 .. MaxSent
                 /\ Len(pendingSends[c]) <= MaxSent
                 /\ pendingReceives[c] \in 0 .. 1
      <3>1. Len(pendingSends[c]) \in Nat /\ sent[c] \in 0 .. MaxSent /\ pendingReceives[c] \in 0 .. 1
        BY <2>1 DEF Types
      <3>2. PICK b \in Nat : Numbered(queue[c], pendingSends[c], sent[c], b)
        BY DEF NetInv, ConnInv
      <3>3. /\ b + Len(pendingSends[c]) <= sent[c]
            /\ \A i \in 1 .. Len(pendingSends[c]) : pendingSends[c][i] = b + i
        BY <3>2 DEF Numbered
      <3> QED BY <2>1, <3>1, <3>3
    <2>4. udpPackets \in 0 .. 1
      BY <2>1 DEF Types
    <2> QED BY <2>1, <2>2, <2>3, <2>4 DEF TypeOK, Types
  <1> QED BY <1>1, NetInductive, PTL

(* At any moment one write of a socket is in progress, that of the message *)
(* which will be taken off the list next, and none while the list is empty,*)
(* for every number of clients and messages.                               *)
THEOREM WritesOneByOne == Spec => []OneWriteAtATime
  <1>1. NetInv => OneWriteAtATime
    <2> SUFFICES ASSUME NetInv, NEW c \in Conn
                 PROVE  /\ Len(writes[c]) + Posted(c, "send") <= 1
                        /\ writes[c] # <<>> =>
                             pendingSends[c] # <<>> /\ Head(pendingSends[c]) = Head(writes[c])
                        /\ pendingSends[c] # <<>> /\ c \notin errorState =>
                             Len(writes[c]) + Posted(c, "send") = 1
      BY DEF OneWriteAtATime
    <2>1. /\ WriteOrder(queue[c], pendingSends[c], writes[c])
          /\ c \notin errorState => WriteGoesOn(queue[c], pendingSends[c], writes[c])
          /\ queue[c] \in Seq(Handlers) /\ writes[c] \in Seq(Nat)
      BY DEF NetInv, ConnInv, Types
    <2>2. Posted(c, "send") = Count(queue[c], "send")
      BY DEF Posted, Count
    <2>3. writes[c] # <<>> =>
             pendingSends[c] # <<>> /\ Head(pendingSends[c]) = Head(writes[c])
      BY <2>1, WriteUnderWay
    <2> QED BY <2>1, <2>2, <2>3 DEF WriteOrder, WriteGoesOn
  <1> QED BY <1>1, NetInductive, PTL

(* The server listens to every player, with one read.                      *)
THEOREM ReadsOneByOne == Spec => []OneReadAtATime
  <1>1. NetInv => OneReadAtATime
    <2> SUFFICES ASSUME NetInv, NEW c \in playersById
                 PROVE  reads[c] + Posted(c, "receive") + Posted(c, "dispatchReceive") = 1
      BY DEF OneReadAtATime
    <2>1. c \in Conn
      BY DEF NetInv, Types
    <2>2. ReadGoesOn(queue[c], reads[c])
      BY <2>1 DEF NetInv, ConnInv
    <2>3. /\ Posted(c, "receive") = Count(queue[c], "receive")
          /\ Posted(c, "dispatchReceive") = Count(queue[c], "dispatchReceive")
      BY DEF Posted, Count
    <2> QED BY <2>2, <2>3 DEF ReadGoesOn
  <1> QED BY <1>1, NetInductive, PTL

(* Players are those whose connection was accepted and has not failed.     *)
THEOREM PlayersConnected == Spec => []PlayersAreConnected
  <1>1. NetInv => PlayersAreConnected
    BY DEF NetInv
  <1> QED BY <1>1, NetInductive, PTL

-----------------------------------------------------------------------------
(* A message that has been written is the next one in the order of sending.*)
LEMMA WrittenIsNext ==
  ASSUME NetInv, NEW c \in Conn, NEW ok \in BOOLEAN, Written(c, ok), ok = TRUE
  PROVE  Box!Receive(c)
  <1>1. /\ writes[c] # <<>> /\ c \notin errorState
        /\ wire' = [wire EXCEPT ![c] = Append(@, Head(writes[c]))]
        /\ UNCHANGED <<sent, errorState>>
    BY DEF Written
  <1>2. /\ queue[c] \in Seq(Handlers) /\ writes[c] \in Seq(Nat) /\ wire[c] \in Seq(Nat)
        /\ pendingSends[c] \in Seq(Nat) /\ sent[c] \in Nat
        /\ wire \in [Conn -> Seq(Nat)]
    BY MaxSentAssumption DEF NetInv, Types
  <1>3. WriteOrder(queue[c], pendingSends[c], writes[c])
    BY DEF NetInv, ConnInv
  <1>4. /\ Count(queue[c], "send") = 0 /\ pendingSends[c] # <<>>
        /\ Head(pendingSends[c]) = Head(writes[c])
    BY <1>1, <1>2, <1>3, WriteUnderWay
  <1>5. ~Acked(queue[c])
    <2>1. \A i \in 1 .. Len(queue[c]) : queue[c][i].kind # "send"
      BY <1>2, <1>4, CountIsNat
    <2> QED BY <2>1 DEF Acked
  <1>6. PICK b \in Nat : /\ Numbered(queue[c], pendingSends[c], sent[c], b)
                         /\ UpToWire(queue[c], wire[c], b)
    BY <1>1 DEF NetInv, ConnInv
  <1>7. Len(wire[c]) = b
    BY <1>5, <1>6 DEF UpToWire
  <1>8. Len(pendingSends[c]) \in Nat \ {0} /\ Head(pendingSends[c]) = pendingSends[c][1]
    BY <1>2, <1>4, EmptySeq
  <1>9. pendingSends[c][1] = b + 1 /\ b + Len(pendingSends[c]) <= sent[c]
    BY <1>6, <1>8 DEF Numbered
  <1>10. Len(wire[c]) < sent[c] /\ Head(writes[c]) = Len(wire[c]) + 1
    BY <1>2, <1>4, <1>7, <1>8, <1>9
  <1>11. wire' = [wire EXCEPT ![c] = Append(@, Len(@) + 1)]
    BY <1>1, <1>2, <1>10
  <1> QED BY <1>1, <1>10, <1>11 DEF Box!Receive

(* A connection fails once.                                                *)
LEMMA ErrorIsFail ==
  ASSUME NEW c \in Conn, StartError(c), UNCHANGED <<sent, wire>>
  PROVE  Box!Fail(c) \/ UNCHANGED Box!mailbox
  <1>1. CASE c \in errorState
    BY <1>1 DEF StartError, Box!mailbox
  <1>2. CASE c \notin errorState
    BY <1>2 DEF StartError, Box!Fail
  <1> QED BY <1>1, <1>2

(* The connections keep the promise of Mailbox to all who send: every step *)
(* sends, delivers the next message, fails, or changes none of these.      *)
THEOREM NetworkImplementsMailbox == Spec => ImplementsMailbox
  <1> DEFINE Step == \E c \in Conn : Box!Send(c) \/ Box!Receive(c) \/ Box!Fail(c)
  <1>1. Init => Box!Empty
    BY DEF Init, Box!Empty
  <1>2. NetInv /\ [Next]_vars => [Step]_(Box!mailbox)
    <2> SUFFICES ASSUME NetInv, [Next]_vars PROVE Step \/ UNCHANGED Box!mailbox
      OBVIOUS
    <2>1. ASSUME NEW c \in Conn, HandleAccept(c) PROVE Step \/ UNCHANGED Box!mailbox
      <3>1. Untouched(c) /\ UNCHANGED wire
        BY <2>1, AtAccept DEF HandleAccept
      <3>2. CASE StartError(c) /\ UNCHANGED sent
        BY <3>1, <3>2, ErrorIsFail
      <3>3. CASE sent' = [sent EXCEPT ![c] = @ + 1] /\ UNCHANGED errorState
        BY <3>1, <3>3 DEF Untouched, Box!Send
      <3>4. CASE UNCHANGED <<sent, errorState>>
        BY <3>1, <3>4 DEF Box!mailbox
      <3> QED BY <2>1, <3>2, <3>3, <3>4 DEF HandleAccept
    <2>2. ASSUME NEW c \in Conn, HandleSend(c) \/ HandleReceive(c)
          PROVE  Step \/ UNCHANGED Box!mailbox
      <3>1. UNCHANGED <<sent, wire>> /\ (StartError(c) \/ UNCHANGED errorState)
        BY <2>2 DEF HandleSend, HandleReceive
      <3> QED BY <3>1, ErrorIsFail DEF Box!mailbox
    <2>3. ASSUME NEW c \in Conn, SendTo(c) PROVE Step \/ UNCHANGED Box!mailbox
      <3>1. Up /\ UNCHANGED <<wire, errorState>>
        BY <2>3 DEF SendTo, socket
      <3>2. CASE c \in playersById /\ sent' = [sent EXCEPT ![c] = @ + 1]
        <4>1. c \notin errorState
          BY <3>1, <3>2 DEF NetInv, PlayersAreConnected
        <4> QED BY <3>1, <3>2, <4>1 DEF Box!Send
      <3>3. CASE UNCHANGED sent
        BY <3>1, <3>3 DEF Box!mailbox
      <3> QED BY <2>3, <3>2, <3>3 DEF SendTo
    <2>4. ASSUME NEW c \in Conn, NEW ok \in BOOLEAN, Written(c, ok)
          PROVE  Step \/ UNCHANGED Box!mailbox
      <3>1. CASE ok = TRUE
        BY <2>4, <3>1, WrittenIsNext
      <3>2. CASE ok = FALSE
        BY <2>4, <3>2 DEF Written, Box!mailbox
      <3> QED BY <3>1, <3>2
    <2>5. CASE \/ \E ok \in BOOLEAN : Connects(ok) \/ \E c \in Conn : Read(c, ok)
               \/ \E c \in Conn : DispatchSend(c) \/ DispatchReceive(c) \/ Choose(c)
               \/ PacketArrives \/ HandlePacket \/ Stop \/ UNCHANGED vars
      <3>1. UNCHANGED <<sent, wire, errorState>>
        BY <2>5 DEF Connects, Read, DispatchSend, DispatchReceive, Choose, PacketArrives,
                    HandlePacket, Stop, vars, socket, connection
      <3> QED BY <3>1 DEF Box!mailbox
    <2> QED BY <2>1, <2>2, <2>3, <2>4, <2>5 DEF Next, RunHandler
  <1> QED BY <1>1, <1>2, NetInductive, PTL DEF Spec, ImplementsMailbox, Box!Mail
=============================================================================
