--------------------------- MODULE Framing_proofs ---------------------------
(***************************************************************************)
(* Theorems about the framing of a stream: for every sequence of messages, *)
(* every size of the buffer and every way TCP cuts the stream.             *)
(***************************************************************************)
EXTENDS Framing, TLAPS

Interval == Nat \X Nat

Typed ==
  /\ written \in 0 .. Last
  /\ received \in Nat
  /\ wants \in Nat
  /\ buffer \in Interval
  /\ carry \in Interval
  /\ frames \in Seq(Interval)
  /\ lost \in BOOLEAN

(* Nothing is read that was not written, and a handler runs only on bytes  *)
(* and in a stream whose place is known: that of the next message.         *)
InPlace ==
  /\ Len(frames) <= written
  /\ received <= Start[written + 1]
  /\ buffer # Nothing => buffer[1] < received /\ ~lost
  /\ carry[1] <= carry[2]
  /\ ~lost => Handed = Start[Len(frames) + 1]

FramingInv == Typed /\ InStep /\ BytesInOrder /\ InPlace

-----------------------------------------------------------------------------
LEMMA DigitsOf ==
  ASSUME NEW k \in Nat
  PROVE  /\ k < 10 => Digits(k) = 1
         /\ k >= 10 /\ k < 100 => Digits(k) = 2
         /\ k >= 100 /\ k < 1000 => Digits(k) = 3
         /\ k >= 1000 /\ k < 10000 => Digits(k) = 4
         /\ k >= 10000 => Digits(k) = 5
<1>1. CASE k < 10
  BY <1>1, SMT DEF Digits
<1>2. CASE k >= 10 /\ k < 100
  BY <1>2, SMT DEF Digits
<1>3. CASE k >= 100 /\ k < 1000
  BY <1>3, SMT DEF Digits
<1>4. CASE k >= 1000 /\ k < 10000
  BY <1>4, SMT DEF Digits
<1>5. CASE k >= 10000
  BY <1>5, SMT DEF Digits
<1> QED
  BY <1>1, <1>2, <1>3, <1>4, <1>5, SMT

(* How long a text becomes by the number in front of it.                   *)
LEMMA AnnouncedIs ==
  ASSUME NEW n \in FitTexts
  PROVE  /\ n \in Nat /\ n <= 99993
         /\ n <= 7 => Announced(n) = n + 2
         /\ n >= 8 /\ n <= 96 => Announced(n) = n + 3
         /\ n >= 97 /\ n <= 995 => n # 98 /\ Announced(n) = n + 4
         /\ n >= 996 /\ n <= 9994 => n >= 999 /\ Announced(n) = n + 5
         /\ n >= 9995 => n >= 9999 /\ Announced(n) = n + 6
<1>1. /\ n \in Nat /\ n <= 99993 /\ n # 98
      /\ n < 996 \/ n > 998
      /\ n < 9995 \/ n > 9998
  BY SMTT(60) DEF FitTexts
<1>2. n = 8 => Announced(n) = 11
  BY SMT DEF Announced
<1>3. n = 97 => Announced(n) = 101
  BY SMT DEF Announced
<1>4. n # 8 /\ n # 97 => Announced(n) = n + 1 + Digits(n + 1)
  BY <1>1, SMT DEF Announced
<1> QED
  BY <1>1, <1>2, <1>3, <1>4, DigitsOf, SMT

(* The number that getMessageFormat puts in front is the length of all, it *)
(* included, for every text it is fit for (formatter.cpp:35-50).           *)
THEOREM LengthIsRight ==
  ASSUME NEW n \in FitTexts
  PROVE  Announced(n) = MessageLength(n)
BY AnnouncedIs, DigitsOf, SMT DEF MessageLength

LEMMA LengthBound ==
  ASSUME NEW n \in FitTexts
  PROVE  /\ Announced(n) \in Nat
         /\ 2 <= Announced(n) /\ Announced(n) <= 99999
         /\ Digits(Announced(n)) \in 1 .. 5
         /\ Digits(Announced(n)) < Announced(n)
<1>1. Announced(n) \in Nat /\ 2 <= Announced(n) /\ Announced(n) <= 99999
  BY AnnouncedIs, SMT
<1> QED
  BY <1>1, DigitsOf, SMT

(* A piece that ends inside the length is as long as the number it shows   *)
(* only if it is a single 1.                                               *)
LEMMA OnlyALoneOne ==
  ASSUME NEW k \in Nat, NEW s \in Nat, s > 0, s < Digits(k),
         k \div Power(Digits(k) - s) <= s
  PROVE  s = 1 /\ k >= 10 /\ k \div Power(Digits(k) - 1) = 1
<1>1. Power(1) = 10 /\ Power(2) = 100 /\ Power(3) = 1000 /\ Power(4) = 10000
  BY SMT DEF Power
<1>2. CASE k >= 10 /\ k < 100
  <2>1. Digits(k) = 2 /\ s \in 1 .. 1
    BY <1>2, DigitsOf, SMT
  <2>2. CASE s = 1
    <3>1. k \div 10 <= 1
      BY <1>1, <2>1, <2>2, SMT
    <3> QED
      BY <1>1, <1>2, <2>1, <2>2, <3>1, SMT
  <2> QED
    BY <2>1, <2>2, SMT
<1>3. CASE k >= 100 /\ k < 1000
  <2>1. Digits(k) = 3 /\ s \in 1 .. 2
    BY <1>3, DigitsOf, SMT
  <2>2. CASE s = 1
    <3>1. k \div 100 <= 1
      BY <1>1, <2>1, <2>2, SMT
    <3> QED
      BY <1>1, <1>3, <2>1, <2>2, <3>1, SMT
  <2>3. CASE s = 2
    <3>1. k \div 10 <= 2
      BY <1>1, <2>1, <2>3, SMT
    <3> QED
      BY <1>1, <1>3, <2>1, <2>3, <3>1, SMT
  <2> QED
    BY <2>1, <2>2, <2>3, SMT
<1>4. CASE k >= 1000 /\ k < 10000
  <2>1. Digits(k) = 4 /\ s \in 1 .. 3
    BY <1>4, DigitsOf, SMT
  <2>2. CASE s = 1
    <3>1. k \div 1000 <= 1
      BY <1>1, <2>1, <2>2, SMT
    <3> QED
      BY <1>1, <1>4, <2>1, <2>2, <3>1, SMT
  <2>3. CASE s = 2
    <3>1. k \div 100 <= 2
      BY <1>1, <2>1, <2>3, SMT
    <3> QED
      BY <1>1, <1>4, <2>1, <2>3, <3>1, SMT
  <2>4. CASE s = 3
    <3>1. k \div 10 <= 3
      BY <1>1, <2>1, <2>4, SMT
    <3> QED
      BY <1>1, <1>4, <2>1, <2>4, <3>1, SMT
  <2> QED
    BY <2>1, <2>2, <2>3, <2>4, SMT
<1>5. CASE k >= 10000
  <2>1. Digits(k) = 5 /\ s \in 1 .. 4
    BY <1>5, DigitsOf, SMT
  <2>2. CASE s = 1
    <3>1. k \div 10000 <= 1
      BY <1>1, <2>1, <2>2, SMT
    <3> QED
      BY <1>1, <1>5, <2>1, <2>2, <3>1, SMT
  <2>3. CASE s = 2
    <3>1. k \div 1000 <= 2
      BY <1>1, <2>1, <2>3, SMT
    <3> QED
      BY <1>1, <1>5, <2>1, <2>3, <3>1, SMT
  <2>4. CASE s = 3
    <3>1. k \div 100 <= 3
      BY <1>1, <2>1, <2>4, SMT
    <3> QED
      BY <1>1, <1>5, <2>1, <2>4, <3>1, SMT
  <2>5. CASE s = 4
    <3>1. k \div 10 <= 4
      BY <1>1, <2>1, <2>5, SMT
    <3> QED
      BY <1>1, <1>5, <2>1, <2>5, <3>1, SMT
  <2> QED
    BY <2>1, <2>2, <2>3, <2>4, <2>5, SMT
<1>6. k >= 10
  BY DigitsOf, SMT
<1> QED
  BY <1>2, <1>3, <1>4, <1>5, <1>6, SMT

LEMMA LastIsNat == Last \in Nat /\ \A m \in 1 .. Last : Text[m] \in FitTexts
BY TextAssumption, SMT DEF Last

LEMMA Messages ==
  ASSUME NEW m \in 1 .. Last
  PROVE  /\ Text[m] \in FitTexts
         /\ Start[m] \in Nat /\ Start[m + 1] \in Nat
         /\ Start[m + 1] = Start[m] + Announced(Text[m])
<1>1. Text[m] \in FitTexts
  BY LastIsNat
<1> QED
  BY <1>1, LastIsNat, TextAssumption, LengthIsRight, SMT

LEMMA InitInPlace == Init => FramingInv
<1> SUFFICES ASSUME Init PROVE FramingInv
  OBVIOUS
<1>1. Typed
  <2>1. frames \in Seq(Interval) /\ Nothing \in Interval
    BY SMT DEF Init, Interval, Nothing
  <2>2. written \in 0 .. Last
    BY LastIsNat, SMT DEF Init
  <2> QED
    BY <2>1, <2>2 DEF Init, Typed
<1>2. InStep
  BY SMT DEF Init, InStep
<1>3. Handed = 0 /\ Len(frames) = 0
  BY SMT DEF Init, Handed
<1>4. BytesInOrder
  BY <1>3, SMT DEF Init, BytesInOrder, Nothing, Size
<1>5. InPlace
  BY <1>3, TextAssumption, SMT DEF Init, InPlace, Nothing
<1> QED
  BY <1>1, <1>2, <1>4, <1>5 DEF FramingInv

LEMMA WriteKeeps == FramingInv /\ Write => FramingInv'
<1> SUFFICES ASSUME FramingInv, Write PROVE FramingInv'
  OBVIOUS
<1>1. written \in Nat /\ written < Last /\ written' = written + 1
  BY LastIsNat, SMT DEF FramingInv, Typed, Write
<1>2. /\ Start[written + 1] \in Nat /\ Start[written + 2] \in Nat
      /\ Start[written + 1] <= Start[written + 2]
  <2>1. written + 1 \in 1 .. Last /\ (written + 1) + 1 = written + 2
    BY <1>1, LastIsNat, SMT
  <2> QED
    BY <2>1, Messages, LengthBound, SMT
<1>3. Typed'
  BY <1>1, LastIsNat, SMT DEF FramingInv, Typed, Write
<1>4. UNCHANGED <<received, wants, buffer, carry, frames, lost>>
  BY DEF Write
<1>5. InStep'
  BY <1>1, <1>4, SMT DEF FramingInv, Typed, InStep, Message
<1>6. BytesInOrder'
  BY <1>4, SMT DEF FramingInv, BytesInOrder, Handed, Size
<1>7. InPlace'
  <2>1. Len(frames) \in Nat /\ Handed' = Handed
    BY <1>4, SMT DEF FramingInv, Typed, Handed
  <2>2. (written + 1) + 1 = written + 2
    BY <1>1, SMT
  <2> QED
    BY <1>1, <1>2, <1>4, <2>1, <2>2, SMT DEF FramingInv, Typed, InPlace
<1> QED
  BY <1>3, <1>5, <1>6, <1>7 DEF FramingInv

LEMMA ReadKeeps == FramingInv /\ Read => FramingInv'
<1> SUFFICES ASSUME FramingInv, Read PROVE FramingInv'
  OBVIOUS
<1>1. PICK n \in Nat \ {0} : /\ received + n <= Start[written + 1]
                            /\ buffer' = <<received, received + n>>
                            /\ received' = received + n
  BY SizeAssumption, SMT DEF FramingInv, Typed, Read
<1>2. Size(buffer) = 0 /\ ~lost /\ UNCHANGED <<written, wants, carry, frames, lost>>
  BY DEF Read
<1>3. Typed'
  BY <1>1, <1>2, SMT DEF FramingInv, Typed, Interval
<1>4. InStep'
  BY <1>2, SMT DEF FramingInv, InStep, Message
<1>5. BytesInOrder'
  BY <1>1, <1>2, SMT DEF FramingInv, Typed, BytesInOrder, Handed, Size
<1>6. InPlace'
  BY <1>1, <1>2, SMT DEF FramingInv, Typed, InPlace, Handed
<1> QED
  BY <1>3, <1>4, <1>5, <1>6 DEF FramingInv

(* What OnReceive looks at: it begins with the next message, and that has  *)
(* been written.                                                           *)
LEMMA WholePiece ==
  ASSUME FramingInv, Size(buffer) > 0,
         NEW whole, whole = Join(carry, buffer),
         NEW m, m = Len(frames) + 1
  PROVE  /\ whole = <<Start[m], received>>
         /\ m \in 1 .. Last /\ m <= written
         /\ Start[m] \in Nat /\ Start[m] < received
         /\ buffer # Nothing /\ ~lost /\ received \in Nat
<1>1. /\ buffer # Nothing /\ ~lost /\ buffer[2] = received /\ buffer[1] < received
      /\ buffer = <<buffer[1], received>> /\ received \in Nat /\ buffer[1] \in Nat
  BY SMT DEF FramingInv, Typed, InPlace, BytesInOrder, Interval, Size, Nothing
<1>2. /\ Len(frames) \in Nat /\ Len(frames) <= written
      /\ written \in Nat /\ written <= Last /\ Last \in Nat
  BY LastIsNat, SMT DEF FramingInv, Typed, InPlace
<1>3. Handed = Start[m] /\ Start[m] \in Nat
  <2>1. m \in 1 .. Last + 1
    BY <1>2, SMT
  <2> QED
    BY <1>1, <2>1, TextAssumption, SMT DEF FramingInv, InPlace
<1>4. IF Size(carry) = 0 THEN buffer[1] = Start[m] ELSE carry = <<Start[m], buffer[1]>>
  BY <1>1, <1>3, SMT DEF FramingInv, BytesInOrder
<1>5. whole = <<Start[m], received>>
  BY <1>1, <1>4, SMT DEF Join
<1>6. Start[m] < received
  BY <1>1, <1>3, <1>4, SMT DEF FramingInv, Typed, InPlace, Size, Interval
<1>7. m <= written
  <2>1. CASE Len(frames) = written
    <3>1. received <= Start[m]
      BY <2>1 DEF FramingInv, InPlace
    <3> QED
      BY <3>1, <1>1, <1>3, <1>6, SMT
  <2> QED
    BY <2>1, <1>2, SMT
<1>8. m \in 1 .. Last
  BY <1>2, <1>7, SMT
<1> QED
  BY <1>1, <1>3, <1>5, <1>6, <1>7, <1>8

LEMMA WaitKeeps ==
  ASSUME FramingInv, Size(buffer) > 0, NEW whole, whole = Join(carry, buffer),
         WaitForRest(whole, Len(frames) + 1), UNCHANGED stream
  PROVE  FramingInv'
<1> DEFINE m == Len(frames) + 1
<1>1. /\ whole = <<Start[m], received>> /\ m \in 1 .. Last /\ m <= written
      /\ Start[m] \in Nat /\ Start[m] < received
      /\ buffer # Nothing /\ ~lost /\ received \in Nat
  BY WholePiece
<1>2. /\ carry' = <<Start[m], received>> /\ buffer' = Nothing
      /\ UNCHANGED <<written, received, frames, lost>>
  BY <1>1 DEF WaitForRest, stream
<1>3. wants' \in Nat
  <2>1. LengthRead(whole, m) \in Nat
    <3>1. Text[m] \in FitTexts
      BY <1>1, Messages
    <3>2. Size(whole) \in Nat
      BY <1>1, SMT DEF Size
    <3> QED
      BY <3>1, <3>2, LengthBound, SMT DEF LengthRead, Power
  <2>2. Size(whole) \in Nat
    BY <1>1, SMT DEF Size
  <2> QED
    BY <2>1, <2>2, SMT DEF WaitForRest
<1>4. Typed'
  BY <1>1, <1>2, <1>3, SMT DEF FramingInv, Typed, Interval, Nothing
<1>5. InStep'
  BY <1>2, SMT DEF FramingInv, InStep, Message
<1>6. Handed' = Handed /\ Handed = Start[m]
  BY <1>1, <1>2 DEF FramingInv, InPlace, Handed
<1>7. BytesInOrder'
  BY <1>1, <1>2, <1>6, SMT DEF BytesInOrder, Size, Nothing
<1>8. InPlace'
  BY <1>1, <1>2, <1>6, SMT DEF FramingInv, InPlace
<1> QED
  BY <1>4, <1>5, <1>7, <1>8 DEF FramingInv

(* A piece that is not cut inside its length gives exactly the next        *)
(* message; one that is gives a single byte.                               *)
LEMMA FrameRead ==
  ASSUME NEW m \in 1 .. Last, NEW upto \in Nat, Start[m] < upto,
         NEW whole, whole = <<Start[m], upto>>,
         LengthRead(whole, m) <= Size(whole)
  PROVE  /\ Start[m] + LengthRead(whole, m) \in Nat
         /\ LengthRead(whole, m) > 0
         /\ Start[m] + LengthRead(whole, m) <= upto
         /\ ~IsCut(whole, m) => First(whole, LengthRead(whole, m)) = Message(m)
         /\ IsCut(whole, m) =>
              /\ First(whole, LengthRead(whole, m)) = <<Start[m], Start[m] + 1>>
              /\ BeginsWithOne(Announced(Text[m]))
<1> DEFINE k == Announced(Text[m])
<1>1. /\ Text[m] \in FitTexts /\ Start[m] \in Nat /\ Start[m + 1] = Start[m] + k
      /\ k \in Nat /\ k >= 2
  BY Messages, LengthBound
<1>2. Size(whole) = upto - Start[m] /\ Size(whole) \in Nat /\ Size(whole) > 0
  BY <1>1, SMT DEF Size
<1>3. CASE ~IsCut(whole, m)
  <2>1. LengthRead(whole, m) = k
    BY <1>3 DEF IsCut, LengthRead
  <2> QED
    BY <1>1, <1>2, <1>3, <2>1, SMT DEF First, Message
<1>4. CASE IsCut(whole, m)
  <2>1. LengthRead(whole, m) = k \div Power(Digits(k) - Size(whole))
    BY <1>4 DEF IsCut, LengthRead
  <2>2. Size(whole) = 1 /\ LengthRead(whole, m) = 1 /\ BeginsWithOne(k)
    <3>1. Size(whole) = 1 /\ k >= 10 /\ k \div Power(Digits(k) - 1) = 1
      BY <1>1, <1>2, <1>4, <2>1, OnlyALoneOne DEF IsCut
    <3> QED
      BY <2>1, <3>1 DEF BeginsWithOne
  <2> QED
    BY <1>1, <1>2, <1>4, <2>2, SMT DEF First
<1> QED
  BY <1>3, <1>4

LEMMA ExecuteKeeps ==
  ASSUME FramingInv, Size(buffer) > 0, NEW whole, whole = Join(carry, buffer),
         Execute(whole, Len(frames) + 1), UNCHANGED stream
  PROVE  FramingInv'
<1> DEFINE m == Len(frames) + 1
           length == LengthRead(whole, m)
           rest == Rest(whole, length)
<1>1. /\ whole = <<Start[m], received>> /\ m \in 1 .. Last /\ m <= written
      /\ Start[m] \in Nat /\ Start[m] < received
      /\ buffer # Nothing /\ ~lost /\ received \in Nat
  BY WholePiece
<1>2. /\ Start[m] + length \in Nat /\ length > 0 /\ Start[m] + length <= received
      /\ ~IsCut(whole, m) => First(whole, length) = Message(m)
      /\ IsCut(whole, m) =>
           First(whole, length) = <<Start[m], Start[m] + 1>> /\ BeginsWithOne(Announced(Text[m]))
  BY <1>1, FrameRead DEF Execute
<1>3. /\ frames \in Seq(Interval) /\ Len(frames) \in Nat
      /\ First(whole, length) = <<Start[m], Start[m] + length>>
      /\ rest = <<Start[m] + length, received>>
  BY <1>1, SMT DEF FramingInv, Typed, First, Rest
<1>4. /\ frames' = Append(frames, First(whole, length))
      /\ lost' = IsCut(whole, m) /\ lost' \in BOOLEAN
      /\ wants' = 0
      /\ UNCHANGED <<written, received>>
  BY DEF Execute, stream, IsCut
<1>5. \/ ~lost' /\ carry' = Nothing /\ buffer' = rest /\ Size(rest) > 0
      \/ carry' = rest /\ buffer' = Nothing
  BY <1>4 DEF Execute, IsReady
<1>6. First(whole, length) \in Interval /\ rest \in Interval /\ Nothing \in Interval
  BY <1>1, <1>2, <1>3, SMT DEF Interval, Nothing
<1>7. frames' \in Seq(Interval) /\ Len(frames') = m
  BY <1>3, <1>4, <1>6, SMT
<1>8. Typed'
  BY <1>4, <1>5, <1>6, <1>7, SMT DEF FramingInv, Typed
<1>9. InStep'
  <2> SUFFICES ASSUME NEW i \in 1 .. m
               PROVE  /\ i <= written
                      /\ frames'[i] # Message(i) =>
                           /\ lost' /\ i = m
                           /\ frames'[i] = <<Start[i], Start[i] + 1>>
                           /\ BeginsWithOne(Announced(Text[i]))
    BY <1>4, <1>7 DEF InStep, Message
  <2>1. CASE i = m
    <3>1. frames'[i] = First(whole, length)
      BY <1>3, <1>4, <1>6, <2>1, SMT
    <3> QED
      BY <1>1, <1>2, <1>4, <2>1, <3>1
  <2>2. CASE i # m
    <3>1. i \in 1 .. Len(frames) /\ frames'[i] = frames[i]
      BY <1>3, <1>4, <1>6, <2>2, SMT
    <3> QED
      BY <1>1, <3>1 DEF FramingInv, InStep
  <2> QED
    BY <2>1, <2>2
<1>10. Handed' = Start[m] + length
  BY <1>3, <1>4, <1>6, <1>7, SMT DEF Handed
<1>11. BytesInOrder'
  <2>1. Size(Nothing) = 0 /\ Size(rest) = received - (Start[m] + length)
    BY <1>3, SMT DEF Size, Nothing
  <2>2. CASE carry' = Nothing /\ buffer' = rest /\ Size(rest) > 0
    BY <1>3, <1>4, <1>10, <2>1, <2>2, SMT DEF BytesInOrder
  <2>3. CASE carry' = rest /\ buffer' = Nothing
    BY <1>1, <1>2, <1>3, <1>4, <1>10, <2>1, <2>3, SMT DEF BytesInOrder
  <2> QED
    BY <1>5, <2>2, <2>3
<1>12. InPlace'
  <2>1. ~lost' => Handed' = Start[m + 1]
    BY <1>2, <1>3, <1>4, <1>10, SMT DEF Message
  <2>2. received' <= Start[written' + 1]
    BY <1>4 DEF FramingInv, InPlace
  <2> QED
    BY <1>1, <1>2, <1>3, <1>4, <1>5, <1>7, <2>1, <2>2, SMT DEF InPlace, Size, Nothing
<1> QED
  BY <1>8, <1>9, <1>11, <1>12 DEF FramingInv

LEMMA FramingInductive == Spec => []FramingInv
<1>1. Init => FramingInv
  BY InitInPlace
<1>2. FramingInv /\ [Next]_vars => FramingInv'
  <2> SUFFICES ASSUME FramingInv, [Next]_vars PROVE FramingInv'
    OBVIOUS
  <2>1. CASE Write
    BY <2>1, WriteKeeps
  <2>2. CASE Read
    BY <2>2, ReadKeeps
  <2>3. CASE OnReceive
    BY <2>3, WaitKeeps, ExecuteKeeps DEF OnReceive
  <2>4. CASE UNCHANGED vars
    BY <2>4 DEF vars, stream, FramingInv, Typed, InStep, BytesInOrder, InPlace, Handed,
       Message, Size
  <2> QED
    BY <2>1, <2>2, <2>3, <2>4 DEF Next
<1> QED
  BY <1>1, <1>2, PTL DEF Spec

(* Every frame that is given to PlayerMessage is the next message of the   *)
(* client, up to the first piece that ends after a lone 1                  *)
(* (my_network.cpp:44-113).                                                *)
THEOREM FramesAreMessages == Spec => []InStep
<1>1. FramingInv => InStep
  BY DEF FramingInv
<1> QED
  BY <1>1, FramingInductive, PTL

(* No byte is lost or kept twice between the socket and the frames         *)
(* (my_network.cpp:49-71, 95-106).                                         *)
THEOREM NoByteIsLost == Spec => []BytesInOrder
<1>1. FramingInv => BytesInOrder
  BY DEF FramingInv
<1> QED
  BY <1>1, FramingInductive, PTL
=============================================================================
