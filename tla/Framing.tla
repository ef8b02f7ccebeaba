------------------------------ MODULE Framing ------------------------------
(***************************************************************************)
(* The stream of one connection: a client writes messages, each with its   *)
(* length in front, TCP delivers their bytes in pieces that begin and end  *)
(* anywhere, and MyConnection::onReceive cuts messages out of the pieces.  *)
(*                                                                         *)
(* A byte is its offset in the stream, and what the code keeps in a vector *)
(* is an interval of the stream, the pair of its first offset and of the   *)
(* offset after its last.  Join relies on the carry ending where the       *)
(* buffer begins, which BytesInOrder states.                               *)
(***************************************************************************)
EXTENDS Integers, Sequences

CONSTANTS
  Text,              \* the messages: the length of each one's text
  Start,             \* Start[m]: the offset of the first byte of message m
  ReceiveBufferSize  \* Connection::receiveBufferSize_

-----------------------------------------------------------------------------
(* Formatter::getMessageFormat puts the length of the whole message and a  *)
(* space in front of a text of n bytes.                                    *)

Digits(k) ==
  IF k < 10 THEN 1
  ELSE IF k < 100 THEN 2
  ELSE IF k < 1000 THEN 3
  ELSE IF k < 10000 THEN 4 ELSE 5

(* Variant: without the case 98.                                           *)
WithoutNinetyEight(n) == IF n + 1 = 9 THEN 11 ELSE n + 1 + Digits(n + 1)

Announced(n) ==
  CASE n + 1 = 9  -> 11
    [] n + 1 = 98 -> 101
    [] OTHER      -> n + 1 + Digits(n + 1)

MessageLength(n) == Digits(Announced(n)) + 1 + n

(* The texts that get their right length.  The function has a case for two *)
(* of the lengths at which the number in front needs a digit more than the *)
(* text; it lacks one for the others.                                      *)
FitTexts == {n \in 0 .. 99993 : n # 98 /\ (n < 996 \/ n > 998) /\ (n < 9995 \/ n > 9998)}

Last == Len(Text)

ASSUME TextAssumption ==
  /\ Text \in Seq(FitTexts)
  /\ Start \in [1 .. Last + 1 -> Nat]
  /\ Start[1] = 0
  /\ \A m \in 1 .. Last : Start[m + 1] = Start[m] + MessageLength(Text[m])
ASSUME SizeAssumption == ReceiveBufferSize \in Nat \ {0}

VARIABLES
  written,  \* number of messages the client has written
  received, \* number of bytes that were read from the socket
  wants,    \* bytes the read in progress waits for; 0 is read_some
  buffer,   \* what onReceive is called with; empty while no handler runs
  carry,    \* MyConnection::carry
  frames,   \* what was given to PlayerMessage and command::execute
  lost      \* the last frame was no message

stream == <<written, received>>
vars == <<stream, wants, buffer, carry, frames, lost>>

Message(m) == <<Start[m], Start[m + 1]>>
Size(piece) == piece[2] - piece[1]
Join(piece, next) == IF Size(piece) = 0 THEN next ELSE <<piece[1], next[2]>>
First(piece, n) == <<piece[1], piece[1] + n>>
Rest(piece, n) == <<piece[1] + n, piece[2]>>
Nothing == <<0, 0>>

Init ==
  /\ written = 0
  /\ received = 0
  /\ wants = 0
  /\ buffer = Nothing
  /\ carry = Nothing
  /\ frames = <<>>
  /\ lost = FALSE

Write ==
  /\ written < Last
  /\ written' = written + 1
  /\ UNCHANGED <<received, wants, buffer, carry, frames, lost>>

(* Connection::startReceive and what becomes of it: async_read ends with   *)
(* the bytes it was asked for, async_read_some with some of those that are *)
(* there.                                                                  *)
Read ==
  /\ Size(buffer) = 0
  /\ ~lost
  /\ \E n \in IF wants > 0 THEN {wants} ELSE 1 .. ReceiveBufferSize :
       /\ received + n <= Start[written + 1]
       /\ buffer' = <<received, received + n>>
       /\ received' = received + n
  /\ UNCHANGED <<written, wants, carry, frames, lost>>

Power(i) ==
  CASE i = 0 -> 1 [] i = 1 -> 10 [] i = 2 -> 100 [] i = 3 -> 1000 [] OTHER -> 10000

(* The number in front of the first space of a piece that begins with the  *)
(* length of message m; of a piece that ends earlier, its leading digits.  *)
LengthRead(piece, m) ==
  LET length == Announced(Text[m])
  IN  IF Size(piece) < Digits(length)
      THEN length \div Power(Digits(length) - Size(piece))
      ELSE length

IsCut(piece, m) == Size(piece) < Digits(Announced(Text[m]))

(* Variant: it waits for a whole message more.                             *)
WaitForAll(whole, m) ==
  /\ LengthRead(whole, m) > Size(whole)
  /\ carry' = whole
  /\ wants' = LengthRead(whole, m)
  /\ buffer' = Nothing
  /\ UNCHANGED <<frames, lost>>

(* Not enough: wait for the missing bytes, and no more.                    *)
WaitForRest(whole, m) ==
  /\ LengthRead(whole, m) > Size(whole)
  /\ carry' = whole
  /\ wants' = LengthRead(whole, m) - Size(whole)
  /\ buffer' = Nothing
  /\ UNCHANGED <<frames, lost>>

(* What follows a message stays in the carry; if it is at least as long as *)
(* the number in front of it, onReceive calls itself with it.              *)
IsReady(rest, m) == Size(rest) > 0 /\ LengthRead(rest, m) <= Size(rest)

(* Variant: the carry stays when onReceive is called with it.              *)
ExecuteAndKeep(whole, m) ==
  LET length == LengthRead(whole, m)
      rest   == Rest(whole, length)
  IN  /\ length <= Size(whole)
      /\ frames' = Append(frames, First(whole, length))
      /\ lost' = IsCut(whole, m)
      /\ carry' = rest
      /\ buffer' = IF ~lost' /\ IsReady(rest, m + 1) THEN rest ELSE Nothing
      /\ wants' = 0

(* Whatever the client sent is executed or ignored, and the stream goes    *)
(* on.  After a frame that was no message onReceive takes text for lengths *)
(* or ends the program, since stoul throws: the model stops there.         *)
Execute(whole, m) ==
  LET length == LengthRead(whole, m)
      rest   == Rest(whole, length)
      again  == ~IsCut(whole, m) /\ IsReady(rest, m + 1)
  IN  /\ length <= Size(whole)
      /\ frames' = Append(frames, First(whole, length))
      /\ lost' = IsCut(whole, m)
      /\ carry' = IF again THEN Nothing ELSE rest
      /\ buffer' = IF again THEN rest ELSE Nothing
      /\ wants' = 0

(* MyConnection::onReceive.                                                *)
OnReceive ==
  /\ Size(buffer) > 0
  /\ LET whole == Join(carry, buffer)
         m     == Len(frames) + 1
     IN  WaitForRest(whole, m) \/ Execute(whole, m)
  /\ UNCHANGED stream

Next == Write \/ Read \/ OnReceive

Spec == Init /\ [][Next]_vars

(* TCP delivers what was written, and the threads of the Hive run the      *)
(* handlers that are ready.                                                *)
FairSpec == Spec /\ WF_vars(Read) /\ WF_vars(OnReceive)

-----------------------------------------------------------------------------
BeginsWithOne(k) == k >= 10 /\ k \div Power(Digits(k) - 1) = 1

(* However the stream is cut and glued, every frame is the next message,   *)
(* from its first byte to its last.  There is one exception: a piece that  *)
(* ends after the first digit of a longer length, when that digit is 1. It *)
(* is taken for a message of one byte, since only for a 1 alone the number *)
(* read is not larger than the piece (my_network.cpp:55-66).               *)
InStep ==
  \A m \in 1 .. Len(frames) :
    /\ m <= written
    /\ frames[m] # Message(m) =>
         /\ lost /\ m = Len(frames)
         /\ frames[m] = <<Start[m], Start[m] + 1>>
         /\ BeginsWithOne(Announced(Text[m]))

(* The offset after the last frame.                                        *)
Handed == IF frames = <<>> THEN 0 ELSE frames[Len(frames)][2]

(* No byte is lost, moved or kept twice: what was read and is in no frame  *)
(* is the carry followed by the buffer (my_network.cpp:49-71, 95-106).     *)
BytesInOrder ==
  LET rest == IF Size(buffer) = 0 THEN received ELSE buffer[1]
  IN  /\ buffer = Nothing \/ buffer[2] = received
      /\ Size(carry) = 0 => rest = Handed
      /\ Size(carry) # 0 => carry = <<Handed, rest>>

(* The server never waits for bytes that no message has: again and again   *)
(* everything that was written is executed, unless the stream was lost     *)
(* (my_network.cpp:66-71, 95-109).                                         *)
MessagesAreExecuted == []<>(Len(frames) = written \/ lost)
=============================================================================
