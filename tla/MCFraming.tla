------------------------------ MODULE MCFraming ------------------------------
(* Values of the constants of Framing for TLC: messages of 11, 23, 101, 5  *)
(* and 11 bytes.  A piece may hold the last three, or a part of the third. *)
EXTENDS Framing

Texts == <<8, 20, 97, 3, 8>>

StartOf[m \in 1 .. 6] ==
  IF m = 1 THEN 0 ELSE StartOf[m - 1] + MessageLength(Texts[m - 1])
=============================================================================
