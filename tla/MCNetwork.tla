------------------------------ MODULE MCNetwork ------------------------------
(* Values of the constants of Network for TLC.                             *)
EXTENDS Network

CONSTANTS c1, c2

Conns == {c1, c2}
=============================================================================
