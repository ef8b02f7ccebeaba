------------------------------ MODULE MCAccounts ------------------------------
(* Values of the constants of Accounts for TLC.                            *)
EXTENDS Accounts, TLC

CONSTANTS c1, c2, ann, bob, p1, p2, moscow

Clients == {c1, c2}
Logins == {ann, bob}
Passwords == {p1, p2}
OnePassword == {p1}
Texts == {moscow}
Symmetry == Permutations(Clients) \cup Permutations(Logins) \cup Permutations(Passwords)
=============================================================================
