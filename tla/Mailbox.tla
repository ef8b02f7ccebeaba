------------------------------- MODULE Mailbox -------------------------------
(***************************************************************************)
(* What the connections promise to the code that sends: the messages of a  *)
(* client reach him once each and in the order they were sent, until his   *)
(* connection fails.                                                       *)
(***************************************************************************)
EXTENDS Naturals, Sequences

CONSTANT Conn
VARIABLES sent,     \* number of messages sent: they are 1, 2, ...
          received, \* the messages received
          failed    \* the connections that have failed

mailbox == <<sent, received, failed>>

Empty ==
  /\ sent = [c \in Conn |-> 0]
  /\ received = [c \in Conn |-> <<>>]
  /\ failed = {}

Send(c) ==
  /\ c \notin failed
  /\ sent' = [sent EXCEPT ![c] = @ + 1]
  /\ UNCHANGED <<received, failed>>

Receive(c) ==
  /\ c \notin failed
  /\ Len(received[c]) < sent[c]
  /\ received' = [received EXCEPT ![c] = Append(@, Len(@) + 1)]
  /\ UNCHANGED <<sent, failed>>

Fail(c) ==
  /\ c \notin failed
  /\ failed' = failed \cup {c}
  /\ UNCHANGED <<sent, received>>

Mail ==
  /\ Empty
  /\ [][\E c \in Conn : Send(c) \/ Receive(c) \/ Fail(c)]_mailbox
=============================================================================
