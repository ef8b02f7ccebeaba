------------------------------- MODULE Network -------------------------------
(***************************************************************************)
(* The sockets of the server: Hive, Acceptor and Connection of network.cpp *)
(* with MyAcceptor and MyConnection.                                       *)
(*                                                                         *)
(* A connection has a strand: its handlers run one at a time, in the order *)
(* they were posted (send, receive, accept) or their operation completed   *)
(* (async_write, async_read, async_accept).  `queue' is that order, and a  *)
(* handler is one action.  Everybody may send to everybody: command::      *)
(* sendTo picks the addressee first and looks up his player later.         *)
(***************************************************************************)
EXTENDS Integers, Sequences, FiniteSets

CONSTANTS
  Conn,    \* the connections a run can have
  NoConn,
  MaxSent  \* bound: messages to one client

ASSUME ConnAssumption == NoConn \notin Conn
ASSUME MaxSentAssumption == MaxSent \in Nat \ {0}

VARIABLES
  accepting,       \* the connection of the async_accept in progress
  queue,           \* handlers of a strand that are ready to run
  pendingSends,    \* Connection::pendingSends_
  pendingReceives, \* length of Connection::pendingReceives_
  writes,          \* messages of the async_writes in progress
  reads,           \* number of async_reads in progress
  errorState,      \* connections whose errorState_ is 1, and the socket closed
  playersById,     \* connections with a player in Server::playersById_
  chosen,          \* addressees chosen by a sendTo that has not looked them up
  sent,            \* messages posted to a client: 1, 2, ...
  wire,            \* messages written
  udpReads,        \* number of async_receive_froms of MyUdpConnection in progress
  udpPackets,      \* number of its handlers that are ready to run
  shutdown,        \* Hive::shutdown_
  crashed          \* a player was used who is not there, or an exception left a handler

socket == <<accepting, reads, writes, wire>>
connection == <<queue, pendingSends, pendingReceives, errorState>>
hive == <<udpReads, udpPackets, shutdown, crashed>>
vars == <<socket, connection, playersById, chosen, sent, hive>>

Kinds == {"accept", "dispatchSend", "send", "dispatchReceive", "receive"}
Handler(kind, arg) == [kind |-> kind, arg |-> arg]

Init ==
  /\ accepting \in Conn
  /\ queue = [c \in Conn |-> <<>>]
  /\ pendingSends = [c \in Conn |-> <<>>]
  /\ pendingReceives = [c \in Conn |-> 0]
  /\ writes = [c \in Conn |-> <<>>]
  /\ reads = [c \in Conn |-> 0]
  /\ errorState = {}
  /\ playersById = {}
  /\ chosen = {}
  /\ sent = [c \in Conn |-> 0]
  /\ wire = [c \in Conn |-> <<>>]
  /\ udpReads = 1
  /\ udpPackets = 0
  /\ shutdown = FALSE
  /\ crashed = FALSE

Up == ~crashed

(* The handler a thread takes from the strand of c.                        *)
IsNext(c, kind) == Up /\ queue[c] # <<>> /\ Head(queue[c]).kind = kind
Arg(c) == Head(queue[c]).arg
Done(c) == queue' = [queue EXCEPT ![c] = Tail(@)]
DoneAndPost(c, handlers) == queue' = [queue EXCEPT ![c] = Tail(@) \o handlers]
Post(c, handler) == queue' = [queue EXCEPT ![c] = Append(@, handler)]

-----------------------------------------------------------------------------
(* Operations of the socket end.  One on a closed socket ends with an      *)
(* error; the client may break the connection at any time.                 *)

(* An accept fails when the process has no descriptors left, for example.  *)
Connects(ok) ==
  /\ Up
  /\ accepting # NoConn
  /\ Post(accepting, Handler("accept", ok))
  /\ accepting' = NoConn
  /\ UNCHANGED <<reads, writes, wire, pendingSends, pendingReceives, errorState, playersById,
                 chosen, sent, hive>>

Written(c, ok) ==
  /\ Up
  /\ writes[c] # <<>>
  /\ ok => c \notin errorState
  /\ Post(c, Handler("send", ok))
  /\ writes' = [writes EXCEPT ![c] = Tail(@)]
  /\ wire' = IF ok THEN [wire EXCEPT ![c] = Append(@, Head(writes[c]))] ELSE wire
  /\ UNCHANGED <<accepting, reads, pendingSends, pendingReceives, errorState, playersById,
                 chosen, sent, hive>>

Read(c, ok) ==
  /\ Up
  /\ reads[c] > 0
  /\ ok => c \notin errorState
  /\ Post(c, Handler("receive", ok))
  /\ reads' = [reads EXCEPT ![c] = @ - 1]
  /\ UNCHANGED <<accepting, writes, wire, pendingSends, pendingReceives, errorState, playersById,
                 chosen, sent, hive>>

-----------------------------------------------------------------------------
(* Variant: the error is noted, but the player stays.                      *)
StartErrorOnly(c) ==
  /\ errorState' = errorState \cup {c}
  /\ UNCHANGED <<playersById, crashed>>

(* Connection::startError: the first time it closes the socket and calls   *)
(* MyConnection::onError, which looks up the player and deletes him.       *)
StartError(c) ==
  /\ errorState' = errorState \cup {c}
  /\ playersById' = playersById \ {c}
  /\ crashed' = (c \notin errorState /\ c \notin playersById)

(* Acceptor::handleAccept.  MyAcceptor::onAccept starts the next accept as *)
(* long as the run has connections; MyConnection::onAccept creates the     *)
(* player, sends him his id and starts to receive.  For a client that has  *)
(* already gone remote_endpoint() throws, and Hive::run lets it pass.      *)
HandleAccept(c) ==
  /\ IsNext(c, "accept")
  /\ \/ /\ ~Arg(c) \/ shutdown
        /\ StartError(c)
        /\ Done(c)
        /\ UNCHANGED <<accepting, sent>>
     \/ /\ Arg(c) /\ ~shutdown
        /\ crashed' = TRUE
        /\ Done(c)
        /\ UNCHANGED <<accepting, sent, errorState, playersById>>
     \/ /\ Arg(c) /\ ~shutdown
        /\ LET unused == {d \in Conn \ {c} : sent[d] = 0}
           IN  accepting' \in IF unused = {} THEN {NoConn} ELSE unused
        /\ playersById' = playersById \cup {c}
        /\ sent' = [sent EXCEPT ![c] = @ + 1]
        /\ DoneAndPost(c, <<Handler("dispatchSend", 1), Handler("dispatchReceive", TRUE)>>)
        /\ UNCHANGED <<errorState, crashed>>
  /\ UNCHANGED <<reads, writes, wire, pendingSends, pendingReceives, chosen, udpReads, udpPackets,
                 shutdown>>

(* Variant: every message is written at once.                              *)
WriteAtOnce(c) ==
  /\ IsNext(c, "dispatchSend")
  /\ pendingSends' = [pendingSends EXCEPT ![c] = Append(@, Arg(c))]
  /\ writes' = [writes EXCEPT ![c] = Append(@, Arg(c))]
  /\ Done(c)
  /\ UNCHANGED <<accepting, reads, wire, pendingReceives, errorState, playersById, chosen,
                 sent, hive>>

DispatchSend(c) ==
  /\ IsNext(c, "dispatchSend")
  /\ pendingSends' = [pendingSends EXCEPT ![c] = Append(@, Arg(c))]
  /\ writes' = IF pendingSends[c] = <<>> THEN [writes EXCEPT ![c] = <<Arg(c)>>] ELSE writes
  /\ Done(c)
  /\ UNCHANGED <<accepting, reads, wire, pendingReceives, errorState, playersById, chosen,
                 sent, hive>>

(* Variant: the rest of the list waits for the next message.               *)
WriteNoMore(c) ==
  /\ IsNext(c, "send")
  /\ \/ /\ ~Arg(c) \/ c \in errorState \/ shutdown
        /\ StartError(c)
        /\ UNCHANGED <<pendingSends, writes>>
     \/ /\ Arg(c) /\ c \notin errorState /\ ~shutdown
        /\ pendingSends' = [pendingSends EXCEPT ![c] = Tail(@)]
        /\ UNCHANGED <<writes, errorState, playersById, crashed>>
  /\ Done(c)
  /\ UNCHANGED <<accepting, reads, wire, pendingReceives, chosen, sent, udpReads,
                 udpPackets, shutdown>>

(* Variant: the list is written from its start again.                      *)
WriteAgain(c) ==
  /\ IsNext(c, "send")
  /\ \/ /\ ~Arg(c) \/ c \in errorState \/ shutdown
        /\ StartError(c)
        /\ UNCHANGED <<pendingSends, writes>>
     \/ /\ Arg(c) /\ c \notin errorState /\ ~shutdown
        /\ writes' = [writes EXCEPT ![c] =
                        IF Len(pendingSends[c]) > 1 THEN <<Head(pendingSends[c])>> ELSE @]
        /\ pendingSends' = [pendingSends EXCEPT ![c] = Tail(@)]
        /\ UNCHANGED <<errorState, playersById, crashed>>
  /\ Done(c)
  /\ UNCHANGED <<accepting, reads, wire, pendingReceives, chosen, sent, udpReads,
                 udpPackets, shutdown>>

(* Connection::handleSend.                                                 *)
HandleSend(c) ==
  /\ IsNext(c, "send")
  /\ \/ /\ ~Arg(c) \/ c \in errorState \/ shutdown
        /\ StartError(c)
        /\ UNCHANGED <<pendingSends, writes>>
     \/ /\ Arg(c) /\ c \notin errorState /\ ~shutdown
        /\ pendingSends' = [pendingSends EXCEPT ![c] = Tail(@)]
        /\ writes' = [writes EXCEPT ![c] =
                        IF Tail(pendingSends[c]) # <<>> THEN <<Head(Tail(pendingSends[c]))>> ELSE @]
        /\ UNCHANGED <<errorState, playersById, crashed>>
  /\ Done(c)
  /\ UNCHANGED <<accepting, reads, wire, pendingReceives, chosen, sent, udpReads,
                 udpPackets, shutdown>>

DispatchReceive(c) ==
  /\ IsNext(c, "dispatchReceive")
  /\ pendingReceives' = [pendingReceives EXCEPT ![c] = @ + 1]
  /\ reads' = IF pendingReceives[c] = 0 THEN [reads EXCEPT ![c] = @ + 1] ELSE reads
  /\ Done(c)
  /\ UNCHANGED <<accepting, writes, wire, pendingSends, errorState, playersById, chosen,
                 sent, hive>>

(* Variant: the receive that has ended stays in the list.                  *)
ReceiveWithoutPop(c) ==
  /\ IsNext(c, "receive")
  /\ \/ /\ ~Arg(c) \/ c \in errorState \/ shutdown
        /\ StartError(c)
        /\ Done(c)
     \/ /\ Arg(c) /\ c \notin errorState /\ ~shutdown
        /\ DoneAndPost(c, <<Handler("dispatchReceive", TRUE)>>)
        /\ UNCHANGED <<errorState, playersById, crashed>>
  /\ UNCHANGED <<accepting, reads, writes, wire, pendingSends, pendingReceives, chosen,
                 sent, udpReads, udpPackets, shutdown>>

(* Variant: it starts to receive again in any case.                        *)
ReceiveAgain(c) ==
  /\ IsNext(c, "receive")
  /\ DoneAndPost(c, <<Handler("dispatchReceive", TRUE)>>)
  /\ pendingReceives' = [pendingReceives EXCEPT ![c] = @ - 1]
  /\ reads' = IF pendingReceives[c] > 1 THEN [reads EXCEPT ![c] = @ + 1] ELSE reads
  /\ IF ~Arg(c) \/ c \in errorState \/ shutdown
     THEN StartError(c)
     ELSE UNCHANGED <<errorState, playersById, crashed>>
  /\ UNCHANGED <<accepting, writes, wire, pendingSends, chosen, sent, udpReads, udpPackets,
                 shutdown>>

(* Connection::handleReceive.  MyConnection::onReceive ends with receive() *)
(* on all its paths but one; the commands it executes appear as Choose.    *)
(* For bytes that do not begin with a number stoul throws, nothing catches *)
(* it (my_network.cpp:56, 98), and the program ends in the handler.        *)
HandleReceive(c) ==
  /\ IsNext(c, "receive")
  /\ \/ /\ ~Arg(c) \/ c \in errorState \/ shutdown
        /\ StartError(c)
        /\ Done(c)
        /\ UNCHANGED <<pendingReceives, reads>>
     \/ /\ Arg(c) /\ c \notin errorState /\ ~shutdown
        /\ DoneAndPost(c, <<Handler("dispatchReceive", TRUE)>>)
        /\ pendingReceives' = [pendingReceives EXCEPT ![c] = @ - 1]
        /\ reads' = IF pendingReceives[c] > 1 THEN [reads EXCEPT ![c] = @ + 1] ELSE reads
        /\ UNCHANGED <<errorState, playersById, crashed>>
     \/ /\ Arg(c) /\ c \notin errorState /\ ~shutdown
        /\ crashed' = TRUE
        /\ UNCHANGED <<queue, pendingReceives, reads, errorState, playersById>>
  /\ UNCHANGED <<accepting, writes, wire, pendingSends, chosen, sent, udpReads, udpPackets,
                 shutdown>>

-----------------------------------------------------------------------------
(* A handler of any connection, or of a room, sends to c.                  *)
Choose(c) ==
  /\ Up
  /\ c \in playersById \ chosen
  /\ sent[c] < MaxSent
  /\ chosen' = chosen \cup {c}
  /\ UNCHANGED <<socket, connection, playersById, sent, hive>>

(* command::sendTo: Server::getPlayerByConnection returns nothing for a    *)
(* player who was deleted meanwhile, and what follows is undefined.        *)
SendTo(c) ==
  /\ Up
  /\ c \in chosen
  /\ chosen' = chosen \ {c}
  /\ \/ /\ c \in playersById
        /\ sent' = [sent EXCEPT ![c] = @ + 1]
        /\ Post(c, Handler("dispatchSend", sent'[c]))
        /\ UNCHANGED crashed
     \/ /\ c \notin playersById
        /\ crashed' = TRUE
        /\ UNCHANGED <<sent, queue>>
  /\ UNCHANGED <<socket, pendingSends, pendingReceives, errorState, playersById, udpReads,
                 udpPackets, shutdown>>

(* UdpConnection::handleReceive starts to receive again in any case.       *)
PacketArrives ==
  /\ Up
  /\ udpReads > 0
  /\ udpReads' = udpReads - 1
  /\ udpPackets' = udpPackets + 1
  /\ UNCHANGED <<socket, connection, playersById, chosen, sent, shutdown, crashed>>

HandlePacket ==
  /\ Up
  /\ udpPackets > 0
  /\ udpPackets' = udpPackets - 1
  /\ udpReads' = udpReads + 1
  /\ UNCHANGED <<socket, connection, playersById, chosen, sent, shutdown, crashed>>

(* Hive::stop, up to its io_service::run.                                  *)
Stop ==
  /\ Up
  /\ ~shutdown
  /\ shutdown' = TRUE
  /\ UNCHANGED <<socket, connection, playersById, chosen, sent, udpReads, udpPackets, crashed>>

RunHandler(c) ==
  \/ HandleAccept(c)
  \/ DispatchSend(c)
  \/ HandleSend(c)
  \/ DispatchReceive(c)
  \/ HandleReceive(c)

Next ==
  \/ \E ok \in BOOLEAN : Connects(ok)
  \/ \E c \in Conn :
       \/ RunHandler(c)
       \/ \E ok \in BOOLEAN : Written(c, ok) \/ Read(c, ok)
       \/ Choose(c)
       \/ SendTo(c)
  \/ PacketArrives
  \/ HandlePacket
  \/ Stop

Spec == Init /\ [][Next]_vars

(* The threads of the Hive take what is ready; a handler that has chosen   *)
(* its addressee goes on; writes end, since clients read or break off; and *)
(* operations on a closed socket are cancelled.                            *)
Fairness ==
  /\ \A c \in Conn :
       /\ WF_vars(RunHandler(c))
       /\ WF_vars(SendTo(c))
       /\ WF_vars(\E ok \in BOOLEAN : Written(c, ok))
       /\ WF_vars(Read(c, FALSE) /\ c \in errorState)
  /\ WF_vars(HandlePacket)

FairSpec == Spec /\ Fairness

-----------------------------------------------------------------------------
TypeOK ==
  /\ accepting \in Conn \cup {NoConn}
  /\ \A c \in Conn :
       /\ \A i \in 1 .. Len(queue[c]) :
            LET h == queue[c][i]
            IN  h.kind \in Kinds /\ h.arg \in IF h.kind = "dispatchSend" THEN 1 .. MaxSent ELSE BOOLEAN
       /\ \A i \in 1 .. Len(pendingSends[c]) : pendingSends[c][i] \in 1 .. MaxSent
       /\ Len(pendingSends[c]) <= MaxSent
       /\ pendingReceives[c] \in 0 .. 1
  /\ errorState \subseteq Conn
  /\ playersById \subseteq Conn
  /\ chosen \subseteq Conn
  /\ sent \in [Conn -> 0 .. MaxSent]
  /\ udpReads \in 0 .. 1
  /\ udpPackets \in 0 .. 1
  /\ shutdown \in BOOLEAN
  /\ crashed \in BOOLEAN

Posted(c, kind) == Cardinality({i \in 1 .. Len(queue[c]) : queue[c][i].kind = kind})

(* Of the writes of a socket at most one is in progress, that of the       *)
(* message which handleSend will take off the list; if not, and the        *)
(* connection has no error, its end is queued or there is nothing to write *)
(* (network.cpp:204-213, 250-262, 295-303).                                *)
OneWriteAtATime ==
  \A c \in Conn :
    /\ Len(writes[c]) + Posted(c, "send") <= 1
    /\ writes[c] # <<>> => pendingSends[c] # <<>> /\ Head(pendingSends[c]) = Head(writes[c])
    /\ pendingSends[c] # <<>> /\ c \notin errorState => Len(writes[c]) + Posted(c, "send") = 1

(* A player's connection never goes deaf, and never reads twice: there is  *)
(* exactly one read, as an operation, as a handler or as the intention to  *)
(* start one (network.cpp:264-279, 305-313, my_network.cpp:44-113).  When  *)
(* onReceive ends the program this is the handler it ends in.              *)
OneReadAtATime ==
  \A c \in playersById : reads[c] + Posted(c, "receive") + Posted(c, "dispatchReceive") = 1

(* A player is in the server exactly from accept to the first error of his *)
(* connection, and never again (network.cpp:238-248, my_network.cpp:120-127).*)
PlayersAreConnected ==
  Up => \A c \in Conn :
    c \in playersById <=> sent[c] > 0 /\ c \notin errorState

(* The connections keep what they promise to those who send.               *)
Box == INSTANCE Mailbox WITH received <- wire, failed <- errorState
ImplementsMailbox == Box!Mail

(* Whatever is sent is written, or the connection fails: again and again   *)
(* nothing is left to write (network.cpp:204-213, 250-262, 295-303).       *)
MessagesAreWritten ==
  \A c \in Conn : []<>(Len(wire[c]) = sent[c] \/ c \in errorState \/ crashed)

Idle(c) == queue[c] = <<>> /\ reads[c] = 0 /\ writes[c] = <<>>

(* A connection that has failed comes to rest: no operation and no handler *)
(* keeps it alive (network.cpp:238-279).                                   *)
FailedConnectionsEnd == \A c \in Conn : []<>(c \in errorState => Idle(c) \/ crashed)

(* What io_service::run in Hive::stop waits for.                           *)
NoWork == accepting = NoConn /\ (\A c \in Conn : Idle(c)) /\ udpReads + udpPackets = 0

(* Hive::stop promises "All work is finished and no more networking        *)
(* interactions will be possible afterwards" (network.h:349-351).          *)
StopFinishes == shutdown ~> NoWork \/ crashed
=============================================================================
