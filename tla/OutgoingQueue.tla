--------------------------- MODULE OutgoingQueue ----------------------------
(***************************************************************************)
(* What UtpSocket::send_to promises to streams and listeners: packets are  *)
(* put on the network one by one, each once, in the order in which they    *)
(* were given, until the socket is dropped; then the rest may be lost.     *)
(* UtpStream and UtpConnect use it in this form: there send_to appends to  *)
(* the wire.                                                               *)
(***************************************************************************)
EXTENDS Naturals, Sequences

CONSTANT MaxPackets  \* bound: packets given to send_to

VARIABLES
  queue,  \* packets not on the network yet
  sent,   \* packets on the network, in order
  given,  \* number of packets given: the n-th packet is the number n
  alive   \* FALSE once the socket is dropped

vars == <<queue, sent, given, alive>>

Init ==
  /\ queue = << >>
  /\ sent = << >>
  /\ given = 0
  /\ alive = TRUE

Give ==
  /\ alive
  /\ given < MaxPackets
  /\ given' = given + 1
  /\ queue' = Append(queue, given + 1)
  /\ UNCHANGED <<sent, alive>>

Transmit ==
  /\ queue # << >>
  /\ sent' = Append(sent, Head(queue))
  /\ queue' = Tail(queue)
  /\ UNCHANGED <<given, alive>>

Close ==
  /\ alive
  /\ alive' = FALSE
  /\ UNCHANGED <<queue, sent, given>>

Discard ==
  /\ ~ alive
  /\ queue' = << >>
  /\ UNCHANGED <<sent, given, alive>>

Next == Give \/ Transmit \/ Close \/ Discard

Spec == Init /\ [][Next]_vars

=============================================================================
