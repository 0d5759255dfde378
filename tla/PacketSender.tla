---------------------------- MODULE PacketSender ----------------------------
(***************************************************************************)
(* The background task of src/src/socket/packet_sender.rs that takes       *)
(* packets from the outgoing channel and writes them to the UDP socket.    *)
(*                                                                         *)
(* A poll runs in steps, one per call into the channel or the UDP socket,  *)
(* since streams go on queueing and the socket's readiness changes         *)
(* meanwhile.  A wake-up that comes while the task runs makes the executor *)
(* poll it once more.                                                      *)
(***************************************************************************)
EXTENDS Naturals, Sequences

CONSTANTS
  MaxPackets,  \* bound: packets given to send_to
  MaxErrors,   \* bound: errors that poll_send_to returns
  MaxBlocks,   \* bound: times the socket's send buffer fills up
  MaxYields,   \* bound: polls cut short by tokio's cooperative budget
  MayDrop      \* whether the socket is ever dropped

ASSUME SenderAssumption ==
  /\ MaxPackets \in Nat /\ MaxErrors \in Nat /\ MaxBlocks \in Nat /\ MaxYields \in Nat
  /\ MayDrop \in BOOLEAN

VARIABLES
  outgoing_rx,      \* packets in the outgoing channel
  outgoing_buffer,  \* packets taken from it
  sent,             \* packets that the UDP socket took
  given,            \* number of packets given to send_to: the n-th is the number n
  alive,            \* FALSE once the UtpSocket, and with it outgoing_tx, is dropped
  pc,               \* where the task is
  notified,         \* the executor will poll the task (again)
  rx_waker,         \* the channel holds the task's waker
  io_waker,         \* the UDP socket's readiness holds the task's waker
  writable,         \* the UDP socket has room
  errors, blocks, yields

packetVars == <<outgoing_rx, outgoing_buffer, sent, given>>
wakerVars == <<notified, rx_waker, io_waker>>
boundVars == <<errors, blocks, yields>>
vars == <<packetVars, alive, pc, wakerVars, writable, boundVars>>

TypeOK ==
  /\ outgoing_rx \in Seq(Nat) /\ outgoing_buffer \in Seq(Nat) /\ sent \in Seq(Nat)
  /\ given \in 0 .. MaxPackets
  /\ pc \in {"idle", "draining", "sending", "stopped"}
  /\ alive \in BOOLEAN /\ writable \in BOOLEAN
  /\ notified \in BOOLEAN /\ rx_waker \in BOOLEAN /\ io_waker \in BOOLEAN
  /\ errors \in 0 .. MaxErrors /\ blocks \in 0 .. MaxBlocks /\ yields \in 0 .. MaxYields

\* The task has just been spawned, which schedules its first poll.
Init ==
  /\ outgoing_rx = << >> /\ outgoing_buffer = << >>
  /\ sent = << >> /\ given = 0
  /\ alive = TRUE
  /\ pc = "idle"
  /\ notified = TRUE /\ rx_waker = FALSE /\ io_waker = FALSE
  /\ writable = TRUE
  /\ errors = 0 /\ blocks = 0 /\ yields = 0

-----------------------------------------------------------------------------
(***************************************************************************)
(* The task's surroundings.                                                *)
(***************************************************************************)

\* The channel's waker, if it holds one, is used up and schedules the task.
WakeReceiver ==
  /\ rx_waker' = FALSE
  /\ notified' = (notified \/ rx_waker)

\* UtpSocket::send_to: a stream or a listener queues a packet.
SendTo ==
  /\ alive /\ given < MaxPackets
  /\ given' = given + 1
  /\ outgoing_rx' = Append(outgoing_rx, given + 1)
  /\ WakeReceiver
  /\ UNCHANGED <<outgoing_buffer, sent, alive, pc, io_waker, writable, boundVars>>

\* The last listener and stream are gone: the socket is dropped and the channel closes.
DropSocket ==
  /\ MayDrop /\ alive
  /\ alive' = FALSE
  /\ WakeReceiver
  /\ UNCHANGED <<packetVars, pc, io_waker, writable, boundVars>>

\* The send buffer of the UDP socket fills up.
SocketFull ==
  /\ writable /\ blocks < MaxBlocks
  /\ blocks' = blocks + 1
  /\ writable' = FALSE
  /\ UNCHANGED <<packetVars, alive, pc, wakerVars, errors, yields>>

\* It has room again.
SocketWritable ==
  /\ ~ writable
  /\ writable' = TRUE
  /\ io_waker' = FALSE
  /\ notified' = (notified \/ io_waker)
  /\ UNCHANGED <<packetVars, alive, pc, rx_waker, boundVars>>

-----------------------------------------------------------------------------
(***************************************************************************)
(* The poll function.                                                      *)
(***************************************************************************)

\* upgrade: the UDP socket exists.  After the drop this may still be, while the receiver
\* task's poll holds a share of it.
BeginPoll ==
  /\ pc = "idle" /\ notified
  /\ notified' = FALSE
  /\ pc' = "draining"
  /\ UNCHANGED <<packetVars, alive, rx_waker, io_waker, writable, boundVars>>

\* upgrade: it is gone.  The task ends, and its buffer with it.
PollWithoutSocket ==
  /\ pc = "idle" /\ notified
  /\ ~ alive
  /\ notified' = FALSE
  /\ pc' = "stopped"
  /\ outgoing_rx' = << >> /\ outgoing_buffer' = << >>
  /\ UNCHANGED <<sent, given, alive, rx_waker, io_waker, writable, boundVars>>

\* poll_recv: a packet.
Drain ==
  /\ pc = "draining"
  /\ outgoing_rx # << >>
  /\ outgoing_buffer' = Append(outgoing_buffer, Head(outgoing_rx))
  /\ outgoing_rx' = Tail(outgoing_rx)
  /\ UNCHANGED <<sent, given, alive, pc, wakerVars, writable, boundVars>>

\* poll_recv: the channel is closed and empty.  The task ends.
DrainClosed ==
  /\ pc = "draining"
  /\ outgoing_rx = << >> /\ ~ alive
  /\ pc' = "stopped"
  /\ outgoing_buffer' = << >>
  /\ UNCHANGED <<outgoing_rx, sent, given, alive, wakerVars, writable, boundVars>>

\* Mutant of LeaveWaker: the channel is looked at without leaving a waker.
LeaveNoWaker == UNCHANGED rx_waker

LeaveWaker == rx_waker' = TRUE

\* poll_recv: nothing now.  The channel keeps the task's waker.
DrainEnd ==
  /\ pc = "draining"
  /\ outgoing_rx = << >> /\ alive
  /\ pc' = "sending"
  /\ LeaveWaker
  /\ UNCHANGED <<packetVars, alive, notified, io_waker, writable, boundVars>>

\* poll_recv: Pending, whatever the channel holds, since tokio's cooperative budget for this
\* poll is used up; the task is woken at once.
DrainYields ==
  /\ pc = "draining"
  /\ yields < MaxYields
  /\ yields' = yields + 1
  /\ notified' = TRUE
  /\ pc' = "sending"
  /\ UNCHANGED <<packetVars, alive, rx_waker, io_waker, writable, errors, blocks>>

\* poll_send_to: the UDP socket took the packet.
Transmit ==
  /\ pc = "sending"
  /\ outgoing_buffer # << >>
  /\ writable
  /\ sent' = Append(sent, Head(outgoing_buffer))
  /\ outgoing_buffer' = Tail(outgoing_buffer)
  /\ UNCHANGED <<outgoing_rx, given, alive, pc, wakerVars, writable, boundVars>>

\* Mutants of PutBack: the packet goes to the back of the buffer; it is dropped.
PutBehind == outgoing_buffer' = Append(Tail(outgoing_buffer), Head(outgoing_buffer))
PutNowhere == outgoing_buffer' = Tail(outgoing_buffer)

\* push_front of the packet that pop_front gave.
PutBack == outgoing_buffer' = <<Head(outgoing_buffer)>> \o Tail(outgoing_buffer)

\* poll_send_to: an error.  The packet is put back and tried again at once.
TransmitFails ==
  /\ pc = "sending"
  /\ outgoing_buffer # << >>
  /\ errors < MaxErrors
  /\ errors' = errors + 1
  /\ PutBack
  /\ UNCHANGED <<outgoing_rx, sent, given, alive, pc, wakerVars, writable, blocks, yields>>

\* poll_send_to: no room.  The packet is put back, and the socket keeps the task's waker.
TransmitBlocked ==
  /\ pc = "sending"
  /\ outgoing_buffer # << >>
  /\ ~ writable
  /\ PutBack
  /\ io_waker' = TRUE
  /\ pc' = "idle"
  /\ UNCHANGED <<outgoing_rx, sent, given, alive, notified, rx_waker, writable, boundVars>>

\* poll_send_to: Pending for want of budget; the task is woken at once.
TransmitYields ==
  /\ pc = "sending"
  /\ outgoing_buffer # << >>
  /\ yields < MaxYields
  /\ yields' = yields + 1
  /\ PutBack
  /\ notified' = TRUE
  /\ pc' = "idle"
  /\ UNCHANGED <<outgoing_rx, sent, given, alive, rx_waker, io_waker, writable, errors, blocks>>

\* The buffer is empty.
AllTransmitted ==
  /\ pc = "sending"
  /\ outgoing_buffer = << >>
  /\ pc' = "idle"
  /\ UNCHANGED <<packetVars, alive, wakerVars, writable, boundVars>>

Poll ==
  \/ BeginPoll \/ PollWithoutSocket
  \/ Drain \/ DrainClosed \/ DrainEnd \/ DrainYields
  \/ Transmit \/ TransmitFails \/ TransmitBlocked \/ TransmitYields \/ AllTransmitted

Next == SendTo \/ DropSocket \/ SocketFull \/ SocketWritable \/ Poll

Spec == Init /\ [][Next]_vars

\* The executor polls a scheduled task and runs the poll to its end, and a full send buffer
\* empties.
FairSpec == Spec /\ WF_vars(Poll) /\ WF_vars(SocketWritable)

-----------------------------------------------------------------------------
(***************************************************************************)
(* Properties.                                                             *)
(***************************************************************************)

\* While the task runs, what the UDP socket took, then the buffer, then the channel, are
\* the packets given to send_to in their order: the pop_front, push_front and push_back of
\* the two loops lose, repeat and swap none, whatever fails or blocks in between.
NothingLost ==
  pc # "stopped" =>
    sent \o outgoing_buffer \o outgoing_rx = [n \in 1 .. given |-> n]

\* A task that is not scheduled has nothing it could do: the channel is empty and will wake
\* it, and what the buffer still holds waits for a socket that is full and will wake it.
NoStrandedPacket ==
  pc = "idle" /\ ~ notified =>
    /\ outgoing_rx = << >> /\ rx_waker
    /\ outgoing_buffer # << >> => ~ writable /\ io_waker

\* Every packet given to send_to is sent, unless the socket is dropped.
AllSent ==
  \A n \in 1 .. MaxPackets : given >= n ~> (Len(sent) >= n \/ ~ alive)

\* Once the socket is dropped the task ends, wherever the drop met it: the closing of the
\* channel wakes it, or it is scheduled already.  A task waiting for a full UDP socket alone
\* would be left behind, since the drop of that socket wakes nobody.
TaskEnds == ~ alive ~> pc = "stopped"

\* To the streams, channel and buffer are one queue.
Queue == INSTANCE OutgoingQueue WITH queue <- outgoing_buffer \o outgoing_rx

\* The task does what OutgoingQueue says.
ImplementsQueue == Queue!Spec

=============================================================================
