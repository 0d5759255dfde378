----------------------------- MODULE UtpStream ------------------------------
(***************************************************************************)
(* The data path of one established connection: the two UtpStreams of      *)
(* src/src/stream.rs, the tasks that poll them, and the datagram service   *)
(* between them.                                                           *)
(*                                                                         *)
(* Both ends run the same code.  A connection starts in the state that     *)
(* UtpStream::connect and UtpListener::accept leave it in when the SYN and *)
(* its answer were exchanged.  What the socket's background tasks and UDP  *)
(* do to a packet between send_to and the peer's mailbox is the sequence   *)
(* "wire" with the faults the constants allow.                             *)
(*                                                                         *)
(* Data.  poll_write cuts its buffer into chunks, one packet each; the     *)
(* payload of the n-th chunk an end ever writes is the number n, so that   *)
(* no two payloads are alike.  Of a packet only the fields that the        *)
(* receiving stream reads are kept: type, seq and payload of a Data        *)
(* packet, type and ack of a State packet (handle_packet looks at neither  *)
(* the ack of a Data packet nor the seq of a State packet).                *)
(***************************************************************************)
EXTENDS SeqNum, SequenceOps, FiniteSets

CONSTANTS
  AcceptableDistance, \* how far a Data packet may be from ack_number (128)
  Leeway,             \* how far an ACK may be behind the send window (3)
  InitialSeqs,        \* values accept() may draw for its SYN answer
  WriteSizes,         \* numbers of chunks in a buffer given to poll_write
  MaxSegs,            \* bound: chunks each end writes in all
  ReadSizes,          \* room, in chunks, of a buffer given to poll_read
  Readers,            \* ends whose application calls read
  Flushers,           \* ends whose application calls flush
  Shutters,           \* ends whose application calls shutdown
  Split,              \* reading and flushing happen in two tasks
  Reorder,            \* datagrams may overtake one another
  MaxLoss,            \* bound: datagrams lost
  MaxDup,             \* bound: datagrams duplicated
  MaxSpurious         \* bound: polls that the mailbox did not ask for

Ends == {"initiator", "acceptor"}

Peer(p) == IF p = "initiator" THEN "acceptor" ELSE "initiator"

\* The two calls that may return Pending.  With Split each has its own task.
Halves == {"read", "flush"}

ASSUME StreamAssumption ==
  /\ AcceptableDistance \in Nat
  /\ Leeway \in Nat
  /\ InitialSeqs \subseteq SeqNumbers
  /\ WriteSizes \subseteq Nat \ {0}
  /\ ReadSizes \subseteq Nat \ {0}
  /\ MaxSegs \in [Ends -> Nat]
  /\ \A p \in Ends : MaxSegs[p] < SeqModulus
  /\ Readers \subseteq Ends /\ Flushers \subseteq Ends /\ Shutters \subseteq Ends
  /\ Split \in BOOLEAN /\ Reorder \in BOOLEAN
  /\ MaxLoss \in Nat /\ MaxDup \in Nat /\ MaxSpurious \in Nat

VARIABLES
  seq_number,      \* sequence number of the next packet to send
  ack_number,      \* sequence number of the last packet assembled in order
  inbound_data,    \* HashMap: sequence number -> payload
  received_data,   \* assembled payloads the application has not read yet
  unacked_data,    \* VecDeque of sent packets that are not released yet
  inbound_packets, \* the mailbox: the channel's packets
  waker,           \* the half whose waker the mailbox holds
  call,            \* per half: not called, to be polled, or waiting
  polling,         \* the half whose poll function runs now
  status,          \* "panicked" once a todo!() is hit
  wire,            \* packets on their way to an end
  losses, dups,    \* faults so far
  spurious,        \* polls so far that the mailbox did not ask for
  isn,             \* history: the sequence number before an end's first chunk
  written,         \* history: chunks poll_write has taken
  delivered        \* history: payloads poll_read has handed out

streamVars == <<seq_number, ack_number, inbound_data, received_data, unacked_data>>
taskVars == <<waker, call, polling, spurious, status>>
netVars == <<wire, losses, dups>>
histVars == <<isn, written, delivered>>

vars == <<streamVars, inbound_packets, taskVars, netVars, histVars>>

DataPackets == [type : {"Data"}, seq : SeqNumbers, data : Nat]
StatePackets == [type : {"State"}, ack : SeqNumbers]
Packets == DataPackets \cup StatePackets

TypeOK ==
  /\ seq_number \in [Ends -> SeqNumbers]
  /\ ack_number \in [Ends -> SeqNumbers]
  /\ \A p \in Ends :
       /\ inbound_data[p] \in [DOMAIN inbound_data[p] -> Nat]
       /\ DOMAIN inbound_data[p] \subseteq SeqNumbers
  /\ DOMAIN inbound_data = Ends
  /\ received_data \in [Ends -> Seq(Nat)]
  /\ unacked_data \in [Ends -> Seq([seq : SeqNumbers, data : Nat])]
  /\ inbound_packets \in [Ends -> Seq(Packets)]
  /\ waker \in [Ends -> Halves \cup {"none"}]
  /\ call \in [Ends -> [Halves -> {"idle", "runnable", "parked"}]]
  /\ polling \in [Ends -> Halves \cup {"none"}]
  /\ status \in [Ends -> {"open", "panicked"}]
  /\ wire \in [Ends -> Seq(Packets)]
  /\ losses \in 0 .. MaxLoss
  /\ dups \in 0 .. MaxDup
  /\ spurious \in 0 .. MaxSpurious
  /\ isn \in [Ends -> SeqNumbers]
  /\ written \in [Ends -> Nat]
  /\ \A p \in Ends : written[p] <= MaxSegs[p]
  /\ delivered \in [Ends -> Seq(Nat)]

-----------------------------------------------------------------------------
\* The initiator's SYN has number 1; the acceptor's answer has the number s it
\* drew.  Each end acknowledges the other's number and sends from its own plus 1.
Init ==
  /\ \E s \in InitialSeqs :
       isn = [p \in Ends |-> IF p = "initiator" THEN 1 ELSE s]
  /\ seq_number = [p \in Ends |-> WrappingAdd(isn[p], 1)]
  /\ ack_number = [p \in Ends |-> isn[Peer(p)]]
  /\ inbound_data = [p \in Ends |-> [s \in {} |-> 0]]
  /\ received_data = [p \in Ends |-> << >>]
  /\ unacked_data = [p \in Ends |-> << >>]
  /\ inbound_packets = [p \in Ends |-> << >>]
  /\ waker = [p \in Ends |-> "none"]
  /\ call = [p \in Ends |-> [h \in Halves |-> "idle"]]
  /\ polling = [p \in Ends |-> "none"]
  /\ status = [p \in Ends |-> "open"]
  /\ wire = [p \in Ends |-> << >>]
  /\ losses = 0
  /\ dups = 0
  /\ spurious = 0
  /\ written = [p \in Ends |-> 0]
  /\ delivered = [p \in Ends |-> << >>]

-----------------------------------------------------------------------------
(***************************************************************************)
(* The application's side.                                                 *)
(***************************************************************************)

\* The task that would make call h is not inside another call of this stream.
TaskFree(p, h) == call[p][h] = "idle" /\ (Split \/ \A g \in Halves : call[p][g] = "idle")

\* The application awaits read() or flush(); the task is polled next.
StartCall(p, h) ==
  /\ status[p] = "open"
  /\ TaskFree(p, h)
  /\ p \in (IF h = "read" THEN Readers ELSE Flushers)
  /\ call' = [call EXCEPT ![p][h] = "runnable"]
  /\ UNCHANGED <<streamVars, inbound_packets, waker, polling, spurious, status, netVars, histVars>>

\* Mutant of Chunks: the number is advanced without wrapping.
ChunksNotWrapping(p, n) ==
  [i \in 1 .. n |-> [seq |-> seq_number[p] + (i - 1), data |-> written[p] + i]]

\* The n chunks of a buffer as send_data numbers them, from the next number on.
Chunks(p, n) ==
  [i \in 1 .. n |-> [seq |-> WrappingAdd(seq_number[p], i - 1), data |-> written[p] + i]]

DataPacket(chunk) == [type |-> "Data", seq |-> chunk.seq, data |-> chunk.data]

\* poll_write: send every chunk of the buffer; never Pending.
PollWrite(p, n) ==
  /\ status[p] = "open"
  /\ polling[p] = "none"
  /\ TaskFree(p, "flush")
  /\ written[p] + n <= MaxSegs[p]
  /\ seq_number' = [seq_number EXCEPT ![p] = WrappingAdd(@, n)]
  /\ unacked_data' = [unacked_data EXCEPT ![p] = @ \o Chunks(p, n)]
  /\ wire' = [wire EXCEPT ![Peer(p)] =
                @ \o [i \in 1 .. n |-> DataPacket(Chunks(p, n)[i])]]
  /\ written' = [written EXCEPT ![p] = @ + n]
  /\ UNCHANGED <<ack_number, inbound_data, received_data, inbound_packets, taskVars,
                 losses, dups, isn, delivered>>

\* poll_shutdown: is_shutdown is set, so poll_flush cannot answer Pending, and the call ends
\* in a todo!() - its own when nothing is unacknowledged, poll_flush's when something is.
\* The panic takes the stream with it, and the packets poll_flush has handled by then.
PollShutdown(p) ==
  /\ p \in Shutters
  /\ status[p] = "open"
  /\ polling[p] = "none"
  /\ TaskFree(p, "flush")
  /\ status' = [status EXCEPT ![p] = "panicked"]
  /\ UNCHANGED <<streamVars, inbound_packets, waker, call, polling, spurious, netVars, histVars>>

-----------------------------------------------------------------------------
(***************************************************************************)
(* Polling.  poll_read and poll_flush both drain the mailbox first, while  *)
(* the receiver task may go on filling it: one step per packet, and a last *)
(* step for the rest of the function once poll_recv found nothing.  The    *)
(* stream is borrowed mutably meanwhile, so one half polls at a time.      *)
(***************************************************************************)

\* The executor polls a task that was started or woken.
BeginPoll(p, h) ==
  /\ status[p] = "open"
  /\ polling[p] = "none"
  /\ call[p][h] = "runnable"
  /\ polling' = [polling EXCEPT ![p] = h]
  /\ UNCHANGED <<streamVars, inbound_packets, waker, call, spurious, status, netVars, histVars>>

\* A future may be polled, or dropped and made anew, although the mailbox did not wake it
\* (select!, join!, a notification left over from an earlier call).
SpuriousWake(p, h) ==
  /\ spurious < MaxSpurious
  /\ status[p] = "open"
  /\ call[p][h] = "parked"
  /\ spurious' = spurious + 1
  /\ call' = [call EXCEPT ![p][h] = "runnable"]
  /\ UNCHANGED <<streamVars, inbound_packets, waker, polling, status, netVars, histVars>>

\* Mutant of IsSuspiciousData: the last number of the window counts as outside.
IsSuspiciousDataAtLimit(ack, seq) ==
  /\ WrappingSub(ack, seq) >= AcceptableDistance
  /\ WrappingSub(seq, ack) >= AcceptableDistance

\* is_suspicious, for a Data packet numbered seq at a stream that is at ack.
IsSuspiciousData(ack, seq) ==
  /\ WrappingSub(ack, seq) > AcceptableDistance
  /\ WrappingSub(seq, ack) > AcceptableDistance

\* Mutant of IsSuspiciousState: the window is one too short and has no leeway.
IsSuspiciousStateNarrow(seq, unacked, ack) ==
  \/ WrappingSub(seq, ack) = 0
  \/ WrappingSub(seq, ack) >= unacked

\* is_suspicious, for an ACK at a stream that sends seq next.
IsSuspiciousState(seq, unacked, ack) ==
  \/ WrappingSub(seq, ack) = 0
  \/ WrappingSub(seq, ack) > unacked + Leeway

\* A Fin or Reset packet would end in the todo!() of the last branch; no code of this
\* repository sends one, and a Syn never reaches a mailbox, so no such packet is modelled.
IsSuspicious(p, packet) ==
  \/ packet.type = "Data" /\ IsSuspiciousData(ack_number[p], packet.seq)
  \/ packet.type = "State" /\
       IsSuspiciousState(seq_number[p], Len(unacked_data[p]), packet.ack)

\* HashMap::insert: an entry of the same key is overwritten.
Insert(map, key, value) ==
  [k \in DOMAIN map \cup {key} |-> IF k = key THEN value ELSE map[k]]

\* Mutant of HandleData: segments are taken to arrive in order.
HandleDataInArrivalOrder(p, packet) ==
  /\ packet.type = "Data"
  /\ inbound_data' = [inbound_data EXCEPT ![p] =
       Insert(@, WrappingAdd(ack_number[p], Cardinality(DOMAIN @) + 1), packet.data)]
  /\ UNCHANGED unacked_data

\* Data is kept under its number, old or new, in place of what was there.
HandleData(p, packet) ==
  /\ packet.type = "Data"
  /\ inbound_data' = [inbound_data EXCEPT ![p] = Insert(@, packet.seq, packet.data)]
  /\ UNCHANGED unacked_data

\* Mutants of IsAcked: the entry after the acknowledged one counts; the acknowledged one
\* itself does not.
IsAckedOneMore(seq, ack) == seq <= ack + 1
IsAckedOneLess(seq, ack) == seq < ack

\* The comparison that decides whether an entry is acknowledged: on the plain u16s.
IsAcked(seq, ack) == seq <= ack

\* Mutant of HandleState: the entry that ends the loop is put back without having been
\* taken out.
HandleStateDoublesFront(p, packet) ==
  /\ packet.type = "State"
  /\ unacked_data' = [unacked_data EXCEPT ![p] =
       IF @ = << >> \/ IsAcked(Head(@).seq, packet.ack) THEN @ ELSE <<Head(@)>> \o @]
  /\ UNCHANGED inbound_data

\* Entries are released from the front, up to the first one that is not acknowledged.
HandleState(p, packet) ==
  /\ packet.type = "State"
  /\ \E k \in 0 .. Len(unacked_data[p]) :
       /\ \A i \in 1 .. k : IsAcked(unacked_data[p][i].seq, packet.ack)
       /\ k < Len(unacked_data[p]) => ~ IsAcked(unacked_data[p][k + 1].seq, packet.ack)
       /\ unacked_data' = [unacked_data EXCEPT ![p] = SubSeq(@, k + 1, Len(@))]
  /\ UNCHANGED inbound_data

\* One turn of the loop over poll_read_packet and handle_packet.
ReadPacket(p) ==
  /\ polling[p] # "none"
  /\ inbound_packets[p] # << >>
  /\ LET packet == Head(inbound_packets[p]) IN
       \/ IsSuspicious(p, packet) /\ UNCHANGED <<inbound_data, unacked_data>>
       \/ ~ IsSuspicious(p, packet) /\ HandleData(p, packet)
       \/ ~ IsSuspicious(p, packet) /\ HandleState(p, packet)
  /\ inbound_packets' = [inbound_packets EXCEPT ![p] = Tail(@)]
  /\ UNCHANGED <<seq_number, ack_number, received_data, taskVars, netVars, histVars>>

\* Mutant of EndPoll: the poll ends without leaving a waker with the mailbox.
EndPollUnregistered(p, h, end) ==
  /\ polling[p] = h
  /\ polling' = [polling EXCEPT ![p] = "none"]
  /\ inbound_packets[p] = << >>
  /\ call' = [call EXCEPT ![p][h] = end]
  /\ UNCHANGED <<waker, spurious>>

\* poll_recv answered Pending and the loop is over, with the poll of half h ended in
\* state "end".  Either the mailbox was empty, and it keeps this half's waker in place
\* of any other's; or tokio's cooperative budget for this task was used up, whatever the
\* mailbox holds, and the task is woken at once.  The empty answer and the waker are one
\* step, as in poll_recv.  The rest of the poll reads nothing that an arrival changes, so it
\* is part of the same step: a packet that arrives during it is one that arrives after it.
EndPoll(p, h, end) ==
  /\ polling[p] = h
  /\ polling' = [polling EXCEPT ![p] = "none"]
  /\ \/ /\ inbound_packets[p] = << >>
        /\ waker' = [waker EXCEPT ![p] = h]
        /\ call' = [call EXCEPT ![p][h] = end]
        /\ UNCHANGED spurious
     \/ /\ spurious < MaxSpurious
        /\ spurious' = spurious + 1
        /\ call' = [call EXCEPT ![p][h] = IF end = "parked" THEN "runnable" ELSE end]
        /\ UNCHANGED waker

Smaller(m, n) == IF m <= n THEN m ELSE n

\* The numbers of the n segments after ack_number.
RunKeys(p, n) == {WrappingAdd(ack_number[p], i) : i \in 1 .. n}

\* The loop over inbound_data.remove stops after n segments: the first gap is there.
RunLength(p, n) ==
  /\ RunKeys(p, n) \subseteq DOMAIN inbound_data[p]
  /\ WrappingAdd(ack_number[p], n + 1) \notin DOMAIN inbound_data[p]

\* received_data after the loop.
WithRun(p, n) ==
  received_data[p] \o [i \in 1 .. n |-> inbound_data[p][WrappingAdd(ack_number[p], i)]]

\* HashMap::remove.
Removed(map, keys) == [k \in DOMAIN map \ keys |-> map[k]]

StatePacket(ack) == [type |-> "State", ack |-> ack]

\* The rest of poll_read: assemble the longest run of segments after ack_number, send
\* an ACK, and fill the caller's buffer, which has room for so many, or wait.
FinishRead(p, n, room) ==
  LET assembled == WithRun(p, n)
      taken     == Smaller(Len(assembled), room)
      ack       == WrappingAdd(ack_number[p], n)
  IN /\ RunLength(p, n)
     /\ inbound_data' = [inbound_data EXCEPT ![p] = Removed(@, RunKeys(p, n))]
     /\ ack_number' = [ack_number EXCEPT ![p] = ack]
     /\ wire' = [wire EXCEPT ![Peer(p)] = Append(@, StatePacket(ack))]
     /\ delivered' = [delivered EXCEPT ![p] = @ \o SubSeq(assembled, 1, taken)]
     /\ received_data' = [received_data EXCEPT ![p] =
                            SubSeq(assembled, taken + 1, Len(assembled))]
     /\ EndPoll(p, "read", IF assembled = << >> THEN "parked" ELSE "idle")
     /\ UNCHANGED <<seq_number, unacked_data, inbound_packets, status, losses, dups,
                    isn, written>>

\* Mutant of FinishFlush: it answers Ready although chunks are unreleased.
FinishFlushEarly(p) ==
  /\ EndPoll(p, "flush", "idle")
  /\ UNCHANGED <<streamVars, inbound_packets, status, netVars, histVars>>

\* The rest of poll_flush.
FinishFlush(p) ==
  /\ EndPoll(p, "flush", IF unacked_data[p] = << >> THEN "idle" ELSE "parked")
  /\ UNCHANGED <<streamVars, inbound_packets, status, netVars, histVars>>

-----------------------------------------------------------------------------
(***************************************************************************)
(* The datagram service and the receiver task at its end.                  *)
(***************************************************************************)

\* The halves that a wake-up through the mailbox's waker reaches: without Split the
\* waker is the one task's, whichever call it waits in.
Woken(p) == IF waker[p] = "none" THEN {} ELSE IF Split THEN {waker[p]} ELSE Halves

\* The receiver task puts a packet in the mailbox, which wakes the registered task.  A
\* stream that has panicked is gone, and what is sent to it is dropped.
Enqueue(p, packet) ==
  IF status[p] = "open"
  THEN /\ inbound_packets' = [inbound_packets EXCEPT ![p] = Append(@, packet)]
       /\ waker' = [waker EXCEPT ![p] = "none"]
       /\ call' = [call EXCEPT ![p] =
                     [h \in Halves |-> IF h \in Woken(p) /\ @[h] = "parked"
                                       THEN "runnable" ELSE @[h]]]
  ELSE UNCHANGED <<inbound_packets, waker, call>>

\* The datagrams that may arrive next.
Arriving(p) == IF Reorder THEN DOMAIN wire[p] ELSE DOMAIN wire[p] \cap {1}

Deliver(p, i) ==
  /\ Enqueue(p, wire[p][i])
  /\ wire' = [wire EXCEPT ![p] = RemoveAt(@, i)]
  /\ UNCHANGED <<streamVars, polling, spurious, status, losses, dups, histVars>>

Duplicate(p, i) ==
  /\ dups < MaxDup
  /\ dups' = dups + 1
  /\ Enqueue(p, wire[p][i])
  /\ UNCHANGED <<streamVars, polling, spurious, status, wire, losses, histVars>>

Lose(p, i) ==
  /\ losses < MaxLoss
  /\ losses' = losses + 1
  /\ wire' = [wire EXCEPT ![p] = RemoveAt(@, i)]
  /\ UNCHANGED <<streamVars, inbound_packets, taskVars, dups, histVars>>

-----------------------------------------------------------------------------
\* The steps that the executor and the datagram service owe an end.
FinishSomeRead(p) ==
  /\ polling[p] = "read"
  /\ \E n \in 0 .. Cardinality(DOMAIN inbound_data[p]), room \in ReadSizes :
       FinishRead(p, n, room)

DeliverSome(p) == \E i \in Arriving(p) : Deliver(p, i)

Next ==
  \E p \in Ends :
    \/ \E h \in Halves : StartCall(p, h)
    \/ \E n \in WriteSizes : PollWrite(p, n)
    \/ PollShutdown(p)
    \/ \E h \in Halves : BeginPoll(p, h)
    \/ \E h \in Halves : SpuriousWake(p, h)
    \/ ReadPacket(p)
    \/ FinishSomeRead(p)
    \/ FinishFlush(p)
    \/ DeliverSome(p)
    \/ \E i \in Arriving(p) : Duplicate(p, i)
    \/ \E i \in Arriving(p) : Lose(p, i)

Spec == Init /\ [][Next]_vars

\* The tasks of an end's application, each given by the calls it makes.
Tasks == IF Split THEN {{h} : h \in Halves} ELSE {Halves}

\* The executor runs a task that was started or woken: it begins a poll, or goes on with one.
RunTask(p, task) ==
  \/ \E h \in task : BeginPoll(p, h)
  \/ polling[p] \in task /\ (ReadPacket(p) \/ FinishSomeRead(p) \/ FinishFlush(p))

\* Scheduling.  tokio polls every task that is runnable and runs the poll to its end
\* (strongly fair when there are two: one may hold the stream whenever the other's turn
\* comes), the receiver task moves every datagram that arrives, and the application never
\* gives up calling read (strongly fair: between two reads it may flush).  Nothing obliges
\* it to write, to flush or to shut down, and nothing obliges the network to lose or
\* duplicate or the executor to poll without cause.
Fairness ==
  \A p \in Ends :
    /\ WF_vars(DeliverSome(p))
    /\ \A task \in Tasks :
         IF Split THEN SF_vars(RunTask(p, task)) ELSE WF_vars(RunTask(p, task))
    /\ SF_vars(StartCall(p, "read"))

FairSpec == Spec /\ Fairness

-----------------------------------------------------------------------------
(***************************************************************************)
(* Properties.                                                             *)
(***************************************************************************)

\* The segments end p has assembled in order, and so acknowledged.
Assembled(p) == delivered[p] \o received_data[p]

\* What poll_read hands out, followed by what it still holds, is what the peer's
\* poll_write took, from the first chunk on, in order, with none missing, doubled or made
\* up - whatever the datagram service loses, repeats or reorders (the reassembly over
\* inbound_data in poll_read).
InOrderPrefix ==
  \A p \in Ends :
    /\ Len(Assembled(p)) <= written[Peer(p)]
    /\ \A i \in 1 .. Len(Assembled(p)) : Assembled(p)[i] = i

\* Every chunk that handle_packet has released from unacked_data was assembled by the
\* peer.  poll_flush answers Ready when nothing is unreleased, so then the peer has it all.
FlushedIsReceived ==
  \A p \in Ends : written[p] - Len(unacked_data[p]) <= Len(Assembled(Peer(p)))

\* If the next packet that a poll of p takes from the mailbox is a segment that p has not
\* assembled yet, is_suspicious lets it through.
NextDataAccepted(p) ==
  polling[p] # "none" /\ inbound_packets[p] # << >> =>
    LET packet == Head(inbound_packets[p]) IN
      packet.type = "Data" /\ packet.data > Len(Assembled(p)) => ~ IsSuspicious(p, packet)

\* No segment that is still to be assembled is ignored by is_suspicious: nothing is ever sent
\* again, so ignoring one would stop the connection.  It does not hold of a burst of more
\* than AcceptableDistance segments.
FreshDataNotSuspicious == \A p \in Ends : NextDataAccepted(p)

\* It does hold, however much is written in all, whatever was lost, repeated, overtaken or
\* drained by a flush, and wherever the numbers wrap, as long as the peer of the writer has
\* at most AcceptableDistance of the written segments still to assemble.
WindowedDataNotSuspicious ==
  \A p \in Ends :
    written[Peer(p)] - Len(Assembled(p)) <= AcceptableDistance => NextDataAccepted(p)

\* No ACK in a mailbox that names a chunk which is still in unacked_data would be ignored
\* by is_suspicious, whatever was written or released since the peer sent it.
FreshAckNotSuspicious ==
  \A p \in Ends : \A i \in DOMAIN inbound_packets[p], j \in DOMAIN unacked_data[p] :
    LET packet == inbound_packets[p][i] IN
      packet.type = "State" /\ packet.ack = unacked_data[p][j].seq
        => ~ IsSuspicious(p, packet)

\* A task waits in read or flush only when the call could not be answered: its mailbox is
\* empty and the mailbox will wake it; a waiting read has no next segment, a waiting flush
\* has something unreleased.  So no packet that the receiver task enqueues, at whatever point
\* of whichever poll, is left without a task that will take it.
NoStrandedCall ==
  \A p \in Ends : \A h \in Halves :
    call[p][h] = "parked" =>
      /\ inbound_packets[p] = << >>
      /\ h \in Woken(p)
      /\ h = "read" => /\ received_data[p] = << >>
                       /\ WrappingAdd(ack_number[p], 1) \notin DOMAIN inbound_data[p]
      /\ h = "flush" => unacked_data[p] # << >>

(***************************************************************************)
(* The inductive invariant behind InOrderPrefix and FlushedIsReceived:     *)
(* every number anywhere in the system is the one that its segment was     *)
(* given when it was written.                                              *)
(***************************************************************************)

\* The number of the n-th segment that end p writes; the 0-th is the handshake's.
SegmentSeq(p, n) == WrappingAdd(isn[p], n)

\* How many segments end p has assembled.
AssembledCount(p) == Len(delivered[p]) + Len(received_data[p])

\* Each end is about to send the segment after those it wrote, and has acknowledged
\* the last segment it assembled.
CountersMatch ==
  \A p \in Ends :
    /\ seq_number[p] = SegmentSeq(p, written[p] + 1)
    /\ ack_number[p] = SegmentSeq(Peer(p), AssembledCount(p))

\* A packet on its way to p carries a segment the peer wrote, under the segment's own
\* number, or acknowledges a segment p wrote and the peer has assembled.
Genuine(p, packet) ==
  \/ /\ packet.type = "Data"
     /\ packet.data \in 1 .. written[Peer(p)]
     /\ packet.seq = SegmentSeq(Peer(p), packet.data)
  \/ /\ packet.type = "State"
     /\ \E k \in 0 .. AssembledCount(Peer(p)) : packet.ack = SegmentSeq(p, k)

PacketsGenuine ==
  \A p \in Ends :
    /\ \A i \in 1 .. Len(wire[p]) : Genuine(p, wire[p][i])
    /\ \A i \in 1 .. Len(inbound_packets[p]) : Genuine(p, inbound_packets[p][i])

\* inbound_data files every segment under its own number.
BufferGenuine ==
  \A p \in Ends : \A s \in DOMAIN inbound_data[p] :
    /\ inbound_data[p][s] \in 1 .. written[Peer(p)]
    /\ s = SegmentSeq(Peer(p), inbound_data[p][s])

\* unacked_data is the last so many segments written, in order.
UnackedIsSuffix ==
  \A p \in Ends :
    /\ Len(unacked_data[p]) <= written[p]
    /\ \A i \in 1 .. Len(unacked_data[p]) :
         unacked_data[p][i].seq = SegmentSeq(p, written[p] - Len(unacked_data[p]) + i)

\* Numbers and segments correspond throughout: in the counters, in every packet on the
\* wire or in a mailbox, in inbound_data and in unacked_data.
NumbersMatchSegments ==
  CountersMatch /\ PacketsGenuine /\ BufferGenuine /\ UnackedIsSuffix

\* Acknowledgement and assembly never go back: poll_read only appends to what it has
\* handed out and assembled, and handle_packet never returns a released chunk to
\* unacked_data (its push_front puts back the entry it has just taken).
NeverRetracted ==
  [][\A p \in Ends :
       /\ IsPrefix(delivered[p], delivered'[p])
       /\ IsPrefix(Assembled(p), delivered'[p] \o received_data'[p])
       /\ written[p] - Len(unacked_data[p]) <= written'[p] - Len(unacked_data'[p])]_vars

\* The application of end p waits for ever in a flush.
FlushHangs(p) == <>[](call[p]["flush"] # "idle")

\* An end that goes on reading gets everything the peer writes: it does not come to a point
\* from which on something stays unread, unless it waits for ever in a flush of its own.
DataDelivered ==
  \A p \in Readers :
    <>[](Len(delivered[p]) < written[Peer(p)]) => FlushHangs(p)

\* The numbers of the chunks in unacked_data pass the end of their range.
UnackedWrap(p) ==
  \E i, j \in DOMAIN unacked_data[p] :
    i < j /\ unacked_data[p][i].seq > unacked_data[p][j].seq

\* A flush towards a peer that goes on reading returns, with two exceptions.  The peer may
\* wait for ever in a flush too: both then wait for ACKs that only a poll_read would send.
\* And the numbers of the unreleased chunks may wrap: the ACK of all of them is then lower
\* than the first, and the comparison in handle_packet never releases it.
FlushReturns ==
  \A p \in Ends :
    Peer(p) \in Readers /\ FlushHangs(p) => FlushHangs(Peer(p)) \/ <>[]UnackedWrap(p)

=============================================================================
