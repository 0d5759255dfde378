--------------------------- MODULE PacketReceiver ---------------------------
(***************************************************************************)
(* The background task of src/src/socket/packet_receiver.rs that reads     *)
(* datagrams from the UDP socket, decodes them (PacketCodec) and hands the *)
(* packets to the mailboxes of the routing table and to the SYN queue.     *)
(*                                                                         *)
(* A poll runs in steps, one per call into the UDP socket, the table or    *)
(* the queue, while datagrams arrive, connections are registered, and      *)
(* streams and at last the socket are dropped.  UtpConnect takes what the  *)
(* task does with one datagram as a single step.                           *)
(***************************************************************************)
EXTENDS PacketCodec

CONSTANTS
  Addrs,        \* remote addresses
  Ids,          \* connection ids that are registered
  Packets,      \* packets that peers send
  Probes,       \* other datagrams that may arrive
  MaxHandles,   \* bound: connections registered
  MaxPackets,   \* bound: packets that arrive
  MaxProbes,    \* bound: other datagrams that arrive
  MaxFaults,    \* bound: errors that poll_recv_from returns and polls cut short by tokio's
                \* cooperative budget
  MayDrop,      \* whether the socket is ever dropped
  MayFail       \* whether the IO driver ever ends

ASSUME ReceiverAssumption ==
  /\ {MaxHandles, MaxPackets, MaxProbes, MaxFaults} \subseteq Nat
  /\ {MayDrop, MayFail} \subseteq BOOLEAN
  /\ Packets \subseteq WellFormed /\ Probes \subseteq ByteStrings

VARIABLES
  arrived,        \* datagrams in the UDP socket's receive buffer
  ready,          \* tokio takes the UDP socket for readable
  io_waker,       \* the UDP socket's readiness holds the task's waker
  driver,         \* FALSE once tokio's IO driver has ended
  notified,       \* the executor will poll the task (again)
  pc,             \* where the task is
  current,        \* the datagram being handled, with what it decoded to
  conns,          \* the connections registered so far: their keys, and "since", history:
                  \* how many datagrams had been handled by then
  routing_table,  \* (connection id, remote address) -> number of the connection
  live,           \* connections whose mailbox has its receive half
  mailbox,        \* per connection: packets ever put into its channel
  syn_queue,      \* SYN packets with their senders
  dropped,        \* how many fields of the UtpSocket are dropped, in their order
  handled,        \* history: the datagrams the task is done with
  packets, probes, faults

ioVars == <<arrived, ready, io_waker, driver>>
tableVars == <<conns, routing_table, live, mailbox>>
boundVars == <<packets, probes, faults>>
vars == <<ioVars, notified, pc, current, tableVars, syn_queue, dropped, handled, boundVars>>

\* The task has just been spawned, which schedules its first poll.
Init ==
  /\ arrived = << >> /\ ready = FALSE /\ io_waker = FALSE /\ driver = TRUE
  /\ notified = TRUE
  /\ pc = "idle"
  /\ current = << >>
  /\ conns = << >>
  /\ routing_table = [key \in {} |-> 0]
  /\ live = {}
  /\ mailbox = [h \in 1 .. MaxHandles |-> << >>]
  /\ syn_queue = << >>
  /\ dropped = 0
  /\ handled = << >>
  /\ packets = 0 /\ probes = 0 /\ faults = 0

-----------------------------------------------------------------------------
(***************************************************************************)
(* The task's surroundings.                                                *)
(***************************************************************************)

\* The UDP socket lives while the UtpSocket or a poll of this task owns a share of it.
SocketOpen == dropped = 0 \/ pc \notin {"idle", "stopped"}

\* The readiness' waker, if it holds one, is used up and schedules the task.
WakeTask ==
  /\ io_waker' = FALSE
  /\ notified' = (notified \/ io_waker)

\* A datagram comes in: tokio marks the socket readable.
Arrive(from, bytes) ==
  /\ SocketOpen
  /\ arrived' = Append(arrived, [from |-> from, bytes |-> bytes])
  /\ ready' = TRUE
  /\ WakeTask
  /\ UNCHANGED <<driver, pc, current, tableVars, syn_queue, dropped, handled, faults>>

\* It is what the sender task of a peer made of a packet.
ArrivePacket(from, packet) ==
  /\ packets < MaxPackets
  /\ packets' = packets + 1
  /\ Arrive(from, Encode(packet))
  /\ UNCHANGED probes

ArriveProbe(from, bytes) ==
  /\ probes < MaxProbes
  /\ probes' = probes + 1
  /\ Arrive(from, bytes)
  /\ UNCHANGED packets

\* tokio's IO driver ends.
DriverEnds ==
  /\ MayFail /\ driver /\ SocketOpen
  /\ driver' = FALSE
  /\ WakeTask
  /\ UNCHANGED <<arrived, ready, pc, current, tableVars, syn_queue, dropped, handled, boundVars>>

\* register_connection or insert_connection: a vacant entry gets a new channel.
Register(id, addr) ==
  LET key == <<id, addr>>
      h   == Len(conns) + 1
  IN /\ dropped = 0
     /\ h <= MaxHandles
     /\ key \notin DOMAIN routing_table
     /\ conns' = Append(conns, [key |-> key, since |-> Len(handled)])
     /\ routing_table' = [k \in DOMAIN routing_table \cup {key} |->
                            IF k = key THEN h ELSE routing_table[k]]
     /\ live' = live \cup {h}
     /\ UNCHANGED <<ioVars, notified, pc, current, mailbox, syn_queue, dropped, handled, boundVars>>

\* A stream or a connecting future goes, and with it the receive half of its mailbox.
DropStream(h) ==
  /\ live' = live \ {h}
  /\ UNCHANGED <<ioVars, notified, pc, current, conns, routing_table, mailbox, syn_queue,
                 dropped, handled, boundVars>>

\* With the last owner gone the UtpSocket is dropped field by field: socket, routing_table,
\* syn_rx.  None of this wakes the task: the UDP socket forgets its wakers.
DropField ==
  /\ MayDrop
  /\ live = {}
  /\ dropped < 3
  /\ dropped' = dropped + 1
  /\ UNCHANGED <<ioVars, notified, pc, current, tableVars, syn_queue, handled, boundVars>>

-----------------------------------------------------------------------------
(***************************************************************************)
(* The poll function.                                                      *)
(***************************************************************************)

\* upgrade: the UDP socket exists.  After the drop this may still be, while the sender
\* task's poll holds a share of it.
BeginPoll ==
  /\ pc = "idle" /\ notified
  /\ notified' = FALSE
  /\ pc' = "polling"
  /\ UNCHANGED <<ioVars, current, tableVars, syn_queue, dropped, handled, boundVars>>

\* upgrade: it is gone.
PollWithoutSocket ==
  /\ pc = "idle" /\ notified
  /\ dropped > 0
  /\ notified' = FALSE
  /\ pc' = "stopped"
  /\ UNCHANGED <<ioVars, current, tableVars, syn_queue, dropped, handled, boundVars>>

\* poll_recv_ready: readable.
RecvReady ==
  /\ pc = "polling"
  /\ driver /\ ready
  /\ pc' = "reading"
  /\ UNCHANGED <<ioVars, notified, current, tableVars, syn_queue, dropped, handled, boundVars>>

\* poll_recv_ready: the driver has ended, and the task ends.
RecvReadyFails ==
  /\ pc = "polling"
  /\ ~ driver
  /\ pc' = "stopped"
  /\ UNCHANGED <<ioVars, notified, current, tableVars, syn_queue, dropped, handled, boundVars>>

\* Mutant of Sleep: no waker is left with the readiness.
SleepUnregistered == pc' = "idle" /\ ready' = FALSE /\ UNCHANGED <<io_waker, arrived, driver>>

\* Pending: the socket is not readable, and its readiness keeps the task's waker.
Sleep == pc' = "idle" /\ ready' = FALSE /\ io_waker' = TRUE /\ UNCHANGED <<arrived, driver>>

\* poll_recv_ready: not readable.
RecvNotReady ==
  /\ pc = "polling"
  /\ driver /\ ~ ready
  /\ Sleep
  /\ UNCHANGED <<notified, current, tableVars, syn_queue, dropped, handled, boundVars>>

\* poll_recv_from: there is nothing after all; the readiness is cleared.  One step, since tokio
\* keeps a readiness that was set anew after the read found nothing, and reads again.
RecvNothing ==
  /\ pc = "reading"
  /\ driver /\ arrived = << >>
  /\ Sleep
  /\ UNCHANGED <<notified, current, tableVars, syn_queue, dropped, handled, boundVars>>

\* poll_recv_ready or poll_recv_from: Pending since tokio's cooperative budget for this poll
\* is used up; the task is woken at once.
RecvYields ==
  /\ pc \in {"polling", "reading"}
  /\ faults < MaxFaults
  /\ faults' = faults + 1
  /\ pc' = "idle"
  /\ notified' = TRUE
  /\ UNCHANGED <<ioVars, current, tableVars, syn_queue, dropped, handled, packets, probes>>

\* poll_recv_from: an error, for one that the driver has ended.  The loop goes on.
RecvFails ==
  /\ pc = "reading"
  /\ IF driver THEN faults < MaxFaults /\ faults' = faults + 1 ELSE UNCHANGED faults
  /\ pc' = "polling"
  /\ UNCHANGED <<ioVars, notified, current, tableVars, syn_queue, dropped, handled,
                 packets, probes>>

\* Mutant of AfterInvalid: the poll ends.
AfterInvalidReturns == "idle"

\* Where the task goes on after a datagram that is no packet.
AfterInvalid == "polling"

\* poll_recv_from: a datagram.  One that does not decode is ignored.
RecvFrom ==
  /\ pc = "reading"
  /\ driver /\ arrived # << >>
  /\ LET datagram == Head(arrived)
         result   == Decode(datagram.bytes)
         done     == [from |-> datagram.from, bytes |-> datagram.bytes, result |-> result]
     IN IF IsError(result)
        THEN pc' = AfterInvalid /\ handled' = Append(handled, done) /\ UNCHANGED current
        ELSE pc' = "routing" /\ current' = done /\ UNCHANGED handled
  /\ arrived' = Tail(arrived)
  /\ UNCHANGED <<ready, io_waker, driver, notified, tableVars, syn_queue, dropped, boundVars>>

\* A SYN with its sender, as the listener takes it from the queue.
SynEntry(d) == <<d.result, d.from>>

\* syn_tx.send, which fails once syn_rx is dropped; then the task ends.
RouteSyn ==
  /\ pc = "routing"
  /\ current.result.packet_type = "Syn"
  /\ handled' = Append(handled, current)
  /\ IF dropped < 3
     THEN pc' = "polling" /\ syn_queue' = Append(syn_queue, SynEntry(current))
     ELSE pc' = "stopped" /\ UNCHANGED syn_queue
  /\ UNCHANGED <<ioVars, notified, current, tableVars, dropped, boundVars>>

\* Mutant of Stale: the predicate of remove_if answers the wrong way round.
StaleInverted(h) == h \in live

\* remove_if takes an entry out when the send into its mailbox fails.
Stale(h) == h \notin live

\* The routing table, if it is not dropped: the packet goes into the mailbox of its entry,
\* or the entry is stale and goes, or there is none.
RouteOther ==
  /\ pc = "routing"
  /\ current.result.packet_type # "Syn"
  /\ handled' = Append(handled, current)
  /\ pc' = IF dropped < 2 THEN "polling" ELSE "stopped"
  /\ LET key == <<current.result.connection_id, current.from>> IN
       IF dropped < 2 /\ key \in DOMAIN routing_table
       THEN LET h == routing_table[key] IN
            /\ mailbox' = IF h \in live THEN [mailbox EXCEPT ![h] = Append(@, current.result)]
                          ELSE mailbox
            /\ routing_table' = [k \in {k \in DOMAIN routing_table : k = key => ~ Stale(h)} |->
                                   routing_table[k]]
       ELSE UNCHANGED <<mailbox, routing_table>>
  /\ UNCHANGED <<ioVars, notified, current, conns, live, syn_queue, dropped, boundVars>>

Poll ==
  \/ BeginPoll \/ PollWithoutSocket
  \/ RecvReady \/ RecvReadyFails \/ RecvNotReady
  \/ RecvFrom \/ RecvNothing \/ RecvFails \/ RecvYields
  \/ RouteSyn \/ RouteOther

Next ==
  \/ \E from \in Addrs, packet \in Packets : ArrivePacket(from, packet)
  \/ \E from \in Addrs, bytes \in Probes : ArriveProbe(from, bytes)
  \/ \E id \in Ids, addr \in Addrs : Register(id, addr)
  \/ \E h \in live : DropStream(h)
  \/ DriverEnds \/ DropField \/ Poll

Spec == Init /\ [][Next]_vars

\* The executor polls a scheduled task and runs the poll to its end.
FairSpec == Spec /\ WF_vars(Poll)

-----------------------------------------------------------------------------
(***************************************************************************)
(* Properties.                                                             *)
(***************************************************************************)

\* A task that is not scheduled has nothing to read, and while the socket exists the next
\* datagram, or the end of the driver, will wake it: readiness cached across polls, read
\* errors, invalid datagrams and exhausted budgets never leave a datagram behind.
NoStrandedDatagram ==
  pc = "idle" /\ ~ notified => arrived = << >> /\ (dropped = 0 => io_waker /\ driver)

\* f in [1 .. n -> S] runs through S from its least number to its greatest.
Enumerates(f, n, S) ==
  /\ \A i, j \in 1 .. n : i < j => f[i] < f[j]
  /\ \A k \in S : \E i \in 1 .. n : f[i] = k

IsSyn(d) == ~ IsError(d.result) /\ d.result.packet_type = "Syn"

\* A packet, not a SYN, for the connection with this key.
IsFor(d, key) ==
  /\ ~ IsError(d.result) /\ d.result.packet_type # "Syn"
  /\ key = <<d.result.connection_id, d.from>>

\* The datagrams for connection h that were handled since it was registered, and the SYNs.
Addressed(h) == {i \in DOMAIN handled : i > conns[h].since /\ IsFor(handled[i], conns[h].key)}
Syns == {i \in DOMAIN handled : IsSyn(handled[i])}

\* While a stream or connecting future lives, its mailbox was given every packet for its id
\* and remote address that was read since it was registered, once and in order, and no
\* other; the SYN queue has all SYN packets.  Invalid datagrams, errors, and stale entries
\* removed around it change nothing.
RoutedInOrder ==
  /\ \A h \in live :
       \E f \in [1 .. Len(mailbox[h]) -> Addressed(h)] :
         /\ Enumerates(f, Len(mailbox[h]), Addressed(h))
         /\ \A i \in 1 .. Len(mailbox[h]) : mailbox[h][i] = handled[f[i]].result
  /\ pc # "stopped" =>
       \E f \in [1 .. Len(syn_queue) -> Syns] :
         /\ Enumerates(f, Len(syn_queue), Syns)
         /\ \A i \in 1 .. Len(syn_queue) : syn_queue[i] = SynEntry(handled[f[i]])

\* What is taken for a packet is one whose encoding is the datagram, and the encoding of a
\* packet is taken for that packet: try_from and From<Packet> are inverse to each other,
\* along chains of extensions, empty ones and ones that end with the datagram.
DecodedIsMeant ==
  \A i \in DOMAIN handled :
    LET d == handled[i] IN
      /\ ~ IsError(d.result) => Encode(d.result) = d.bytes
      /\ \A packet \in Packets : Encode(packet) = d.bytes => d.result = packet

\* Every datagram that arrives is handled, unless the socket is dropped or the driver ends.
AllHandled ==
  \A n \in 1 .. MaxPackets + MaxProbes :
    packets + probes >= n ~> Len(handled) >= n \/ dropped > 0 \/ ~ driver

=============================================================================
