----------------------- MODULE PacketReceiverContract -----------------------
(***************************************************************************)
(* The receiver task implements the routing of PacketRouting: the steps of *)
(* its loop, its wake-ups and its errors are hidden, and the datagram that *)
(* is being handled counts as pending until it is in its place.            *)
(***************************************************************************)
EXTENDS PacketReceiver

Datagrams == {Encode(packet) : packet \in Packets} \cup Probes

\* The datagram in hand, and those behind it.
Pending ==
  IF pc = "routing" THEN <<[from |-> current.from, bytes |-> current.bytes]>> \o arrived ELSE arrived

Contract == INSTANCE PacketRouting WITH
  pending    <- Pending,
  registered <- Len(conns),
  open       <- dropped = 0

\* Whatever arrives, is registered, dropped or fails between the calls that the loop makes,
\* each datagram is dealt with as if in one step, in the order of arrival.
ImplementsRouting == Contract!Spec

=============================================================================
