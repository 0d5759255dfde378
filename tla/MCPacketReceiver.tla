-------------------------- MODULE MCPacketReceiver --------------------------
(***************************************************************************)
(* Instances of PacketReceiver for TLC.                                    *)
(***************************************************************************)
EXTENDS PacketReceiverContract

SX == INSTANCE SequencesExt

Packet(type, id, extensions, data) == NewPacket(type, 1, id, 9, 0, 0, 7, 6, extensions, data)

Extension(number, data) == [extension_type |-> ExtensionType(number), data |-> data]

\* A SYN, a Data packet, and, for no connection here, an ACK with extensions.
SomePackets ==
  {Packet("Syn", 0, << >>, << >>),
   Packet("Data", 0, << >>, <<1, 0>>),
   Packet("State", 1, <<Extension(4, << >>), Extension(1, <<0, 2, 0, 1>>)>>, << >>)}

Header(type, version, extension) == <<type * 16 + version, extension, 0, 9, 0, 0, 7, 6>>

\* Behind a header that announces an extension every body of up to four bytes 0 and 1; bodies
\* without extensions; headers of another type or version; less than a header.
SomeProbes ==
  {Header(2, 1, 1) \o body : body \in SX!BoundedSeq(0 .. 1, 4)}
  \cup {Header(2, 1, 0) \o <<1>>, Header(5, 1, 0), Header(2, 2, 0), SX!Front(Header(2, 1, 0))}

=============================================================================
