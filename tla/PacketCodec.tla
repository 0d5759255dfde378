---------------------------- MODULE PacketCodec -----------------------------
(***************************************************************************)
(* The wire format of src/src/packet.rs: a packet to bytes (Encode) and    *)
(* bytes to a packet or an error (Decode).                                 *)
(*                                                                         *)
(* A datagram is a sequence.  Its first HeaderLen elements stand for the   *)
(* 20 bytes of the header, one element per field, since the fields have    *)
(* fixed places and are copied whole; the extensions and the data follow   *)
(* byte by byte, since there lengths and types decide where the next byte  *)
(* belongs.  ByteModulus is 256 in the code, and the number at which the   *)
(* length of an extension wraps.                                           *)
(***************************************************************************)
EXTENDS SequenceOps, Functions

CONSTANT ByteModulus

ASSUME ByteAssumption == ByteModulus \in Nat /\ ByteModulus > 4

Bytes == 0 .. ByteModulus - 1

\* The variants of PacketType, from 0 on.
PacketTypes == <<"Data", "Fin", "State", "Reset", "Syn">>

TypeNumber(packet_type) == CHOOSE n \in 0 .. 4 : PacketTypes[n + 1] = packet_type

\* The named variants of ExtensionType, from 0 on; any other number n is Unknown(n).
ExtensionNames == <<"None", "SelectiveAck", "Bitfield", "CloseReason">>

ExtensionType(n) == IF n <= 3 THEN <<ExtensionNames[n + 1]>> ELSE <<"Unknown", n>>

ExtensionNumber(type) ==
  IF Len(type) = 2 THEN type[2] ELSE CHOOSE n \in 0 .. 3 : ExtensionNames[n + 1] = type[1]

HeaderLen == 8

\* Packet::new.
NewPacket(type, version, id, timestamp, delta, window, seq, ack, extensions, data) ==
  [packet_type |-> type, version |-> version, connection_id |-> id,
   timestamp_micros |-> timestamp, timestamp_delta_micros |-> delta, window_size |-> window,
   seq_number |-> seq, ack_number |-> ack, extensions |-> extensions, data |-> data]

\* The extensions that Encode can write: with a type that does not end the chain, and no
\* longer than the length byte can say.
Extensions ==
  [extension_type : {ExtensionType(n) : n \in Bytes \ {0}},
   data : {data \in Seq(Bytes) : Len(data) < ByteModulus}]

\* The packets of the protocol's one version.
WellFormed ==
  [packet_type : Range(PacketTypes), version : {1}, connection_id : Nat,
   timestamp_micros : Nat, timestamp_delta_micros : Nat, window_size : Nat,
   seq_number : Nat, ack_number : Nat, extensions : Seq(Extensions), data : Seq(Bytes)]

\* Sequences that a UDP socket may deliver: numbers in the places of the header's fields,
\* and bytes behind them.
ByteStrings ==
  {bytes \in Seq(Nat) : \A i \in DOMAIN bytes : i = 2 \/ i > HeaderLen => bytes[i] \in Bytes}

-----------------------------------------------------------------------------
(***************************************************************************)
(* From<Packet> for Bytes.                                                 *)
(***************************************************************************)

\* The number of the i-th extension's type, and 0 behind the last one.
TypeByte(extensions, i) ==
  IF i <= Len(extensions) THEN ExtensionNumber(extensions[i].extension_type) ELSE 0

\* An extension: the type of the next one, the length cut to a byte, the data.
EncodeExtension(extensions, i) ==
  <<TypeByte(extensions, i + 1), Len(extensions[i].data) % ByteModulus>> \o extensions[i].data

Encode(packet) ==
  <<TypeNumber(packet.packet_type) * 16 + packet.version, TypeByte(packet.extensions, 1),
    packet.connection_id, packet.timestamp_micros, packet.timestamp_delta_micros,
    packet.window_size, packet.seq_number, packet.ack_number>>
  \o JoinAll([i \in 1 .. Len(packet.extensions) |-> EncodeExtension(packet.extensions, i)])
  \o packet.data

-----------------------------------------------------------------------------
(***************************************************************************)
(* TryFrom<Bytes> for Packet.                                              *)
(***************************************************************************)

Failed(error) == [error |-> error]
IsError(result) == DOMAIN result = {"error"}

\* Mutant of NextType: the byte is taken although no extension is announced.
NextTypeAlways(next, bytes) ==
  IF bytes # << >> THEN [next |-> Head(bytes), bytes |-> Tail(bytes)]
  ELSE [next |-> next, bytes |-> bytes]

\* The type byte behind an extension's, if that announces one and there is a byte left, and
\* what is left then.
NextType(next, bytes) ==
  IF next # 0 /\ bytes # << >> THEN [next |-> Head(bytes), bytes |-> Tail(bytes)]
  ELSE [next |-> next, bytes |-> bytes]

\* Where the loop over the extensions is: an extension's type, the type behind it, the bytes
\* left, the extensions found so far, and the error that ended it.
Loop(type, next, bytes, found, error) ==
  [type |-> type, next |-> next, bytes |-> bytes, found |-> found, error |-> error]

Loops ==
  [type : Bytes, next : Bytes, bytes : Seq(Bytes), found : Seq(Extensions),
   error : {"", "MissingExtension", "IncompleteExtension"}]

\* A round of the loop, which type 0 and an error end.
DecodeExtension[loop \in Loops] ==
  LET length    == Head(loop.bytes)
      extension == [extension_type |-> ExtensionType(loop.type),
                    data |-> SubSeq(loop.bytes, 2, length + 1)]
      after     == NextType(loop.next, SubSeq(loop.bytes, length + 2, Len(loop.bytes)))
  IN IF loop.type = 0 \/ loop.error # "" THEN loop
     ELSE IF loop.bytes = << >> THEN [loop EXCEPT !.error = "MissingExtension"]
     ELSE IF length > Len(loop.bytes) - 1 THEN [loop EXCEPT !.error = "IncompleteExtension"]
     ELSE Loop(loop.next, after.next, after.bytes, Append(loop.found, extension), "")

\* The loop: every round takes a byte, so it ends within one round more than there are bytes.
DecodeExtensions(loop) ==
  LET after[n \in Nat] == IF n = 0 THEN loop ELSE DecodeExtension[after[n - 1]]
  IN after[Len(loop.bytes) + 1]

Decode(bytes) ==
  IF Len(bytes) < HeaderLen THEN Failed("TooSmall")
  ELSE IF bytes[1] \div 16 > 4 THEN Failed("InvalidPacketType")
  ELSE IF bytes[1] % 16 # 1 THEN Failed("UnsupportedVersion")
  ELSE LET rest   == SubSeq(bytes, HeaderLen + 1, Len(bytes))
           after  == NextType(bytes[2], rest)
           parsed == DecodeExtensions(Loop(bytes[2], after.next, after.bytes, << >>, ""))
       IN IF bytes[2] # 0 /\ rest = << >> THEN Failed("MissingExtension")
          ELSE IF parsed.error # "" THEN Failed(parsed.error)
          ELSE NewPacket(PacketTypes[bytes[1] \div 16 + 1], 1, bytes[3], bytes[4], bytes[5],
                         bytes[6], bytes[7], bytes[8], parsed.found, parsed.bytes)

=============================================================================
