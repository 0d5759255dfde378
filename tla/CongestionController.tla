------------------------ MODULE CongestionController ------------------------
(***************************************************************************)
(* The delay measurement of src/src/congestion.rs, with the two clocks it  *)
(* rests on (src/src/time.rs), the packets that carry a time stamp from    *)
(* one machine to the other, and the stream that calls update_state for    *)
(* each packet it takes from its mailbox.                                  *)
(*                                                                         *)
(* One direction of a connection is modelled: packets of the peer, from    *)
(* send_packet there to poll_read_packet here.  The clocks of the two      *)
(* machines differ by an unknown amount and wrap at TimeModulus, 2^32 in   *)
(* the code.                                                               *)
(***************************************************************************)
EXTENDS Integers, Sequences, FiniteSets

CONSTANTS
  TimeModulus,  \* the clocks' modulus
  Offsets,      \* by how much this machine's clock may be ahead of the peer's, modulo TimeModulus
  StartTimes,   \* what the peer's clock may show at first
  MaxDelay,     \* the longest time a packet takes from send_packet to poll_read_packet
  MaxTime,      \* bound: ticks
  MaxPackets    \* bound: packets sent, duplicates included

ASSUME TimeAssumption ==
  /\ TimeModulus \in Nat /\ TimeModulus > 1
  /\ Offsets \subseteq 0 .. TimeModulus - 1
  /\ StartTimes \subseteq 0 .. TimeModulus - 1
  /\ MaxDelay \in Nat /\ MaxTime \in Nat /\ MaxPackets \in Nat
  /\ MaxDelay < TimeModulus

Times == 0 .. TimeModulus - 1

\* u32::MAX, which new gives the base delays.
MaxValue == TimeModulus - 1

VARIABLES
  now,                    \* history: ticks so far
  offset,                 \* by how much the local clock is ahead
  local_clock,            \* what current_micros returns here
  remote_clock,           \* what it returns at the peer
  packets,                \* packets of the peer that are not read yet: on the network, in the
                          \* receive buffer, in the mailbox
  sends,                  \* packets sent so far
  local_base_delay,
  remote_base_delay,
  local_delay_samples,
  remote_delay_samples,
  remote_receive_window,
  delays                  \* history: per sample, the time the packet really took

controller == <<local_base_delay, remote_base_delay, local_delay_samples,
                remote_delay_samples, remote_receive_window, delays>>
vars == <<now, offset, local_clock, remote_clock, packets, sends, controller>>

\* u32::wrapping_sub, and one microsecond more on a clock of 32 bits.
WrappingSub(a, b) == IF a >= b THEN a - b ELSE a - b + TimeModulus
Later(clock) == IF clock + 1 < TimeModulus THEN clock + 1 ELSE 0

\* "sent", the time, and "copy", which tells apart packets of one time, are history.
Packets == [timestamp_micros : Times, timestamp_delta_micros : Times, window_size : Nat,
            sent : Nat, copy : Nat]

TypeOK ==
  /\ now \in Nat /\ sends \in Nat
  /\ offset \in Offsets
  /\ local_clock \in Times /\ remote_clock \in Times
  /\ packets \subseteq Packets
  /\ local_base_delay \in Times /\ remote_base_delay \in Times
  /\ local_delay_samples \in Seq(Times) /\ remote_delay_samples \in Seq(Times)
  /\ remote_receive_window \in Nat
  /\ delays \in Seq(Nat)

Init ==
  /\ now = 0
  /\ offset \in Offsets
  /\ remote_clock \in StartTimes
  /\ local_clock = IF remote_clock + offset < TimeModulus THEN remote_clock + offset
                   ELSE remote_clock + offset - TimeModulus
  /\ packets = {}
  /\ sends = 0
  /\ local_base_delay = MaxValue
  /\ remote_base_delay = MaxValue
  /\ local_delay_samples = << >>
  /\ remote_delay_samples = << >>
  /\ remote_receive_window = 1500
  /\ delays = << >>

\* Time passes on both machines.  No packet is older than MaxDelay.
Tick ==
  /\ now < MaxTime
  /\ \A packet \in packets : now - packet.sent < MaxDelay
  /\ now' = now + 1
  /\ local_clock' = Later(local_clock)
  /\ remote_clock' = Later(remote_clock)
  /\ UNCHANGED <<offset, packets, sends, controller>>

\* send_packet at the peer: the time, and 0 for the two fields that are not filled out.
SendPacket ==
  /\ sends < MaxPackets
  /\ sends' = sends + 1
  /\ packets' = packets \cup {[timestamp_micros |-> remote_clock, timestamp_delta_micros |-> 0,
                               window_size |-> 0, sent |-> now, copy |-> sends]}
  /\ UNCHANGED <<now, offset, local_clock, remote_clock, controller>>

\* The network repeats a packet.
Duplicate(packet) ==
  /\ sends < MaxPackets
  /\ sends' = sends + 1
  /\ packets' = packets \cup {[packet EXCEPT !.copy = sends]}
  /\ UNCHANGED <<now, offset, local_clock, remote_clock, controller>>

\* A packet is lost, or thrown away as suspicious.
Ignore(packet) ==
  /\ packets' = packets \ {packet}
  /\ UNCHANGED <<now, offset, local_clock, remote_clock, sends, controller>>

\* Mutants of LocalDelay: the difference the wrong way round, without wrapping, and with a
\* subtraction that saturates.
LocalDelayBackwards(packet) == WrappingSub(packet.timestamp_micros, local_clock)
LocalDelayPlain(packet) == local_clock - packet.timestamp_micros
LocalDelaySaturating(packet) ==
  IF local_clock >= packet.timestamp_micros THEN local_clock - packet.timestamp_micros ELSE 0

LocalDelay(packet) == WrappingSub(local_clock, packet.timestamp_micros)

Lower(a, b) == IF a <= b THEN a ELSE b

\* poll_read_packet takes the packet from the mailbox and calls update_state.
UpdateState(packet) ==
  LET local_delay  == LocalDelay(packet)
      remote_delay == packet.timestamp_delta_micros
  IN /\ packets' = packets \ {packet}
     /\ local_base_delay' = Lower(local_base_delay, local_delay)
     /\ remote_base_delay' = Lower(remote_base_delay, remote_delay)
     /\ local_delay_samples' = Append(local_delay_samples, local_delay)
     /\ remote_delay_samples' = Append(remote_delay_samples, remote_delay)
     /\ remote_receive_window' = packet.window_size
     /\ delays' = Append(delays, now - packet.sent)
     /\ UNCHANGED <<now, offset, local_clock, remote_clock, sends>>

Next ==
  \/ Tick \/ SendPacket
  \/ \E packet \in packets : Duplicate(packet) \/ Ignore(packet) \/ UpdateState(packet)

Spec == Init /\ [][Next]_vars

-----------------------------------------------------------------------------
(***************************************************************************)
(* Properties.                                                             *)
(***************************************************************************)

\* Two samples, subtracted as the clocks are, differ by how much longer the one packet took
\* than the other: the unknown offset cancels out, though the clocks and the samples of
\* update_state wrap, wherever the clocks stand, whichever is ahead, and though packets
\* overtake one another.
SamplesComparable ==
  \A i, j \in DOMAIN delays :
    delays[j] <= delays[i] =>
      WrappingSub(local_delay_samples[i], local_delay_samples[j]) = delays[i] - delays[j]

\* No sample has wrapped, or all have: the local clock is not behind by an amount between the
\* shortest and the longest time a packet took.
SamplesOnOneSide ==
  \/ \A i \in DOMAIN delays : offset + delays[i] < TimeModulus
  \/ \A i \in DOMAIN delays : offset + delays[i] >= TimeModulus

\* A sample less the base delay is how much longer its packet took than the quickest packet
\* so far, which a congestion controller needs: the minimum that update_state takes without
\* wrapping belongs to the quickest packet, as long as the samples lie on one side of a wrap.
ExcessDelayMeasured ==
  SamplesOnOneSide =>
    \A i, j \in DOMAIN delays :
      (\A k \in DOMAIN delays : delays[j] <= delays[k]) =>
        local_delay_samples[i] - local_base_delay = delays[i] - delays[j]

=============================================================================
