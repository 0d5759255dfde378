--------------------- MODULE CongestionControllerProofs ---------------------
(***************************************************************************)
(* The delay measurement for every modulus, every offset of the clocks and *)
(* every number of packets.                                                *)
(***************************************************************************)
EXTENDS CongestionController, TLAPS

\* What update_state measures for a packet that took so long: the offset and the delay, on a
\* clock that wraps.
Measured(delay) ==
  IF offset + delay < TimeModulus THEN offset + delay ELSE offset + delay - TimeModulus

\* The clocks are apart by the offset, and a time stamp from the local clock by the offset and
\* the age of its packet; what is measured is the offset and the time the packet took; the
\* base delay is the least sample.  The properties alone say nothing of packets under way.
ClocksApart == WrappingSub(local_clock, remote_clock) = offset

StampsApart ==
  \A packet \in packets :
    /\ packet.sent <= now /\ now - packet.sent <= MaxDelay
    /\ WrappingSub(local_clock, packet.timestamp_micros) = Measured(now - packet.sent)

SamplesMeasure ==
  /\ Len(local_delay_samples) = Len(delays)
  /\ \A i \in 1 .. Len(delays) : /\ delays[i] <= MaxDelay
                                 /\ local_delay_samples[i] = Measured(delays[i])
                                 /\ local_base_delay <= local_delay_samples[i]
  /\ \/ Len(delays) = 0 /\ local_base_delay = MaxValue
     \/ \E i \in 1 .. Len(delays) : local_base_delay = local_delay_samples[i]

DelayInv == TypeOK /\ ClocksApart /\ StampsApart /\ SamplesMeasure

\* One tick of a wrapping clock is one tick of what is measured with it.
LEMMA TickMeasured ==
  ASSUME NEW a \in Times, NEW b \in Times
  PROVE  WrappingSub(Later(a), b) = Later(WrappingSub(a, b))
BY TimeAssumption DEF Times, WrappingSub, Later

\* A packet that takes one tick longer is measured one tick longer.
LEMMA LongerMeasured ==
  ASSUME offset \in Times, NEW d \in Nat, d < MaxDelay
  PROVE  Measured(d + 1) = Later(Measured(d))
BY TimeAssumption DEF Times, Measured, Later

\* Two clocks that tick together stay apart by the same amount.
LEMMA TickTogether ==
  ASSUME NEW a \in Times, NEW b \in Times
  PROVE  WrappingSub(Later(a), Later(b)) = WrappingSub(a, b)
BY TimeAssumption DEF Times, WrappingSub, Later

\* Differences and ticks stay within the width of the clocks.
LEMMA WithinWidth ==
  ASSUME NEW a \in Times, NEW b \in Times
  PROVE  WrappingSub(a, b) \in Times /\ Later(a) \in Times /\ Lower(a, b) \in Times
BY TimeAssumption DEF Times, WrappingSub, Later, Lower

\* At first the clocks are apart by the offset, and there is no packet and no sample.
LEMMA DelayInvInit == Init => DelayInv
<1> SUFFICES ASSUME Init PROVE DelayInv
  OBVIOUS
<1>1. offset \in Times /\ remote_clock \in Times
  BY TimeAssumption DEF Init, Times
<1>2. local_clock \in Times /\ ClocksApart
  BY <1>1, TimeAssumption DEF Init, Times, ClocksApart, WrappingSub
<1>3. TypeOK
  <2>1. << >> \in Seq(Times) /\ << >> \in Seq(Nat)
    OBVIOUS
  <2> QED BY <1>1, <1>2, <2>1, TimeAssumption DEF Init, TypeOK, Times, MaxValue
<1> QED BY <1>2, <1>3 DEF Init, DelayInv, StampsApart, SamplesMeasure

\* A tick changes neither a sample nor the offset, and makes every packet under way older.
LEMMA TickKeeps == DelayInv /\ Tick => DelayInv'
<1> SUFFICES ASSUME DelayInv, Tick PROVE DelayInv'
  OBVIOUS
<1>1. TypeOK'
  <2>1. local_clock' \in Times /\ remote_clock' \in Times
    BY WithinWidth DEF DelayInv, TypeOK, Tick
  <2>2. now' \in Nat
    BY DEF DelayInv, TypeOK, Tick
  <2> QED BY <2>1, <2>2 DEF DelayInv, TypeOK, Tick, controller
<1>2. ClocksApart'
  BY TickTogether DEF DelayInv, TypeOK, ClocksApart, Tick, WrappingSub
<1>3. StampsApart'
  <2> SUFFICES ASSUME NEW packet \in packets
               PROVE  /\ packet.sent <= now' /\ now' - packet.sent <= MaxDelay
                      /\ WrappingSub(local_clock', packet.timestamp_micros)
                           = Measured(now' - packet.sent)
    BY DEF Tick, StampsApart, WrappingSub, Measured
  <2>1. packet.sent \in Nat /\ packet.timestamp_micros \in Times
    BY DEF DelayInv, TypeOK, Packets
  <2>2. now \in Nat /\ now' = now + 1 /\ packet.sent <= now /\ now - packet.sent < MaxDelay
    BY DEF DelayInv, TypeOK, StampsApart, Tick
  <2>3. WrappingSub(local_clock, packet.timestamp_micros) = Measured(now - packet.sent)
    BY DEF DelayInv, StampsApart
  <2>4. offset \in Times
    BY TimeAssumption DEF DelayInv, TypeOK, Times
  <2>5. now - packet.sent \in Nat /\ now' - packet.sent = (now - packet.sent) + 1
    BY <2>1, <2>2
  <2>6. WrappingSub(local_clock', packet.timestamp_micros)
          = Later(WrappingSub(local_clock, packet.timestamp_micros))
    BY <2>1, TickMeasured DEF DelayInv, TypeOK, Tick
  <2>7. Measured(now' - packet.sent) = Later(Measured(now - packet.sent))
    BY <2>2, <2>4, <2>5, LongerMeasured
  <2>8. packet.sent <= now' /\ now' - packet.sent <= MaxDelay
    BY <2>1, <2>2, TimeAssumption
  <2> QED BY <2>3, <2>6, <2>7, <2>8
<1>4. SamplesMeasure'
  BY DEF DelayInv, SamplesMeasure, Measured, Tick, controller
<1> QED BY <1>1, <1>2, <1>3, <1>4 DEF DelayInv

\* Sending, repeating and losing packets leaves clocks and samples alone; a new packet
\* carries the peer's time, a repeated one what the first one carries.
LEMMA PacketsKeep ==
  ASSUME DelayInv,
         SendPacket \/ (\E packet \in packets : Duplicate(packet) \/ Ignore(packet))
  PROVE  DelayInv'
<1>1. UNCHANGED <<now, offset, local_clock, remote_clock, controller>> /\ sends' \in Nat
  BY DEF DelayInv, TypeOK, SendPacket, Duplicate, Ignore
<1>2. ASSUME NEW packet \in packets', packet \notin packets
      PROVE  /\ packet \in Packets
             /\ packet.sent <= now /\ now - packet.sent <= MaxDelay
             /\ WrappingSub(local_clock, packet.timestamp_micros) = Measured(now - packet.sent)
  <2>1. CASE SendPacket
    <3>1. packet = [timestamp_micros |-> remote_clock, timestamp_delta_micros |-> 0,
                    window_size |-> 0, sent |-> now, copy |-> sends]
      BY <1>2, <2>1 DEF SendPacket
    <3>2. packet \in Packets
      BY <3>1, TimeAssumption DEF DelayInv, TypeOK, Packets, Times
    <3>3. offset \in Times /\ now \in Nat
      BY TimeAssumption DEF DelayInv, TypeOK, Times
    <3>4. now - now = 0 /\ Measured(0) = offset
      BY <3>3, TimeAssumption DEF Measured, Times
    <3> QED BY <3>1, <3>2, <3>3, <3>4, TimeAssumption DEF DelayInv, ClocksApart
  <2>2. CASE \E other \in packets : Duplicate(other) \/ Ignore(other)
    <3>1. PICK other \in packets : Duplicate(other) \/ Ignore(other)
      BY <2>2
    <3>2. packet = [other EXCEPT !.copy = sends]
      BY <1>2, <3>1 DEF Duplicate, Ignore
    <3>3. other \in Packets
      BY DEF DelayInv, TypeOK
    <3>4. packet \in Packets /\ packet.sent = other.sent
          /\ packet.timestamp_micros = other.timestamp_micros
      BY <3>2, <3>3 DEF Packets, DelayInv, TypeOK
    <3> QED BY <3>4 DEF DelayInv, StampsApart
  <2> QED BY <2>1, <2>2
<1>3. TypeOK'
  BY <1>1, <1>2 DEF DelayInv, TypeOK, controller
<1>4. ClocksApart' /\ SamplesMeasure'
  BY <1>1 DEF DelayInv, ClocksApart, SamplesMeasure, Measured, WrappingSub, controller
<1>5. StampsApart'
  BY <1>1, <1>2 DEF DelayInv, StampsApart, Measured, WrappingSub
<1> QED BY <1>3, <1>4, <1>5 DEF DelayInv

\* update_state adds a sample that is the offset and the time the packet took.
LEMMA UpdateKeeps ==
  ASSUME DelayInv, NEW packet \in packets, UpdateState(packet)
  PROVE  DelayInv'
<1> DEFINE d == LocalDelay(packet)
           n == Len(delays)
<1>1. packet \in Packets /\ offset \in Nat /\ now \in Nat
  BY TimeAssumption DEF DelayInv, TypeOK
<1>2. d \in Times /\ d \in Nat
  BY <1>1, WithinWidth DEF DelayInv, TypeOK, LocalDelay, Packets, Times
<1>3. now - packet.sent \in Nat /\ now - packet.sent <= MaxDelay
      /\ d = Measured(now - packet.sent)
  BY <1>1 DEF DelayInv, StampsApart, LocalDelay, Packets
<1>4. /\ local_base_delay' = Lower(local_base_delay, d)
      /\ local_delay_samples' = Append(local_delay_samples, d)
      /\ delays' = Append(delays, now - packet.sent)
      /\ offset' = offset
  BY DEF UpdateState
<1>5. /\ delays \in Seq(Nat) /\ local_delay_samples \in Seq(Times)
      /\ local_base_delay \in Times
      /\ n \in Nat /\ Len(local_delay_samples) = n
  BY DEF DelayInv, TypeOK, SamplesMeasure
<1> HIDE DEF d, n
<1>6. TypeOK'
  <2>1. packet.timestamp_delta_micros \in Times /\ packet.window_size \in Nat
    BY <1>1 DEF Packets
  <2>2. remote_base_delay' \in Times /\ local_base_delay' \in Times
    BY <1>2, <1>4, <2>1, WithinWidth DEF DelayInv, TypeOK, UpdateState
  <2>3. remote_delay_samples' \in Seq(Times)
    BY <2>1 DEF DelayInv, TypeOK, UpdateState
  <2>4. local_delay_samples' \in Seq(Times) /\ delays' \in Seq(Nat)
    BY <1>2, <1>3, <1>4, <1>5
  <2>5. packets' \subseteq Packets /\ remote_receive_window' \in Nat
    BY <2>1 DEF DelayInv, TypeOK, UpdateState
  <2> QED BY <2>2, <2>3, <2>4, <2>5 DEF DelayInv, TypeOK, UpdateState
<1>7. ClocksApart' /\ StampsApart'
  BY DEF DelayInv, ClocksApart, StampsApart, UpdateState, Measured, WrappingSub
<1>8. SamplesMeasure'
  <2>1. Len(delays') = n + 1 /\ Len(local_delay_samples') = n + 1
    BY <1>2, <1>3, <1>4, <1>5 DEF n
  <2>2. ASSUME NEW i \in 1 .. n
        PROVE  delays'[i] = delays[i] /\ local_delay_samples'[i] = local_delay_samples[i]
    BY <1>2, <1>3, <1>4, <1>5 DEF n
  <2>3. delays'[n + 1] = now - packet.sent /\ local_delay_samples'[n + 1] = d
    BY <1>2, <1>3, <1>4, <1>5 DEF n
  <2>4. ASSUME NEW i \in 1 .. n
        PROVE  /\ delays[i] <= MaxDelay /\ local_delay_samples[i] = Measured(delays[i])
               /\ local_base_delay <= local_delay_samples[i]
               /\ local_delay_samples[i] \in Nat
    <3>1. local_delay_samples[i] \in Times
      BY <1>5
    <3>2. /\ delays[i] <= MaxDelay /\ local_delay_samples[i] = Measured(delays[i])
          /\ local_base_delay <= local_delay_samples[i]
      BY DEF DelayInv, SamplesMeasure, n
    <3> QED BY <3>1, <3>2 DEF Times
  <2>5. /\ local_base_delay' \in Nat /\ local_base_delay \in Nat
        /\ local_base_delay' <= d /\ local_base_delay' <= local_base_delay
        /\ local_base_delay' = d \/ local_base_delay' = local_base_delay
    BY <1>2, <1>4, <1>5 DEF Lower, Times
  <2>6. ASSUME NEW i \in 1 .. n + 1
        PROVE  /\ delays'[i] <= MaxDelay /\ local_delay_samples'[i] = Measured(delays'[i])
               /\ local_base_delay' <= local_delay_samples'[i]
    <3>1. CASE i \in 1 .. n
      BY <2>2, <2>4, <2>5, <3>1
    <3>2. CASE i = n + 1
      BY <1>3, <2>3, <2>5, <3>2
    <3> QED BY <1>5, <3>1, <3>2
  <2>7. \E i \in 1 .. n + 1 : local_base_delay' = local_delay_samples'[i]
    <3>1. CASE local_base_delay' = d
      BY <1>5, <2>3, <3>1
    <3>2. CASE \E i \in 1 .. n : local_base_delay = local_delay_samples[i]
      BY <1>5, <2>2, <2>3, <2>5, <3>2
    <3>3. CASE local_base_delay = MaxValue
      <4>1. local_base_delay' = d
        BY <1>2, <1>4, <3>3, TimeAssumption DEF Lower, MaxValue, Times
      <4> QED BY <1>5, <2>3, <4>1
    <3> QED BY <3>2, <3>3 DEF DelayInv, SamplesMeasure, n
  <2> QED BY <1>4, <1>5, <2>1, <2>6, <2>7 DEF SamplesMeasure, Measured
<1> QED BY <1>6, <1>7, <1>8 DEF DelayInv

\* Every step keeps the invariant.
LEMMA DelayInvNext == DelayInv /\ [Next]_vars => DelayInv'
<1> SUFFICES ASSUME DelayInv, [Next]_vars PROVE DelayInv'
  OBVIOUS
<1>1. CASE Tick
  BY <1>1, TickKeeps
<1>2. CASE SendPacket \/ (\E packet \in packets : Duplicate(packet) \/ Ignore(packet))
  BY <1>2, PacketsKeep
<1>3. CASE \E packet \in packets : UpdateState(packet)
  BY <1>3, UpdateKeeps
<1>4. CASE UNCHANGED vars
  <2>1. TypeOK'
    BY <1>4 DEF DelayInv, TypeOK, vars, controller
  <2>2. ClocksApart' /\ StampsApart' /\ SamplesMeasure'
    BY <1>4 DEF DelayInv, ClocksApart, StampsApart, SamplesMeasure, Measured, WrappingSub, vars, controller
  <2> QED BY <2>1, <2>2 DEF DelayInv
<1> QED BY <1>1, <1>2, <1>3, <1>4 DEF Next

\* Of two delays below a whole turn of the clock, what is measured differs by what they do.
LEMMA MeasuredDiffers ==
  ASSUME offset \in Times, NEW c \in Nat, NEW d \in Nat, d <= c, c <= MaxDelay
  PROVE  WrappingSub(Measured(c), Measured(d)) = c - d
BY TimeAssumption DEF Times, Measured, WrappingSub

\* What the invariant says of one sample.
LEMMA SampleFacts ==
  ASSUME DelayInv, NEW i \in DOMAIN delays
  PROVE  /\ offset \in Times /\ i \in 1 .. Len(delays)
         /\ delays[i] \in Nat /\ delays[i] <= MaxDelay
         /\ local_delay_samples[i] = Measured(delays[i])
         /\ local_base_delay <= local_delay_samples[i]
<1>1. DOMAIN delays = 1 .. Len(delays) /\ delays[i] \in Nat
  BY DEF DelayInv, TypeOK
<1>2. offset \in Times
  BY TimeAssumption DEF DelayInv, TypeOK, Times
<1> QED BY <1>1, <1>2 DEF DelayInv, SamplesMeasure

\* The offset is in every sample, and so in no difference of two.
LEMMA DelayInvCompares == DelayInv => SamplesComparable
BY SampleFacts, MeasuredDiffers DEF SamplesComparable

\* On one side of a wrap the least sample is that of the quickest packet.
LEMMA DelayInvMeasures == DelayInv => ExcessDelayMeasured
<1> SUFFICES ASSUME DelayInv, SamplesOnOneSide, NEW i \in DOMAIN delays, NEW j \in DOMAIN delays,
                    \A k \in DOMAIN delays : delays[j] <= delays[k]
             PROVE  local_delay_samples[i] - local_base_delay = delays[i] - delays[j]
  BY DEF ExcessDelayMeasured
<1>1. PICK k \in DOMAIN delays : local_base_delay = local_delay_samples[k]
  BY SampleFacts DEF DelayInv, SamplesMeasure, TypeOK
<1>2. /\ delays[i] \in Nat /\ delays[j] \in Nat /\ delays[k] \in Nat
      /\ offset \in Times /\ delays[j] <= delays[k]
  BY SampleFacts
<1>3. /\ local_delay_samples[i] = Measured(delays[i])
      /\ local_base_delay = Measured(delays[k])
      /\ Measured(delays[k]) <= Measured(delays[j])
  BY <1>1, SampleFacts
<1>4. CASE \A h \in DOMAIN delays : offset + delays[h] < TimeModulus
  BY <1>2, <1>3, <1>4, TimeAssumption DEF Measured, Times
<1>5. CASE \A h \in DOMAIN delays : offset + delays[h] >= TimeModulus
  BY <1>2, <1>3, <1>5, TimeAssumption DEF Measured, Times
<1> QED BY <1>4, <1>5 DEF SamplesOnOneSide

\* Two samples of update_state, subtracted as the clocks are, differ by how much longer the
\* one packet took, for clocks of any width, apart by any offset.
THEOREM SamplesMeasureDelays == Spec => []SamplesComparable
<1>1. Init => DelayInv
  BY DelayInvInit
<1>2. DelayInv /\ [Next]_vars => DelayInv'
  BY DelayInvNext
<1>3. DelayInv => SamplesComparable
  BY DelayInvCompares
<1> QED BY <1>1, <1>2, <1>3, PTL DEF Spec

\* A sample less the base delay of update_state is how much longer a packet took than the
\* quickest one, for clocks of any width and offset, unless the samples straddle a wrap.
THEOREM DelaysMeasured == Spec => []ExcessDelayMeasured
<1>1. Init => DelayInv
  BY DelayInvInit
<1>2. DelayInv /\ [Next]_vars => DelayInv'
  BY DelayInvNext
<1>3. DelayInv => ExcessDelayMeasured
  BY DelayInvMeasures
<1> QED BY <1>1, <1>2, <1>3, PTL DEF Spec

\* Samples and base delays stay within 32 bits.
THEOREM DelaysTyped == Spec => []TypeOK
<1>1. Init => DelayInv
  BY DelayInvInit
<1>2. DelayInv /\ [Next]_vars => DelayInv'
  BY DelayInvNext
<1>3. DelayInv => TypeOK
  BY DEF DelayInv
<1> QED BY <1>1, <1>2, <1>3, PTL DEF Spec

=============================================================================
