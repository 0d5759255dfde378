-------------------------- MODULE UtpStreamTheorems -------------------------
(***************************************************************************)
(* Theorems about acknowledgement, waiting and the contract with the       *)
(* application that follow from the invariant of UtpStreamProofs, for      *)
(* every value of the constants.                                           *)
(***************************************************************************)
EXTENDS UtpStreamProofs, UtpStreamContract

(***************************************************************************)
(* The comparison that releases acknowledged chunks is on plain u16s.  It  *)
(* is right while the numbers of a connection do not wrap.                 *)
(***************************************************************************)

\* No end's numbers reach the end of the range, whatever accept() draws.
NoWrap ==
  /\ 1 + MaxSegs["initiator"] < SeqModulus
  /\ \A s \in InitialSeqs : s + MaxSegs["acceptor"] < SeqModulus

\* The numbers of the segments of end p are isn[p] plus their index.
NumbersArePlain == \A p \in Ends : isn[p] + MaxSegs[p] < SeqModulus

FlushInv == StreamInv /\ NumbersArePlain /\ FlushedIsReceived

\* FlushedIsReceived, with the assembled segments counted.
LEMMA FlushedCounts ==
  ASSUME TypeOK
  PROVE  FlushedIsReceived <=>
           \A p \in Ends : written[p] - Len(unacked_data[p]) <= AssembledCount(Peer(p))
  BY AssembledType, PeerType, Zenon DEF FlushedIsReceived

\* The same after a step.
LEMMA FlushedCountsNext ==
  ASSUME TypeOK',
         \A p \in Ends : written'[p] - Len(unacked_data'[p]) <= AssembledCount(Peer(p))'
  PROVE  FlushedIsReceived'
<1> SUFFICES ASSUME NEW p \in Ends
             PROVE  written'[p] - Len(unacked_data'[p])
                      <= Len(delivered'[Peer(p)] \o received_data'[Peer(p)])
  BY Zenon DEF FlushedIsReceived, Assembled
<1>1. delivered'[Peer(p)] \in Seq(Nat) /\ received_data'[Peer(p)] \in Seq(Nat)
  BY PeerType, Zenon DEF TypeOK
<1>2. Len(delivered'[Peer(p)] \o received_data'[Peer(p)])
        = Len(delivered'[Peer(p)]) + Len(received_data'[Peer(p)])
  BY <1>1, ConcatProperties, Zenon
<1> QED BY <1>2, Zenon DEF AssembledCount

\* The invariant holds when the handshake is done: nothing is written.
LEMMA FlushInvInit == ASSUME NoWrap, Init PROVE FlushInv
<1>1. StreamInv
  BY StreamInvInit, Zenon
<1>2. NumbersArePlain
  BY StreamAssumption, Zenon DEF NumbersArePlain, NoWrap, Init, Ends
<1>3. FlushedIsReceived
  <2>1. \A p \in Ends : written[p] - Len(unacked_data[p]) = 0
    BY DEF Init
  <2>2. \A p \in Ends : AssembledCount(Peer(p)) \in Nat
    BY <1>1, AssembledType, PeerType, Zenon DEF StreamInv
  <2> QED BY <1>1, <2>1, <2>2, FlushedCounts DEF StreamInv
<1> QED BY <1>1, <1>2, <1>3, Zenon DEF FlushInv

\* What handle_packet releases on an ACK, the sender of the ACK has assembled.
LEMMA ReleasedIsAssembled ==
  ASSUME FlushInv, NEW p \in Ends, NEW packet, Genuine(p, packet), HandleState(p, packet)
  PROVE  /\ \A q \in Ends : q # p => unacked_data'[q] = unacked_data[q]
         /\ written[p] - Len(unacked_data'[p]) <= AssembledCount(Peer(p))
<1> DEFINE u == unacked_data[p]
           l == Len(u)
           w == written[p]
           c == AssembledCount(Peer(p))
           a == isn[p]
<1>1. TypeOK /\ StreamInv
  BY Zenon DEF FlushInv, StreamInv
<1>2. PICK k \in 0 .. l :
        /\ \A i \in 1 .. k : u[i].seq <= packet.ack
        /\ unacked_data' = [unacked_data EXCEPT ![p] = SubSeq(u, k + 1, l)]
  BY Zenon DEF HandleState, IsAcked
<1>3. PICK j \in 0 .. c : packet.ack = WrappingAdd(a, j)
  BY Zenon DEF HandleState, Genuine, SegmentSeq
<1>4. /\ a \in Nat /\ w \in Nat /\ a + w < SeqModulus /\ c \in Nat /\ c <= w
  <2>1. /\ a \in Nat /\ w \in Nat /\ c \in Nat /\ c <= w
    BY <1>1, RoundBounds DEF SeqNumbers
  <2>2. MaxSegs[p] \in Nat /\ w <= MaxSegs[p] /\ a + MaxSegs[p] < SeqModulus
    BY <1>1, StreamAssumption, Zenon DEF TypeOK, FlushInv, NumbersArePlain
  <2> HIDE DEF a, w, c
  <2> QED BY <2>1, <2>2, ModulusAssumption
<1>5. w - l <= c
  BY <1>1, FlushedCounts, Zenon DEF FlushInv
<1>6. /\ l <= w
      /\ \A i \in 1 .. l : u[i].seq = WrappingAdd(a, w - l + i)
  BY <1>1, Zenon DEF StreamInv, NumbersMatchSegments, UnackedIsSuffix, SegmentSeq
<1>7. u \in Seq([seq : SeqNumbers, data : Nat])
  BY <1>1, Zenon DEF TypeOK
<1>8. unacked_data'[p] = SubSeq(u, k + 1, l)
  BY <1>1, <1>2, Zenon DEF TypeOK
<1>9. \A q \in Ends : q # p => unacked_data'[q] = unacked_data[q]
  BY <1>1, <1>2, Zenon DEF TypeOK
<1> HIDE DEF u, w, c, a
<1>10. l \in Nat
  BY <1>7, LenProperties, Zenon
<1>11. Len(unacked_data'[p]) = l - k
  BY <1>7, <1>8, <1>10, SuffixOfSeq, Zenon
<1> HIDE DEF l
<1>12. CASE k = 0
  BY <1>5, <1>9, <1>10, <1>11, <1>12 DEF w, c
<1>13. CASE k # 0
  <2>1. k \in 1 .. k /\ k \in 1 .. l
    BY <1>10, <1>13
  <2>2. WrappingAdd(a, w - l + k) <= WrappingAdd(a, j)
    BY <1>2, <1>3, <1>6, <2>1, Zenon
  <2>3. WrappingAdd(a, w - l + k) = a + (w - l + k) /\ WrappingAdd(a, j) = a + j
    BY <1>3, <1>4, <1>6, <1>10, <2>1, ModulusAssumption DEF WrappingAdd
  <2>4. w - (l - k) <= c
    BY <1>3, <1>4, <1>6, <1>10, <2>1, <2>2, <2>3
  <2> QED BY <1>9, <1>11, <2>4, Zenon DEF w, c
<1> QED BY <1>12, <1>13, Zenon

\* The number before an end's first chunk is history: no step changes it.
LEMMA IsnConstant == ASSUME [Next]_vars PROVE isn' = isn
<1>1. CASE UNCHANGED vars
  BY <1>1, Zenon DEF vars, histVars
<1>2. ASSUME NEW p \in Ends, NEW h \in Halves, StartCall(p, h) PROVE isn' = isn
  BY <1>2, Zenon DEF StartCall, histVars
<1>3. ASSUME NEW p \in Ends, NEW n \in WriteSizes, PollWrite(p, n) PROVE isn' = isn
  BY <1>3, Zenon DEF PollWrite
<1>4. ASSUME NEW p \in Ends, PollShutdown(p) PROVE isn' = isn
  BY <1>4, Zenon DEF PollShutdown, histVars
<1>5. ASSUME NEW p \in Ends, NEW h \in Halves, BeginPoll(p, h) PROVE isn' = isn
  BY <1>5, Zenon DEF BeginPoll, histVars
<1>6. ASSUME NEW p \in Ends, NEW h \in Halves, SpuriousWake(p, h) PROVE isn' = isn
  BY <1>6, Zenon DEF SpuriousWake, histVars
<1>7. ASSUME NEW p \in Ends, ReadPacket(p) PROVE isn' = isn
  BY <1>7, Zenon DEF ReadPacket, histVars
<1>8. ASSUME NEW p \in Ends, FinishSomeRead(p) PROVE isn' = isn
  BY <1>8, Zenon DEF FinishSomeRead, FinishRead
<1>9. ASSUME NEW p \in Ends, FinishFlush(p) PROVE isn' = isn
  BY <1>9, Zenon DEF FinishFlush, histVars
<1>10. ASSUME NEW p \in Ends, DeliverSome(p) PROVE isn' = isn
  BY <1>10, Zenon DEF DeliverSome, Deliver, histVars
<1>11. ASSUME NEW p \in Ends, NEW i \in Arriving(p), Duplicate(p, i) PROVE isn' = isn
  BY <1>11, Zenon DEF Duplicate, histVars
<1>12. ASSUME NEW p \in Ends, NEW i \in Arriving(p), Lose(p, i) PROVE isn' = isn
  BY <1>12, Zenon DEF Lose, histVars
<1> QED
  BY <1>1, <1>2, <1>3, <1>4, <1>5, <1>6, <1>7, <1>8, <1>9, <1>10, <1>11, <1>12, Zenon DEF Next

\* poll_write releases nothing: it adds as many chunks to unacked_data as it counts.
LEMMA WriteReleasesNone ==
  ASSUME TypeOK, NEW p \in Ends, NEW n \in WriteSizes, PollWrite(p, n)
  PROVE  \A q \in Ends :
           written'[q] - Len(unacked_data'[q]) = written[q] - Len(unacked_data[q])
<1>1. /\ n \in Nat
      /\ written'[p] = written[p] + n
      /\ unacked_data'[p] = unacked_data[p] \o Chunks(p, n)
      /\ \A q \in Ends : q # p => written'[q] = written[q] /\ unacked_data'[q] = unacked_data[q]
  BY StreamAssumption, Zenon DEF PollWrite, TypeOK
<1>2. /\ Chunks(p, n) \in Seq([seq : SeqNumbers, data : Nat])
      /\ Len(Chunks(p, n)) = n
  BY ChunksType, Zenon DEF PollWrite
<1>3. written[p] \in Nat /\ unacked_data[p] \in Seq([seq : SeqNumbers, data : Nat])
  BY Zenon DEF TypeOK
<1>4. Len(unacked_data[p]) \in Nat
  BY <1>3, LenProperties, Zenon
<1>5. Len(unacked_data'[p]) = Len(unacked_data[p]) + n
  <2> DEFINE S == [seq : SeqNumbers, data : Nat]
  <2>1. unacked_data[p] \in Seq(S) /\ Chunks(p, n) \in Seq(S)
    BY <1>2, <1>3, Zenon
  <2> HIDE DEF S
  <2>2. Len(unacked_data[p] \o Chunks(p, n)) = Len(unacked_data[p]) + Len(Chunks(p, n))
    BY <2>1, ConcatProperties, Zenon
  <2> QED BY <1>1, <1>2, <2>2, Zenon
<1> TAKE q \in Ends
<1>6. CASE q = p
  <2> DEFINE l  == Len(unacked_data[p])
             l2 == Len(unacked_data'[p])
             w2 == written'[p]
  <2>1. l \in Nat /\ l2 = l + n /\ w2 = written[p] + n
    BY <1>1, <1>4, <1>5, Zenon
  <2> HIDE DEF l, l2, w2
  <2>2. w2 - l2 = written[p] - l
    BY <1>1, <1>3, <2>1
  <2> QED BY <1>6, <2>2, Zenon DEF l, l2, w2
<1>7. CASE q # p
  BY <1>1, <1>7, Zenon
<1> QED BY <1>6, <1>7, Zenon

\* Every step keeps it.
LEMMA FlushInvNext == ASSUME FlushInv, [Next]_vars PROVE FlushInv'
<1>1. StreamInv /\ StreamInv' /\ TypeOK /\ TypeOK'
  BY StreamInvNext, Zenon DEF FlushInv, StreamInv
<1>2. isn' = isn
  BY IsnConstant, Zenon
<1>3. NumbersArePlain'
  BY <1>2, Zenon DEF FlushInv, NumbersArePlain
<1>4. \A p \in Ends : /\ written[p] - Len(unacked_data[p]) <= AssembledCount(Peer(p))
                      /\ written[p] \in Nat /\ Len(unacked_data[p]) \in Nat
                      /\ AssembledCount(Peer(p)) \in Nat
  BY <1>1, FlushedCounts, AssembledType, PeerType, LenProperties, Zenon DEF FlushInv, TypeOK
<1>5. ASSUME UNCHANGED <<written, unacked_data, delivered, received_data>>
      PROVE  FlushedIsReceived'
  BY <1>1, <1>4, <1>5, FlushedCountsNext, Zenon DEF AssembledCount
<1>6. ASSUME NEW p \in Ends, NEW n \in WriteSizes, PollWrite(p, n) PROVE FlushedIsReceived'
  <2>1. \A q \in Ends : AssembledCount(q)' = AssembledCount(q)
    BY <1>6, Zenon DEF PollWrite, AssembledCount
  <2>2. \A q \in Ends : written'[q] - Len(unacked_data'[q]) = written[q] - Len(unacked_data[q])
    BY <1>1, <1>6, WriteReleasesNone, Zenon
  <2> QED BY <1>1, <1>4, <2>1, <2>2, FlushedCountsNext, PeerType, Zenon
<1>7. ASSUME NEW p \in Ends, ReadPacket(p) PROVE FlushedIsReceived'
  <2> DEFINE packet == Head(inbound_packets[p])
  <2>1. UNCHANGED <<written, delivered, received_data>>
    BY <1>7, Zenon DEF ReadPacket, histVars
  <2>2. CASE unacked_data' = unacked_data
    BY <1>5, <2>1, <2>2, Zenon
  <2>3. CASE HandleState(p, packet)
    <3>1. Genuine(p, packet)
      <4> DEFINE box == inbound_packets[p]
      <4>1. box \in Seq(Packets) /\ box # << >>
        BY <1>1, <1>7, Zenon DEF TypeOK, ReadPacket
      <4>2. \A i \in 1 .. Len(box) : Genuine(p, box[i])
        BY <1>1, Zenon DEF StreamInv, NumbersMatchSegments, PacketsGenuine
      <4> HIDE DEF box
      <4>3. Len(box) \in Nat \ {0}
        BY <4>1, EmptySeq, LenProperties, Zenon
      <4>4. 1 \in 1 .. Len(box) /\ Head(box) = box[1]
        BY <4>1, <4>3
      <4> QED BY <4>2, <4>4, Zenon DEF box
    <3> HIDE DEF packet
    <3>2. /\ \A q \in Ends : q # p => unacked_data'[q] = unacked_data[q]
          /\ written[p] - Len(unacked_data'[p]) <= AssembledCount(Peer(p))
      BY <2>3, <3>1, ReleasedIsAssembled, Zenon
    <3>3. \A q \in Ends : AssembledCount(Peer(q))' = AssembledCount(Peer(q))
      BY <2>1, Zenon DEF AssembledCount
    <3> QED BY <1>1, <1>4, <2>1, <3>2, <3>3, FlushedCountsNext, Zenon
  <2> QED BY <1>7, <2>2, <2>3, Zenon DEF ReadPacket, HandleData
<1>8. ASSUME NEW p \in Ends, FinishSomeRead(p) PROVE FlushedIsReceived'
  <2>1. UNCHANGED <<written, unacked_data>>
    BY <1>8, Zenon DEF FinishSomeRead, FinishRead
  <2>2. PICK n \in 0 .. Cardinality(DOMAIN inbound_data[p]), room \in ReadSizes :
          FinishRead(p, n, room)
    BY <1>8, Zenon DEF FinishSomeRead
  <2>3. \A q \in Ends : AssembledCount(q) <= AssembledCount(q)'
    BY <1>1, <2>2, ReadAssembles, Zenon
  <2>4. \A q \in Ends : AssembledCount(q)' \in Nat
    <3> TAKE q \in Ends
    <3>1. Len(delivered'[q]) \in Nat /\ Len(received_data'[q]) \in Nat
      BY <1>1, LenProperties, Zenon DEF TypeOK
    <3> QED BY <3>1, NatSum, Zenon DEF AssembledCount
  <2>5. \A q \in Ends : written'[q] - Len(unacked_data'[q]) <= AssembledCount(Peer(q))'
    BY <1>4, <2>1, <2>3, <2>4, PeerType
  <2> QED BY <1>1, <2>5, FlushedCountsNext, Zenon
<1>9. FlushedIsReceived'
  <2>1. CASE UNCHANGED vars
    BY <1>5, <2>1, Zenon DEF vars, streamVars, histVars
  <2>2. ASSUME NEW p \in Ends, NEW h \in Halves,
               StartCall(p, h) \/ BeginPoll(p, h) \/ SpuriousWake(p, h)
        PROVE  FlushedIsReceived'
    BY <1>5, <2>2, Zenon DEF StartCall, BeginPoll, SpuriousWake, streamVars, histVars
  <2>3. ASSUME NEW p \in Ends, PollShutdown(p) \/ FinishFlush(p) PROVE FlushedIsReceived'
    BY <1>5, <2>3, Zenon DEF PollShutdown, FinishFlush, streamVars, histVars
  <2>4. ASSUME NEW p \in Ends, NEW i \in Arriving(p),
               Deliver(p, i) \/ Duplicate(p, i) \/ Lose(p, i)
        PROVE  FlushedIsReceived'
    BY <1>5, <2>4, Zenon DEF Deliver, Duplicate, Lose, streamVars, histVars
  <2> QED BY <1>6, <1>7, <1>8, <2>1, <2>2, <2>3, <2>4, Zenon DEF Next, DeliverSome
<1> QED BY <1>1, <1>3, <1>9, Zenon DEF FlushInv

\* As long as no end's numbers wrap, everything that handle_packet has released, and so
\* everything written before a flush that returned, was assembled by the peer.
THEOREM FlushedCorrect == ASSUME NoWrap PROVE Spec => []FlushedIsReceived
<1>1. Init => FlushInv
  BY FlushInvInit, Zenon
<1>2. FlushInv /\ [Next]_vars => FlushInv'
  BY FlushInvNext, Zenon
<1>3. FlushInv => FlushedIsReceived
  BY Zenon DEF FlushInv
<1> QED
  BY <1>1, <1>2, <1>3, PTL DEF Spec

\* An ACK of a chunk that is still unreleased lies in the window of is_suspicious,
\* whatever was written and released since the peer sent it, wrapped or not.
THEOREM FreshAckAccepted == Spec => []FreshAckNotSuspicious
<1>1. ASSUME StreamInv PROVE FreshAckNotSuspicious
  <2> SUFFICES ASSUME NEW p \in Ends, NEW j \in DOMAIN unacked_data[p]
               PROVE  ~ IsSuspiciousState(seq_number[p], Len(unacked_data[p]), unacked_data[p][j].seq)
    BY Zenon DEF FreshAckNotSuspicious, IsSuspicious
  <2> DEFINE u == unacked_data[p]
             l == Len(u)
             w == written[p]
             a == isn[p]
             m == w - l + j
  <2>1. u \in Seq([seq : SeqNumbers, data : Nat])
    BY <1>1, Zenon DEF StreamInv, TypeOK
  <2>2. l \in Nat /\ j \in 1 .. l
    BY <2>1, LenProperties, Zenon
  <2>3. l <= w /\ \A i \in 1 .. l : u[i].seq = WrappingAdd(a, w - l + i)
    BY <1>1, Zenon DEF StreamInv, NumbersMatchSegments, UnackedIsSuffix, SegmentSeq
  <2>4. seq_number[p] = WrappingAdd(a, w + 1)
    BY <1>1, Zenon DEF StreamInv, NumbersMatchSegments, CountersMatch, SegmentSeq
  <2>5. a \in SeqNumbers /\ w \in Nat /\ w + 1 <= SeqModulus
    BY <1>1, RoundBounds, Zenon
  <2> HIDE DEF u, w, a, l
  <2>6. /\ m \in 0 .. SeqModulus /\ w + 1 \in 0 .. SeqModulus /\ m <= w + 1
        /\ w + 1 - m = l - j + 1 /\ l - j + 1 \in 1 .. SeqModulus - 1 /\ l - j + 1 <= l
        /\ m >= 1
    BY <2>2, <2>3, <2>5, ModulusAssumption
  <2>7. u[j].seq = WrappingAdd(a, m)
    BY <2>2, <2>3, Zenon
  <2> HIDE DEF m
  <2>8. WrappingSub(WrappingAdd(a, w + 1), WrappingAdd(a, m)) = l - j + 1
    BY <2>5, <2>6, WrappingSubAdd, ModulusAssumption
  <2>9. l - j + 1 # 0 /\ ~ (l - j + 1 > l + Leeway)
    BY <2>2, <2>6, StreamAssumption
  <2> QED BY <2>4, <2>7, <2>8, <2>9, Zenon DEF IsSuspiciousState, u, l
<1> QED
  BY <1>1, StreamInvInit, StreamInvNext, PTL DEF Spec

\* Data that is at most AcceptableDistance segments ahead of what was assembled is never
\* ignored, because every packet carries the number of its segment.
LEMMA WindowedData == ASSUME StreamInv PROVE WindowedDataNotSuspicious
<1> SUFFICES ASSUME NEW p \in Ends, inbound_packets[p] # << >>,
                    written[Peer(p)] - Len(Assembled(p)) <= AcceptableDistance,
                    Head(inbound_packets[p]).type = "Data",
                    Head(inbound_packets[p]).data > Len(Assembled(p))
             PROVE  ~ IsSuspicious(p, Head(inbound_packets[p]))
  BY Zenon DEF WindowedDataNotSuspicious, NextDataAccepted
<1> DEFINE packet == Head(inbound_packets[p])
           m == packet.data
           c == AssembledCount(p)
           w == written[Peer(p)]
           a == isn[Peer(p)]
<1>1. Genuine(p, packet)
  <2> DEFINE box == inbound_packets[p]
  <2>1. box \in Seq(Packets) /\ box # << >>
    BY Zenon DEF TypeOK, StreamInv
  <2>2. \A i \in 1 .. Len(box) : Genuine(p, box[i])
    BY Zenon DEF StreamInv, NumbersMatchSegments, PacketsGenuine
  <2> HIDE DEF box
  <2>3. Len(box) \in Nat \ {0}
    BY <2>1, EmptySeq, LenProperties, Zenon
  <2>4. 1 \in 1 .. Len(box) /\ Head(box) = box[1]
    BY <2>1, <2>3
  <2> QED BY <2>2, <2>4, Zenon DEF box
<1>2. m \in 1 .. w /\ packet.seq = WrappingAdd(a, m)
  BY <1>1, Zenon DEF Genuine, SegmentSeq
<1>3. m > c /\ w - c <= AcceptableDistance
  BY AssembledType, Zenon DEF StreamInv
<1>4. a \in SeqNumbers /\ w \in Nat /\ w + 1 <= SeqModulus /\ c \in Nat
  BY PeerType, RoundBounds, Zenon
<1>5. ack_number[p] = WrappingAdd(a, c)
  BY Zenon DEF StreamInv, NumbersMatchSegments, CountersMatch, SegmentSeq
<1>6. AcceptableDistance \in Nat
  BY StreamAssumption, Zenon
<1>7. packet.type = "Data"
  BY Zenon
<1> HIDE DEF packet, m, c, w, a
<1>8. /\ c \in 0 .. SeqModulus /\ m \in 0 .. SeqModulus /\ c <= m /\ m - c < SeqModulus
      /\ m - c <= AcceptableDistance
  <2>1. m \in Nat /\ m <= w /\ c < m
    BY <1>2, <1>3, <1>4
  <2>2. SeqModulus \in Nat
    BY ModulusAssumption, Zenon
  <2> QED BY <1>3, <1>4, <1>6, <2>1, <2>2
<1>9. WrappingSub(WrappingAdd(a, m), WrappingAdd(a, c)) = m - c
  BY <1>4, <1>8, WrappingSubAdd, Zenon
<1>10. ~ IsSuspiciousData(ack_number[p], packet.seq)
  BY <1>2, <1>4, <1>5, <1>8, <1>9, <1>6 DEF IsSuspiciousData
<1> QED BY <1>7, <1>10, Zenon DEF IsSuspicious, packet

\* is_suspicious lets all data through while a writer is at most AcceptableDistance segments
\* ahead of what its peer has assembled, wherever the numbers wrap.
THEOREM WindowedDataAccepted == Spec => []WindowedDataNotSuspicious
  BY WindowedData, StreamInvInit, StreamInvNext, PTL DEF Spec

\* What this gives the application: while numbers do not wrap, a writer that never has more
\* than AcceptableDistance chunks unreleased - one that flushes so often - has none of them
\* ignored, however much it writes in all, because poll_flush waits for assembled chunks only.
THEOREM FlushingWriterHeard ==
  ASSUME NoWrap
  PROVE  Spec => [](\A p \in Ends :
           Len(unacked_data[Peer(p)]) <= AcceptableDistance => NextDataAccepted(p))
<1> DEFINE Heard == \A p \in Ends :
             Len(unacked_data[Peer(p)]) <= AcceptableDistance => NextDataAccepted(p)
<1>1. ASSUME FlushInv PROVE Heard
  <2> SUFFICES ASSUME NEW p \in Ends, Len(unacked_data[Peer(p)]) <= AcceptableDistance
               PROVE  NextDataAccepted(p)
    BY Zenon
  <2> DEFINE u == Len(unacked_data[Peer(p)])
             w == written[Peer(p)]
             a == Len(Assembled(p))
  <2>1. Peer(p) \in Ends /\ Peer(Peer(p)) = p
    BY PeerType, Zenon
  <2>2. w - u <= a
    BY <1>1, <2>1, Zenon DEF FlushInv, FlushedIsReceived
  <2>3. w \in Nat /\ a \in Nat
    BY <1>1, <2>1, AssembledType, Zenon DEF FlushInv, StreamInv, TypeOK
  <2>4. unacked_data[Peer(p)] \in Seq([seq : SeqNumbers, data : Nat])
    BY <1>1, <2>1, Zenon DEF FlushInv, StreamInv, TypeOK
  <2>5. u \in Nat
    BY <2>4, LenProperties, Zenon
  <2>6. u <= AcceptableDistance /\ AcceptableDistance \in Nat
    BY StreamAssumption, Zenon
  <2> HIDE DEF u, w, a
  <2>7. w - a <= AcceptableDistance
    BY <2>2, <2>3, <2>5, <2>6
  <2> QED BY <1>1, <2>7, WindowedData, Zenon
            DEF FlushInv, WindowedDataNotSuspicious, w, a
<1> HIDE DEF Heard
<1>2. Spec => []Heard
  BY <1>1, FlushInvInit, FlushInvNext, PTL DEF Spec
<1> QED BY <1>2 DEF Heard

-----------------------------------------------------------------------------
(***************************************************************************)
(* Waiting.  With one task per stream (no Split) no wake-up is lost.       *)
(***************************************************************************)

\* At end p at most one call is under way, the poll that runs is that call's, and if the
\* call waits, it waits for good reason.
WaitsRightly(p) ==
  /\ \A g, h \in Halves : call[p][g] # "idle" /\ call[p][h] # "idle" => g = h
  /\ polling[p] # "none" => call[p][polling[p]] = "runnable"
  /\ \A h \in Halves : call[p][h] = "parked" =>
       /\ inbound_packets[p] = << >>
       /\ waker[p] # "none"
       /\ h = "read" => /\ received_data[p] = << >>
                        /\ WrappingAdd(ack_number[p], 1) \notin DOMAIN inbound_data[p]
       /\ h = "flush" => unacked_data[p] # << >>

WaitInv == TypeOK /\ \A p \in Ends : WaitsRightly(p)

\* What an end's waiting depends on.
waitVars(p) == <<call[p], polling[p], waker[p], inbound_packets[p], received_data[p],
                 ack_number[p], inbound_data[p], unacked_data[p]>>

\* A step of the other end changes nothing of it.
LEMMA WaitsOn ==
  ASSUME NEW p \in Ends, WaitsRightly(p), UNCHANGED waitVars(p)
  PROVE  WaitsRightly(p)'
BY Zenon DEF WaitsRightly, waitVars

\* After a step that leaves no call waiting only the first two parts matter.
LEMMA NobodyWaits ==
  ASSUME NEW p \in Ends,
         \A g, h \in Halves : call'[p][g] # "idle" /\ call'[p][h] # "idle" => g = h,
         polling'[p] # "none" => call'[p][polling'[p]] = "runnable",
         \A h \in Halves : call'[p][h] # "parked"
  PROVE  WaitsRightly(p)'
BY Zenon DEF WaitsRightly

\* The application's and the executor's steps, outside of a poll.
LEMMA WaitCalls ==
  ASSUME ~ Split, WaitInv, NEW p \in Ends, NEW h \in Halves,
         StartCall(p, h) \/ BeginPoll(p, h) \/ SpuriousWake(p, h)
  PROVE  WaitsRightly(p)'
<1>1. /\ WaitsRightly(p)
      /\ call \in [Ends -> [Halves -> {"idle", "runnable", "parked"}]]
      /\ polling \in [Ends -> Halves \cup {"none"}]
  BY Zenon DEF WaitInv, TypeOK
<1>2. CASE StartCall(p, h)
  <2>1. /\ \A g \in Halves : call[p][g] = "idle"
        /\ call' = [call EXCEPT ![p][h] = "runnable"] /\ polling' = polling
    BY <1>2, Zenon DEF StartCall, TaskFree
  <2>2. polling[p] = "none"
    BY <1>1, <2>1, Zenon DEF WaitsRightly
  <2>3. \A g \in Halves : call'[p][g] = IF g = h THEN "runnable" ELSE "idle"
    BY <1>1, <2>1, Zenon
  <2> QED BY <2>1, <2>2, <2>3, NobodyWaits
<1>3. CASE BeginPoll(p, h)
  <2>1. call[p][h] = "runnable" /\ call' = call /\ polling'[p] = h
    BY <1>1, <1>3, Zenon DEF BeginPoll
  <2>2. \A g \in Halves : call[p][g] # "parked"
    BY <1>1, <2>1, Zenon DEF WaitsRightly
  <2>3. \A f, g \in Halves : call[p][f] # "idle" /\ call[p][g] # "idle" => f = g
    BY <1>1, Zenon DEF WaitsRightly
  <2> QED BY <2>1, <2>2, <2>3, NobodyWaits, Zenon
<1>4. CASE SpuriousWake(p, h)
  <2>1. /\ call[p][h] = "parked" /\ polling' = polling
        /\ call' = [call EXCEPT ![p][h] = "runnable"]
    BY <1>4, Zenon DEF SpuriousWake
  <2>2. polling[p] = "none" /\ \A g \in Halves : g # h => call[p][g] = "idle"
    BY <1>1, <2>1, Zenon DEF WaitsRightly
  <2>3. \A g \in Halves : call'[p][g] = IF g = h THEN "runnable" ELSE "idle"
    BY <1>1, <2>1, <2>2, Zenon
  <2> QED BY <2>1, <2>2, <2>3, NobodyWaits
<1> QED BY <1>2, <1>3, <1>4, Zenon

\* A poll that ends leaves its call waiting only when the mailbox is empty and has its waker.
LEMMA WaitEndPoll ==
  ASSUME WaitInv, NEW p \in Ends, NEW h \in Halves, NEW end \in {"idle", "parked"},
         EndPoll(p, h, end)
  PROVE  /\ \A g \in Halves : g # h => call'[p][g] = "idle"
         /\ polling'[p] = "none"
         /\ call'[p][h] = "parked" =>
              end = "parked" /\ inbound_packets[p] = << >> /\ waker'[p] = h
<1>1. /\ WaitsRightly(p) /\ polling[p] = h
      /\ call \in [Ends -> [Halves -> {"idle", "runnable", "parked"}]]
      /\ polling \in [Ends -> Halves \cup {"none"}] /\ waker \in [Ends -> Halves \cup {"none"}]
  BY Zenon DEF WaitInv, TypeOK, EndPoll
<1>2. h # "none"
  BY Zenon DEF Halves
<1>3. \A g \in Halves : g # h => call[p][g] = "idle"
  BY <1>1, <1>2, Zenon DEF WaitsRightly
<1>4. polling'[p] = "none"
  BY <1>1, Zenon DEF EndPoll
<1>5. \/ /\ inbound_packets[p] = << >> /\ waker' = [waker EXCEPT ![p] = h]
         /\ call' = [call EXCEPT ![p][h] = end]
      \/ call' = [call EXCEPT ![p][h] = IF end = "parked" THEN "runnable" ELSE end]
  BY Zenon DEF EndPoll
<1> QED BY <1>1, <1>3, <1>4, <1>5

\* The steps of a poll.
LEMMA WaitPolls ==
  ASSUME WaitInv, NEW p \in Ends, ReadPacket(p) \/ FinishSomeRead(p) \/ FinishFlush(p)
  PROVE  WaitsRightly(p)'
<1>1. TypeOK /\ WaitsRightly(p)
  BY Zenon DEF WaitInv
<1>2. CASE ReadPacket(p)
  <2>1. polling[p] # "none" /\ call' = call /\ polling' = polling
    BY <1>2, Zenon DEF ReadPacket, taskVars
  <2>2. polling[p] \in Halves /\ call[p][polling[p]] = "runnable"
    <3>1. polling[p] \in Halves
      BY <1>1, <2>1, Zenon DEF TypeOK
    <3>2. call[p][polling[p]] = "runnable"
      BY <1>1, <2>1, Zenon DEF WaitsRightly
    <3> QED BY <3>1, <3>2, Zenon
  <2>3. \A g, h \in Halves : call[p][g] # "idle" /\ call[p][h] # "idle" => g = h
    BY <1>1, Zenon DEF WaitsRightly
  <2>4. \A g \in Halves : call[p][g] # "parked"
    BY <2>2, <2>3, Zenon
  <2> QED BY <2>1, <2>2, <2>3, <2>4, NobodyWaits, Zenon
<1>3. CASE FinishSomeRead(p)
  <2>1. PICK n \in 0 .. Cardinality(DOMAIN inbound_data[p]), room \in ReadSizes :
          FinishRead(p, n, room)
    BY <1>3, Zenon DEF FinishSomeRead
  <2> DEFINE run == WithRun(p, n)
             end == IF run = << >> THEN "parked" ELSE "idle"
  <2>2. /\ RunLength(p, n) /\ EndPoll(p, "read", end) /\ inbound_packets' = inbound_packets
        /\ inbound_data' = [inbound_data EXCEPT ![p] = Removed(@, RunKeys(p, n))]
        /\ ack_number' = [ack_number EXCEPT ![p] = WrappingAdd(ack_number[p], n)]
        /\ received_data' = [received_data EXCEPT ![p] =
                               SubSeq(run, Smaller(Len(run), room) + 1, Len(run))]
    BY <2>1, Zenon DEF FinishRead
  <2>3. /\ run \in Seq(Nat) /\ Len(run) = Len(received_data[p]) + n
        /\ Len(received_data[p]) \in Nat /\ n \in Nat
    <3>1. run \in Seq(Nat) /\ Len(run) = Len(received_data[p]) + n
      BY <1>1, <2>2, RunType, Zenon
    <3>2. received_data[p] \in Seq(Nat)
      BY <1>1, Zenon DEF TypeOK
    <3>3. Len(received_data[p]) \in Nat
      BY <3>2, LenProperties, Zenon
    <3>4. n \in Nat
      BY <2>1
    <3> QED BY <3>1, <3>3, <3>4, Zenon
  <2> HIDE DEF run
  <2>4. /\ \A g \in Halves : g # "read" => call'[p][g] = "idle"
        /\ polling'[p] = "none"
        /\ call'[p]["read"] = "parked" =>
             end = "parked" /\ inbound_packets[p] = << >> /\ waker'[p] = "read"
    BY <2>2, WaitEndPoll, Zenon DEF Halves
  <2>5. ASSUME run = << >>
        PROVE  /\ received_data'[p] = << >>
               /\ WrappingAdd(ack_number'[p], 1) \notin DOMAIN inbound_data'[p]
    <3>1. n = 0 /\ Len(run) = 0
      BY <2>3, <2>5
    <3>2. ack_number[p] \in SeqNumbers /\ DOMAIN inbound_data = Ends
          /\ DOMAIN ack_number = Ends /\ DOMAIN received_data = Ends
      BY <1>1, Zenon DEF TypeOK
    <3>3. ack_number'[p] = ack_number[p]
      <4>1. ack_number'[p] = WrappingAdd(ack_number[p], 0)
        BY <2>2, <3>1, <3>2, Zenon
      <4>2. ack_number[p] \in Nat /\ ack_number[p] < SeqModulus
        BY <3>2, ModulusAssumption DEF SeqNumbers
      <4> QED BY <4>1, <4>2, ModulusAssumption DEF WrappingAdd
    <3>4. DOMAIN inbound_data'[p] \subseteq DOMAIN inbound_data[p]
      <4>1. inbound_data'[p] = Removed(inbound_data[p], RunKeys(p, n))
        BY <2>2, <3>2, Zenon
      <4> QED BY <4>1, Zenon DEF Removed
    <3>5. WrappingAdd(ack_number[p], 1) \notin DOMAIN inbound_data[p]
      BY <2>2, <3>1 DEF RunLength
    <3>6. room \in Nat
      BY StreamAssumption, Zenon
    <3>7. Smaller(Len(run), room) = 0
      BY <3>1, <3>6 DEF Smaller
    <3>8. received_data'[p] = << >>
      BY <2>2, <3>1, <3>2, <3>7, SubSeqEmpty
    <3> QED BY <3>3, <3>4, <3>5, <3>8, Zenon
  <2> QED BY <2>2, <2>4, <2>5, Zenon DEF WaitsRightly, Halves
<1>4. CASE FinishFlush(p)
  <2> DEFINE end == IF unacked_data[p] = << >> THEN "idle" ELSE "parked"
  <2>1. EndPoll(p, "flush", end) /\ UNCHANGED <<inbound_packets, unacked_data>>
    BY <1>4, Zenon DEF FinishFlush, streamVars
  <2>2. /\ \A g \in Halves : g # "flush" => call'[p][g] = "idle"
        /\ polling'[p] = "none"
        /\ call'[p]["flush"] = "parked" =>
             end = "parked" /\ inbound_packets[p] = << >> /\ waker'[p] = "flush"
    BY <2>1, WaitEndPoll, Zenon DEF Halves
  <2> QED BY <2>1, <2>2, Zenon DEF WaitsRightly, Halves
<1> QED BY <1>2, <1>3, <1>4, Zenon

\* A packet in the mailbox leaves no call waiting: whichever call it is, the waker is its
\* task's.
LEMMA WaitEnqueue ==
  ASSUME ~ Split, WaitInv, NEW p \in Ends, NEW packet, Enqueue(p, packet),
         UNCHANGED <<streamVars, polling>>
  PROVE  WaitsRightly(p)'
<1>1. /\ WaitsRightly(p)
      /\ call \in [Ends -> [Halves -> {"idle", "runnable", "parked"}]]
  BY Zenon DEF WaitInv, TypeOK
<1>2. CASE status[p] = "open"
  <2>1. \A h \in Halves : call'[p][h] =
          IF h \in Woken(p) /\ call[p][h] = "parked" THEN "runnable" ELSE call[p][h]
    BY <1>1, <1>2 DEF Enqueue
  <2>2. \A h \in Halves : call[p][h] = "parked" => h \in Woken(p)
    BY <1>1, Zenon DEF WaitsRightly, Woken
  <2>3. \A h \in Halves : call'[p][h] = IF call[p][h] = "parked" THEN "runnable" ELSE call[p][h]
    BY <2>1, <2>2, Zenon
  <2>4. polling[p] \in Halves \cup {"none"}
    BY Zenon DEF WaitInv, TypeOK
  <2>5. /\ \A g, h \in Halves : call[p][g] # "idle" /\ call[p][h] # "idle" => g = h
        /\ polling[p] # "none" => call[p][polling[p]] = "runnable"
    BY <1>1, Zenon DEF WaitsRightly
  <2>6. polling' = polling
    BY Zenon
  <2>7. \A g, h \in Halves : call'[p][g] # "idle" /\ call'[p][h] # "idle" => g = h
    BY <2>3, <2>5, Zenon
  <2>8. polling'[p] # "none" => call'[p][polling'[p]] = "runnable"
    BY <2>3, <2>4, <2>5, <2>6, Zenon
  <2>9. \A h \in Halves : call'[p][h] # "parked"
    BY <2>3, Zenon
  <2> QED BY <2>7, <2>8, <2>9, NobodyWaits, Zenon
<1>3. CASE status[p] # "open"
  BY <1>1, <1>3, WaitsOn, Zenon DEF Enqueue, streamVars, waitVars
<1> QED BY <1>2, <1>3, Zenon

\* Every step keeps both ends waiting rightly.
LEMMA WaitNext == ASSUME ~ Split, WaitInv, [Next]_vars PROVE WaitInv'
<1>1. TypeOK /\ TypeOK'
  BY TypeNext, Zenon DEF WaitInv
<1> SUFFICES \A q \in Ends : WaitsRightly(q)'
  BY <1>1, Zenon DEF WaitInv
<1> USE DEF streamVars
<1>0. /\ DOMAIN call = Ends /\ DOMAIN polling = Ends /\ DOMAIN waker = Ends
      /\ DOMAIN inbound_packets = Ends /\ DOMAIN received_data = Ends
      /\ DOMAIN ack_number = Ends /\ DOMAIN inbound_data = Ends /\ DOMAIN unacked_data = Ends
  BY <1>1, Zenon DEF TypeOK
<1>2. ASSUME NEW p \in Ends, WaitsRightly(p)', \A q \in Ends : q # p => UNCHANGED waitVars(q)
      PROVE  \A q \in Ends : WaitsRightly(q)'
  BY <1>2, WaitsOn, Zenon DEF WaitInv
<1>3. ASSUME NEW p \in Ends, NEW h \in Halves,
             StartCall(p, h) \/ BeginPoll(p, h) \/ SpuriousWake(p, h)
      PROVE  \A q \in Ends : WaitsRightly(q)'
  <2>1. WaitsRightly(p)'
    BY <1>3, WaitCalls, Zenon
  <2>2. \A q \in Ends : q # p => UNCHANGED waitVars(q)
    BY <1>0, <1>3, Zenon DEF StartCall, BeginPoll, SpuriousWake, waitVars
  <2> QED BY <1>2, <2>1, <2>2, Zenon
<1>4. ASSUME NEW p \in Ends, ReadPacket(p) PROVE \A q \in Ends : WaitsRightly(q)'
  <2>1. WaitsRightly(p)'
    BY <1>4, WaitPolls, Zenon
  <2>2. \A q \in Ends : q # p => UNCHANGED waitVars(q)
    BY <1>0, <1>4, Zenon DEF ReadPacket, HandleData, HandleState, taskVars, waitVars
  <2> QED BY <1>2, <2>1, <2>2, Zenon
<1>5. ASSUME NEW p \in Ends, FinishSomeRead(p) PROVE \A q \in Ends : WaitsRightly(q)'
  <2>1. WaitsRightly(p)'
    BY <1>5, WaitPolls, Zenon
  <2>2. \A q \in Ends : q # p => UNCHANGED waitVars(q)
    BY <1>0, <1>5 DEF FinishSomeRead, FinishRead, EndPoll, waitVars
  <2> QED BY <1>2, <2>1, <2>2, Zenon
<1>6. ASSUME NEW p \in Ends, FinishFlush(p) PROVE \A q \in Ends : WaitsRightly(q)'
  <2>1. WaitsRightly(p)'
    BY <1>6, WaitPolls, Zenon
  <2>2. \A q \in Ends : q # p => UNCHANGED waitVars(q)
    BY <1>0, <1>6, Zenon DEF FinishFlush, EndPoll, waitVars
  <2> QED BY <1>2, <2>1, <2>2, Zenon
<1>7. ASSUME NEW p \in Ends, NEW i \in Arriving(p), Deliver(p, i) \/ Duplicate(p, i)
      PROVE  \A q \in Ends : WaitsRightly(q)'
  <2>1. Enqueue(p, wire[p][i]) /\ UNCHANGED <<streamVars, polling>>
    BY <1>7, Zenon DEF Deliver, Duplicate
  <2>2. WaitsRightly(p)'
    BY <2>1, WaitEnqueue, Zenon
  <2>3. \A q \in Ends : q # p => UNCHANGED waitVars(q)
    BY <1>0, <2>1, Zenon DEF Enqueue, waitVars
  <2> QED BY <1>2, <2>2, <2>3, Zenon
<1>8. ASSUME NEW p \in Ends, NEW n \in WriteSizes, PollWrite(p, n)
      PROVE  \A q \in Ends : WaitsRightly(q)'
  <2>1. /\ \A g \in Halves : call[p][g] = "idle"
        /\ call' = call /\ polling' = polling /\ polling[p] = "none"
    BY <1>8, Zenon DEF PollWrite, TaskFree, taskVars
  <2>2. WaitsRightly(p)'
    BY <2>1, NobodyWaits, Zenon
  <2>3. \A q \in Ends : q # p => UNCHANGED waitVars(q)
    BY <1>0, <1>8, Zenon DEF PollWrite, taskVars, waitVars
  <2> QED BY <1>2, <2>2, <2>3, Zenon
<1>9. ASSUME \A q \in Ends : UNCHANGED waitVars(q) PROVE \A q \in Ends : WaitsRightly(q)'
  BY <1>9, WaitsOn, Zenon DEF WaitInv
<1>10. ASSUME NEW p \in Ends, PollShutdown(p) \/ \E i \in Arriving(p) : Lose(p, i)
       PROVE  \A q \in Ends : WaitsRightly(q)'
  BY <1>9, <1>10, Zenon DEF PollShutdown, Lose, taskVars, waitVars
<1>11. CASE UNCHANGED vars
  BY <1>9, <1>11, Zenon DEF vars, taskVars, waitVars
<1> QED BY <1>3, <1>4, <1>5, <1>6, <1>7, <1>8, <1>10, <1>11, Zenon DEF Next, DeliverSome

\* A stream that one task uses never waits in read or flush while the call could be answered
\* or no packet would wake it, wherever between the polls of poll_read and poll_flush the
\* receiver task enqueues one, spurious polls and exhausted budgets included.
THEOREM NoWakeUpLost == ASSUME ~ Split PROVE Spec => []NoStrandedCall
<1>1. Init => WaitInv
  <2> SUFFICES ASSUME Init PROVE WaitInv
    BY Zenon
  <2>1. TypeOK
    BY TypeInit, Zenon
  <2>2. \A p \in Ends : polling[p] = "none" /\ \A h \in Halves : call[p][h] = "idle"
    BY Zenon DEF Init
  <2> QED BY <2>1, <2>2, Zenon DEF WaitInv, WaitsRightly
<1>2. WaitInv /\ [Next]_vars => WaitInv'
  BY WaitNext, Zenon
<1>3. WaitInv => NoStrandedCall
  BY Zenon DEF WaitInv, WaitsRightly, NoStrandedCall, Woken
<1> QED BY <1>1, <1>2, <1>3, PTL DEF Spec

-----------------------------------------------------------------------------
(***************************************************************************)
(* Nothing is taken back.                                                  *)
(***************************************************************************)

\* Of two sequences that count, the shorter is a prefix of the longer.
LEMMA CountingPrefix ==
  ASSUME NEW s \in Seq(Nat), NEW t \in Seq(Nat), Len(s) <= Len(t),
         \A i \in 1 .. Len(s) : s[i] = i, \A i \in 1 .. Len(t) : t[i] = i
  PROVE  IsPrefix(s, t)
<1>1. Len(s) \in Nat /\ Len(t) \in Nat
  BY LenProperties, Zenon
<1>2. \A i \in 1 .. Len(s) : i \in 1 .. Len(t)
  BY <1>1
<1> QED BY <1>2, Zenon DEF IsPrefix

\* What was handed out counts like what was assembled.
LEMMA DeliveredCounts ==
  ASSUME NEW s \in Seq(Nat), NEW t \in Seq(Nat), \A i \in 1 .. Len(s \o t) : (s \o t)[i] = i
  PROVE  \A i \in 1 .. Len(s) : s[i] = i
<1> DEFINE N == Nat
<1>1. s \in Seq(N) /\ t \in Seq(N) /\ Len(s) \in Nat /\ Len(t) \in Nat
  BY LenProperties, Zenon
<1> HIDE DEF N
<1>2. Len(s \o t) = Len(s) + Len(t)
      /\ \A i \in 1 .. Len(s) + Len(t) : (s \o t)[i] = IF i <= Len(s) THEN s[i] ELSE t[i - Len(s)]
  BY <1>1, ConcatProperties, Zenon
<1> TAKE i \in 1 .. Len(s)
<1>3. i \in 1 .. Len(s) + Len(t) /\ i <= Len(s)
  BY <1>1
<1> QED BY <1>2, <1>3, Zenon

\* handle_packet only takes entries out of unacked_data.
LEMMA HandleReleases ==
  ASSUME TypeOK, NEW p \in Ends, ReadPacket(p)
  PROVE  \A q \in Ends : Len(unacked_data'[q]) <= Len(unacked_data[q])
<1>1. \A q \in Ends : Len(unacked_data[q]) \in Nat
  BY LenProperties, Zenon DEF TypeOK
<1>2. CASE unacked_data' = unacked_data
  BY <1>1, <1>2
<1>3. ASSUME NEW packet, HandleState(p, packet)
      PROVE  \A q \in Ends : Len(unacked_data'[q]) <= Len(unacked_data[q])
  <2> DEFINE u == unacked_data[p]
  <2>1. PICK k \in 0 .. Len(u) : unacked_data' = [unacked_data EXCEPT ![p] = SubSeq(u, k + 1, Len(u))]
    BY <1>3, Zenon DEF HandleState
  <2>2. u \in Seq([seq : SeqNumbers, data : Nat]) /\ DOMAIN unacked_data = Ends
    BY Zenon DEF TypeOK
  <2>3. \A q \in Ends : unacked_data'[q] = IF q = p THEN SubSeq(u, k + 1, Len(u)) ELSE unacked_data[q]
    BY <2>1, <2>2, Zenon
  <2>4. Len(u) \in Nat
    BY <1>1, Zenon
  <2> HIDE DEF u
  <2>5. Len(SubSeq(u, k + 1, Len(u))) = Len(u) - k
    BY <2>2, SuffixOfSeq, Zenon
  <2>6. Len(u) - k <= Len(u)
    BY <2>4
  <2>7. Len(unacked_data'[p]) <= Len(unacked_data[p])
    BY <2>3, <2>5, <2>6, Zenon DEF u
  <2>8. \A q \in Ends : q # p => Len(unacked_data'[q]) <= Len(unacked_data[q])
    BY <1>1, <2>3
  <2> QED BY <2>7, <2>8, Zenon
<1> QED BY <1>2, <1>3, Zenon DEF ReadPacket, HandleData

\* What the ends have handed out, assembled and released only grows.
LEMMA OnlyGrows ==
  ASSUME StreamInv, StreamInv', [Next]_vars, NEW p \in Ends
  PROVE  /\ Len(delivered[p]) <= Len(delivered'[p])
         /\ AssembledCount(p) <= AssembledCount(p)'
         /\ written[p] - Len(unacked_data[p]) <= written'[p] - Len(unacked_data'[p])
<1> DEFINE Grows ==
      /\ Len(delivered[p]) <= Len(delivered'[p])
      /\ AssembledCount(p) <= AssembledCount(p)'
      /\ written[p] - Len(unacked_data[p]) <= written'[p] - Len(unacked_data'[p])
<1>1. TypeOK /\ TypeOK'
  BY Zenon DEF StreamInv
<1>2. /\ Len(delivered[p]) \in Nat /\ AssembledCount(p) \in Nat
      /\ written[p] \in Nat /\ Len(unacked_data[p]) \in Nat
      /\ Len(unacked_data'[p]) \in Nat
  BY <1>1, AssembledType, LenProperties, Zenon DEF TypeOK
<1>3. ASSUME UNCHANGED <<written, unacked_data, delivered, received_data>> PROVE Grows
  BY <1>2, <1>3 DEF AssembledCount
<1>4. ASSUME NEW q \in Ends, NEW n \in WriteSizes, PollWrite(q, n) PROVE Grows
  <2>1. UNCHANGED <<delivered, received_data>>
    BY <1>4, Zenon DEF PollWrite
  <2>2. written'[p] - Len(unacked_data'[p]) = written[p] - Len(unacked_data[p])
    BY <1>1, <1>4, WriteReleasesNone, Zenon
  <2> QED BY <1>2, <2>1, <2>2 DEF AssembledCount
<1>5. ASSUME NEW q \in Ends, ReadPacket(q) PROVE Grows
  <2>1. UNCHANGED <<written, delivered, received_data>>
    BY <1>5, Zenon DEF ReadPacket, histVars
  <2>2. Len(unacked_data'[p]) <= Len(unacked_data[p])
    BY <1>1, <1>5, HandleReleases, Zenon
  <2>3. written[p] - Len(unacked_data[p]) <= written[p] - Len(unacked_data'[p])
    BY <1>2, <2>2
  <2> QED BY <1>2, <2>1, <2>3 DEF AssembledCount
<1>6. ASSUME NEW q \in Ends, FinishSomeRead(q) PROVE Grows
  <2>1. PICK n \in 0 .. Cardinality(DOMAIN inbound_data[q]), room \in ReadSizes :
          FinishRead(q, n, room)
    BY <1>6, Zenon DEF FinishSomeRead
  <2> DEFINE run == WithRun(q, n)
             out == SubSeq(run, 1, Smaller(Len(run), room))
  <2>2. UNCHANGED <<written, unacked_data>>
        /\ delivered' = [delivered EXCEPT ![q] = @ \o out] /\ RunLength(q, n)
    BY <2>1, Zenon DEF FinishRead
  <2>3. AssembledCount(p) <= AssembledCount(p)'
    BY <1>1, <2>1, ReadAssembles, Zenon
  <2>4. run \in Seq(Nat) /\ room \in Nat
    BY <1>1, <2>2, RunType, StreamAssumption, Zenon
  <2>5. Smaller(Len(run), room) \in 0 .. Len(run)
    BY <2>4, LenProperties DEF Smaller
  <2>6. out \in Seq(Nat)
    BY <2>4, <2>5, SplitType, Zenon
  <2>7. delivered[p] \in Seq(Nat) /\ delivered'[p] = IF p = q THEN delivered[p] \o out ELSE delivered[p]
    BY <1>1, <2>2, Zenon DEF TypeOK
  <2> HIDE DEF out
  <2>8. Len(delivered[p] \o out) = Len(delivered[p]) + Len(out) /\ Len(out) \in Nat
    <3> DEFINE N == Nat
    <3>1. delivered[p] \in Seq(N) /\ out \in Seq(N)
      BY <2>6, <2>7, Zenon
    <3> HIDE DEF N
    <3> QED BY <3>1, ConcatProperties, LenProperties, Zenon
  <2>9. Len(delivered[p]) <= Len(delivered'[p])
    BY <1>2, <2>7, <2>8
  <2> QED BY <1>2, <2>2, <2>3, <2>9
<1>7. ASSUME NEW q \in Ends, NEW h \in Halves,
             StartCall(q, h) \/ BeginPoll(q, h) \/ SpuriousWake(q, h)
      PROVE  Grows
  BY <1>3, <1>7, Zenon DEF StartCall, BeginPoll, SpuriousWake, streamVars, histVars
<1>8. ASSUME NEW q \in Ends, PollShutdown(q) \/ FinishFlush(q) PROVE Grows
  BY <1>3, <1>8, Zenon DEF PollShutdown, FinishFlush, streamVars, histVars
<1>9. ASSUME NEW q \in Ends, NEW i \in Arriving(q), Deliver(q, i) \/ Duplicate(q, i) \/ Lose(q, i)
      PROVE  Grows
  BY <1>3, <1>9, Zenon DEF Deliver, Duplicate, Lose, streamVars, histVars
<1>10. ASSUME UNCHANGED vars PROVE Grows
  BY <1>3, <1>10, Zenon DEF vars, streamVars, histVars
<1> HIDE DEF Grows
<1>11. ASSUME Next PROVE Grows
  <2>1. PICK q \in Ends :
          \/ \E h \in Halves : StartCall(q, h) \/ BeginPoll(q, h) \/ SpuriousWake(q, h)
          \/ \E n \in WriteSizes : PollWrite(q, n)
          \/ PollShutdown(q) \/ FinishFlush(q)
          \/ ReadPacket(q)
          \/ FinishSomeRead(q)
          \/ \E i \in Arriving(q) : Deliver(q, i) \/ Duplicate(q, i) \/ Lose(q, i)
    BY <1>11, Zenon DEF Next, DeliverSome
  <2> QED BY <2>1, <1>4, <1>5, <1>6, <1>7, <1>8, <1>9, Zenon
<1>12. Grows
  BY <1>10, <1>11, Zenon
<1> QED BY <1>12, Zenon DEF Grows

\* No step takes back what poll_read has handed out or assembled, or returns a released
\* chunk to unacked_data.
THEOREM NothingRetracted == Spec => NeverRetracted
<1> DEFINE Kept == \A p \in Ends :
             /\ IsPrefix(delivered[p], delivered'[p])
             /\ IsPrefix(Assembled(p), delivered'[p] \o received_data'[p])
             /\ written[p] - Len(unacked_data[p]) <= written'[p] - Len(unacked_data'[p])
<1>1. StreamInv /\ StreamInv' /\ [Next]_vars => Kept
  <2> SUFFICES ASSUME StreamInv, StreamInv', [Next]_vars, NEW p \in Ends
               PROVE  /\ IsPrefix(delivered[p], delivered'[p])
                      /\ IsPrefix(Assembled(p), delivered'[p] \o received_data'[p])
                      /\ written[p] - Len(unacked_data[p]) <= written'[p] - Len(unacked_data'[p])
    BY Zenon
  <2> DEFINE d == delivered'[p]
             r == received_data'[p]
             N == Nat
  <2>1. d \in Seq(Nat) /\ r \in Seq(Nat)
    BY Zenon DEF StreamInv, TypeOK
  <2>2. d \o r \in Seq(Nat) /\ Len(d \o r) = Len(d) + Len(r)
    <3>1. d \in Seq(N) /\ r \in Seq(N)
      BY <2>1, Zenon
    <3> HIDE DEF N, d, r
    <3>2. d \o r \in Seq(N) /\ Len(d \o r) = Len(d) + Len(r)
      BY <3>1, ConcatProperties, Zenon
    <3> QED BY <3>2, Zenon DEF N
  <2>3. \A i \in 1 .. Len(d \o r) : (d \o r)[i] = i
    BY Zenon DEF StreamInv, InOrderPrefix, Assembled
  <2>4. \A i \in 1 .. Len(Assembled(p)) : Assembled(p)[i] = i
    BY Zenon DEF StreamInv, InOrderPrefix
  <2>5. /\ delivered[p] \in Seq(Nat) /\ received_data[p] \in Seq(Nat)
        /\ Assembled(p) \in Seq(Nat) /\ Len(Assembled(p)) = AssembledCount(p)
    BY AssembledType, Zenon DEF StreamInv
  <2>6. /\ Len(delivered[p]) <= Len(d)
        /\ Len(Assembled(p)) <= Len(d \o r)
        /\ written[p] - Len(unacked_data[p]) <= written'[p] - Len(unacked_data'[p])
    BY <2>2, <2>5, OnlyGrows, Zenon DEF AssembledCount
  <2>7. \A i \in 1 .. Len(delivered[p]) : delivered[p][i] = i
    BY <2>4, <2>5, DeliveredCounts, Zenon DEF Assembled
  <2> HIDE DEF d, r
  <2>8. \A i \in 1 .. Len(d) : d[i] = i
    BY <2>1, <2>3, DeliveredCounts, Zenon
  <2>9. IsPrefix(delivered[p], d)
    BY <2>1, <2>5, <2>6, <2>7, <2>8, CountingPrefix, Zenon
  <2>10. IsPrefix(Assembled(p), d \o r)
    BY <2>2, <2>3, <2>4, <2>5, <2>6, CountingPrefix, Zenon
  <2> QED BY <2>6, <2>9, <2>10, Zenon DEF d, r
<1>2. StreamInv /\ StreamInv' /\ [Next]_vars => [Kept]_vars
  BY <1>1, Zenon
<1>3. NeverRetracted <=> [][Kept]_vars
  BY Zenon DEF NeverRetracted
<1> HIDE DEF Kept
<1> QED BY <1>2, <1>3, StreamInvInit, StreamInvNext, PTL DEF Spec

-----------------------------------------------------------------------------
(***************************************************************************)
(* The two streams implement Duplex.                                       *)
(***************************************************************************)

\* What Duplex sees of the streams.
Counts == [p \in Ends |-> AssembledCount(p)]
Waiting == [p \in Ends |-> {h \in Halves : call[p][h] # "idle"}]
Opened == [p \in Ends |-> status[p] = "open"]

shown == <<written, Counts, delivered, Waiting, Opened>>

\* A poll that runs is of a call that was made, on a stream that is open.
PollsRight ==
  \A p \in Ends : polling[p] # "none" => call[p][polling[p]] = "runnable" /\ status[p] = "open"

ContractInv == FlushInv /\ PollsRight

\* The receiver task's part: a call that waits may be woken, and stays a call.
LEMMA EnqueueHidden ==
  ASSUME TypeOK, PollsRight, NEW p \in Ends, NEW packet, Enqueue(p, packet),
         UNCHANGED <<polling, status>>
  PROVE  PollsRight' /\ Waiting' = Waiting
<1>1. CASE UNCHANGED call
  BY <1>1 DEF PollsRight, Waiting
<1>2. CASE call' = [call EXCEPT ![p] = [h \in Halves |-> IF h \in Woken(p) /\ @[h] = "parked"
                                                        THEN "runnable" ELSE @[h]]]
  <2>1. call \in [Ends -> [Halves -> {"idle", "runnable", "parked"}]]
    BY Zenon DEF TypeOK
  <2>2. \A q \in Ends, h \in Halves :
          /\ call'[q][h] = "idle" <=> call[q][h] = "idle"
          /\ call[q][h] = "runnable" => call'[q][h] = "runnable"
    BY <1>2, <2>1, Zenon
  <2>3. \A q \in Ends : polling[q] # "none" => polling[q] \in Halves
    BY Zenon DEF TypeOK
  <2> QED BY <2>2, <2>3 DEF PollsRight, Waiting
<1> QED BY <1>1, <1>2, Zenon DEF Enqueue

\* A poll that ends answers Ready, which ends the call, or the call goes on.
LEMMA EndPollShown ==
  ASSUME TypeOK, PollsRight, NEW p \in Ends, NEW h \in Halves, NEW end \in {"idle", "parked"},
         EndPoll(p, h, end), UNCHANGED status
  PROVE  /\ PollsRight'
         /\ h \in Waiting[p] /\ Opened[p]
         /\ end = "idle" => Waiting' = [Waiting EXCEPT ![p] = @ \ {h}]
         /\ end = "parked" => Waiting' = Waiting
<1>1. /\ call \in [Ends -> [Halves -> {"idle", "runnable", "parked"}]]
      /\ polling \in [Ends -> Halves \cup {"none"}] /\ "none" \notin Halves
  BY Zenon DEF TypeOK, Halves
<1>2. /\ polling[p] = h /\ call[p][h] = "runnable" /\ status[p] = "open"
      /\ polling' = [polling EXCEPT ![p] = "none"]
  BY <1>1, Zenon DEF EndPoll, PollsRight
<1>3. PICK e \in {"idle", "runnable", "parked"} :
        /\ call' = [call EXCEPT ![p][h] = e]
        /\ e = "idle" <=> end = "idle"
  BY Zenon DEF EndPoll
<1>4. \A q \in Ends, g \in Halves :
        call'[q][g] = IF q = p /\ g = h THEN e ELSE call[q][g]
  BY <1>1, <1>3, Zenon
<1>5. PollsRight'
  BY <1>1, <1>2, <1>4 DEF PollsRight
<1>6. h \in Waiting[p] /\ Opened[p]
  BY <1>2, Zenon DEF Waiting, Opened
<1>7. ASSUME end = "idle" PROVE Waiting' = [Waiting EXCEPT ![p] = @ \ {h}]
  <2>1. \A q \in Ends : Waiting'[q] = IF q = p THEN Waiting[q] \ {h} ELSE Waiting[q]
    BY <1>3, <1>4, <1>7 DEF Waiting
  <2> QED BY <2>1, Zenon DEF Waiting
<1>8. ASSUME end = "parked" PROVE Waiting' = Waiting
  BY <1>2, <1>3, <1>4, <1>8 DEF Waiting
<1> QED BY <1>5, <1>6, <1>7, <1>8, Zenon

\* A sequence that counts from 1 and begins with s goes on from there.
LEMMA CountsOn ==
  ASSUME NEW s \in Seq(Nat), NEW t \in Seq(Nat), \A i \in 1 .. Len(s \o t) : (s \o t)[i] = i
  PROVE  t = [i \in 1 .. Len(t) |-> Len(s) + i]
<1> DEFINE N == Nat
<1>1. s \in Seq(N) /\ t \in Seq(N) /\ Len(s) \in Nat /\ Len(t) \in Nat
  BY LenProperties, Zenon
<1> HIDE DEF N
<1>2. /\ Len(s \o t) = Len(s) + Len(t)
      /\ \A i \in 1 .. Len(s) + Len(t) : (s \o t)[i] = IF i <= Len(s) THEN s[i] ELSE t[i - Len(s)]
  BY <1>1, ConcatProperties, Zenon
<1>3. \A i \in 1 .. Len(t) : t[i] = Len(s) + i
  <2> TAKE i \in 1 .. Len(t)
  <2>1. /\ Len(s) + i \in 1 .. Len(s) + Len(t) /\ ~ (Len(s) + i <= Len(s))
        /\ (Len(s) + i) - Len(s) = i
    BY <1>1
  <2>2. (s \o t)[Len(s) + i] = t[i]
    BY <1>2, <2>1
  <2> QED BY <1>2, <2>1, <2>2, Zenon
<1>4. t = [i \in 1 .. Len(t) |-> t[i]]
  BY <1>1
<1> QED BY <1>3, <1>4, Zenon

\* poll_read shows as a read that returns, or not at all.
LEMMA ReadShown ==
  ASSUME StreamInv, StreamInv', PollsRight, NEW p \in Ends, FinishSomeRead(p)
  PROVE  /\ PollsRight'
         /\ \/ UNCHANGED shown
            \/ \E m \in 0 .. written[Peer(p)] - AssembledCount(p) :
                 \E n \in 1 .. AssembledCount(p) + m - Len(delivered[p]) :
                   /\ Opened[p] /\ "read" \in Waiting[p]
                   /\ Counts' = [Counts EXCEPT ![p] = @ + m]
                   /\ delivered' = [delivered EXCEPT ![p] = @ \o [i \in 1 .. n |-> Len(@) + i]]
                   /\ Waiting' = [Waiting EXCEPT ![p] = @ \ {"read"}]
                   /\ UNCHANGED <<written, Opened>>
<1>1. PICK m \in 0 .. Cardinality(DOMAIN inbound_data[p]), room \in ReadSizes : FinishRead(p, m, room)
  BY Zenon DEF FinishSomeRead
<1> DEFINE run == WithRun(p, m)
           n   == Smaller(Len(run), room)
           out == SubSeq(run, 1, n)
           c   == AssembledCount(p)
           end == IF run = << >> THEN "parked" ELSE "idle"
<1>2. TypeOK /\ TypeOK'
  BY Zenon DEF StreamInv
<1>3. /\ RunLength(p, m) /\ EndPoll(p, "read", end)
      /\ delivered' = [delivered EXCEPT ![p] = @ \o out]
      /\ received_data' = [received_data EXCEPT ![p] = SubSeq(run, n + 1, Len(run))]
      /\ UNCHANGED <<status, written>>
  BY <1>1, Zenon DEF FinishRead
<1>4. /\ m \in Nat /\ c + m <= written[Peer(p)] /\ c \in Nat
      /\ written[Peer(p)] \in Nat
  BY <1>2, <1>3, RunExact, AssembledType, PeerType, Zenon DEF TypeOK
<1>5. /\ AssembledCount(p)' = c + m
      /\ \A q \in Ends : q # p => AssembledCount(q)' = AssembledCount(q)
  <2>1. AssembledCount(p)' = c + m
    BY <1>1, <1>2, ReadAssembles, Zenon
  <2>2. \A q \in Ends : q # p => delivered'[q] = delivered[q] /\ received_data'[q] = received_data[q]
    BY <1>2, <1>3, Zenon DEF TypeOK
  <2> QED BY <2>1, <2>2, Zenon DEF AssembledCount
<1>6. run \in Seq(Nat) /\ room \in Nat \ {0} /\ Len(run) \in Nat
  BY <1>2, <1>3, RunType, StreamAssumption, LenProperties, Zenon
<1>7. /\ n \in 0 .. Len(run) /\ (run # << >> => n \in 1 .. Len(run))
      /\ (run = << >> => n = 0)
  <2>1. run # << >> => Len(run) # 0
    BY <1>6, EmptySeq, Zenon
  <2>2. run = << >> => Len(run) = 0
    BY EmptySeq, Zenon
  <2> HIDE DEF run
  <2> QED BY <1>6, <2>1, <2>2 DEF Smaller
<1>8. out \in Seq(Nat) /\ Len(out) = n
  BY <1>6, <1>7, SplitType, Zenon
<1>9. delivered \in [Ends -> Seq(Nat)] /\ delivered[p] \in Seq(Nat) /\ Len(delivered[p]) \in Nat
  BY <1>2, LenProperties, Zenon DEF TypeOK
<1>10. delivered'[p] = delivered[p] \o out
  BY <1>3, <1>9, Zenon
<1>11. out = [i \in 1 .. n |-> Len(delivered[p]) + i]
  <2>1. \A i \in 1 .. Len(delivered'[p]) : delivered'[p][i] = i
    <3>1. delivered'[p] \in Seq(Nat) /\ received_data'[p] \in Seq(Nat)
      BY <1>2, Zenon DEF TypeOK
    <3>2. \A i \in 1 .. Len(delivered'[p] \o received_data'[p]) :
            (delivered'[p] \o received_data'[p])[i] = i
      BY Zenon DEF StreamInv, InOrderPrefix, Assembled
    <3> QED BY <3>1, <3>2, DeliveredCounts, Zenon
  <2> HIDE DEF out
  <2>2. out = [i \in 1 .. Len(out) |-> Len(delivered[p]) + i]
    BY <1>8, <1>9, <1>10, <2>1, CountsOn, Zenon
  <2> QED BY <1>8, <2>2, Zenon
<1>12. Len(run) = c + m - Len(delivered[p])
  <2>1. Len(run) = Len(received_data[p]) + m
    BY <1>2, <1>3, RunType, Zenon
  <2>2. Len(received_data[p]) \in Nat
    BY <1>2, AssembledType, LenProperties, Zenon
  <2>3. c = Len(delivered[p]) + Len(received_data[p])
    BY Zenon DEF AssembledCount
  <2> HIDE DEF c, run
  <2> QED BY <1>4, <1>9, <2>1, <2>2, <2>3
<1>13. /\ PollsRight'
       /\ "read" \in Waiting[p] /\ Opened[p]
       /\ end = "idle" => Waiting' = [Waiting EXCEPT ![p] = @ \ {"read"}]
       /\ end = "parked" => Waiting' = Waiting
  <2>1. end \in {"idle", "parked"} /\ "read" \in Halves
    BY Zenon DEF Halves
  <2> HIDE DEF end
  <2> QED BY <1>2, <1>3, <2>1, EndPollShown, Zenon
<1>14. Counts' = [Counts EXCEPT ![p] = @ + m] /\ Opened' = Opened
  <2>1. \A q \in Ends : Counts'[q] = IF q = p THEN Counts[q] + m ELSE Counts[q]
    BY <1>5, Zenon DEF Counts
  <2>2. Opened' = Opened
    BY <1>3, Zenon DEF Opened
  <2> QED BY <2>1, <2>2, Zenon DEF Counts
<1> HIDE DEF run, n, out
<1>15. CASE run = << >>
  <2>1. n = 0 /\ Len(run) = 0 /\ Len(delivered[p]) <= c
    <3>1. n = 0 /\ Len(run) = 0
      BY <1>7, <1>15, Zenon
    <3>2. Len(received_data[p]) \in Nat
      BY <1>2, AssembledType, LenProperties, Zenon
    <3>3. c = Len(delivered[p]) + Len(received_data[p])
      BY Zenon DEF AssembledCount
    <3> HIDE DEF c
    <3> QED BY <1>9, <3>1, <3>2, <3>3
  <2>2. m = 0
    BY <1>4, <1>9, <1>12, <2>1
  <2>3. delivered' = delivered
    <3>1. out = << >>
      BY <1>11, <2>1
    <3>2. delivered[p] \o << >> = delivered[p]
      BY <1>9, ConcatEmptySeq, Zenon
    <3> QED BY <1>3, <1>9, <3>1, <3>2, Zenon
  <2>4. Counts' = Counts
    <3>1. \A q \in Ends : AssembledCount(q)' = AssembledCount(q)
      BY <1>4, <1>5, <2>2
    <3> QED BY <3>1, Zenon DEF Counts
  <2>5. Waiting' = Waiting
    BY <1>13, <1>15, Zenon
  <2> QED BY <1>3, <1>13, <1>14, <2>3, <2>4, <2>5, Zenon DEF shown
<1>16. CASE run # << >>
  <2>1. m \in 0 .. written[Peer(p)] - c
    BY <1>4
  <2>2. n \in 1 .. c + m - Len(delivered[p])
    BY <1>7, <1>12, <1>16, Zenon
  <2>3. delivered' = [delivered EXCEPT ![p] = @ \o [i \in 1 .. n |-> Len(@) + i]]
    BY <1>3, <1>9, <1>11, Zenon
  <2>4. Waiting' = [Waiting EXCEPT ![p] = @ \ {"read"}]
    BY <1>13, <1>16, Zenon
  <2> QED BY <1>3, <1>13, <1>14, <2>1, <2>2, <2>3, <2>4, Zenon
<1> QED BY <1>15, <1>16, Zenon

\* One step of the streams is one step of Duplex, or none.
LEMMA ContractNext ==
  ASSUME ContractInv, [Next]_vars
  PROVE  ContractInv' /\ [Contract!Next]_Contract!vars
<1>1. /\ FlushInv /\ FlushInv' /\ PollsRight /\ StreamInv /\ StreamInv' /\ TypeOK /\ TypeOK'
      /\ FlushedIsReceived
  BY FlushInvNext, Zenon DEF ContractInv, FlushInv, StreamInv
<1>2. /\ call \in [Ends -> [Halves -> {"idle", "runnable", "parked"}]]
      /\ polling \in [Ends -> Halves \cup {"none"}] /\ "none" \notin Halves
      /\ status \in [Ends -> {"open", "panicked"}]
      /\ "read" \in Halves /\ "flush" \in Halves
  BY <1>1, Zenon DEF TypeOK, Halves
<1> DEFINE Good == PollsRight' /\ [Contract!Next]_Contract!vars
<1>3. ASSUME UNCHANGED shown, PollsRight' PROVE Good
  BY <1>3, Zenon DEF shown, Counts, Waiting, Opened, Contract!vars
<1>4. ASSUME UNCHANGED <<written, delivered, received_data, status>>
      PROVE  UNCHANGED <<written, delivered, Counts, Opened>>
  BY <1>4, Zenon DEF Counts, Opened, AssembledCount
<1>5. ASSUME NEW p \in Ends, NEW h \in Halves, StartCall(p, h) PROVE Good
  <2>1. UNCHANGED <<written, delivered, Counts, Opened>> /\ UNCHANGED <<polling, status>>
    BY <1>4, <1>5, Zenon DEF StartCall, streamVars, histVars
  <2>2. /\ Opened[p] /\ h \notin Waiting[p]
        /\ call' = [call EXCEPT ![p][h] = "runnable"]
    BY <1>5, Zenon DEF StartCall, TaskFree, Opened, Waiting
  <2>3. \A q \in Ends, g \in Halves :
          call'[q][g] = IF q = p /\ g = h THEN "runnable" ELSE call[q][g]
    BY <1>2, <2>2, Zenon
  <2>4. Waiting' = [Waiting EXCEPT ![p] = @ \cup {h}]
    <3>1. \A q \in Ends : Waiting'[q] = IF q = p THEN Waiting[q] \cup {h} ELSE Waiting[q]
      BY <2>3, Zenon DEF Waiting
    <3> QED BY <3>1, Zenon DEF Waiting
  <2>5. PollsRight'
    BY <1>1, <1>2, <2>1, <2>3 DEF PollsRight
  <2>6. Contract!Call(p, h)
    BY <2>1, <2>2, <2>4, Zenon DEF Contract!Call, Opened, Waiting, Counts
  <2>7. Contract!Next
    BY <2>6, Zenon DEF Contract!Next, Halves
  <2> QED BY <2>5, <2>7, Zenon
<1>6. ASSUME NEW p \in Ends, NEW n \in WriteSizes, PollWrite(p, n) PROVE Good
  <2>1. UNCHANGED <<delivered, Counts, Opened, Waiting>>
    <3>1. UNCHANGED <<delivered, received_data, status, call>>
      BY <1>6, Zenon DEF PollWrite, taskVars
    <3> QED BY <3>1, Zenon DEF Counts, Opened, Waiting, AssembledCount
  <2>2. PollsRight'
    BY <1>1, <1>6, Zenon DEF PollWrite, taskVars, PollsRight
  <2>3. /\ Opened[p] /\ "flush" \notin Waiting[p]
        /\ written' = [written EXCEPT ![p] = @ + n]
    BY <1>6, Zenon DEF PollWrite, TaskFree, Opened, Waiting
  <2>4. n \in 1 .. MaxSegs[p] - written[p]
    <3>1. n \in Nat \ {0} /\ MaxSegs[p] \in Nat /\ written[p] \in Nat
      BY <1>1, StreamAssumption, Zenon DEF TypeOK
    <3>2. written[p] + n <= MaxSegs[p]
      BY <1>6, Zenon DEF PollWrite
    <3> QED BY <3>1, <3>2
  <2>5. Contract!Write(p, n)
    BY <2>1, <2>3, Zenon DEF Contract!Write, Opened, Waiting, Counts
  <2>6. Contract!Next
    BY <2>4, <2>5, Zenon DEF Contract!Next
  <2> QED BY <2>2, <2>6, Zenon
<1>7. ASSUME NEW p \in Ends, PollShutdown(p) PROVE Good
  <2>1. UNCHANGED <<written, delivered, Counts, Waiting>> /\ UNCHANGED <<call, polling>>
    <3>1. UNCHANGED <<written, delivered, received_data, call, polling>>
      BY <1>7, Zenon DEF PollShutdown, streamVars, histVars
    <3> QED BY <3>1, Zenon DEF Counts, Waiting, AssembledCount
  <2>2. /\ status[p] = "open" /\ polling[p] = "none" /\ "flush" \notin Waiting[p]
        /\ status' = [status EXCEPT ![p] = "panicked"]
    BY <1>7, Zenon DEF PollShutdown, TaskFree, Waiting
  <2>3. PollsRight'
    BY <1>1, <1>2, <2>1, <2>2 DEF PollsRight
  <2>4. Opened[p] /\ Opened' = [Opened EXCEPT ![p] = FALSE]
    <3>1. \A q \in Ends : Opened'[q] = IF q = p THEN FALSE ELSE Opened[q]
      BY <1>2, <2>2, Zenon DEF Opened
    <3> QED BY <2>2, <3>1, Zenon DEF Opened
  <2>5. Contract!Shutdown(p)
    BY <2>1, <2>2, <2>4, Zenon DEF Contract!Shutdown, Opened, Waiting, Counts
  <2>6. Contract!Next
    BY <2>5, Zenon DEF Contract!Next
  <2> QED BY <2>3, <2>6, Zenon
<1>8. ASSUME NEW p \in Ends, NEW h \in Halves, BeginPoll(p, h) \/ SpuriousWake(p, h) PROVE Good
  <2>1. UNCHANGED <<written, delivered, Counts, Opened>> /\ UNCHANGED status /\ status[p] = "open"
    BY <1>4, <1>8, Zenon DEF BeginPoll, SpuriousWake, streamVars, histVars
  <2>2. CASE BeginPoll(p, h)
    <3>1. UNCHANGED Waiting
      BY <2>2, Zenon DEF BeginPoll, Waiting
    <3>2. PollsRight'
      BY <1>1, <1>2, <2>1, <2>2 DEF BeginPoll, PollsRight
    <3> QED BY <1>3, <2>1, <3>1, <3>2, Zenon DEF shown
  <2>3. CASE SpuriousWake(p, h)
    <3>1. call[p][h] = "parked" /\ call' = [call EXCEPT ![p][h] = "runnable"] /\ UNCHANGED polling
      BY <2>3, Zenon DEF SpuriousWake
    <3>2. \A q \in Ends, g \in Halves :
            call'[q][g] = IF q = p /\ g = h THEN "runnable" ELSE call[q][g]
      BY <1>2, <3>1, Zenon
    <3>3. UNCHANGED Waiting
      BY <3>1, <3>2 DEF Waiting
    <3>4. PollsRight'
      BY <1>1, <1>2, <2>1, <3>1, <3>2 DEF PollsRight
    <3> QED BY <1>3, <2>1, <3>3, <3>4, Zenon DEF shown
  <2> QED BY <1>8, <2>2, <2>3, Zenon
<1>9. ASSUME NEW p \in Ends, ReadPacket(p) PROVE Good
  <2>1. UNCHANGED <<written, delivered, Counts, Opened>> /\ UNCHANGED <<call, polling, status>>
    BY <1>4, <1>9, Zenon DEF ReadPacket, taskVars, histVars
  <2>2. UNCHANGED Waiting
    BY <2>1, Zenon DEF Waiting
  <2>3. PollsRight'
    BY <1>1, <2>1, Zenon DEF PollsRight
  <2> QED BY <1>3, <2>1, <2>2, <2>3, Zenon DEF shown
<1>10. ASSUME NEW p \in Ends, FinishSomeRead(p) PROVE Good
  <2>1. CASE UNCHANGED shown
    BY <1>1, <1>3, <1>10, <2>1, ReadShown, Zenon
  <2>2. CASE ~ UNCHANGED shown
    <3>1. PICK m \in 0 .. written[Peer(p)] - AssembledCount(p) :
                 \E n \in 1 .. AssembledCount(p) + m - Len(delivered[p]) :
                   /\ Opened[p] /\ "read" \in Waiting[p]
                   /\ Counts' = [Counts EXCEPT ![p] = @ + m]
                   /\ delivered' = [delivered EXCEPT ![p] = @ \o [i \in 1 .. n |-> Len(@) + i]]
                   /\ Waiting' = [Waiting EXCEPT ![p] = @ \ {"read"}]
                   /\ UNCHANGED <<written, Opened>>
      BY <1>1, <1>10, <2>2, ReadShown, Zenon
    <3>2. PICK n \in 1 .. AssembledCount(p) + m - Len(delivered[p]) :
                   /\ Opened[p] /\ "read" \in Waiting[p]
                   /\ Counts' = [Counts EXCEPT ![p] = @ + m]
                   /\ delivered' = [delivered EXCEPT ![p] = @ \o [i \in 1 .. n |-> Len(@) + i]]
                   /\ Waiting' = [Waiting EXCEPT ![p] = @ \ {"read"}]
                   /\ UNCHANGED <<written, Opened>>
      BY <3>1, Zenon
    <3>3. Contract!ReadReturns(p, m, n)
      BY <3>2, Zenon DEF Contract!ReadReturns, Opened, Waiting, Counts
    <3>4. Peer(p) \in Ends \ {p} /\ Counts[p] = AssembledCount(p)
      BY Zenon DEF Peer, Ends, Counts
    <3>5. Contract!Next
      BY <3>3, <3>4, Zenon DEF Contract!Next, Counts
    <3> QED BY <1>1, <1>10, <3>5, ReadShown, Zenon
  <2> QED BY <2>1, <2>2, Zenon
<1>11. ASSUME NEW p \in Ends, FinishFlush(p) PROVE Good
  <2> DEFINE end == IF unacked_data[p] = << >> THEN "idle" ELSE "parked"
  <2>1. UNCHANGED <<written, delivered, Counts, Opened>> /\ UNCHANGED status
    BY <1>4, <1>11, Zenon DEF FinishFlush, streamVars, histVars
  <2>2. EndPoll(p, "flush", end) /\ end \in {"idle", "parked"}
    BY <1>11, Zenon DEF FinishFlush
  <2> HIDE DEF end
  <2>3. /\ PollsRight'
        /\ "flush" \in Waiting[p] /\ Opened[p]
        /\ end = "idle" => Waiting' = [Waiting EXCEPT ![p] = @ \ {"flush"}]
        /\ end = "parked" => Waiting' = Waiting
    BY <1>1, <1>2, <2>1, <2>2, EndPollShown
  <2>4. CASE end = "parked"
    BY <1>3, <2>1, <2>3, <2>4, Zenon DEF shown
  <2>5. CASE end = "idle"
    <3>1. Len(unacked_data[p]) = 0
      BY <2>5, EmptySeq, Zenon DEF end
    <3>2. /\ Peer(p) \in Ends \ {p} /\ Peer(Peer(p)) = p
          /\ AssembledCount(Peer(p)) \in Nat /\ AssembledCount(Peer(p)) <= written[p]
          /\ written[p] \in Nat
      BY <1>1, RoundBounds, Zenon DEF Peer, Ends
    <3>3. written[p] - Len(unacked_data[p]) <= AssembledCount(Peer(p))
      BY <1>1, FlushedCounts, Zenon
    <3>4. Counts[Peer(p)] = written[p]
      BY <3>1, <3>2, <3>3 DEF Counts
    <3>5. Contract!FlushReturns(p, Peer(p))
      BY <2>1, <2>3, <2>5, <3>4, Zenon DEF Contract!FlushReturns, Opened, Waiting, Counts
    <3>6. Contract!Next
      BY <3>2, <3>5, Zenon DEF Contract!Next
    <3> QED BY <2>3, <3>6, Zenon
  <2> QED BY <2>2, <2>4, <2>5, Zenon
<1>12. ASSUME NEW p \in Ends, NEW i \in Arriving(p), Deliver(p, i) \/ Duplicate(p, i) \/ Lose(p, i)
       PROVE  Good
  <2>1. UNCHANGED <<written, delivered, Counts, Opened>> /\ UNCHANGED <<polling, status>>
    BY <1>4, <1>12, Zenon DEF Deliver, Duplicate, Lose, streamVars, histVars, taskVars
  <2>2. CASE Enqueue(p, wire[p][i])
    <3>1. PollsRight' /\ UNCHANGED Waiting
      BY <1>1, <2>1, <2>2, EnqueueHidden, Zenon
    <3> QED BY <1>3, <2>1, <3>1, Zenon DEF shown
  <2>3. CASE UNCHANGED call
    <3>1. UNCHANGED Waiting
      BY <2>3, Zenon DEF Waiting
    <3>2. PollsRight'
      BY <1>1, <2>1, <2>3, Zenon DEF PollsRight
    <3> QED BY <1>3, <2>1, <3>1, <3>2, Zenon DEF shown
  <2> QED BY <1>12, <2>2, <2>3, Zenon DEF Deliver, Duplicate, Lose, taskVars
<1>13. ASSUME UNCHANGED vars PROVE Good
  <2>1. UNCHANGED <<written, delivered, Counts, Opened>> /\ UNCHANGED <<call, polling, status>>
    BY <1>4, <1>13, Zenon DEF vars, streamVars, histVars, taskVars
  <2>2. UNCHANGED Waiting
    BY <2>1, Zenon DEF Waiting
  <2>3. PollsRight'
    BY <1>1, <2>1, Zenon DEF PollsRight
  <2> QED BY <1>3, <2>1, <2>2, <2>3, Zenon DEF shown
<1> HIDE DEF Good
<1>14. ASSUME Next PROVE Good
  <2>1. PICK q \in Ends :
          \/ \E h \in Halves : StartCall(q, h) \/ BeginPoll(q, h) \/ SpuriousWake(q, h)
          \/ \E n \in WriteSizes : PollWrite(q, n)
          \/ PollShutdown(q) \/ FinishFlush(q)
          \/ ReadPacket(q)
          \/ FinishSomeRead(q)
          \/ \E i \in Arriving(q) : Deliver(q, i) \/ Duplicate(q, i) \/ Lose(q, i)
    BY <1>14, Zenon DEF Next, DeliverSome
  <2> QED BY <2>1, <1>5, <1>6, <1>7, <1>8, <1>9, <1>10, <1>11, <1>12, Zenon
<1>15. Good
  BY <1>13, <1>14, Zenon
<1> QED BY <1>1, <1>15, Zenon DEF Good, ContractInv

\* On any datagram service, for any way of scheduling the calls, in one task or two, and as
\* long as numbers do not wrap, the two streams do what Duplex says and nothing else: read
\* returns with the peer's next chunks, flush only when the peer has all.
THEOREM StreamsImplementDuplex == ASSUME NoWrap PROVE Spec => ImplementsDuplex
<1>1. Init => Contract!Init
  <2> SUFFICES ASSUME Init PROVE Contract!Init
    BY Zenon
  <2>1. written = [p \in Ends |-> 0] /\ delivered = [p \in Ends |-> << >>]
    BY Zenon DEF Init
  <2>2. \A p \in Ends : AssembledCount(p) = 0
    BY EmptySeq DEF Init, AssembledCount
  <2>3. \A p \in Ends : status[p] = "open" /\ \A h \in Halves : call[p][h] = "idle"
    BY Zenon DEF Init
  <2>4. Counts = [p \in Ends |-> 0]
    BY <2>2, Zenon DEF Counts
  <2>5. Waiting = [p \in Ends |-> {}]
    BY <2>3 DEF Waiting
  <2>6. Opened = [p \in Ends |-> TRUE]
    BY <2>3, Zenon DEF Opened
  <2> QED BY <2>1, <2>4, <2>5, <2>6, Zenon DEF Contract!Init, Counts, Waiting, Opened
<1>2. Init => ContractInv
  <2>1. Init => PollsRight
    BY DEF Init, PollsRight
  <2> QED BY <2>1, FlushInvInit, Zenon DEF ContractInv
<1>3. ContractInv /\ [Next]_vars => ContractInv' /\ [Contract!Next]_Contract!vars
  BY ContractNext, Zenon
<1> QED BY <1>1, <1>2, <1>3, PTL DEF Spec, ImplementsDuplex, Contract!Spec

=============================================================================
