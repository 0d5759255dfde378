-------------------------- MODULE UtpStreamProofs ---------------------------
(***************************************************************************)
(* Type correctness of UtpStream, its inductive invariant StreamInv, the   *)
(* steps of poll_write, of the mailbox and the network, of handle_packet   *)
(* and of poll_read that preserve it, and the safety theorems that follow, *)
(* for every value of the constants.                                       *)
(***************************************************************************)
EXTENDS UtpStream, SequenceTheorems, TLAPS

-----------------------------------------------------------------------------
(***************************************************************************)
(* u16 arithmetic.                                                         *)
(***************************************************************************)

\* wrapping_add stays among the sequence numbers.
LEMMA WrappingAddType ==
  ASSUME NEW a \in SeqNumbers, NEW b \in 0 .. SeqModulus
  PROVE  WrappingAdd(a, b) \in SeqNumbers
BY ModulusAssumption DEF WrappingAdd, SeqNumbers

\* Two wrapping additions are one, as long as they do not go round twice.
LEMMA WrappingAddTwice ==
  ASSUME NEW a \in SeqNumbers, NEW b \in Nat, NEW c \in Nat, b + c <= SeqModulus
  PROVE  WrappingAdd(WrappingAdd(a, b), c) = WrappingAdd(a, b + c)
BY ModulusAssumption DEF WrappingAdd, SeqNumbers

\* Within one round, different distances lead to different numbers.
LEMMA WrappingAddInjective ==
  ASSUME NEW a \in SeqNumbers, NEW m \in 1 .. SeqModulus, NEW n \in 1 .. SeqModulus,
         WrappingAdd(a, m) = WrappingAdd(a, n)
  PROVE  m = n
BY ModulusAssumption DEF WrappingAdd, SeqNumbers

\* wrapping_sub gives back the distance that wrapping_add went.
LEMMA WrappingSubAdd ==
  ASSUME NEW a \in SeqNumbers, NEW m \in 0 .. SeqModulus, NEW n \in 0 .. SeqModulus,
         m <= n, n - m < SeqModulus
  PROVE  WrappingSub(WrappingAdd(a, n), WrappingAdd(a, m)) = n - m
BY ModulusAssumption DEF WrappingAdd, WrappingSub, SeqNumbers

-----------------------------------------------------------------------------
(***************************************************************************)
(* Type correctness.                                                       *)
(***************************************************************************)

\* The peer of the peer is the end itself.
LEMMA PeerType == \A p \in Ends : Peer(p) \in Ends /\ Peer(p) # p /\ Peer(Peer(p)) = p
BY Zenon DEF Peer, Ends

\* Lengths add up to a length.
LEMMA NatSum == \A m, n \in Nat : m + n \in Nat
OBVIOUS

\* A function on 1 .. n is a sequence of n elements.
LEMMA FunctionIsSeq ==
  ASSUME NEW S, NEW n \in Nat, NEW f \in [1 .. n -> S]
  PROVE  f \in Seq(S) /\ Len(f) = n
<1>1. f \in Seq(S)
  BY SeqDef, Zenon
<1> QED
  BY <1>1, LenProperties

\* Taking one datagram out of a sequence of them keeps the others, in order.
LEMMA RemoveAtType ==
  ASSUME NEW S, NEW s \in Seq(S), NEW i \in 1 .. Len(s)
  PROVE  /\ RemoveAt(s, i) \in Seq(S)
         /\ Len(RemoveAt(s, i)) = Len(s) - 1
         /\ \A j \in 1 .. Len(s) - 1 : RemoveAt(s, i)[j] = IF j < i THEN s[j] ELSE s[j + 1]
<1> DEFINE a == SubSeq(s, 1, i - 1)
           b == SubSeq(s, i + 1, Len(s))
<1>1. Len(s) \in Nat /\ \A j \in 1 .. Len(s) : s[j] \in S
  BY LenProperties, ElementOfSeq, Zenon
<1>2. /\ a \in Seq(S) /\ Len(a) = i - 1
      /\ \A j \in 1 .. i - 1 : a[j] = s[j]
  <2>1. \A j \in 1 .. i - 1 : s[j] \in S
    BY <1>1
  <2>2. /\ a \in Seq(S) /\ Len(a) = IF 1 <= i - 1 THEN (i - 1) - 1 + 1 ELSE 0
        /\ \A j \in 1 .. (i - 1) - 1 + 1 : a[j] = s[1 + j - 1]
    BY <1>1, <2>1, SubSeqProperties
  <2> HIDE DEF a
  <2> QED BY <1>1, <2>2
<1>3. /\ b \in Seq(S) /\ Len(b) = Len(s) - i
      /\ \A j \in 1 .. Len(s) - i : b[j] = s[i + j]
  <2>1. \A j \in i + 1 .. Len(s) : s[j] \in S
    BY <1>1
  <2>2. /\ b \in Seq(S) /\ Len(b) = IF i + 1 <= Len(s) THEN Len(s) - (i + 1) + 1 ELSE 0
        /\ \A j \in 1 .. Len(s) - (i + 1) + 1 : b[j] = s[i + 1 + j - 1]
    BY <1>1, <2>1, SubSeqProperties
  <2> HIDE DEF b
  <2> QED BY <1>1, <2>2
<1>4. RemoveAt(s, i) = a \o b
  BY Zenon DEF RemoveAt
<1> HIDE DEF a, b
<1>5. /\ a \o b \in Seq(S)
      /\ Len(a \o b) = Len(a) + Len(b)
      /\ \A j \in 1 .. Len(a) + Len(b) :
           (a \o b)[j] = IF j <= Len(a) THEN a[j] ELSE b[j - Len(a)]
  BY <1>2, <1>3, ConcatProperties, Zenon
<1> QED
  BY <1>1, <1>2, <1>3, <1>4, <1>5

\* The HashMap that a new stream starts with.
LEMMA EmptyMap == DOMAIN [s \in {} |-> 0] = {} /\ [s \in {} |-> 0] \in [{} -> Nat]
BY Zenon

\* The state in which connect and accept leave a connection is typed.
LEMMA TypeInit == Init => TypeOK
<1> SUFFICES ASSUME Init PROVE TypeOK
  BY Zenon
<1> USE ModulusAssumption, StreamAssumption
<1>1. isn \in [Ends -> SeqNumbers]
  BY DEF Init, SeqNumbers
<1>2. /\ seq_number \in [Ends -> SeqNumbers]
      /\ ack_number \in [Ends -> SeqNumbers]
  BY <1>1, PeerType, WrappingAddType DEF Init
<1>3. /\ DOMAIN inbound_data = Ends
      /\ \A p \in Ends : /\ inbound_data[p] \in [DOMAIN inbound_data[p] -> Nat]
                         /\ DOMAIN inbound_data[p] \subseteq SeqNumbers
  BY EmptyMap, Zenon DEF Init
<1>4. /\ received_data \in [Ends -> Seq(Nat)]
      /\ unacked_data \in [Ends -> Seq([seq : SeqNumbers, data : Nat])]
      /\ inbound_packets \in [Ends -> Seq(Packets)]
      /\ wire \in [Ends -> Seq(Packets)]
      /\ delivered \in [Ends -> Seq(Nat)]
  BY EmptySeq, Zenon DEF Init
<1>5. /\ waker \in [Ends -> Halves \cup {"none"}]
      /\ call \in [Ends -> [Halves -> {"idle", "runnable", "parked"}]]
      /\ polling \in [Ends -> Halves \cup {"none"}]
      /\ status \in [Ends -> {"open", "panicked"}]
  BY Zenon DEF Init
<1>6. /\ losses \in 0 .. MaxLoss
      /\ dups \in 0 .. MaxDup
      /\ spurious \in 0 .. MaxSpurious
      /\ written \in [Ends -> Nat]
      /\ \A p \in Ends : written[p] <= MaxSegs[p]
  BY DEF Init
<1> QED
  BY <1>1, <1>2, <1>3, <1>4, <1>5, <1>6, Zenon DEF TypeOK

\* poll_write's chunks are typed: a buffer is never so long that its numbers come round.
LEMMA ChunksType ==
  ASSUME TypeOK, NEW p \in Ends, NEW n \in WriteSizes, written[p] + n <= MaxSegs[p]
  PROVE  /\ n \in 1 .. SeqModulus - 1
         /\ Chunks(p, n) \in Seq([seq : SeqNumbers, data : Nat])
         /\ Len(Chunks(p, n)) = n
         /\ \A i \in 1 .. n : Chunks(p, n)[i] =
              [seq |-> WrappingAdd(seq_number[p], i - 1), data |-> written[p] + i]
         /\ [i \in 1 .. n |-> DataPacket(Chunks(p, n)[i])] \in Seq(Packets)
         /\ Len([i \in 1 .. n |-> DataPacket(Chunks(p, n)[i])]) = n
<1> USE ModulusAssumption, StreamAssumption
<1>1. n \in 1 .. SeqModulus - 1 /\ seq_number[p] \in SeqNumbers /\ written[p] \in Nat
  BY DEF TypeOK
<1>2. \A i \in 1 .. n : WrappingAdd(seq_number[p], i - 1) \in SeqNumbers
  BY <1>1, WrappingAddType
<1>3. \A i \in 1 .. n : [seq |-> WrappingAdd(seq_number[p], i - 1), data |-> written[p] + i]
                          \in [seq : SeqNumbers, data : Nat]
  BY <1>1, <1>2
<1>4. /\ Chunks(p, n) \in [1 .. n -> [seq : SeqNumbers, data : Nat]]
      /\ \A i \in 1 .. n : Chunks(p, n)[i] =
              [seq |-> WrappingAdd(seq_number[p], i - 1), data |-> written[p] + i]
  BY <1>3, Zenon DEF Chunks
<1>5. \A i \in 1 .. n : DataPacket(Chunks(p, n)[i]) \in Packets
  BY <1>4, Zenon DEF DataPacket, Packets, DataPackets
<1>6. [i \in 1 .. n |-> DataPacket(Chunks(p, n)[i])] \in [1 .. n -> Packets]
  BY <1>5, Zenon
<1>7. n \in Nat
  BY <1>1, Zenon
<1>8. Chunks(p, n) \in Seq([seq : SeqNumbers, data : Nat]) /\ Len(Chunks(p, n)) = n
  <2> DEFINE S == [seq : SeqNumbers, data : Nat]
             f == Chunks(p, n)
  <2>1. f \in [1 .. n -> S]
    BY <1>4, Zenon
  <2> HIDE DEF S, f
  <2>2. f \in Seq(S) /\ Len(f) = n
    BY <1>7, <2>1, FunctionIsSeq, Zenon
  <2> QED BY <2>2, Zenon DEF S, f
<1>9. /\ [i \in 1 .. n |-> DataPacket(Chunks(p, n)[i])] \in Seq(Packets)
      /\ Len([i \in 1 .. n |-> DataPacket(Chunks(p, n)[i])]) = n
  <2> DEFINE f == [i \in 1 .. n |-> DataPacket(Chunks(p, n)[i])]
  <2>1. f \in [1 .. n -> Packets]
    BY <1>6, Zenon
  <2> HIDE DEF f
  <2>2. f \in Seq(Packets) /\ Len(f) = n
    BY <1>7, <2>1, FunctionIsSeq, Zenon
  <2> QED BY <2>2, Zenon DEF f
<1> QED
  BY <1>1, <1>4, <1>8, <1>9, Zenon

\* The longest run of buffered segments, and what poll_read makes of it, is typed.
LEMMA RunType ==
  ASSUME TypeOK, NEW p \in Ends,
         NEW n \in 0 .. Cardinality(DOMAIN inbound_data[p]), RunLength(p, n)
  PROVE  /\ n \in Nat
         /\ WrappingAdd(ack_number[p], n) \in SeqNumbers
         /\ StatePacket(WrappingAdd(ack_number[p], n)) \in Packets
         /\ WithRun(p, n) \in Seq(Nat)
         /\ Len(WithRun(p, n)) = Len(received_data[p]) + n
         /\ \A i \in 1 .. Len(received_data[p]) : WithRun(p, n)[i] = received_data[p][i]
         /\ \A i \in 1 .. n : WithRun(p, n)[Len(received_data[p]) + i] =
                               inbound_data[p][WrappingAdd(ack_number[p], i)]
<1> DEFINE run == [i \in 1 .. n |-> inbound_data[p][WrappingAdd(ack_number[p], i)]]
<1>1. n \in Nat
  OBVIOUS
<1>2. ack_number[p] \in SeqNumbers /\ received_data[p] \in Seq(Nat)
  BY Zenon DEF TypeOK
<1>3. \A i \in 1 .. n : WrappingAdd(ack_number[p], i) \in DOMAIN inbound_data[p]
  BY Zenon DEF RunLength, RunKeys
<1>4. run \in [1 .. n -> Nat]
  BY <1>3, Zenon DEF TypeOK
<1>5. run \in Seq(Nat) /\ Len(run) = n
  BY <1>1, <1>4, FunctionIsSeq, Zenon
<1>6. \A i \in 1 .. n : run[i] = inbound_data[p][WrappingAdd(ack_number[p], i)]
  BY Zenon
<1>7. WithRun(p, n) = received_data[p] \o run
  BY Zenon DEF WithRun
<1> HIDE DEF run
<1>8. /\ WithRun(p, n) \in Seq(Nat)
      /\ Len(WithRun(p, n)) = Len(received_data[p]) + n
      /\ \A i \in 1 .. Len(received_data[p]) + n : WithRun(p, n)[i] =
           IF i <= Len(received_data[p]) THEN received_data[p][i]
                                         ELSE run[i - Len(received_data[p])]
  <2> DEFINE old == received_data[p]
  <2>1. old \in Seq(Nat)
    BY <1>2, Zenon
  <2> HIDE DEF old
  <2>2. /\ old \o run \in Seq(Nat)
        /\ Len(old \o run) = Len(old) + Len(run)
        /\ \A i \in 1 .. Len(old) + Len(run) :
             (old \o run)[i] = IF i <= Len(old) THEN old[i] ELSE run[i - Len(old)]
    BY <1>5, <2>1, ConcatProperties, Zenon
  <2> QED BY <1>5, <1>7, <2>2, Zenon DEF old
<1>9. Len(received_data[p]) \in Nat
  BY <1>2, LenProperties, Zenon
<1>10. WrappingAdd(ack_number[p], n) \in SeqNumbers
  <2>1. CASE n = 0
    <3>1. 0 \in 0 .. SeqModulus
      BY ModulusAssumption
    <3> QED BY <1>2, <2>1, <3>1, WrappingAddType, Zenon
  <2>2. CASE n # 0
    <3>1. n \in 1 .. n
      BY <1>1, <2>2
    <3>2. DOMAIN inbound_data[p] \subseteq SeqNumbers
      BY Zenon DEF TypeOK
    <3> QED BY <1>3, <3>1, <3>2, Zenon
  <2> QED BY <2>1, <2>2, Zenon
<1>11. StatePacket(WrappingAdd(ack_number[p], n)) \in Packets
  BY <1>10, Zenon DEF StatePacket, Packets, StatePackets
<1>12. \A i \in 1 .. n : WithRun(p, n)[Len(received_data[p]) + i] = run[i]
  <2> SUFFICES ASSUME NEW i \in 1 .. n
               PROVE  WithRun(p, n)[Len(received_data[p]) + i] = run[i]
    BY Zenon
  <2>1. /\ Len(received_data[p]) + i \in 1 .. Len(received_data[p]) + n
        /\ ~ (Len(received_data[p]) + i <= Len(received_data[p]))
        /\ (Len(received_data[p]) + i) - Len(received_data[p]) = i
    BY <1>1, <1>9
  <2> QED BY <1>8, <2>1, Zenon
<1>13. \A i \in 1 .. Len(received_data[p]) : WithRun(p, n)[i] = received_data[p][i]
  <2> SUFFICES ASSUME NEW i \in 1 .. Len(received_data[p])
               PROVE  WithRun(p, n)[i] = received_data[p][i]
    BY Zenon
  <2> DEFINE l == Len(received_data[p])
  <2> HIDE DEF l
  <2>1. l \in Nat /\ i \in 1 .. l
    BY <1>9, Zenon DEF l
  <2>2. i \in 1 .. l + n /\ i <= l
    BY <1>1, <2>1
  <2> QED BY <1>8, <2>2, Zenon DEF l
<1> QED
  BY <1>1, <1>6, <1>8, <1>10, <1>11, <1>12, <1>13, Zenon

\* What poll_read returns and what it keeps are the two parts of what it assembled.
LEMMA SplitType ==
  ASSUME NEW s \in Seq(Nat), NEW k \in 0 .. Len(s)
  PROVE  /\ SubSeq(s, 1, k) \in Seq(Nat) /\ Len(SubSeq(s, 1, k)) = k
         /\ \A i \in 1 .. k : SubSeq(s, 1, k)[i] = s[i]
         /\ SubSeq(s, k + 1, Len(s)) \in Seq(Nat)
         /\ Len(SubSeq(s, k + 1, Len(s))) = Len(s) - k
         /\ \A i \in 1 .. Len(s) - k : SubSeq(s, k + 1, Len(s))[i] = s[k + i]
<1>1. Len(s) \in Nat /\ \A i \in 1 .. Len(s) : s[i] \in Nat
  BY LenProperties, ElementOfSeq, Zenon
<1>2. /\ SubSeq(s, 1, k) \in Seq(Nat)
      /\ Len(SubSeq(s, 1, k)) = IF 1 <= k THEN k - 1 + 1 ELSE 0
      /\ \A i \in 1 .. k - 1 + 1 : SubSeq(s, 1, k)[i] = s[1 + i - 1]
  <2>1. \A i \in 1 .. k : s[i] \in Nat
    BY <1>1
  <2> QED BY <1>1, <2>1, SubSeqProperties
<1>3. /\ SubSeq(s, k + 1, Len(s)) \in Seq(Nat)
      /\ Len(SubSeq(s, k + 1, Len(s))) = IF k + 1 <= Len(s) THEN Len(s) - (k + 1) + 1 ELSE 0
      /\ \A i \in 1 .. Len(s) - (k + 1) + 1 : SubSeq(s, k + 1, Len(s))[i] = s[k + 1 + i - 1]
  <2> DEFINE m == k + 1
             e == Len(s)
  <2>1. m \in Int /\ e \in Int /\ \A i \in m .. e : s[i] \in Nat
    BY <1>1
  <2> HIDE DEF m, e
  <2>2. /\ SubSeq(s, m, e) \in Seq(Nat)
        /\ Len(SubSeq(s, m, e)) = IF m <= e THEN e - m + 1 ELSE 0
        /\ \A i \in 1 .. e - m + 1 : SubSeq(s, m, e)[i] = s[m + i - 1]
    BY <2>1, SubSeqProperties
  <2> QED BY <2>2, Zenon DEF m, e
<1>4. /\ Len(SubSeq(s, 1, k)) = k
      /\ Len(SubSeq(s, k + 1, Len(s))) = Len(s) - k
  BY <1>1, <1>2, <1>3
<1>5. /\ \A i \in 1 .. k : SubSeq(s, 1, k)[i] = s[i]
      /\ \A i \in 1 .. Len(s) - k : SubSeq(s, k + 1, Len(s))[i] = s[k + i]
  <2>1. ASSUME NEW i \in 1 .. k PROVE SubSeq(s, 1, k)[i] = s[i]
    <3>1. i \in 1 .. k - 1 + 1 /\ 1 + i - 1 = i
      BY <1>1
    <3> QED BY <1>2, <3>1, Zenon
  <2>2. ASSUME NEW i \in 1 .. Len(s) - k PROVE SubSeq(s, k + 1, Len(s))[i] = s[k + i]
    <3>1. i \in 1 .. Len(s) - (k + 1) + 1 /\ k + 1 + i - 1 = k + i
      BY <1>1
    <3> QED BY <1>3, <3>1, Zenon
  <2> QED BY <2>1, <2>2, Zenon
<1> QED
  BY <1>2, <1>3, <1>4, <1>5, Zenon

\* The end of a poll keeps the task's state typed.
LEMMA EndPollType ==
  ASSUME TypeOK, NEW p \in Ends, NEW h \in Halves, NEW end \in {"parked", "idle"},
         EndPoll(p, h, end)
  PROVE  /\ waker' \in [Ends -> Halves \cup {"none"}]
         /\ call' \in [Ends -> [Halves -> {"idle", "runnable", "parked"}]]
         /\ polling' \in [Ends -> Halves \cup {"none"}]
         /\ spurious' \in 0 .. MaxSpurious
<1>1. waker' \in [Ends -> Halves \cup {"none"}] /\ polling' \in [Ends -> Halves \cup {"none"}]
  BY Zenon DEF TypeOK, EndPoll
<1>2. \E e \in {"idle", "runnable", "parked"} : call' = [call EXCEPT ![p][h] = e]
  BY Zenon DEF EndPoll
<1>3. call' \in [Ends -> [Halves -> {"idle", "runnable", "parked"}]]
  BY <1>2 DEF TypeOK
<1>4. spurious' \in 0 .. MaxSpurious
  BY StreamAssumption DEF TypeOK, EndPoll
<1> QED BY <1>1, <1>3, <1>4, Zenon

\* Every step keeps the state typed.
LEMMA TypeNext == TypeOK /\ [Next]_vars => TypeOK'
<1> SUFFICES ASSUME TypeOK, [Next]_vars PROVE TypeOK'
  BY Zenon
<1> USE ModulusAssumption, StreamAssumption
<1>1. ASSUME NEW p \in Ends, NEW h \in Halves, StartCall(p, h) PROVE TypeOK'
  BY <1>1, Zenon DEF TypeOK, StartCall, streamVars, netVars, histVars
<1>2. ASSUME NEW p \in Ends, NEW n \in WriteSizes, PollWrite(p, n) PROVE TypeOK'
  <2> DEFINE packets == [i \in 1 .. n |-> DataPacket(Chunks(p, n)[i])]
  <2>1. /\ n \in 1 .. SeqModulus - 1
        /\ Chunks(p, n) \in Seq([seq : SeqNumbers, data : Nat])
        /\ packets \in Seq(Packets)
    BY <1>2, ChunksType, Zenon DEF PollWrite
  <2>2. unacked_data' = [unacked_data EXCEPT ![p] = @ \o Chunks(p, n)]
    BY <1>2, Zenon DEF PollWrite
  <2>3. wire' = [wire EXCEPT ![Peer(p)] = @ \o packets]
    BY <1>2, Zenon DEF PollWrite
  <2> HIDE DEF packets
  <2>4. unacked_data' \in [Ends -> Seq([seq : SeqNumbers, data : Nat])]
    BY <2>1, <2>2, ConcatProperties, Zenon DEF TypeOK
  <2>5. wire' \in [Ends -> Seq(Packets)]
    BY <2>1, <2>3, ConcatProperties, PeerType, Zenon DEF TypeOK
  <2>6. seq_number' \in [Ends -> SeqNumbers]
    <3>1. WrappingAdd(seq_number[p], n) \in SeqNumbers
      <4>1. n \in 0 .. SeqModulus
        BY <2>1, ModulusAssumption
      <4>2. seq_number[p] \in SeqNumbers
        BY Zenon DEF TypeOK
      <4> QED BY <4>1, <4>2, WrappingAddType, Zenon
    <3> QED BY <1>2, <3>1, Zenon DEF TypeOK, PollWrite
  <2>7. written' \in [Ends -> Nat] /\ \A q \in Ends : written'[q] <= MaxSegs[q]
    <3>1. written' = [written EXCEPT ![p] = written[p] + n] /\ written[p] + n <= MaxSegs[p]
      BY <1>2, Zenon DEF PollWrite
    <3>2. written \in [Ends -> Nat] /\ n \in Nat /\ \A q \in Ends : written[q] <= MaxSegs[q]
      BY <2>1, Zenon DEF TypeOK
    <3> QED BY <3>1, <3>2
  <2> QED
    BY <1>2, <2>4, <2>5, <2>6, <2>7, Zenon DEF TypeOK, PollWrite, taskVars
<1>3. ASSUME NEW p \in Ends, PollShutdown(p) PROVE TypeOK'
  BY <1>3, Zenon DEF TypeOK, PollShutdown, streamVars, netVars, histVars
<1>4. ASSUME NEW p \in Ends, NEW h \in Halves, BeginPoll(p, h) PROVE TypeOK'
  BY <1>4, Zenon DEF TypeOK, BeginPoll, streamVars, netVars, histVars
<1>5. ASSUME NEW p \in Ends, NEW h \in Halves, SpuriousWake(p, h) PROVE TypeOK'
  <2>1. spurious' \in 0 .. MaxSpurious
    BY <1>5 DEF TypeOK, SpuriousWake
  <2>2. call' \in [Ends -> [Halves -> {"idle", "runnable", "parked"}]]
    BY <1>5, Zenon DEF TypeOK, SpuriousWake
  <2> QED BY <1>5, <2>1, <2>2, Zenon DEF TypeOK, SpuriousWake, streamVars, netVars, histVars
<1>6. ASSUME NEW p \in Ends, ReadPacket(p) PROVE TypeOK'
  <2> DEFINE packet == Head(inbound_packets[p])
  <2>1. packet \in Packets /\ Tail(inbound_packets[p]) \in Seq(Packets)
    BY <1>6, HeadTailProperties, Zenon DEF TypeOK, ReadPacket
  <2>2. inbound_packets' \in [Ends -> Seq(Packets)]
    BY <1>6, <2>1, Zenon DEF TypeOK, ReadPacket
  <2> DEFINE BufferOK == /\ DOMAIN inbound_data' = Ends
                         /\ \A q \in Ends :
                              /\ inbound_data'[q] \in [DOMAIN inbound_data'[q] -> Nat]
                              /\ DOMAIN inbound_data'[q] \subseteq SeqNumbers
             UnackedOK == unacked_data' \in [Ends -> Seq([seq : SeqNumbers, data : Nat])]
  <2>3. BufferOK /\ UnackedOK
    <3>1. CASE UNCHANGED <<inbound_data, unacked_data>>
      BY <3>1, Zenon DEF TypeOK
    <3>2. CASE HandleData(p, packet)
      <4>1. packet.seq \in SeqNumbers /\ packet.data \in Nat
        BY <2>1, <3>2, Zenon DEF HandleData, Packets, DataPackets, StatePackets
      <4> HIDE DEF packet
      <4> QED BY <3>2, <4>1, Zenon DEF HandleData, Insert, TypeOK
    <3>3. CASE HandleState(p, packet)
      <4> DEFINE S == [seq : SeqNumbers, data : Nat]
      <4>1. PICK k \in 0 .. Len(unacked_data[p]) :
              unacked_data' = [unacked_data EXCEPT ![p] = SubSeq(@, k + 1, Len(@))]
        BY <3>3, Zenon DEF HandleState
      <4>2. unacked_data[p] \in Seq(S)
        BY Zenon DEF TypeOK
      <4>3. Len(unacked_data[p]) \in Nat /\ \A i \in 1 .. Len(unacked_data[p]) : unacked_data[p][i] \in S
        BY <4>2, LenProperties, ElementOfSeq, Zenon
      <4> HIDE DEF S
      <4>4. \A i \in k + 1 .. Len(unacked_data[p]) : unacked_data[p][i] \in S
        BY <4>3
      <4>5. SubSeq(unacked_data[p], k + 1, Len(unacked_data[p])) \in Seq(S)
        BY <4>3, <4>4, SubSeqProperties
      <4>6. UnackedOK
        BY <4>1, <4>5, Zenon DEF TypeOK, S
      <4> QED BY <3>3, <4>6, Zenon DEF HandleState, TypeOK
    <3> QED BY <1>6, <3>1, <3>2, <3>3, Zenon DEF ReadPacket
  <2> QED
    BY <1>6, <2>2, <2>3, Zenon DEF TypeOK, ReadPacket, taskVars, netVars, histVars
<1>7. ASSUME NEW p \in Ends, NEW n \in 0 .. Cardinality(DOMAIN inbound_data[p]),
             NEW room \in ReadSizes, FinishRead(p, n, room)
      PROVE  TypeOK'
  <2> DEFINE all   == WithRun(p, n)
             taken == Smaller(Len(all), room)
             ack   == WrappingAdd(ack_number[p], n)
             end   == IF all = << >> THEN "parked" ELSE "idle"
  <2>1. /\ RunLength(p, n)
        /\ inbound_data' = [inbound_data EXCEPT ![p] = Removed(@, RunKeys(p, n))]
        /\ ack_number' = [ack_number EXCEPT ![p] = ack]
        /\ wire' = [wire EXCEPT ![Peer(p)] = Append(@, StatePacket(ack))]
        /\ delivered' = [delivered EXCEPT ![p] = @ \o SubSeq(all, 1, taken)]
        /\ received_data' = [received_data EXCEPT ![p] = SubSeq(all, taken + 1, Len(all))]
        /\ EndPoll(p, "read", end)
        /\ UNCHANGED <<seq_number, unacked_data, inbound_packets, status, losses, dups,
                       isn, written>>
    BY <1>7, Zenon DEF FinishRead
  <2>2. all \in Seq(Nat) /\ ack \in SeqNumbers /\ StatePacket(ack) \in Packets
    BY <2>1, RunType, Zenon
  <2>3. end \in {"parked", "idle"}
    BY Zenon
  <2> HIDE DEF all, ack, end
  <2>4. taken \in 0 .. Len(all)
    BY <2>2, LenProperties DEF Smaller
  <2> HIDE DEF taken
  <2>5. SubSeq(all, 1, taken) \in Seq(Nat) /\ SubSeq(all, taken + 1, Len(all)) \in Seq(Nat)
    BY <2>2, <2>4, SplitType, Zenon
  <2>6. delivered' \in [Ends -> Seq(Nat)] /\ received_data' \in [Ends -> Seq(Nat)]
    BY <2>1, <2>5, ConcatProperties, Zenon DEF TypeOK
  <2>7. wire' \in [Ends -> Seq(Packets)]
    <3>1. wire[Peer(p)] \in Seq(Packets)
      BY PeerType, Zenon DEF TypeOK
    <3>2. Append(wire[Peer(p)], StatePacket(ack)) \in Seq(Packets)
      BY <2>2, <3>1, AppendProperties, Zenon
    <3> QED BY <2>1, <3>2, PeerType, Zenon DEF TypeOK
  <2>8. /\ DOMAIN inbound_data' = Ends
        /\ \A q \in Ends : /\ inbound_data'[q] \in [DOMAIN inbound_data'[q] -> Nat]
                           /\ DOMAIN inbound_data'[q] \subseteq SeqNumbers
    <3> DEFINE kept == Removed(inbound_data[p], RunKeys(p, n))
    <3>1. /\ DOMAIN inbound_data = Ends
          /\ \A q \in Ends : /\ inbound_data[q] \in [DOMAIN inbound_data[q] -> Nat]
                             /\ DOMAIN inbound_data[q] \subseteq SeqNumbers
      BY Zenon DEF TypeOK
    <3>2. kept \in [DOMAIN kept -> Nat] /\ DOMAIN kept \subseteq SeqNumbers
      BY <3>1, Zenon DEF Removed
    <3> HIDE DEF kept
    <3>3. inbound_data' = [inbound_data EXCEPT ![p] = kept]
      BY <2>1, Zenon DEF kept
    <3> QED BY <3>1, <3>2, <3>3, Zenon
  <2>9. ack_number' \in [Ends -> SeqNumbers]
    BY <2>1, <2>2, Zenon DEF TypeOK
  <2>10. /\ waker' \in [Ends -> Halves \cup {"none"}]
         /\ call' \in [Ends -> [Halves -> {"idle", "runnable", "parked"}]]
         /\ polling' \in [Ends -> Halves \cup {"none"}]
         /\ spurious' \in 0 .. MaxSpurious
    BY <2>1, <2>3, EndPollType, Zenon DEF Halves
  <2> QED
    BY <2>1, <2>6, <2>7, <2>8, <2>9, <2>10, Zenon DEF TypeOK
<1>8. ASSUME NEW p \in Ends, FinishFlush(p) PROVE TypeOK'
  <2>1. \E end \in {"parked", "idle"} : EndPoll(p, "flush", end)
    BY <1>8, Zenon DEF FinishFlush
  <2>2. /\ waker' \in [Ends -> Halves \cup {"none"}]
        /\ call' \in [Ends -> [Halves -> {"idle", "runnable", "parked"}]]
        /\ polling' \in [Ends -> Halves \cup {"none"}]
        /\ spurious' \in 0 .. MaxSpurious
    BY <2>1, EndPollType, Zenon DEF Halves
  <2> QED BY <1>8, <2>2, Zenon DEF TypeOK, FinishFlush, streamVars, netVars, histVars
<1>9. ASSUME NEW p \in Ends, NEW packet \in Packets, Enqueue(p, packet)
      PROVE  /\ inbound_packets' \in [Ends -> Seq(Packets)]
             /\ waker' \in [Ends -> Halves \cup {"none"}]
             /\ call' \in [Ends -> [Halves -> {"idle", "runnable", "parked"}]]
  <2>1. Append(inbound_packets[p], packet) \in Seq(Packets)
    BY AppendProperties, Zenon DEF TypeOK
  <2>2. inbound_packets' \in [Ends -> Seq(Packets)] /\ waker' \in [Ends -> Halves \cup {"none"}]
    <3>1. CASE status[p] = "open"
      <4>1. /\ inbound_packets' = [inbound_packets EXCEPT ![p] = Append(@, packet)]
            /\ waker' = [waker EXCEPT ![p] = "none"]
        BY <1>9, <3>1, Zenon DEF Enqueue
      <4> QED BY <2>1, <4>1, Zenon DEF TypeOK
    <3>2. CASE status[p] # "open"
      BY <1>9, <3>2, Zenon DEF Enqueue, TypeOK
    <3> QED BY <3>1, <3>2, Zenon
  <2>3. call' \in [Ends -> [Halves -> {"idle", "runnable", "parked"}]]
    <3>1. CASE status[p] = "open"
      <4> DEFINE c == [h \in Halves |-> IF h \in Woken(p) /\ call[p][h] = "parked"
                                       THEN "runnable" ELSE call[p][h]]
      <4>1. call' = [call EXCEPT ![p] = c]
        BY <1>9, <3>1, Zenon DEF Enqueue
      <4>2. c \in [Halves -> {"idle", "runnable", "parked"}]
        BY DEF TypeOK
      <4> HIDE DEF c
      <4> QED BY <4>1, <4>2, Zenon DEF TypeOK
    <3>2. CASE status[p] # "open"
      BY <1>9, <3>2, Zenon DEF Enqueue, TypeOK
    <3> QED BY <3>1, <3>2, Zenon
  <2> QED BY <2>2, <2>3, Zenon
<1>10. ASSUME NEW p \in Ends, NEW i \in Arriving(p)
       PROVE  /\ i \in 1 .. Len(wire[p])
              /\ wire[p][i] \in Packets
              /\ RemoveAt(wire[p], i) \in Seq(Packets)
  <2>1. wire[p] \in Seq(Packets)
    BY Zenon DEF TypeOK
  <2>2. i \in 1 .. Len(wire[p])
    BY <2>1, LenProperties, Zenon DEF Arriving
  <2> QED BY <2>1, <2>2, ElementOfSeq, RemoveAtType, Zenon
<1>11. ASSUME NEW p \in Ends, NEW i \in Arriving(p), Deliver(p, i) PROVE TypeOK'
  <2>1. wire' \in [Ends -> Seq(Packets)]
    BY <1>10, <1>11, Zenon DEF TypeOK, Deliver
  <2>2. Enqueue(p, wire[p][i]) /\ wire[p][i] \in Packets
    BY <1>10, <1>11, Zenon DEF Deliver
  <2> QED BY <1>9, <1>11, <2>1, <2>2, Zenon DEF TypeOK, Deliver, streamVars, histVars
<1>12. ASSUME NEW p \in Ends, NEW i \in Arriving(p), Duplicate(p, i) PROVE TypeOK'
  <2>1. Enqueue(p, wire[p][i]) /\ wire[p][i] \in Packets
    BY <1>10, <1>12, Zenon DEF Duplicate
  <2>2. dups' \in 0 .. MaxDup
    BY <1>12 DEF TypeOK, Duplicate
  <2> QED BY <1>9, <1>12, <2>1, <2>2, Zenon DEF TypeOK, Duplicate, streamVars, histVars
<1>13. ASSUME NEW p \in Ends, NEW i \in Arriving(p), Lose(p, i) PROVE TypeOK'
  <2>1. wire' \in [Ends -> Seq(Packets)]
    BY <1>10, <1>13, Zenon DEF TypeOK, Lose
  <2>2. losses' \in 0 .. MaxLoss
    BY <1>13 DEF TypeOK, Lose
  <2> QED BY <1>13, <2>1, <2>2, Zenon DEF TypeOK, Lose, streamVars, taskVars, histVars
<1>14. CASE UNCHANGED vars
  BY <1>14, Zenon DEF TypeOK, vars, streamVars, taskVars, netVars, histVars
<1> QED
  BY <1>1, <1>2, <1>3, <1>4, <1>5, <1>6, <1>7, <1>8, <1>11, <1>12, <1>13, <1>14, Zenon
  DEF Next, FinishSomeRead, DeliverSome

\* Type correctness of the two streams, their tasks and the datagrams between them.
THEOREM TypeCorrect == Spec => []TypeOK
  BY TypeInit, TypeNext, PTL DEF Spec

-----------------------------------------------------------------------------
(***************************************************************************)
(* Numbers match segments, and so poll_read hands out a prefix of what the *)
(* peer wrote.  The two need each other: a run of buffered segments is the *)
(* right one only if the numbers are, and the number an ACK carries is     *)
(* right only if the assembled segments are the first ones.                *)
(***************************************************************************)

StreamInv == TypeOK /\ NumbersMatchSegments /\ InOrderPrefix

\* The assembled segments are a sequence of AssembledCount elements.
LEMMA AssembledType ==
  ASSUME TypeOK, NEW p \in Ends
  PROVE  /\ delivered[p] \in Seq(Nat) /\ received_data[p] \in Seq(Nat)
         /\ Assembled(p) \in Seq(Nat)
         /\ Len(Assembled(p)) = AssembledCount(p)
         /\ AssembledCount(p) \in Nat
<1>1. delivered[p] \in Seq(Nat) /\ received_data[p] \in Seq(Nat)
  BY Zenon DEF TypeOK
<1>2. Len(delivered[p]) \in Nat /\ Len(received_data[p]) \in Nat
  BY <1>1, LenProperties, Zenon
<1>3. /\ Assembled(p) \in Seq(Nat)
      /\ Len(Assembled(p)) = Len(delivered[p]) + Len(received_data[p])
  BY <1>1, ConcatProperties, Zenon DEF Assembled
<1>4. AssembledCount(p) = Len(delivered[p]) + Len(received_data[p])
  BY Zenon DEF AssembledCount
<1>5. AssembledCount(p) \in Nat
  BY <1>2, <1>4, NatSum, Zenon
<1> QED BY <1>1, <1>3, <1>4, <1>5, Zenon

\* The bounds that keep every number within one round of its end's first.
LEMMA RoundBounds ==
  ASSUME StreamInv, NEW p \in Ends
  PROVE  /\ isn[p] \in SeqNumbers
         /\ written[p] \in Nat /\ written[p] + 1 <= SeqModulus
         /\ AssembledCount(Peer(p)) \in Nat
         /\ AssembledCount(Peer(p)) <= written[p]
<1>1. Peer(p) \in Ends /\ Peer(Peer(p)) = p
  BY PeerType, Zenon
<1>2. isn[p] \in SeqNumbers /\ written[p] \in Nat /\ written[p] <= MaxSegs[p]
  BY Zenon DEF StreamInv, TypeOK
<1>3. AssembledCount(Peer(p)) \in Nat /\ AssembledCount(Peer(p)) <= written[p]
  BY <1>1, AssembledType, Zenon DEF StreamInv, InOrderPrefix
<1> QED
  BY <1>2, <1>3, ModulusAssumption, StreamAssumption

\* What Genuine says after a step of a packet known before it.
GenuineNext(p, packet) ==
  \/ /\ packet.type = "Data"
     /\ packet.data \in 1 .. written'[Peer(p)]
     /\ packet.seq = WrappingAdd(isn'[Peer(p)], packet.data)
  \/ /\ packet.type = "State"
     /\ \E k \in 0 .. AssembledCount(Peer(p))' : packet.ack = WrappingAdd(isn'[p], k)

\* PacketsGenuine after a step, packet by packet.
LEMMA PacketsGenuineNext ==
  ASSUME \A p \in Ends :
           /\ \A i \in 1 .. Len(wire'[p]) : GenuineNext(p, wire'[p][i])
           /\ \A i \in 1 .. Len(inbound_packets'[p]) : GenuineNext(p, inbound_packets'[p][i])
  PROVE  PacketsGenuine'
BY Zenon DEF PacketsGenuine, Genuine, GenuineNext, SegmentSeq

\* A packet stays genuine while ends only write and assemble more.
LEMMA GenuineKept ==
  ASSUME TypeOK, TypeOK', isn' = isn,
         \A q \in Ends : /\ written[q] <= written'[q]
                         /\ AssembledCount(q) <= AssembledCount(q)',
         NEW p \in Ends, NEW packet, Genuine(p, packet)
  PROVE  GenuineNext(p, packet)
<1>1. /\ written[Peer(p)] \in Nat /\ written'[Peer(p)] \in Nat
      /\ written[Peer(p)] <= written'[Peer(p)]
  BY PeerType, Zenon DEF TypeOK
<1>2. /\ AssembledCount(Peer(p)) \in Nat /\ AssembledCount(Peer(p))' \in Nat
      /\ AssembledCount(Peer(p)) <= AssembledCount(Peer(p))'
  <2>1. Peer(p) \in Ends
    BY PeerType, Zenon
  <2>2. /\ delivered'[Peer(p)] \in Seq(Nat) /\ received_data'[Peer(p)] \in Seq(Nat)
    BY <2>1, Zenon DEF TypeOK
  <2>3. Len(delivered'[Peer(p)]) \in Nat /\ Len(received_data'[Peer(p)]) \in Nat
    BY <2>2, LenProperties, Zenon
  <2>4. AssembledCount(Peer(p))' = Len(delivered'[Peer(p)]) + Len(received_data'[Peer(p)])
    BY Zenon DEF AssembledCount
  <2>5. AssembledCount(Peer(p))' \in Nat
    BY <2>3, <2>4, NatSum, Zenon
  <2> QED BY <2>1, <2>5, AssembledType, Zenon
<1>3. CASE packet.type = "Data"
  BY <1>1, <1>3 DEF Genuine, GenuineNext, SegmentSeq
<1>4. CASE packet.type = "State"
  <2>1. PICK k \in 0 .. AssembledCount(Peer(p)) : packet.ack = SegmentSeq(p, k)
    BY <1>4, Zenon DEF Genuine
  <2>2. k \in 0 .. AssembledCount(Peer(p))' /\ packet.ack = WrappingAdd(isn'[p], k)
    BY <1>2, <2>1 DEF SegmentSeq
  <2> QED BY <1>4, <2>2, Zenon DEF GenuineNext
<1> QED BY <1>3, <1>4, Zenon DEF Genuine

\* The run of segments that poll_read assembles is the next so many that the peer wrote:
\* it ends before the peer's last, although old segments may be buffered beyond it.
LEMMA RunExact ==
  ASSUME StreamInv, NEW p \in Ends,
         NEW n \in 0 .. Cardinality(DOMAIN inbound_data[p]), RunLength(p, n)
  PROVE  /\ n \in Nat
         /\ AssembledCount(p) + n <= written[Peer(p)]
         /\ \A i \in 1 .. n : inbound_data[p][WrappingAdd(ack_number[p], i)] = AssembledCount(p) + i
         /\ WrappingAdd(ack_number[p], n) = SegmentSeq(Peer(p), AssembledCount(p) + n)
<1> DEFINE c == AssembledCount(p)
           w == written[Peer(p)]
           a == isn[Peer(p)]
<1>1. n \in Nat
  OBVIOUS
<1>2. /\ a \in SeqNumbers /\ w \in Nat /\ w + 1 <= SeqModulus
      /\ c \in Nat /\ c <= w
  BY PeerType, RoundBounds, Zenon
<1>3. ack_number[p] = WrappingAdd(a, c)
  BY Zenon DEF StreamInv, NumbersMatchSegments, CountersMatch, SegmentSeq
<1>4. ASSUME NEW i \in 1 .. n, c + i <= SeqModulus
      PROVE  /\ c + i <= w
             /\ inbound_data[p][WrappingAdd(ack_number[p], i)] = c + i
  <2> DEFINE key == WrappingAdd(ack_number[p], i)
             m   == inbound_data[p][key]
  <2>1. key = WrappingAdd(a, c + i)
    BY <1>1, <1>2, <1>3, <1>4, WrappingAddTwice
  <2>2. key \in DOMAIN inbound_data[p]
    BY Zenon DEF RunLength, RunKeys
  <2>3. m \in 1 .. w /\ key = WrappingAdd(a, m)
    BY <2>2, Zenon DEF StreamInv, NumbersMatchSegments, BufferGenuine, SegmentSeq
  <2> HIDE DEF key, m, c, w, a
  <2>4. m \in 1 .. SeqModulus /\ c + i \in 1 .. SeqModulus
    BY <1>1, <1>2, <1>4, <2>3, ModulusAssumption
  <2>5. m = c + i
    BY <1>2, <2>1, <2>3, <2>4, WrappingAddInjective, Zenon
  <2> QED BY <2>3, <2>5 DEF key, m
<1> HIDE DEF c, w, a
<1>5. c + n <= w
  <2> SUFFICES ASSUME c + n > w PROVE FALSE
    BY <1>1, <1>2
  <2>1. w - c + 1 \in 1 .. n /\ c + (w - c + 1) = w + 1
    BY <1>1, <1>2
  <2> QED BY <1>2, <1>4, <2>1
<1>6. \A i \in 1 .. n : c + i <= SeqModulus
  BY <1>1, <1>2, <1>5, ModulusAssumption
<1>7. WrappingAdd(ack_number[p], n) = WrappingAdd(a, c + n)
  BY <1>1, <1>2, <1>3, <1>5, WrappingAddTwice, ModulusAssumption
<1> QED
  BY <1>1, <1>4, <1>5, <1>6, <1>7, Zenon DEF c, w, a, SegmentSeq

\* The handshake leaves both ends with matching numbers.
LEMMA StreamInvInit == Init => StreamInv
<1> SUFFICES ASSUME Init PROVE StreamInv
  BY Zenon
<1>1. TypeOK
  BY TypeInit, Zenon
<1>2. \A p \in Ends : /\ delivered[p] = << >> /\ received_data[p] = << >>
                      /\ unacked_data[p] = << >> /\ written[p] = 0
                      /\ wire[p] = << >> /\ inbound_packets[p] = << >>
                      /\ DOMAIN inbound_data[p] = {}
                      /\ seq_number[p] = WrappingAdd(isn[p], 1)
                      /\ ack_number[p] = isn[Peer(p)]
  BY EmptyMap, Zenon DEF Init
<1>3. Len(<< >>) = 0
  BY Zenon
<1>4. \A p \in Ends : AssembledCount(p) = 0
  <2>1. \A p \in Ends : AssembledCount(p) = 0 + 0
    BY <1>2, <1>3, ZenonT(60) DEF AssembledCount
  <2> QED BY <2>1
<1>5. \A p \in Ends : SegmentSeq(p, 0) = isn[p]
  <2>1. \A p \in Ends : isn[p] \in SeqNumbers
    BY <1>1, Zenon DEF TypeOK
  <2>2. \A m \in SeqNumbers : WrappingAdd(m, 0) = m
    BY ModulusAssumption DEF WrappingAdd, SeqNumbers
  <2> QED BY <2>1, <2>2, Zenon DEF SegmentSeq
<1>6. CountersMatch
  BY <1>2, <1>4, <1>5, PeerType DEF CountersMatch, SegmentSeq
<1>7. PacketsGenuine /\ BufferGenuine /\ UnackedIsSuffix
  BY <1>2, <1>3 DEF PacketsGenuine, BufferGenuine, UnackedIsSuffix
<1>8. InOrderPrefix
  <2>1. \A p \in Ends : Len(Assembled(p)) = 0
    BY <1>1, <1>4, AssembledType, Zenon
  <2> QED BY <1>2, <2>1, PeerType DEF InOrderPrefix
<1> QED
  BY <1>1, <1>6, <1>7, <1>8, Zenon DEF StreamInv, NumbersMatchSegments

\* poll_write numbers its chunks on from those written before.
LEMMA StreamInvWrite ==
  ASSUME StreamInv, TypeOK', NEW p \in Ends, NEW n \in WriteSizes, PollWrite(p, n)
  PROVE  StreamInv'
<1> DEFINE w == written[p]
           a == isn[p]
           packets == [i \in 1 .. n |-> DataPacket(Chunks(p, n)[i])]
<1>1. TypeOK
  BY Zenon DEF StreamInv
<1>2. /\ a \in SeqNumbers /\ w \in Nat /\ n \in Nat
      /\ n \in 1 .. SeqModulus - 1
      /\ w + n + 1 <= SeqModulus
  <2>1. n \in 1 .. SeqModulus - 1
    BY <1>1, ChunksType, Zenon DEF PollWrite
  <2>2. w \in Nat /\ a \in SeqNumbers /\ MaxSegs[p] \in Nat /\ MaxSegs[p] < SeqModulus
    BY <1>1, StreamAssumption, Zenon DEF TypeOK
  <2>3. w + n <= MaxSegs[p]
    BY Zenon DEF PollWrite
  <2> QED BY <2>1, <2>2, <2>3, ModulusAssumption
<1>3. /\ isn' = isn /\ ack_number' = ack_number /\ inbound_data' = inbound_data
      /\ received_data' = received_data /\ delivered' = delivered
      /\ inbound_packets' = inbound_packets
      /\ written' = [written EXCEPT ![p] = w + n]
      /\ seq_number' = [seq_number EXCEPT ![p] = WrappingAdd(seq_number[p], n)]
      /\ unacked_data' = [unacked_data EXCEPT ![p] = unacked_data[p] \o Chunks(p, n)]
      /\ wire' = [wire EXCEPT ![Peer(p)] = wire[Peer(p)] \o packets]
  BY Zenon DEF PollWrite
<1>4. \A q \in Ends : /\ AssembledCount(q)' = AssembledCount(q)
                      /\ Assembled(q)' = Assembled(q)
                      /\ AssembledCount(q) \in Nat
  BY <1>1, <1>3, AssembledType, Zenon DEF AssembledCount, Assembled
<1>5. /\ written'[p] = w + n
      /\ \A q \in Ends : /\ q # p => written'[q] = written[q]
                         /\ written[q] \in Nat /\ written'[q] \in Nat
                         /\ written[q] <= written'[q]
  <2>1. written \in [Ends -> Nat]
    BY <1>1, Zenon DEF TypeOK
  <2>2. written' = [written EXCEPT ![p] = w + n] /\ written[p] = w
    BY <1>3, Zenon
  <2> HIDE DEF w
  <2>3. w + n \in Nat /\ w <= w + n
    BY <1>2
  <2> QED BY <2>1, <2>2, <2>3
<1>6. seq_number[p] = WrappingAdd(a, w + 1)
  BY Zenon DEF StreamInv, NumbersMatchSegments, CountersMatch, SegmentSeq
<1>chunks. /\ Chunks(p, n) \in Seq([seq : SeqNumbers, data : Nat])
           /\ Len(Chunks(p, n)) = n
           /\ \A j \in 1 .. n : Chunks(p, n)[j] =
                [seq |-> WrappingAdd(seq_number[p], j - 1), data |-> w + j]
           /\ packets \in Seq(Packets)
           /\ Len(packets) = n
  <2>1. written[p] + n <= MaxSegs[p]
    BY Zenon DEF PollWrite
  <2> QED BY <1>1, <2>1, ChunksType, Zenon
<1> HIDE DEF w, a, packets
<1>7. \A j \in 0 .. n : WrappingAdd(seq_number[p], j) = WrappingAdd(a, w + 1 + j)
  <2> TAKE j \in 0 .. n
  <2>1. w + 1 \in Nat /\ j \in Nat /\ (w + 1) + j <= SeqModulus
    BY <1>2, ModulusAssumption
  <2> QED BY <1>2, <1>6, <2>1, WrappingAddTwice
<1>8. CountersMatch'
  <2> SUFFICES ASSUME NEW q \in Ends
               PROVE  /\ seq_number'[q] = WrappingAdd(isn[q], written'[q] + 1)
                      /\ ack_number'[q] = WrappingAdd(isn[Peer(q)], AssembledCount(q)')
    BY <1>3, Zenon DEF CountersMatch, SegmentSeq
  <2>1. ack_number'[q] = WrappingAdd(isn[Peer(q)], AssembledCount(q)')
    BY <1>3, <1>4, Zenon DEF StreamInv, NumbersMatchSegments, CountersMatch, SegmentSeq
  <2>2. CASE q = p
    <3>1. w + 1 + n = (w + n) + 1 /\ n \in 0 .. n
      BY <1>2
    <3>2. seq_number'[p] = WrappingAdd(a, (w + n) + 1)
      <4>1. seq_number'[p] = WrappingAdd(seq_number[p], n)
        BY <1>1, <1>3, Zenon DEF TypeOK
      <4> QED BY <1>7, <3>1, <4>1, Zenon
    <3> QED BY <1>5, <2>1, <2>2, <3>2, Zenon DEF a
  <2>3. CASE q # p
    <3>1. seq_number'[q] = seq_number[q] /\ written'[q] = written[q]
      BY <1>1, <1>3, <1>5, <2>3, Zenon DEF TypeOK
    <3> QED BY <2>1, <3>1, Zenon DEF StreamInv, NumbersMatchSegments, CountersMatch, SegmentSeq
  <2> QED BY <2>2, <2>3, Zenon
<1>9. ASSUME NEW j \in 1 .. n PROVE GenuineNext(Peer(p), packets[j])
  <2>1. Chunks(p, n)[j] = [seq |-> WrappingAdd(seq_number[p], j - 1), data |-> w + j]
    BY <1>chunks, Zenon
  <2>2. packets[j] = [type |-> "Data", seq |-> WrappingAdd(seq_number[p], j - 1), data |-> w + j]
    BY <2>1 DEF packets, DataPacket
  <2>3. WrappingAdd(seq_number[p], j - 1) = WrappingAdd(a, w + j)
    <3>1. j - 1 \in 0 .. n /\ w + 1 + (j - 1) = w + j
      BY <1>2
    <3> QED BY <1>7, <3>1, Zenon
  <2>4. w + j \in 1 .. written'[p]
    BY <1>2, <1>5
  <2>5. /\ packets[j].type = "Data" /\ packets[j].data = w + j
        /\ packets[j].seq = WrappingAdd(seq_number[p], j - 1)
    BY <2>2
  <2>6. Peer(Peer(p)) = p
    BY PeerType, Zenon
  <2> QED BY <1>3, <2>3, <2>4, <2>5, <2>6, Zenon DEF GenuineNext, a
<1>10. PacketsGenuine'
  <2>1. ASSUME NEW q \in Ends, NEW packet, Genuine(q, packet) PROVE GenuineNext(q, packet)
    BY <1>1, <1>3, <1>4, <1>5, <2>1, GenuineKept
  <2>2. ASSUME NEW q \in Ends, NEW i \in 1 .. Len(inbound_packets'[q])
        PROVE  GenuineNext(q, inbound_packets'[q][i])
    BY <1>3, <2>1, Zenon DEF StreamInv, NumbersMatchSegments, PacketsGenuine
  <2>3. ASSUME NEW q \in Ends, q # Peer(p), NEW i \in 1 .. Len(wire'[q])
        PROVE  GenuineNext(q, wire'[q][i])
    <3>1. wire'[q] = wire[q]
      BY <1>1, <1>3, <2>3, Zenon DEF TypeOK
    <3> QED BY <2>1, <2>3, <3>1, Zenon DEF StreamInv, NumbersMatchSegments, PacketsGenuine
  <2>4. ASSUME NEW i \in 1 .. Len(wire'[Peer(p)])
        PROVE  GenuineNext(Peer(p), wire'[Peer(p)][i])
    <3> DEFINE old == wire[Peer(p)]
    <3>1. Peer(p) \in Ends /\ wire'[Peer(p)] = old \o packets
      BY <1>1, <1>3, PeerType, ZenonT(60) DEF TypeOK
    <3>2. /\ old \in Seq(Packets) /\ packets \in Seq(Packets) /\ Len(packets) = n
      BY <1>1, <1>chunks, <3>1, Zenon DEF TypeOK
    <3>3. \A j \in 1 .. Len(old) : GenuineNext(Peer(p), old[j])
      BY <2>1, <3>1, Zenon DEF StreamInv, NumbersMatchSegments, PacketsGenuine
    <3> HIDE DEF old
    <3>4. /\ Len(old \o packets) = Len(old) + Len(packets)
          /\ \A j \in 1 .. Len(old) + Len(packets) :
               (old \o packets)[j] = IF j <= Len(old) THEN old[j] ELSE packets[j - Len(old)]
      BY <3>2, ConcatProperties, Zenon
    <3>5. Len(old) \in Nat
      BY <3>2, LenProperties, Zenon
    <3>6. i \in 1 .. Len(old) + n
      BY <2>4, <3>1, <3>2, <3>4, Zenon
    <3>7. CASE i <= Len(old)
      <4>1. i \in 1 .. Len(old)
        BY <1>2, <3>5, <3>6, <3>7
      <4> QED BY <3>1, <3>2, <3>3, <3>4, <3>6, <3>7, <4>1, Zenon
    <3>8. CASE ~ (i <= Len(old))
      <4>1. i - Len(old) \in 1 .. n
        BY <1>2, <3>5, <3>6, <3>8
      <4>2. wire'[Peer(p)][i] = packets[i - Len(old)]
        BY <3>1, <3>2, <3>4, <3>6, <3>8, Zenon
      <4> QED BY <1>9, <4>1, <4>2, Zenon
    <3> QED BY <3>7, <3>8, Zenon
  <2> QED BY <2>2, <2>3, <2>4, PacketsGenuineNext, Zenon
<1>11. BufferGenuine'
  <2> SUFFICES ASSUME NEW q \in Ends, NEW s \in DOMAIN inbound_data[q]
               PROVE  /\ inbound_data[q][s] \in 1 .. written'[Peer(q)]
                      /\ s = WrappingAdd(isn[Peer(q)], inbound_data[q][s])
    BY <1>3, Zenon DEF BufferGenuine, SegmentSeq
  <2>1. /\ inbound_data[q][s] \in 1 .. written[Peer(q)]
        /\ s = WrappingAdd(isn[Peer(q)], inbound_data[q][s])
    BY Zenon DEF StreamInv, NumbersMatchSegments, BufferGenuine, SegmentSeq
  <2>2. Peer(q) \in Ends
    BY PeerType, Zenon
  <2>3. written[Peer(q)] \in Nat /\ written'[Peer(q)] \in Nat /\ written[Peer(q)] <= written'[Peer(q)]
    BY <1>1, <1>5, <2>2, Zenon DEF TypeOK
  <2> QED BY <2>1, <2>3
<1>12. UnackedIsSuffix'
  <2> SUFFICES ASSUME NEW q \in Ends
               PROVE  /\ Len(unacked_data'[q]) <= written'[q]
                      /\ \A i \in 1 .. Len(unacked_data'[q]) : unacked_data'[q][i].seq =
                           WrappingAdd(isn[q], written'[q] - Len(unacked_data'[q]) + i)
    BY <1>3, Zenon DEF UnackedIsSuffix, SegmentSeq
  <2>1. CASE q # p
    <3>1. unacked_data'[q] = unacked_data[q] /\ written'[q] = written[q]
      BY <1>1, <1>3, <1>5, <2>1, Zenon DEF TypeOK
    <3> QED BY <3>1, Zenon DEF StreamInv, NumbersMatchSegments, UnackedIsSuffix, SegmentSeq
  <2>2. CASE q = p
    <3> DEFINE u == unacked_data[p]
               l == Len(u)
               c == Chunks(p, n)
    <3>1. /\ u \in Seq([seq : SeqNumbers, data : Nat]) /\ c \in Seq([seq : SeqNumbers, data : Nat])
          /\ Len(c) = n
          /\ \A j \in 1 .. n : c[j].seq = WrappingAdd(seq_number[p], j - 1)
      <4>1. u \in Seq([seq : SeqNumbers, data : Nat])
        BY <1>1, Zenon DEF TypeOK
      <4>2. \A j \in 1 .. n : c[j].seq = WrappingAdd(seq_number[p], j - 1)
        BY <1>chunks
      <4> QED BY <1>chunks, <4>1, <4>2, Zenon
    <3>2. unacked_data'[p] = u \o c
      BY <1>1, <1>3, Zenon DEF TypeOK
    <3>3. /\ l \in Nat /\ l <= w
          /\ \A i \in 1 .. l : u[i].seq = WrappingAdd(a, w - l + i)
      BY <3>1, LenProperties, Zenon DEF StreamInv, NumbersMatchSegments, UnackedIsSuffix, SegmentSeq, w, a
    <3> HIDE DEF u, c
    <3>4. /\ Len(u \o c) = l + n
          /\ \A i \in 1 .. l + n : (u \o c)[i] = IF i <= l THEN u[i] ELSE c[i - l]
      BY <3>1, ConcatProperties, Zenon
    <3> HIDE DEF l
    <3>5. Len(unacked_data'[p]) <= written'[p]
      BY <1>2, <1>5, <3>2, <3>3, <3>4
    <3>6. ASSUME NEW i \in 1 .. l + n
          PROVE  (u \o c)[i].seq = WrappingAdd(a, (w + n) - (l + n) + i)
      <4>1. CASE i <= l
        <5>1. (w + n) - (l + n) + i = w - l + i /\ i \in 1 .. l
          BY <1>2, <3>3, <4>1
        <5> QED BY <3>3, <3>4, <4>1, <5>1, Zenon
      <4>2. CASE ~ (i <= l)
        <5>1. /\ i - l \in 1 .. n /\ (i - l) - 1 \in 0 .. n
              /\ w + 1 + ((i - l) - 1) = (w + n) - (l + n) + i
          BY <1>2, <3>3, <4>2
        <5>2. (u \o c)[i].seq = WrappingAdd(seq_number[p], (i - l) - 1)
          BY <3>1, <3>4, <4>2, <5>1, Zenon
        <5> QED BY <1>7, <5>1, <5>2, Zenon
      <4> QED BY <4>1, <4>2, ZenonT(60)
    <3> QED BY <1>5, <2>2, <3>2, <3>4, <3>5, <3>6, Zenon DEF a
  <2> QED BY <2>1, <2>2, Zenon
<1>13. InOrderPrefix'
  <2> SUFFICES ASSUME NEW q \in Ends
               PROVE  /\ Len(Assembled(q)) <= written'[Peer(q)]
                      /\ \A i \in 1 .. Len(Assembled(q)) : Assembled(q)[i] = i
    BY <1>4, Zenon DEF InOrderPrefix
  <2>1. /\ Len(Assembled(q)) <= written[Peer(q)] /\ Len(Assembled(q)) \in Nat
        /\ \A i \in 1 .. Len(Assembled(q)) : Assembled(q)[i] = i
    BY <1>1, AssembledType, Zenon DEF StreamInv, InOrderPrefix
  <2>2. /\ written[Peer(q)] \in Nat /\ written'[Peer(q)] \in Nat
        /\ written[Peer(q)] <= written'[Peer(q)]
    BY <1>5, PeerType, Zenon
  <2>3. Len(Assembled(q)) <= written'[Peer(q)]
    <3> DEFINE l == Len(Assembled(q))
    <3>1. l <= written[Peer(q)] /\ l \in Nat
      BY <2>1, Zenon
    <3> HIDE DEF l
    <3>2. l <= written'[Peer(q)]
      BY <2>2, <3>1
    <3> QED BY <3>2, Zenon DEF l
  <2> QED BY <2>1, <2>3, Zenon
<1> QED
  BY <1>8, <1>10, <1>11, <1>12, <1>13, Zenon DEF StreamInv, NumbersMatchSegments

\* Packets may be moved from the wire to the mailbox, doubled, dropped and read: what is
\* on its way to an end stays genuine as long as it was on its way there before.
PacketsOnlyMoved ==
  \A q \in Ends :
    /\ \A i \in 1 .. Len(wire'[q]) : \E j \in 1 .. Len(wire[q]) : wire'[q][i] = wire[q][j]
    /\ \A i \in 1 .. Len(inbound_packets'[q]) :
         \/ \E j \in 1 .. Len(wire[q]) : inbound_packets'[q][i] = wire[q][j]
         \/ \E j \in 1 .. Len(inbound_packets[q]) :
              inbound_packets'[q][i] = inbound_packets[q][j]

\* Moving packets from the wire to the mailbox makes none up.
LEMMA PacketsGenuineMoved ==
  ASSUME StreamInv, TypeOK', PacketsOnlyMoved,
         UNCHANGED <<isn, written, delivered, received_data>>
  PROVE  PacketsGenuine'
<1>1. TypeOK
  BY Zenon DEF StreamInv
<1>2. \A q \in Ends : /\ written[q] <= written'[q]
                      /\ AssembledCount(q) <= AssembledCount(q)'
  <2> TAKE q \in Ends
  <2>1. written[q] \in Nat /\ AssembledCount(q) \in Nat
    BY <1>1, AssembledType, Zenon DEF TypeOK
  <2>2. written'[q] = written[q] /\ AssembledCount(q)' = AssembledCount(q)
    BY Zenon DEF AssembledCount
  <2> QED BY <2>1, <2>2
<1>3. ASSUME NEW q \in Ends, NEW packet, Genuine(q, packet) PROVE GenuineNext(q, packet)
  BY <1>1, <1>2, <1>3, GenuineKept, Zenon
<1>4. \A q \in Ends :
        /\ \A j \in 1 .. Len(wire[q]) : GenuineNext(q, wire[q][j])
        /\ \A j \in 1 .. Len(inbound_packets[q]) : GenuineNext(q, inbound_packets[q][j])
  BY <1>3, Zenon DEF StreamInv, NumbersMatchSegments, PacketsGenuine
<1> QED
  BY <1>4, PacketsGenuineNext DEF PacketsOnlyMoved

\* Steps of the datagram service, the receiver task, the executor and the application
\* that leave the streams alone keep the invariant.
LEMMA StreamInvMoved ==
  ASSUME StreamInv, TypeOK', PacketsOnlyMoved, UNCHANGED <<streamVars, histVars>>
  PROVE  StreamInv'
<1> USE DEF streamVars, histVars
<1>1. \A p \in Ends : /\ AssembledCount(p)' = AssembledCount(p)
                      /\ Assembled(p)' = Assembled(p)
  BY Zenon DEF AssembledCount, Assembled
<1>2. CountersMatch'
  BY <1>1, PeerType, Zenon DEF StreamInv, NumbersMatchSegments, CountersMatch, SegmentSeq
<1>3. PacketsGenuine'
  BY PacketsGenuineMoved, Zenon
<1>4. BufferGenuine'
  BY Zenon DEF StreamInv, NumbersMatchSegments, BufferGenuine, SegmentSeq
<1>5. UnackedIsSuffix'
  BY Zenon DEF StreamInv, NumbersMatchSegments, UnackedIsSuffix, SegmentSeq
<1>6. InOrderPrefix'
  BY <1>1, Zenon DEF StreamInv, InOrderPrefix
<1> QED
  BY <1>2, <1>3, <1>4, <1>5, <1>6, Zenon DEF StreamInv, NumbersMatchSegments

\* The receiver task's delivery adds at most the one packet to the mailbox.
LEMMA EnqueueMoves ==
  ASSUME TypeOK, NEW p \in Ends, NEW packet \in Packets, Enqueue(p, packet)
  PROVE  \A q \in Ends : \A i \in 1 .. Len(inbound_packets'[q]) :
           \/ q = p /\ inbound_packets'[q][i] = packet
           \/ \E j \in 1 .. Len(inbound_packets[q]) :
                inbound_packets'[q][i] = inbound_packets[q][j]
<1>1. CASE inbound_packets' = inbound_packets
  BY <1>1, Zenon
<1>2. CASE inbound_packets' = [inbound_packets EXCEPT ![p] = Append(@, packet)]
  <2> TAKE q \in Ends
  <2>1. CASE q # p
    <3>1. inbound_packets'[q] = inbound_packets[q]
      BY <1>2, <2>1, Zenon DEF TypeOK
    <3> QED BY <3>1, Zenon
  <2>2. CASE q = p
    <3> DEFINE old == inbound_packets[p]
    <3>1. old \in Seq(Packets) /\ inbound_packets'[p] = Append(old, packet)
      BY <1>2, Zenon DEF TypeOK
    <3> HIDE DEF old
    <3>2. /\ Len(old) \in Nat
          /\ Len(Append(old, packet)) = Len(old) + 1
          /\ \A i \in 1 .. Len(old) : Append(old, packet)[i] = old[i]
          /\ Append(old, packet)[Len(old) + 1] = packet
      BY <3>1, LenProperties, AppendProperties
    <3>3. \A i \in 1 .. Len(old) + 1 : i \in 1 .. Len(old) \/ i = Len(old) + 1
      BY <3>2
    <3>4. \A i \in 1 .. Len(Append(old, packet)) :
            Append(old, packet)[i] = packet \/ \E j \in 1 .. Len(old) : Append(old, packet)[i] = old[j]
      BY <3>2, <3>3, Zenon
    <3> QED BY <2>2, <3>1, <3>4 DEF old
  <2> QED BY <2>1, <2>2, Zenon
<1> QED
  BY <1>1, <1>2, Zenon DEF Enqueue

\* Taking a datagram off the wire leaves only datagrams that were there.
LEMMA RemoveMoves ==
  ASSUME TypeOK, NEW p \in Ends, NEW i \in Arriving(p),
         wire' = [wire EXCEPT ![p] = RemoveAt(@, i)]
  PROVE  \A q \in Ends : \A k \in 1 .. Len(wire'[q]) :
           \E j \in 1 .. Len(wire[q]) : wire'[q][k] = wire[q][j]
<1> TAKE q \in Ends
<1>1. CASE q # p
  <2>1. wire'[q] = wire[q]
    BY <1>1, Zenon DEF TypeOK
  <2> QED BY <2>1, Zenon
<1>2. CASE q = p
  <2> DEFINE old == wire[p]
  <2>1. old \in Seq(Packets) /\ wire'[p] = RemoveAt(old, i)
    BY Zenon DEF TypeOK
  <2>2. Len(old) \in Nat /\ i \in 1 .. Len(old)
    BY <2>1, LenProperties, Zenon DEF Arriving
  <2> HIDE DEF old
  <2>3. /\ Len(RemoveAt(old, i)) = Len(old) - 1
        /\ \A k \in 1 .. Len(old) - 1 :
             RemoveAt(old, i)[k] = IF k < i THEN old[k] ELSE old[k + 1]
    BY <2>1, <2>2, RemoveAtType, Zenon
  <2>4. \A k \in 1 .. Len(old) - 1 : k \in 1 .. Len(old) /\ k + 1 \in 1 .. Len(old)
    BY <2>2
  <2>5. \A k \in 1 .. Len(RemoveAt(old, i)) : \E j \in 1 .. Len(old) : RemoveAt(old, i)[k] = old[j]
    BY <2>3, <2>4, Zenon
  <2> QED BY <1>2, <2>1, <2>5 DEF old
<1> QED BY <1>1, <1>2, Zenon

\* What is left of a queue when its first k elements are taken off.
LEMMA SuffixOfSeq ==
  ASSUME NEW S, NEW u \in Seq(S), NEW k \in 0 .. Len(u)
  PROVE  /\ SubSeq(u, k + 1, Len(u)) \in Seq(S)
         /\ Len(SubSeq(u, k + 1, Len(u))) = Len(u) - k
         /\ \A i \in 1 .. Len(u) - k : SubSeq(u, k + 1, Len(u))[i] = u[k + i]
<1>1. Len(u) \in Nat /\ \A i \in 1 .. Len(u) : u[i] \in S
  BY LenProperties, ElementOfSeq, Zenon
<1>2. \A i \in k + 1 .. Len(u) : u[i] \in S
  BY <1>1
<1>3. /\ SubSeq(u, k + 1, Len(u)) \in Seq(S)
      /\ Len(SubSeq(u, k + 1, Len(u))) = IF k + 1 <= Len(u) THEN Len(u) - (k + 1) + 1 ELSE 0
      /\ \A i \in 1 .. Len(u) - (k + 1) + 1 : SubSeq(u, k + 1, Len(u))[i] = u[k + 1 + i - 1]
  BY <1>1, <1>2, SubSeqProperties
<1>4. Len(SubSeq(u, k + 1, Len(u))) = Len(u) - k
  BY <1>1, <1>3
<1>5. ASSUME NEW i \in 1 .. Len(u) - k PROVE SubSeq(u, k + 1, Len(u))[i] = u[k + i]
  <2>1. i \in 1 .. Len(u) - (k + 1) + 1 /\ k + 1 + i - 1 = k + i
    BY <1>1
  <2> QED BY <1>3, <2>1, Zenon
<1> QED
  BY <1>3, <1>4, <1>5, Zenon

\* handle_packet files a segment under its own number, and releases a prefix.
LEMMA StreamInvReadPacket ==
  ASSUME StreamInv, TypeOK', NEW p \in Ends, ReadPacket(p)
  PROVE  StreamInv'
<1> DEFINE packet == Head(inbound_packets[p])
<1>1. TypeOK
  BY Zenon DEF StreamInv
<1>2. /\ isn' = isn /\ written' = written /\ delivered' = delivered
      /\ received_data' = received_data /\ seq_number' = seq_number
      /\ ack_number' = ack_number /\ wire' = wire
      /\ inbound_packets' = [inbound_packets EXCEPT ![p] = Tail(inbound_packets[p])]
      /\ inbound_packets[p] # << >>
  BY Zenon DEF ReadPacket, histVars, netVars
<1>3. \A q \in Ends : /\ AssembledCount(q)' = AssembledCount(q)
                      /\ Assembled(q)' = Assembled(q)
  BY <1>2, Zenon DEF AssembledCount, Assembled
<1>4. CountersMatch'
  BY <1>2, <1>3, PeerType, Zenon DEF StreamInv, NumbersMatchSegments, CountersMatch, SegmentSeq
<1>5. /\ inbound_packets[p] \in Seq(Packets)
      /\ Len(inbound_packets[p]) \in Nat
      /\ 1 \in 1 .. Len(inbound_packets[p])
      /\ packet = inbound_packets[p][1]
  <2> DEFINE box == inbound_packets[p]
  <2>1. box \in Seq(Packets) /\ box # << >>
    BY <1>1, <1>2, Zenon DEF TypeOK
  <2> HIDE DEF box
  <2>2. Len(box) \in Nat \ {0}
    BY <2>1, EmptySeq, LenProperties, Zenon
  <2>3. 1 \in 1 .. Len(box)
    BY <2>2
  <2>4. Head(box) = box[1]
    BY <2>1
  <2> QED BY <2>1, <2>2, <2>3, <2>4, Zenon DEF box
<1>6. PacketsOnlyMoved
  <2>1. ASSUME NEW q \in Ends, NEW i \in 1 .. Len(inbound_packets'[q])
        PROVE  \E j \in 1 .. Len(inbound_packets[q]) : inbound_packets'[q][i] = inbound_packets[q][j]
    <3>1. CASE q # p
      <4>1. inbound_packets'[q] = inbound_packets[q]
        BY <1>1, <1>2, <3>1, Zenon DEF TypeOK
      <4> QED BY <2>1, <4>1, Zenon
    <3>2. CASE q = p
      <4> DEFINE box == inbound_packets[p]
      <4>1. inbound_packets'[p] = Tail(box) /\ box \in Seq(Packets) /\ box # << >>
        BY <1>1, <1>2, <1>5, Zenon DEF TypeOK
      <4> HIDE DEF box
      <4>2. /\ Len(Tail(box)) = Len(box) - 1 /\ Len(box) \in Nat
            /\ \A k \in 1 .. Len(Tail(box)) : Tail(box)[k] = box[k + 1]
        BY <4>1, HeadTailProperties, LenProperties, Zenon
      <4>3. i \in 1 .. Len(Tail(box)) /\ i + 1 \in 1 .. Len(box)
        BY <2>1, <3>2, <4>1, <4>2
      <4> QED BY <3>2, <4>1, <4>2, <4>3, Zenon DEF box
    <3> QED BY <3>1, <3>2, Zenon
  <2> QED BY <1>2, <2>1, ZenonT(60) DEF PacketsOnlyMoved
<1>7. PacketsGenuine'
  BY <1>2, <1>6, PacketsGenuineMoved, Zenon
<1>8. InOrderPrefix'
  BY <1>2, <1>3, Zenon DEF StreamInv, InOrderPrefix
<1>9. Genuine(p, packet)
  BY <1>5, Zenon DEF StreamInv, NumbersMatchSegments, PacketsGenuine
<1> HIDE DEF packet
<1>10. BufferGenuine' /\ UnackedIsSuffix'
  <2>1. CASE UNCHANGED <<inbound_data, unacked_data>>
    BY <1>2, <2>1, Zenon DEF StreamInv, NumbersMatchSegments, BufferGenuine, UnackedIsSuffix, SegmentSeq
  <2>2. CASE HandleData(p, packet)
    <3>1. UnackedIsSuffix'
      BY <1>2, <2>2, Zenon DEF HandleData, StreamInv, NumbersMatchSegments, UnackedIsSuffix, SegmentSeq
    <3>2. /\ packet.data \in 1 .. written[Peer(p)]
          /\ packet.seq = WrappingAdd(isn[Peer(p)], packet.data)
      BY <1>9, <2>2, Zenon DEF HandleData, Genuine, SegmentSeq
    <3>3. inbound_data' = [inbound_data EXCEPT ![p] = Insert(inbound_data[p], packet.seq, packet.data)]
      BY <2>2, Zenon DEF HandleData
    <3> DEFINE new == Insert(inbound_data[p], packet.seq, packet.data)
    <3>4. ASSUME NEW q \in Ends, NEW s \in DOMAIN inbound_data'[q]
          PROVE  /\ inbound_data'[q][s] \in 1 .. written[Peer(q)]
                 /\ s = WrappingAdd(isn[Peer(q)], inbound_data'[q][s])
      <4>1. CASE q # p
        <5>1. inbound_data'[q] = inbound_data[q]
          BY <1>1, <3>3, <4>1, Zenon DEF TypeOK
        <5> QED BY <3>4, <5>1, Zenon DEF StreamInv, NumbersMatchSegments, BufferGenuine, SegmentSeq
      <4>2. CASE q = p
        <5>1. inbound_data'[p] = new
          BY <1>1, <3>3, Zenon DEF TypeOK
        <5>2. CASE s = packet.seq
          <6>1. new[s] = packet.data
            BY <5>2, Zenon DEF Insert
          <6> QED BY <3>2, <4>2, <5>1, <5>2, <6>1, Zenon
        <5>3. CASE s # packet.seq
          <6>1. s \in DOMAIN inbound_data[p] /\ new[s] = inbound_data[p][s]
            BY <3>4, <4>2, <5>1, <5>3, Zenon DEF Insert
          <6> QED BY <4>2, <5>1, <6>1, Zenon DEF StreamInv, NumbersMatchSegments, BufferGenuine, SegmentSeq
        <5> QED BY <5>2, <5>3, Zenon
      <4> QED BY <4>1, <4>2, Zenon
    <3> QED BY <1>2, <3>1, <3>4, Zenon DEF BufferGenuine, SegmentSeq
  <2>3. CASE HandleState(p, packet)
    <3>1. BufferGenuine'
      BY <1>2, <2>3, Zenon DEF HandleState, StreamInv, NumbersMatchSegments, BufferGenuine, SegmentSeq
    <3> DEFINE u == unacked_data[p]
               l == Len(u)
               w == written[p]
    <3>2. PICK k \in 0 .. l : unacked_data' = [unacked_data EXCEPT ![p] = SubSeq(u, k + 1, l)]
      BY <2>3, Zenon DEF HandleState
    <3>3. u \in Seq([seq : SeqNumbers, data : Nat]) /\ w \in Nat
      BY <1>1, ZenonT(60) DEF TypeOK
    <3>4. /\ l <= w
          /\ \A i \in 1 .. l : u[i].seq = WrappingAdd(isn[p], w - l + i)
      BY Zenon DEF StreamInv, NumbersMatchSegments, UnackedIsSuffix, SegmentSeq
    <3>5. unacked_data'[p] = SubSeq(u, k + 1, l)
      BY <1>1, <3>2, Zenon DEF TypeOK
    <3> HIDE DEF u, w
    <3>6. l \in Nat
      BY <3>3, LenProperties, Zenon
    <3>7. Len(SubSeq(u, k + 1, l)) = l - k /\ \A i \in 1 .. l - k : SubSeq(u, k + 1, l)[i] = u[k + i]
      BY <3>3, <3>6, SuffixOfSeq, Zenon
    <3> HIDE DEF l
    <3>8. l - k <= w /\ \A i \in 1 .. l - k : SubSeq(u, k + 1, l)[i].seq = WrappingAdd(isn[p], w - (l - k) + i)
      <4>1. l - k <= w
        BY <3>3, <3>4, <3>6
      <4>2. ASSUME NEW i \in 1 .. l - k
            PROVE  SubSeq(u, k + 1, l)[i].seq = WrappingAdd(isn[p], w - (l - k) + i)
        <5>1. k + i \in 1 .. l /\ w - (l - k) + i = w - l + (k + i)
          BY <3>3, <3>4, <3>6
        <5> QED BY <3>4, <3>7, <5>1, ZenonT(60)
      <4> QED BY <4>1, <4>2, Zenon
    <3>9. ASSUME NEW q \in Ends
          PROVE  /\ Len(unacked_data'[q]) <= written[q]
                 /\ \A i \in 1 .. Len(unacked_data'[q]) : unacked_data'[q][i].seq =
                      WrappingAdd(isn[q], written[q] - Len(unacked_data'[q]) + i)
      <4>1. CASE q # p
        <5>1. unacked_data'[q] = unacked_data[q]
          BY <1>1, <3>2, <4>1, Zenon DEF TypeOK
        <5> QED BY <5>1, Zenon DEF StreamInv, NumbersMatchSegments, UnackedIsSuffix, SegmentSeq
      <4>2. CASE q = p
        BY <3>5, <3>7, <3>8, <4>2, Zenon DEF w
      <4> QED BY <4>1, <4>2, Zenon
    <3> QED BY <1>2, <3>1, <3>9, Zenon DEF UnackedIsSuffix, SegmentSeq
  <2> QED BY <2>1, <2>2, <2>3, Zenon DEF ReadPacket, packet
<1> QED
  BY <1>4, <1>7, <1>8, <1>10, Zenon DEF StreamInv, NumbersMatchSegments

-----------------------------------------------------------------------------
(***************************************************************************)
(* poll_read.                                                              *)
(***************************************************************************)

\* Concatenation of segment sequences is associative.
LEMMA ConcatSegments ==
  ASSUME NEW x \in Seq(Nat), NEW y \in Seq(Nat), NEW z \in Seq(Nat)
  PROVE  (x \o y) \o z = x \o (y \o z)
<1> DEFINE S == Nat
<1>1. x \in Seq(S) /\ y \in Seq(S) /\ z \in Seq(S)
  BY Zenon
<1> HIDE DEF S
<1> QED BY <1>1, ConcatAssociative, SMTT(30)

\* The part of the assembled data that poll_read hands out is not longer than the data.
LEMMA SmallerBounds ==
  ASSUME NEW m \in Nat, NEW k \in Nat
  PROVE  Smaller(m, k) \in Nat /\ Smaller(m, k) \in 0 .. m
  BY DEF Smaller

\* poll_read assembles the next segments, and moves some to the caller's buffer.
LEMMA ReadAssembles ==
  ASSUME StreamInv, TypeOK', NEW p \in Ends,
         NEW n \in 0 .. Cardinality(DOMAIN inbound_data[p]), NEW room \in ReadSizes,
         FinishRead(p, n, room)
  PROVE  /\ Len(Assembled(p)') = AssembledCount(p) + n
         /\ AssembledCount(p)' = AssembledCount(p) + n
         /\ \A i \in 1 .. AssembledCount(p) + n : Assembled(p)'[i] = i
         /\ \A q \in Ends : q # p => /\ AssembledCount(q)' = AssembledCount(q)
                                    /\ Assembled(q)' = Assembled(q)
         /\ \A q \in Ends : AssembledCount(q) <= AssembledCount(q)'
<1> DEFINE all   == WithRun(p, n)
           taken == Smaller(Len(all), room)
           c     == AssembledCount(p)
<1>1. TypeOK
  BY Zenon DEF StreamInv
<1>2. /\ RunLength(p, n)
      /\ delivered' = [delivered EXCEPT ![p] = delivered[p] \o SubSeq(all, 1, taken)]
      /\ received_data' = [received_data EXCEPT ![p] = SubSeq(all, taken + 1, Len(all))]
  BY Zenon DEF FinishRead
<1>3. /\ n \in Nat /\ c + n <= written[Peer(p)]
      /\ \A i \in 1 .. n : inbound_data[p][WrappingAdd(ack_number[p], i)] = c + i
  BY <1>2, RunExact, Zenon
<1>4. c \in Nat /\ written[Peer(p)] \in Nat
  BY <1>1, AssembledType, PeerType, Zenon DEF TypeOK
<1>5. /\ all \in Seq(Nat) /\ Len(all) = Len(received_data[p]) + n
      /\ \A i \in 1 .. Len(received_data[p]) : all[i] = received_data[p][i]
      /\ \A i \in 1 .. n : all[Len(received_data[p]) + i] = c + i
  BY <1>1, <1>2, <1>3, RunType, Zenon
<1>6. /\ Assembled(p)' \in Seq(Nat)
      /\ AssembledCount(p)' = c + n
      /\ Len(Assembled(p)') = c + n
      /\ \A i \in 1 .. c + n : Assembled(p)'[i] = i
  <2> DEFINE d == delivered[p]
             r == received_data[p]
             x == SubSeq(all, 1, taken)
             y == SubSeq(all, taken + 1, Len(all))
  <2>1. d \in Seq(Nat) /\ r \in Seq(Nat) /\ Len(d) \in Nat /\ Len(r) \in Nat
    BY <1>1, AssembledType, LenProperties, Zenon
  <2>2. delivered'[p] = d \o x /\ received_data'[p] = y
    BY <1>1, <1>2, Zenon DEF TypeOK
  <2>3. c = Len(d) + Len(r)
    BY Zenon DEF AssembledCount
  <2>4. \A i \in 1 .. c : (d \o r)[i] = i
    BY <1>1, AssembledType, ZenonT(60) DEF StreamInv, InOrderPrefix, Assembled
  <2> HIDE DEF all, d, r, c
  <2>5. Len(all) \in Nat /\ taken \in 0 .. Len(all) /\ taken \in Nat
    <3>1. Len(all) \in Nat
      BY <1>5, LenProperties, Zenon
    <3>2. room \in Nat
      BY StreamAssumption, Zenon
    <3> QED BY <3>1, <3>2, SmallerBounds, Zenon
  <2> HIDE DEF taken
  <2>6. x \in Seq(Nat) /\ y \in Seq(Nat) /\ Len(x) = taken /\ Len(y) = Len(all) - taken
    BY <1>5, <2>5, SplitType, Zenon
  <2>7. x \o y = all
    <3>1. SubSeq(all, 1, taken) \o SubSeq(all, taken + 1, Len(all)) = SubSeq(all, 1, Len(all))
      <4>1. 1 \in 1 .. Len(all) + 1 /\ taken \in 1 - 1 .. Len(all) /\ Len(all) \in taken .. Len(all)
        BY <2>5
      <4> QED BY <1>5, <4>1, ConcatAdjacentSubSeq, Zenon
    <3>2. SubSeq(all, 1, Len(all)) = all
      BY <1>5, SubSeqFull, Zenon
    <3> QED BY <3>1, <3>2, Zenon
  <2> HIDE DEF x, y
  <2>8. (d \o x) \o y = d \o all
    <3>1. (d \o x) \o y = d \o (x \o y)
      BY <2>1, <2>6, ConcatSegments, Zenon
    <3> QED BY <2>7, <3>1, Zenon
  <2>9. Assembled(p)' = d \o all
    BY <2>2, <2>8, Zenon DEF Assembled
  <2>10. /\ d \o all \in Seq(Nat)
         /\ Len(d \o all) = Len(d) + Len(all)
         /\ \A i \in 1 .. Len(d) + Len(all) : (d \o all)[i] = IF i <= Len(d) THEN d[i] ELSE all[i - Len(d)]
    BY <1>5, <2>1, ConcatProperties, ZenonT(60)
  <2>11. \A i \in 1 .. Len(d) + Len(r) : (d \o r)[i] = IF i <= Len(d) THEN d[i] ELSE r[i - Len(d)]
    BY <2>1, ConcatProperties, Zenon
  <2>12. Len(all) = Len(r) + n
    BY <1>5, Zenon DEF r
  <2> DEFINE ld == Len(d)
             lr == Len(r)
  <2>13. /\ ld \in Nat /\ lr \in Nat /\ c = ld + lr /\ Len(d \o all) = ld + (lr + n)
         /\ \A i \in 1 .. ld + (lr + n) : (d \o all)[i] = IF i <= ld THEN d[i] ELSE all[i - ld]
         /\ \A i \in 1 .. ld + lr : (d \o r)[i] = IF i <= ld THEN d[i] ELSE r[i - ld]
         /\ \A i \in 1 .. lr : all[i] = r[i]
         /\ \A i \in 1 .. n : all[lr + i] = c + i
    BY <1>5, <2>1, <2>3, <2>10, <2>11, <2>12, ZenonT(60) DEF r
  <2> HIDE DEF ld, lr
  <2>lengths. /\ ld \in Nat /\ lr \in Nat /\ n \in Nat
             /\ c = ld + lr /\ Len(d \o all) = ld + (lr + n)
    BY <1>3, <2>13, Zenon
  <2>14. Len(d \o all) = c + n
    <3> HIDE DEF c
    <3> QED BY <2>lengths
  <2>15. ASSUME NEW i \in 1 .. c + n PROVE (d \o all)[i] = i
    <3> HIDE DEF c
    <3>1. i \in 1 .. ld + (lr + n)
      BY <2>lengths
    <3>2. CASE i <= ld
      <4>1. i \in 1 .. c /\ i \in 1 .. ld + lr
        BY <2>lengths, <3>2
      <4> QED BY <2>4, <2>13, <3>1, <3>2, <4>1, Zenon
    <3>3. CASE ~ (i <= ld) /\ i <= c
      <4>1. i \in 1 .. c /\ i \in 1 .. ld + lr /\ i - ld \in 1 .. lr
        BY <2>lengths, <3>3
      <4> QED BY <2>4, <2>13, <3>1, <3>3, <4>1, Zenon
    <3>4. CASE ~ (i <= c)
      <4>1. i - c \in 1 .. n /\ ~ (i <= ld) /\ i - ld = lr + (i - c) /\ c + (i - c) = i
        BY <2>lengths, <3>4
      <4>2. (d \o all)[i] = all[i - ld]
        BY <2>13, <3>1, <4>1, Zenon
      <4>3. all[lr + (i - c)] = c + (i - c)
        BY <2>13, <4>1, Zenon
      <4> QED BY <4>1, <4>2, <4>3, Zenon
    <3>5. i <= ld \/ (~ (i <= ld) /\ i <= c) \/ ~ (i <= c)
      BY <2>lengths, Zenon
    <3> QED BY <3>2, <3>3, <3>4, <3>5, Zenon
  <2>16. AssembledCount(p)' = c + n
    <3>1. AssembledCount(p)' = Len(d \o x) + Len(y)
      BY <2>2, Zenon DEF AssembledCount
    <3>2. Len((d \o x) \o y) = Len(d \o x) + Len(y)
      <4>1. d \o x \in Seq(Nat)
        BY <2>1, <2>6, ConcatProperties, Zenon
      <4> QED BY <2>6, <4>1, ConcatProperties, Zenon
    <3> QED BY <2>8, <2>14, <3>1, <3>2, Zenon
  <2> QED BY <2>9, <2>10, <2>14, <2>15, <2>16, Zenon
<1>7. \A q \in Ends : q # p => AssembledCount(q)' = AssembledCount(q) /\ Assembled(q)' = Assembled(q)
  <2> TAKE q \in Ends
  <2> HAVE q # p
  <2>1. delivered'[q] = delivered[q] /\ received_data'[q] = received_data[q]
    BY <1>1, <1>2, Zenon DEF TypeOK
  <2> QED BY <2>1, Zenon DEF AssembledCount, Assembled
<1> HIDE DEF all, taken
<1>8. \A q \in Ends : AssembledCount(q) <= AssembledCount(q)'
  <2> TAKE q \in Ends
  <2>1. AssembledCount(q) \in Nat /\ n \in Nat
    BY <1>1, <1>3, AssembledType, Zenon
  <2>2. CASE q = p
    <3> HIDE DEF c
    <3>1. c \in Nat /\ c <= c + n
      BY <1>4, <2>1
    <3>2. AssembledCount(q)' = c + n
      BY <1>6, <2>2, Zenon
    <3> QED BY <2>2, <3>1, <3>2, Zenon DEF c
  <2>3. CASE q # p
    BY <1>7, <2>1, <2>3
  <2> QED BY <2>2, <2>3, Zenon
<1> QED BY <1>6, <1>7, <1>8, Zenon

\* poll_read acknowledges the last segment it has assembled.
LEMMA StreamInvFinishRead ==
  ASSUME StreamInv, TypeOK', NEW p \in Ends,
         NEW n \in 0 .. Cardinality(DOMAIN inbound_data[p]), NEW room \in ReadSizes,
         FinishRead(p, n, room)
  PROVE  StreamInv'
<1> DEFINE ack == WrappingAdd(ack_number[p], n)
           c   == AssembledCount(p)
<1>1. TypeOK
  BY Zenon DEF StreamInv
<1>2. /\ RunLength(p, n)
      /\ isn' = isn /\ written' = written /\ seq_number' = seq_number
      /\ unacked_data' = unacked_data /\ inbound_packets' = inbound_packets
      /\ inbound_data' = [inbound_data EXCEPT ![p] = Removed(inbound_data[p], RunKeys(p, n))]
      /\ ack_number' = [ack_number EXCEPT ![p] = ack]
      /\ wire' = [wire EXCEPT ![Peer(p)] = Append(wire[Peer(p)], StatePacket(ack))]
  BY Zenon DEF FinishRead
<1>3. /\ n \in Nat /\ c + n <= written[Peer(p)]
      /\ ack = SegmentSeq(Peer(p), c + n)
  BY <1>2, RunExact, Zenon
<1>4. c \in Nat /\ written[Peer(p)] \in Nat
  BY <1>1, AssembledType, PeerType, Zenon DEF TypeOK
<1>6. /\ AssembledCount(p)' = c + n
      /\ Len(Assembled(p)') = c + n
      /\ \A i \in 1 .. c + n : Assembled(p)'[i] = i
  BY ReadAssembles, Zenon
<1>7. \A q \in Ends : q # p => AssembledCount(q)' = AssembledCount(q) /\ Assembled(q)' = Assembled(q)
  BY ReadAssembles, Zenon
<1>8. \A q \in Ends : /\ written[q] <= written'[q]
                      /\ AssembledCount(q) <= AssembledCount(q)'
  <2>1. \A q \in Ends : AssembledCount(q) <= AssembledCount(q)'
    BY ReadAssembles, Zenon
  <2>2. \A q \in Ends : written'[q] = written[q] /\ written[q] \in Nat
    BY <1>1, <1>2, Zenon DEF TypeOK
  <2> QED BY <2>1, <2>2
<1>9. CountersMatch'
  <2> SUFFICES ASSUME NEW q \in Ends
               PROVE  /\ seq_number'[q] = WrappingAdd(isn[q], written[q] + 1)
                      /\ ack_number'[q] = WrappingAdd(isn[Peer(q)], AssembledCount(q)')
    BY <1>2, Zenon DEF CountersMatch, SegmentSeq
  <2>1. seq_number'[q] = WrappingAdd(isn[q], written[q] + 1)
    BY <1>2, Zenon DEF StreamInv, NumbersMatchSegments, CountersMatch, SegmentSeq
  <2>2. CASE q = p
    <3>1. ack_number'[p] = ack
      BY <1>1, <1>2, Zenon DEF TypeOK
    <3> QED BY <1>3, <1>6, <2>1, <2>2, <3>1, Zenon DEF SegmentSeq
  <2>3. CASE q # p
    <3>1. ack_number'[q] = ack_number[q]
      BY <1>1, <1>2, <2>3, Zenon DEF TypeOK
    <3> QED BY <1>7, <2>1, <2>3, <3>1, Zenon DEF StreamInv, NumbersMatchSegments, CountersMatch, SegmentSeq
  <2> QED BY <2>2, <2>3, Zenon
<1>10. PacketsGenuine'
  <2>1. ASSUME NEW q \in Ends, NEW packet, Genuine(q, packet) PROVE GenuineNext(q, packet)
    BY <1>1, <1>2, <1>8, <2>1, GenuineKept, Zenon
  <2>2. GenuineNext(Peer(p), StatePacket(ack))
    <3>1. Peer(Peer(p)) = p
      BY PeerType, Zenon
    <3>2. c + n \in 0 .. AssembledCount(Peer(Peer(p)))'
      <4> HIDE DEF c
      <4>1. c \in Nat /\ n \in Nat
        BY <1>3, <1>4, Zenon
      <4>2. c + n \in 0 .. c + n
        BY <4>1
      <4> QED BY <1>6, <3>1, <4>2, Zenon
    <3>3. ack = WrappingAdd(isn'[Peer(p)], c + n)
      BY <1>2, <1>3, Zenon DEF SegmentSeq
    <3> HIDE DEF ack, c
    <3>4. StatePacket(ack).type = "State" /\ StatePacket(ack).ack = ack
      BY Zenon DEF StatePacket
    <3> QED BY <3>2, <3>3, <3>4, Zenon DEF GenuineNext
  <2>3. ASSUME NEW q \in Ends, NEW i \in 1 .. Len(inbound_packets'[q])
        PROVE  GenuineNext(q, inbound_packets'[q][i])
    BY <1>2, <2>1, Zenon DEF StreamInv, NumbersMatchSegments, PacketsGenuine
  <2>4. ASSUME NEW q \in Ends, q # Peer(p), NEW i \in 1 .. Len(wire'[q])
        PROVE  GenuineNext(q, wire'[q][i])
    <3>1. wire'[q] = wire[q]
      BY <1>1, <1>2, <2>4, Zenon DEF TypeOK
    <3> QED BY <2>1, <2>4, <3>1, Zenon DEF StreamInv, NumbersMatchSegments, PacketsGenuine
  <2>5. ASSUME NEW i \in 1 .. Len(wire'[Peer(p)])
        PROVE  GenuineNext(Peer(p), wire'[Peer(p)][i])
    <3> DEFINE old == wire[Peer(p)]
               new == StatePacket(ack)
    <3>1. Peer(p) \in Ends /\ wire'[Peer(p)] = Append(old, new) /\ old \in Seq(Packets)
      BY <1>1, <1>2, PeerType, Zenon DEF TypeOK
    <3>2. new \in Packets
      BY <1>1, <1>2, RunType, Zenon
    <3>3. \A j \in 1 .. Len(old) : GenuineNext(Peer(p), old[j])
      BY <2>1, <3>1, Zenon DEF StreamInv, NumbersMatchSegments, PacketsGenuine
    <3>4. GenuineNext(Peer(p), new)
      BY <2>2, Zenon
    <3> HIDE DEF old, new
    <3>5. /\ Len(old) \in Nat
          /\ Len(Append(old, new)) = Len(old) + 1
          /\ \A j \in 1 .. Len(old) : Append(old, new)[j] = old[j]
          /\ Append(old, new)[Len(old) + 1] = new
      <4>1. Len(old) \in Nat
        BY <3>1, LenProperties, Zenon
      <4> QED BY <3>1, <3>2, <4>1, AppendProperties
    <3>6. \A j \in 1 .. Len(old) + 1 : j \in 1 .. Len(old) \/ j = Len(old) + 1
      BY <3>5
    <3> QED BY <2>5, <3>1, <3>3, <3>4, <3>5, <3>6, Zenon
  <2> QED BY <2>3, <2>4, <2>5, PacketsGenuineNext, Zenon
<1>11. BufferGenuine'
  <2> SUFFICES ASSUME NEW q \in Ends, NEW s \in DOMAIN inbound_data'[q]
               PROVE  /\ inbound_data'[q][s] \in 1 .. written[Peer(q)]
                      /\ s = WrappingAdd(isn[Peer(q)], inbound_data'[q][s])
    BY <1>2, Zenon DEF BufferGenuine, SegmentSeq
  <2>1. s \in DOMAIN inbound_data[q] /\ inbound_data'[q][s] = inbound_data[q][s]
    <3>1. CASE q = p
      <4>1. inbound_data'[p] = Removed(inbound_data[p], RunKeys(p, n))
        BY <1>1, <1>2, Zenon DEF TypeOK
      <4> QED BY <3>1, <4>1, Zenon DEF Removed
    <3>2. CASE q # p
      BY <1>1, <1>2, <3>2, Zenon DEF TypeOK
    <3> QED BY <3>1, <3>2, Zenon
  <2> QED BY <2>1, Zenon DEF StreamInv, NumbersMatchSegments, BufferGenuine, SegmentSeq
<1>12. UnackedIsSuffix'
  BY <1>2, Zenon DEF StreamInv, NumbersMatchSegments, UnackedIsSuffix, SegmentSeq
<1>13. InOrderPrefix'
  <2> SUFFICES ASSUME NEW q \in Ends
               PROVE  /\ Len(Assembled(q)') <= written[Peer(q)]
                      /\ \A i \in 1 .. Len(Assembled(q)') : Assembled(q)'[i] = i
    BY <1>2, Zenon DEF InOrderPrefix
  <2>1. CASE q = p
    BY <1>3, <1>6, <2>1, Zenon
  <2>2. CASE q # p
    BY <1>7, <2>2, Zenon DEF StreamInv, InOrderPrefix
  <2> QED BY <2>1, <2>2, Zenon
<1> QED
  BY <1>9, <1>10, <1>11, <1>12, <1>13, Zenon DEF StreamInv, NumbersMatchSegments

\* Every step keeps numbers and segments matched.
LEMMA StreamInvNext == StreamInv /\ [Next]_vars => StreamInv'
<1> SUFFICES ASSUME StreamInv, [Next]_vars PROVE StreamInv'
  BY Zenon
<1>1. TypeOK /\ TypeOK'
  BY TypeNext, Zenon DEF StreamInv
<1>2. ASSUME UNCHANGED <<streamVars, histVars, inbound_packets, wire>> PROVE StreamInv'
  <2>1. PacketsOnlyMoved
    BY <1>2, Zenon DEF PacketsOnlyMoved
  <2> QED BY <1>1, <1>2, <2>1, StreamInvMoved, Zenon
<1>3. ASSUME NEW p \in Ends, NEW i \in Arriving(p)
      PROVE  wire[p][i] \in Packets /\ i \in 1 .. Len(wire[p])
  <2>1. wire[p] \in Seq(Packets)
    BY <1>1, Zenon DEF TypeOK
  <2>2. i \in 1 .. Len(wire[p])
    BY <2>1, LenProperties, Zenon DEF Arriving
  <2> QED BY <2>1, <2>2, ElementOfSeq, Zenon
<1>4. ASSUME NEW p \in Ends, NEW n \in WriteSizes, PollWrite(p, n) PROVE StreamInv'
  BY <1>1, <1>4, StreamInvWrite, Zenon
<1>5. ASSUME NEW p \in Ends, ReadPacket(p) PROVE StreamInv'
  BY <1>1, <1>5, StreamInvReadPacket, Zenon
<1>6. ASSUME NEW p \in Ends, FinishSomeRead(p) PROVE StreamInv'
  BY <1>1, <1>6, StreamInvFinishRead, Zenon DEF FinishSomeRead
<1>7. ASSUME NEW p \in Ends, NEW i \in Arriving(p), Deliver(p, i) PROVE StreamInv'
  <2>1. PacketsOnlyMoved
    <3>1. \A q \in Ends : \A k \in 1 .. Len(inbound_packets'[q]) :
            \/ q = p /\ inbound_packets'[q][k] = wire[p][i]
            \/ \E j \in 1 .. Len(inbound_packets[q]) :
                 inbound_packets'[q][k] = inbound_packets[q][j]
      BY <1>1, <1>3, <1>7, EnqueueMoves, Zenon DEF Deliver
    <3>2. \A q \in Ends : \A k \in 1 .. Len(wire'[q]) :
            \E j \in 1 .. Len(wire[q]) : wire'[q][k] = wire[q][j]
      BY <1>1, <1>7, RemoveMoves, ZenonT(60) DEF Deliver
    <3> QED BY <1>3, <3>1, <3>2 DEF PacketsOnlyMoved
  <2> QED BY <1>1, <1>7, <2>1, StreamInvMoved, Zenon DEF Deliver
<1>8. ASSUME NEW p \in Ends, NEW i \in Arriving(p), Duplicate(p, i) PROVE StreamInv'
  <2>1. PacketsOnlyMoved
    BY <1>1, <1>3, <1>8, EnqueueMoves DEF Duplicate, PacketsOnlyMoved
  <2> QED BY <1>1, <1>8, <2>1, StreamInvMoved, Zenon DEF Duplicate
<1>9. ASSUME NEW p \in Ends, NEW i \in Arriving(p), Lose(p, i) PROVE StreamInv'
  <2>1. PacketsOnlyMoved
    BY <1>1, <1>9, RemoveMoves, ZenonT(60) DEF Lose, PacketsOnlyMoved
  <2> QED BY <1>1, <1>9, <2>1, StreamInvMoved, Zenon DEF Lose
<1>10. ASSUME NEW p \in Ends, NEW h \in Halves,
              StartCall(p, h) \/ BeginPoll(p, h) \/ SpuriousWake(p, h)
       PROVE  StreamInv'
  BY <1>2, <1>10, Zenon DEF StartCall, BeginPoll, SpuriousWake, netVars
<1>11. ASSUME NEW p \in Ends, PollShutdown(p) \/ FinishFlush(p) PROVE StreamInv'
  BY <1>2, <1>11, Zenon DEF PollShutdown, FinishFlush, netVars
<1>12. CASE UNCHANGED vars
  BY <1>2, <1>12, Zenon DEF vars, netVars
<1> QED
  BY <1>4, <1>5, <1>6, <1>7, <1>8, <1>9, <1>10, <1>11, <1>12, Zenon DEF Next, DeliverSome

\* For every number of segments below one round of the sequence numbers, whatever the
\* datagram service loses, doubles or reorders, and however the tasks interleave: every
\* number in the counters, packets, inbound_data and unacked_data is its segment's own.
THEOREM NumbersMatch == Spec => []NumbersMatchSegments
<1>1. StreamInv => NumbersMatchSegments
  BY Zenon DEF StreamInv
<1> QED
  BY <1>1, StreamInvInit, StreamInvNext, PTL DEF Spec

\* Under the same conditions poll_read hands out exactly a prefix of what the peer's
\* poll_write took, in order.
THEOREM InOrderDelivery == Spec => []InOrderPrefix
<1>1. StreamInv => InOrderPrefix
  BY Zenon DEF StreamInv
<1> QED
  BY <1>1, StreamInvInit, StreamInvNext, PTL DEF Spec

=============================================================================
