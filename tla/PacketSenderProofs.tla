------------------------- MODULE PacketSenderProofs -------------------------
(***************************************************************************)
(* The sender task for any number of packets, errors, full buffers and     *)
(* yields.                                                                 *)
(***************************************************************************)
EXTENDS PacketSender, SequenceTheorems, TLAPS

-----------------------------------------------------------------------------
(***************************************************************************)
(* Two queues, one behind the other.                                       *)
(***************************************************************************)

\* To append to the rear queue is to append to both.
LEMMA AppendToRear ==
  ASSUME NEW S, NEW s \in Seq(S), NEW t \in Seq(S), NEW x \in S
  PROVE  s \o Append(t, x) = Append(s \o t, x)
<1>1. Append(t, x) = t \o <<x>> /\ <<x>> \in Seq(S)
  BY AppendIsConcat
<1>2. s \o t \in Seq(S)
  BY ConcatProperties
<1>3. Append(s \o t, x) = (s \o t) \o <<x>>
  BY <1>2, AppendIsConcat
<1> QED BY <1>1, <1>3, ConcatAssociative

\* A queue is its first element in front of the others.
LEMMA PutBackSame ==
  ASSUME NEW S, NEW s \in Seq(S), s # << >>
  PROVE  <<Head(s)>> \o Tail(s) = s
<1> DEFINE t == <<Head(s)>> \o Tail(s)
<1>1. Len(s) \in Nat /\ Len(s) >= 1
  BY EmptySeq
<1>2. Head(s) \in S /\ Tail(s) \in Seq(S) /\ Len(Tail(s)) = Len(s) - 1 /\ Head(s) = s[1]
  BY HeadTailProperties
<1>3. <<Head(s)>> \in Seq(S) /\ Len(<<Head(s)>>) = 1 /\ <<Head(s)>>[1] = s[1]
  BY <1>2
<1>4. t \in Seq(S) /\ Len(t) = Len(s)
  BY <1>1, <1>2, <1>3, ConcatProperties
<1>5. ASSUME NEW i \in 1 .. Len(s) PROVE t[i] = s[i]
  <2>1. t[i] = IF i <= 1 THEN <<Head(s)>>[i] ELSE Tail(s)[i - 1]
    BY <1>1, <1>2, <1>3, ConcatProperties
  <2>2. CASE i = 1
    BY <1>3, <2>1, <2>2
  <2>3. CASE i > 1
    BY <1>1, <1>2, <2>1, <2>3, HeadTailProperties
  <2> QED BY <1>1, <2>2, <2>3
<1> HIDE DEF t
<1>6. t = s
  BY <1>4, <1>5, SeqEqual
<1> QED BY <1>6 DEF t

\* The first element of the rear queue may as well be the last one of the front queue.
LEMMA MoveFirst ==
  ASSUME NEW S, NEW s \in Seq(S), NEW t \in Seq(S), t # << >>
  PROVE  Append(s, Head(t)) \o Tail(t) = s \o t
<1>1. Head(t) \in S /\ Tail(t) \in Seq(S) /\ <<Head(t)>> \in Seq(S)
  BY HeadTailProperties
<1>2. Append(s, Head(t)) = s \o <<Head(t)>>
  BY <1>1, AppendIsConcat
<1>3. (s \o <<Head(t)>>) \o Tail(t) = s \o (<<Head(t)>> \o Tail(t))
  BY <1>1, ConcatAssociative
<1> QED BY <1>2, <1>3, PutBackSame

\* To take the first element of the front queue is to take it of both.
LEMMA TakeFirst ==
  ASSUME NEW S, NEW s \in Seq(S), NEW t \in Seq(S), s # << >>
  PROVE  s \o t # << >> /\ Head(s \o t) = Head(s) /\ Tail(s \o t) = Tail(s) \o t
<1>1. Head(s) \in S /\ Tail(s) \in Seq(S) /\ <<Head(s)>> \in Seq(S)
  BY HeadTailProperties
<1>2. Tail(s) \o t \in Seq(S)
  BY <1>1, ConcatProperties
<1>3. s \o t = <<Head(s)>> \o (Tail(s) \o t)
  BY <1>1, PutBackSame, ConcatAssociative
<1> DEFINE h == Head(s)
           r == Tail(s) \o t
<1> HIDE DEF h, r
<1>4. ASSUME NEW e \in S, NEW u \in Seq(S)
      PROVE  <<e>> \o u # << >> /\ Head(<<e>> \o u) = e /\ Tail(<<e>> \o u) = u
  <2> DEFINE v == <<e>> \o u
  <2>1. /\ v \in Seq(S) /\ Len(v) = 1 + Len(u) /\ Len(u) \in Nat
        /\ \A i \in 1 .. 1 + Len(u) : v[i] = IF i <= 1 THEN e ELSE u[i - 1]
    <3>1. <<e>> \in Seq(S) /\ Len(<<e>>) = 1 /\ <<e>>[1] = e
      OBVIOUS
    <3>2. Len(u) \in Nat
      OBVIOUS
    <3>3. v \in Seq(S) /\ Len(v) = 1 + Len(u)
      BY <3>1, ConcatProperties
    <3>4. ASSUME NEW i \in 1 .. 1 + Len(u) PROVE v[i] = IF i <= 1 THEN e ELSE u[i - 1]
      <4>1. v[i] = IF i <= 1 THEN <<e>>[i] ELSE u[i - 1]
        BY <3>1, ConcatProperties
      <4> QED BY <3>1, <3>2, <4>1
    <3> QED BY <3>2, <3>3, <3>4
  <2> HIDE DEF v
  <2>2. v # << >> /\ v[1] = e
    BY <2>1
  <2>3. Head(v) = e
    BY <2>1, <2>2
  <2>4. Tail(v) \in Seq(S) /\ Len(Tail(v)) = Len(u)
        /\ \A i \in 1 .. Len(u) : Tail(v)[i] = v[i + 1]
    BY <2>1, <2>2, HeadTailProperties
  <2>5. \A i \in 1 .. Len(u) : v[i + 1] = u[i]
    BY <2>1
  <2>6. Tail(v) = u
    BY <2>4, <2>5, SeqEqual
  <2> QED BY <2>2, <2>3, <2>6 DEF v
<1> QED BY <1>1, <1>2, <1>3, <1>4

\* Counting goes on with the next number.
LEMMA CountOn ==
  ASSUME NEW g \in Nat
  PROVE  Append([n \in 1 .. g |-> n], g + 1) = [n \in 1 .. g + 1 |-> n]
OBVIOUS

-----------------------------------------------------------------------------
(***************************************************************************)
(* Types.                                                                  *)
(***************************************************************************)

\* The queues as the streams see them.
Pending == outgoing_buffer \o outgoing_rx

\* A packet that is put back leaves the buffer as it was.
LEMMA PutBackKeeps ==
  ASSUME TypeOK, outgoing_buffer # << >>, PutBack
  PROVE  outgoing_buffer' = outgoing_buffer
<1> DEFINE P == Nat
<1>1. outgoing_buffer \in Seq(P)
  BY DEF TypeOK
<1> HIDE DEF P
<1>2. <<Head(outgoing_buffer)>> \o Tail(outgoing_buffer) = outgoing_buffer
  BY <1>1, PutBackSame
<1> QED BY <1>2 DEF PutBack

\* Every action keeps the type invariant.
LEMMA TypeKept == TypeOK /\ [Next]_vars => TypeOK'
<1> SUFFICES ASSUME TypeOK, [Next]_vars PROVE TypeOK'
  OBVIOUS
<1>1. CASE SendTo
  <2>1. given' \in 0 .. MaxPackets /\ given + 1 \in Nat
    BY <1>1, SenderAssumption DEF TypeOK, SendTo
  <2>2. outgoing_rx' \in Seq(Nat)
    BY <1>1, <2>1 DEF TypeOK, SendTo
  <2> QED BY <1>1, <2>1, <2>2 DEF TypeOK, SendTo, WakeReceiver, boundVars
<1>2. CASE DropSocket
  BY <1>2 DEF TypeOK, DropSocket, WakeReceiver, packetVars, boundVars
<1>3. CASE SocketFull
  <2>1. blocks' \in 0 .. MaxBlocks
    BY <1>3, SenderAssumption DEF TypeOK, SocketFull
  <2> QED BY <1>3, <2>1 DEF TypeOK, SocketFull, packetVars, wakerVars
<1>4. CASE SocketWritable
  BY <1>4 DEF TypeOK, SocketWritable, packetVars, boundVars
<1>5. CASE BeginPoll
  BY <1>5 DEF TypeOK, BeginPoll, packetVars, boundVars
<1>6. CASE PollWithoutSocket
  <2>1. outgoing_rx' \in Seq(Nat) /\ outgoing_buffer' \in Seq(Nat)
    BY <1>6 DEF PollWithoutSocket
  <2> QED BY <1>6, <2>1 DEF TypeOK, PollWithoutSocket, boundVars
<1>7. CASE Drain
  BY <1>7 DEF TypeOK, Drain, wakerVars, boundVars
<1>8. CASE DrainClosed
  <2>1. outgoing_buffer' \in Seq(Nat)
    BY <1>8 DEF DrainClosed
  <2> QED BY <1>8, <2>1 DEF TypeOK, DrainClosed, wakerVars, boundVars
<1>9. CASE DrainEnd
  BY <1>9 DEF TypeOK, DrainEnd, LeaveWaker, packetVars, boundVars
<1>10. CASE DrainYields
  <2>1. yields' \in 0 .. MaxYields
    BY <1>10, SenderAssumption DEF TypeOK, DrainYields
  <2> QED BY <1>10, <2>1 DEF TypeOK, DrainYields, packetVars
<1>11. CASE Transmit
  BY <1>11 DEF TypeOK, Transmit, wakerVars, boundVars
<1>12. CASE TransmitFails
  <2>1. errors' \in 0 .. MaxErrors
    BY <1>12, SenderAssumption DEF TypeOK, TransmitFails
  <2> QED BY <1>12, <2>1, PutBackKeeps DEF TypeOK, TransmitFails, wakerVars
<1>13. CASE TransmitBlocked
  BY <1>13, PutBackKeeps DEF TypeOK, TransmitBlocked, boundVars
<1>14. CASE TransmitYields
  <2>1. yields' \in 0 .. MaxYields
    BY <1>14, SenderAssumption DEF TypeOK, TransmitYields
  <2> QED BY <1>14, <2>1, PutBackKeeps DEF TypeOK, TransmitYields
<1>15. CASE AllTransmitted
  BY <1>15 DEF TypeOK, AllTransmitted, packetVars, wakerVars, boundVars
<1>16. CASE UNCHANGED vars
  BY <1>16 DEF TypeOK, vars, packetVars, wakerVars, boundVars
<1> QED BY <1>1, <1>2, <1>3, <1>4, <1>5, <1>6, <1>7, <1>8, <1>9, <1>10, <1>11, <1>12, <1>13,
           <1>14, <1>15, <1>16 DEF Next, Poll

\* The type invariant holds at first.
LEMMA TypeInit == Init => TypeOK
<1> SUFFICES ASSUME Init PROVE TypeOK
  OBVIOUS
<1>1. << >> \in Seq(Nat)
  OBVIOUS
<1>2. 0 \in 0 .. MaxPackets /\ 0 \in 0 .. MaxErrors /\ 0 \in 0 .. MaxBlocks /\ 0 \in 0 .. MaxYields
  BY SenderAssumption
<1> QED BY <1>1, <1>2 DEF Init, TypeOK

-----------------------------------------------------------------------------
(***************************************************************************)
(* What a step does to the queue.                                          *)
(***************************************************************************)

Gives ==
  /\ alive /\ given < MaxPackets
  /\ given' = given + 1
  /\ Pending' = Append(Pending, given + 1)
  /\ UNCHANGED <<sent, alive>>
Transmits ==
  /\ Pending # << >>
  /\ sent' = Append(sent, Head(Pending))
  /\ Pending' = Tail(Pending)
  /\ UNCHANGED <<given, alive>>
Closes == alive /\ alive' = FALSE /\ UNCHANGED <<Pending, sent, given>>
Discards == ~ alive /\ pc' = "stopped" /\ Pending' = << >> /\ UNCHANGED <<sent, given, alive>>

\* A step gives, transmits, closes, discards or leaves the queue alone: moving packets from
\* the channel to the buffer and putting them back is not seen from outside.
LEMMA QueueSteps ==
  ASSUME TypeOK, [Next]_vars
  PROVE  /\ \/ Gives \/ Transmits \/ Closes \/ Discards
            \/ UNCHANGED <<Pending, sent, given, alive>>
         /\ pc = "stopped" => pc' = "stopped"
<1> DEFINE P == Nat
           Goal == Gives \/ Transmits \/ Closes \/ Discards
                   \/ UNCHANGED <<Pending, sent, given, alive>>
<1>0. /\ outgoing_rx \in Seq(P) /\ outgoing_buffer \in Seq(P) /\ sent \in Seq(P)
      /\ given \in Nat /\ given + 1 \in P
  BY SenderAssumption DEF TypeOK
<1> HIDE DEF P, Goal
<1>1. CASE SendTo
  <2>1. outgoing_buffer \o Append(outgoing_rx, given + 1) = Append(Pending, given + 1)
    BY <1>0, AppendToRear DEF Pending
  <2>2. Gives /\ pc' = pc
    BY <1>1, <2>1 DEF SendTo, Gives, Pending
  <2> QED BY <2>2
<1>2. CASE DropSocket
  BY <1>2 DEF DropSocket, Closes, Pending, packetVars
<1>3. CASE SocketFull \/ SocketWritable
  BY <1>3 DEF SocketFull, SocketWritable, Pending, packetVars
<1>4. CASE BeginPoll
  BY <1>4 DEF BeginPoll, Pending, packetVars
<1>5. CASE PollWithoutSocket
  <2>1. << >> \o << >> = << >>
    OBVIOUS
  <2> QED BY <1>5, <2>1 DEF PollWithoutSocket, Discards, Pending
<1>6. CASE Drain
  <2>1. Append(outgoing_buffer, Head(outgoing_rx)) \o Tail(outgoing_rx) = Pending
    BY <1>0, <1>6, MoveFirst DEF Pending, Drain
  <2> QED BY <1>6, <2>1 DEF Drain, Pending
<1>7. CASE DrainClosed
  <2>1. << >> \o << >> = << >>
    OBVIOUS
  <2> QED BY <1>7, <2>1 DEF DrainClosed, Discards, Pending
<1>8. CASE DrainEnd \/ DrainYields \/ AllTransmitted
  BY <1>8 DEF DrainEnd, DrainYields, AllTransmitted, Pending, packetVars
<1>9. CASE Transmit
  <2>1. /\ Pending # << >> /\ Head(Pending) = Head(outgoing_buffer)
        /\ Tail(Pending) = Tail(outgoing_buffer) \o outgoing_rx
    BY <1>0, <1>9, TakeFirst DEF Pending, Transmit
  <2>2. Pending' = Tail(outgoing_buffer) \o outgoing_rx
    BY <1>9 DEF Pending, Transmit
  <2> QED BY <1>9, <2>1, <2>2 DEF Transmit, Transmits
<1>10. CASE TransmitFails \/ TransmitBlocked \/ TransmitYields
  <2>1. outgoing_buffer' = outgoing_buffer
    BY <1>10, PutBackKeeps DEF TransmitFails, TransmitBlocked, TransmitYields
  <2> QED BY <1>10, <2>1 DEF TransmitFails, TransmitBlocked, TransmitYields, Pending
<1>11. CASE UNCHANGED vars
  BY <1>11 DEF vars, packetVars, Pending
<1> QED BY <1>1, <1>2, <1>3, <1>4, <1>5, <1>6, <1>7, <1>8, <1>9, <1>10, <1>11 DEF Next, Poll

-----------------------------------------------------------------------------
(***************************************************************************)
(* Theorems.                                                               *)
(***************************************************************************)

\* Everything but what the task threw away on its end is sent or queued, in order.
InOrder == pc # "stopped" => sent \o Pending = [n \in 1 .. given |-> n]

\* Every step keeps the order.
LEMMA InOrderNext == TypeOK /\ InOrder /\ [Next]_vars => InOrder'
<1> SUFFICES ASSUME TypeOK, InOrder, [Next]_vars, pc' # "stopped"
             PROVE  sent' \o Pending' = [n \in 1 .. given' |-> n]
  BY DEF InOrder
<1> DEFINE P == Nat
           old == Pending
           counted == [n \in 1 .. given |-> n]
<1>1. /\ outgoing_rx \in Seq(P) /\ outgoing_buffer \in Seq(P) /\ sent \in Seq(P)
      /\ given \in Nat /\ given + 1 \in P
  BY SenderAssumption DEF TypeOK
<1> HIDE DEF P
<1>2. old \in Seq(P)
  BY <1>1, ConcatProperties DEF Pending
<1>3. sent \o old = counted
  BY QueueSteps DEF InOrder
<1>4. Append(counted, given + 1) = [n \in 1 .. given + 1 |-> n]
  BY <1>1, CountOn
<1> HIDE DEF old, counted
<1>5. CASE Gives
  <2>1. Pending' = Append(old, given + 1) /\ sent' = sent /\ given' = given + 1
    BY <1>5 DEF Gives, old
  <2>2. sent \o Append(old, given + 1) = Append(sent \o old, given + 1)
    BY <1>1, <1>2, AppendToRear
  <2> QED BY <1>3, <1>4, <2>1, <2>2
<1>6. CASE Transmits
  <2>1. old # << >> /\ sent' = Append(sent, Head(old)) /\ Pending' = Tail(old) /\ given' = given
    BY <1>6 DEF Transmits, old
  <2>2. Append(sent, Head(old)) \o Tail(old) = sent \o old
    BY <1>1, <1>2, <2>1, MoveFirst
  <2> QED BY <1>3, <2>1, <2>2 DEF counted
<1>7. CASE Closes \/ UNCHANGED <<Pending, sent, given, alive>>
  BY <1>3, <1>7 DEF Closes, old, counted
<1> QED BY <1>5, <1>6, <1>7, QueueSteps DEF Discards

\* The order that InOrder speaks of is the one of NothingLost.
LEMMA InOrderMeans == TypeOK /\ InOrder => NothingLost
<1> SUFFICES ASSUME TypeOK, InOrder PROVE NothingLost
  OBVIOUS
<1> DEFINE P == Nat
<1>1. outgoing_rx \in Seq(P) /\ outgoing_buffer \in Seq(P) /\ sent \in Seq(P)
  BY DEF TypeOK
<1> HIDE DEF P
<1>2. (sent \o outgoing_buffer) \o outgoing_rx = sent \o Pending
  BY <1>1, ConcatAssociative DEF Pending
<1> QED BY <1>2 DEF InOrder, NothingLost

\* No packet is lost, repeated or sent out of turn while the sender task runs, however often
\* the UDP socket fails or blocks and the task yields.
THEOREM SenderLosesNothing == Spec => []NothingLost
<1>1. Init => TypeOK /\ InOrder
  <2> SUFFICES ASSUME Init PROVE InOrder
    BY TypeInit
  <2>1. << >> \o (<< >> \o << >>) = << >> /\ [n \in 1 .. 0 |-> n] = << >>
    OBVIOUS
  <2> QED BY <2>1 DEF Init, InOrder, Pending
<1>2. TypeOK /\ InOrder /\ [Next]_vars => (TypeOK /\ InOrder)'
  BY TypeKept, InOrderNext
<1>3. TypeOK /\ InOrder => NothingLost
  BY InOrderMeans
<1> QED BY <1>1, <1>2, <1>3, PTL DEF Spec

\* The task, with its channel and its buffer, is the one queue that OutgoingQueue specifies
\* and that the models of the streams take send_to for.
THEOREM SenderImplementsQueue == Spec => ImplementsQueue
<1>1. Init => Queue!Init
  <2>1. << >> \o << >> = << >>
    OBVIOUS
  <2> QED BY <2>1 DEF Init, Queue!Init
<1>2. TypeOK /\ [Next]_vars => [Queue!Next]_Queue!vars
  <2> SUFFICES ASSUME TypeOK, [Next]_vars PROVE [Queue!Next]_Queue!vars
    OBVIOUS
  <2>1. CASE Gives
    BY <2>1 DEF Gives, Pending, Queue!Next, Queue!Give
  <2>2. CASE Transmits
    BY <2>2 DEF Transmits, Pending, Queue!Next, Queue!Transmit
  <2>3. CASE Closes
    BY <2>3 DEF Closes, Pending, Queue!Next, Queue!Close
  <2>4. CASE Discards
    BY <2>4 DEF Discards, Pending, Queue!Next, Queue!Discard
  <2>5. CASE UNCHANGED <<Pending, sent, given, alive>>
    BY <2>5 DEF Pending, Queue!vars
  <2> QED BY <2>1, <2>2, <2>3, <2>4, <2>5, QueueSteps
<1>3. Init => TypeOK
  BY TypeInit
<1>4. TypeOK /\ [Next]_vars => TypeOK'
  BY TypeKept
<1> QED BY <1>1, <1>2, <1>3, <1>4, PTL DEF Spec, ImplementsQueue, Queue!Spec

\* NoStrandedPacket once the channel was drained: what comes in from then on wakes the task.
Armed ==
  /\ NoStrandedPacket
  /\ pc = "sending" /\ ~ notified => outgoing_rx = << >> /\ rx_waker

\* The sender task never sleeps on a packet it could send: no wake-up is lost between the
\* last look into the channel or at the socket and the end of the poll.
THEOREM SenderNeverStrands == Spec => []NoStrandedPacket
<1> USE DEF Armed, NoStrandedPacket
<1>1. Init => Armed
  BY DEF Init
<1>2. Armed /\ [Next]_vars => Armed'
  <2> SUFFICES ASSUME Armed, [Next]_vars PROVE Armed'
    OBVIOUS
  <2>1. CASE SendTo
    BY <2>1 DEF SendTo, WakeReceiver
  <2>2. CASE DropSocket
    BY <2>2 DEF DropSocket, WakeReceiver, packetVars
  <2>3. CASE SocketFull
    BY <2>3 DEF SocketFull, packetVars, wakerVars
  <2>4. CASE SocketWritable
    BY <2>4 DEF SocketWritable, packetVars
  <2>5. CASE BeginPoll \/ PollWithoutSocket
    BY <2>5 DEF BeginPoll, PollWithoutSocket
  <2>6. CASE Drain \/ DrainClosed
    BY <2>6 DEF Drain, DrainClosed
  <2>7. CASE DrainEnd
    BY <2>7 DEF DrainEnd, LeaveWaker, packetVars
  <2>8. CASE DrainYields \/ TransmitYields
    BY <2>8 DEF DrainYields, TransmitYields
  <2>9. CASE Transmit \/ TransmitFails
    BY <2>9 DEF Transmit, TransmitFails, wakerVars
  <2>10. CASE TransmitBlocked
    BY <2>10 DEF TransmitBlocked
  <2>11. CASE AllTransmitted
    BY <2>11 DEF AllTransmitted, packetVars, wakerVars
  <2>12. CASE UNCHANGED vars
    BY <2>12 DEF vars, packetVars, wakerVars
  <2> QED BY <2>1, <2>2, <2>3, <2>4, <2>5, <2>6, <2>7, <2>8, <2>9, <2>10, <2>11, <2>12
             DEF Next, Poll
<1>3. Armed => NoStrandedPacket
  OBVIOUS
<1> QED BY <1>1, <1>2, <1>3, PTL DEF Spec

=============================================================================
