------------------------ MODULE PacketReceiverProofs ------------------------
(***************************************************************************)
(* The receiver task for any packets, datagrams, connections and faults.   *)
(***************************************************************************)
EXTENDS PacketReceiverContract, PacketCodecProofs

-----------------------------------------------------------------------------
(***************************************************************************)
(* Wake-ups.                                                               *)
(***************************************************************************)

\* NoStrandedDatagram, and why it lasts: tokio's readiness is set while there is a datagram,
\* so the task only goes to sleep when there is none.
ReadyWhileArrived == NoStrandedDatagram /\ (arrived # << >> => ready) /\ dropped \in Nat

\* The receiver task never sleeps on a datagram, and is never left without a waker while its
\* socket exists: readiness that tokio keeps from an earlier poll, read errors, datagrams
\* that do not decode and exhausted budgets included.
THEOREM ReceiverNeverStrands == Spec => []NoStrandedDatagram
<1> USE DEF ReadyWhileArrived, NoStrandedDatagram
<1>1. Init => ReadyWhileArrived
  BY DEF Init
<1>2. ReadyWhileArrived /\ [Next]_vars => ReadyWhileArrived'
  <2> SUFFICES ASSUME ReadyWhileArrived, [Next]_vars PROVE ReadyWhileArrived'
    BY Zenon
  <2>1. ASSUME NEW from, NEW bytes, Arrive(from, bytes) PROVE ReadyWhileArrived'
    BY <2>1, Zenon DEF Arrive, SocketOpen, WakeTask
  <2>2. CASE \E from \in Addrs, packet \in Packets : ArrivePacket(from, packet)
    BY <2>1, <2>2, Zenon DEF ArrivePacket
  <2>3. CASE \E from \in Addrs, bytes \in Probes : ArriveProbe(from, bytes)
    BY <2>1, <2>3, Zenon DEF ArriveProbe
  <2>4. CASE \E id \in Ids, addr \in Addrs : Register(id, addr)
    BY <2>4 DEF Register, ioVars
  <2>5. CASE \E h \in live : DropStream(h)
    BY <2>5 DEF DropStream, ioVars
  <2>6. CASE DriverEnds
    BY <2>6, Zenon DEF DriverEnds, SocketOpen, WakeTask
  <2>7. CASE DropField
    <3>1. dropped' \in Nat /\ dropped' # 0
      BY <2>7 DEF DropField
    <3> QED BY <2>7, <3>1, Zenon DEF DropField, ioVars
  <2>8. CASE BeginPoll \/ PollWithoutSocket \/ RecvReady \/ RecvReadyFails
    BY <2>8, Zenon DEF BeginPoll, PollWithoutSocket, RecvReady, RecvReadyFails, ioVars
  <2>9. CASE RecvNotReady \/ RecvNothing
    BY <2>9, Zenon DEF RecvNotReady, RecvNothing, Sleep
  <2>10. CASE RecvYields \/ RecvFails
    BY <2>10, Zenon DEF RecvYields, RecvFails, ioVars
  <2>11. CASE RecvFrom
    BY <2>11, Zenon DEF RecvFrom, AfterInvalid
  <2>12. CASE RouteSyn \/ RouteOther
    BY <2>12, Zenon DEF RouteSyn, RouteOther, ioVars
  <2>13. CASE UNCHANGED vars
    BY <2>13, Zenon DEF vars, ioVars
  <2> QED BY <2>2, <2>3, <2>4, <2>5, <2>6, <2>7, <2>8, <2>9, <2>10, <2>11, <2>12, <2>13, Zenon
             DEF Next, Poll
<1>3. ReadyWhileArrived => NoStrandedDatagram
  BY Zenon
<1> QED BY <1>1, <1>2, <1>3, PTL DEF Spec

-----------------------------------------------------------------------------
(***************************************************************************)
(* Routing.                                                                *)
(***************************************************************************)

Results == {Decode(bytes) : bytes \in Datagrams}
Handled == {d \in [from : Addrs, bytes : Datagrams, result : Results] : d.result = Decode(d.bytes)}
Conns == [key : Ids \X Addrs, since : Nat]

\* What the datagrams and the connections are made of.
ReceiverTyped ==
  /\ arrived \in Seq([from : Addrs, bytes : Datagrams])
  /\ handled \in Seq(Handled)
  /\ pc = "routing" => current \in Handled
  /\ conns \in Seq(Conns)

\* The routing table leads to every live connection, and from every entry to a connection of
\* the entry's key.
TableRight ==
  /\ live \subseteq 1 .. Len(conns)
  /\ \A h \in live : /\ conns[h].key \in DOMAIN routing_table
                     /\ routing_table[conns[h].key] = h
  /\ \A key \in DOMAIN routing_table : /\ routing_table[key] \in 1 .. Len(conns)
                                       /\ conns[routing_table[key]].key = key

\* Every step keeps the types.
LEMMA ReceiverTypedNext == ReceiverTyped /\ [Next]_vars => ReceiverTyped'
<1> SUFFICES ASSUME ReceiverTyped, [Next]_vars PROVE ReceiverTyped'
  BY Zenon
<1> USE DEF ReceiverTyped
<1>1. ASSUME NEW from \in Addrs, NEW bytes \in Datagrams, Arrive(from, bytes)
      PROVE  ReceiverTyped'
  <2>1. [from |-> from, bytes |-> bytes] \in [from : Addrs, bytes : Datagrams]
    BY Zenon
  <2>2. arrived' \in Seq([from : Addrs, bytes : Datagrams])
    BY <1>1, <2>1 DEF Arrive
  <2> QED BY <1>1, <2>2, Zenon DEF Arrive, tableVars
<1>2. CASE \E from \in Addrs, packet \in Packets : ArrivePacket(from, packet)
  BY <1>1, <1>2, Zenon DEF ArrivePacket, Datagrams
<1>3. CASE \E from \in Addrs, bytes \in Probes : ArriveProbe(from, bytes)
  BY <1>1, <1>3, Zenon DEF ArriveProbe, Datagrams
<1>4. CASE \E id \in Ids, addr \in Addrs : Register(id, addr)
  <2>1. PICK id \in Ids, addr \in Addrs : Register(id, addr)
    BY <1>4, Zenon
  <2>2. [key |-> <<id, addr>>, since |-> Len(handled)] \in Conns
    BY DEF Conns
  <2>3. conns' \in Seq(Conns)
    BY <2>1, <2>2 DEF Register
  <2> QED BY <2>1, <2>3, Zenon DEF Register, ioVars
<1>5. CASE (\E h \in live : DropStream(h)) \/ DriverEnds \/ DropField
  BY <1>5, Zenon DEF DropStream, DriverEnds, DropField, ioVars, tableVars
<1>6. CASE BeginPoll \/ PollWithoutSocket \/ RecvReady \/ RecvReadyFails
  BY <1>6, Zenon DEF BeginPoll, PollWithoutSocket, RecvReady, RecvReadyFails, ioVars, tableVars
<1>7. CASE RecvNotReady \/ RecvNothing
  BY <1>7, Zenon DEF RecvNotReady, RecvNothing, Sleep, tableVars
<1>8. CASE RecvYields \/ RecvFails
  BY <1>8, Zenon DEF RecvYields, RecvFails, ioVars, tableVars
<1>9. CASE RecvFrom
  <2> DEFINE d == Head(arrived)
             done == [from |-> d.from, bytes |-> d.bytes, result |-> Decode(d.bytes)]
  <2>1. d \in [from : Addrs, bytes : Datagrams]
        /\ Tail(arrived) \in Seq([from : Addrs, bytes : Datagrams])
    BY <1>9, HeadTailProperties, Zenon DEF RecvFrom
  <2>2. done \in Handled
    BY <2>1, Zenon DEF Handled, Results
  <2>3. arrived' = Tail(arrived) /\ UNCHANGED tableVars
    BY <1>9, Zenon DEF RecvFrom
  <2>4. \/ pc' = AfterInvalid /\ handled' = Append(handled, done)
        \/ pc' = "routing" /\ current' = done /\ handled' = handled
    BY <1>9, Zenon DEF RecvFrom
  <2> HIDE DEF d, done
  <2>5. handled' \in Seq(Handled) /\ (pc' = "routing" => current' \in Handled)
    <3>1. CASE pc' = AfterInvalid /\ handled' = Append(handled, done)
      <4>1. Append(handled, done) \in Seq(Handled)
        BY <2>2, AppendProperties, Zenon
      <4> QED BY <3>1, <4>1, Zenon DEF AfterInvalid
    <3>2. CASE pc' = "routing" /\ current' = done /\ handled' = handled
      BY <2>2, <3>2, Zenon
    <3> QED BY <2>4, <3>1, <3>2, Zenon
  <2> QED BY <2>1, <2>3, <2>5, Zenon DEF tableVars
<1>10. CASE RouteSyn \/ RouteOther
  <2>1. current \in Handled /\ handled' = Append(handled, current)
        /\ pc' \in {"polling", "stopped"} /\ UNCHANGED <<arrived, conns>>
    BY <1>10, Zenon DEF RouteSyn, RouteOther, ioVars, tableVars
  <2> QED BY <2>1
<1>11. CASE UNCHANGED vars
  BY <1>11, Zenon DEF vars, ioVars, tableVars
<1> QED BY <1>2, <1>3, <1>4, <1>5, <1>6, <1>7, <1>8, <1>9, <1>10, <1>11, Zenon DEF Next, Poll

\* Registering adds an entry for a new connection; a stream that goes leaves its entry
\* behind; remove_if takes out no entry of a live connection.
LEMMA TableRightNext == ReceiverTyped /\ TableRight /\ [Next]_vars => TableRight'
<1> SUFFICES ASSUME ReceiverTyped, TableRight, [Next]_vars PROVE TableRight'
  BY Zenon
<1>1. CASE \E id \in Ids, addr \in Addrs : Register(id, addr)
  <2>1. PICK id \in Ids, addr \in Addrs : Register(id, addr)
    BY <1>1, Zenon
  <2> DEFINE key == <<id, addr>>
             n   == Len(conns)
             c   == [key |-> key, since |-> Len(handled)]
  <2>2. c \in Conns /\ c.key = key
    BY DEF Conns, ReceiverTyped
  <2>3. /\ key \notin DOMAIN routing_table
        /\ conns' = Append(conns, c)
        /\ routing_table' = [k \in DOMAIN routing_table \cup {key} |->
                               IF k = key THEN n + 1 ELSE routing_table[k]]
        /\ live' = live \cup {n + 1}
    BY <2>1, Zenon DEF Register
  <2>4. /\ n \in Nat /\ Len(conns') = n + 1 /\ conns'[n + 1] = c
        /\ \A h \in 1 .. n : conns'[h] = conns[h]
    BY <2>2, <2>3 DEF ReceiverTyped
  <2>5. /\ live \subseteq 1 .. n
        /\ \A h \in live : conns[h].key \in DOMAIN routing_table
                           /\ routing_table[conns[h].key] = h
        /\ \A k \in DOMAIN routing_table : routing_table[k] \in 1 .. n
                                           /\ conns[routing_table[k]].key = k
    BY Zenon DEF TableRight
  <2> HIDE DEF key, n, c
  <2>6. live' \subseteq 1 .. n + 1
    BY <2>3, <2>4, <2>5
  <2>7. ASSUME NEW h \in live'
        PROVE  conns'[h].key \in DOMAIN routing_table' /\ routing_table'[conns'[h].key] = h
    <3>1. CASE h = n + 1
      BY <2>2, <2>3, <2>4, <3>1, Zenon
    <3>2. CASE h \in live
      <4>1. conns'[h] = conns[h]
        BY <2>4, <2>5, <3>2, Zenon
      <4>2. conns[h].key \in DOMAIN routing_table /\ routing_table[conns[h].key] = h
        BY <2>5, <3>2, Zenon
      <4> QED BY <2>3, <4>1, <4>2, Zenon
    <3> QED BY <2>3, <3>1, <3>2, Zenon
  <2>8. ASSUME NEW k \in DOMAIN routing_table'
        PROVE  routing_table'[k] \in 1 .. n + 1 /\ conns'[routing_table'[k]].key = k
    <3>1. CASE k = key
      BY <2>2, <2>3, <2>4, <3>1
    <3>2. CASE k \in DOMAIN routing_table
      BY <2>3, <2>4, <2>5, <3>2
    <3> QED BY <2>3, <3>1, <3>2, Zenon
  <2> QED BY <2>4, <2>6, <2>7, <2>8, Zenon DEF TableRight
<1>2. CASE RouteOther
  <2> DEFINE key == <<current.result.connection_id, current.from>>
  <2>1. UNCHANGED <<conns, live>>
    BY <1>2, Zenon DEF RouteOther
  <2>2. \/ UNCHANGED routing_table
        \/ /\ key \in DOMAIN routing_table
           /\ routing_table' = [k \in {k \in DOMAIN routing_table :
                                        k = key => routing_table[key] \in live} |->
                                 routing_table[k]]
    BY <1>2, Zenon DEF RouteOther, Stale
  <2> HIDE DEF key
  <2> QED BY <2>1, <2>2 DEF TableRight
<1>3. CASE \E h \in live : DropStream(h)
  BY <1>3, Zenon DEF DropStream, TableRight
<1>4. ASSUME UNCHANGED <<conns, live, routing_table>> PROVE TableRight'
  BY <1>4, Zenon DEF TableRight
<1>5. CASE (\E from \in Addrs, packet \in Packets : ArrivePacket(from, packet))
           \/ (\E from \in Addrs, bytes \in Probes : ArriveProbe(from, bytes))
           \/ DriverEnds \/ DropField
  BY <1>4, <1>5, Zenon DEF ArrivePacket, ArriveProbe, Arrive, DriverEnds, DropField, tableVars
<1>6. CASE BeginPoll \/ PollWithoutSocket \/ RecvReady \/ RecvReadyFails \/ RecvNotReady
           \/ RecvNothing \/ RecvYields \/ RecvFails
  BY <1>4, <1>6, Zenon DEF BeginPoll, PollWithoutSocket, RecvReady, RecvReadyFails, RecvNotReady,
                    RecvNothing, RecvYields, RecvFails, tableVars
<1>7. CASE RecvFrom \/ RouteSyn
  BY <1>4, <1>7, Zenon DEF RecvFrom, RouteSyn, tableVars
<1>8. CASE UNCHANGED vars
  BY <1>4, <1>8, Zenon DEF vars, tableVars
<1> QED BY <1>1, <1>2, <1>3, <1>5, <1>6, <1>7, <1>8, Zenon DEF Next, Poll

\* No connection is registered and no datagram handled at the start.
LEMMA ReceiverInit == Init => ReceiverTyped /\ TableRight
<1> SUFFICES ASSUME Init PROVE ReceiverTyped /\ TableRight
  BY Zenon
<1>1. << >> \in Seq([from : Addrs, bytes : Datagrams]) /\ << >> \in Seq(Handled)
      /\ << >> \in Seq(Conns)
  OBVIOUS
<1>2. ReceiverTyped
  BY <1>1, Zenon DEF Init, ReceiverTyped
<1>3. TableRight
  BY Zenon DEF Init, TableRight
<1> QED BY <1>2, <1>3, Zenon

\* The routing table never loses a live stream or connecting future and never leads to
\* another one, whatever remove_if and the two registering functions do around it.
THEOREM ReceiverKeepsRoutes == Spec => []TableRight
<1>1. ReceiverTyped /\ TableRight /\ [Next]_vars => (ReceiverTyped /\ TableRight)'
  BY ReceiverTypedNext, TableRightNext, Zenon
<1> QED BY <1>1, ReceiverInit, PTL DEF Spec

-----------------------------------------------------------------------------
(***************************************************************************)
(* Decoding.                                                               *)
(***************************************************************************)

\* Every datagram, of a packet or not, is one that the codec's theorems are about.
LEMMA DatagramsAreBytes == Datagrams \subseteq ByteStrings
<1>1. \A packet \in Packets : Encode(packet) \in ByteStrings
  BY ReceiverAssumption, DecodeEncode, Zenon
<1> QED BY <1>1, ReceiverAssumption, Zenon DEF Datagrams

\* What is handled has been taken for the packet that its sender meant.
LEMMA HandledIsMeant ==
  ASSUME NEW d \in Handled
  PROVE  /\ ~ IsError(d.result) => Encode(d.result) = d.bytes
         /\ \A packet \in Packets : Encode(packet) = d.bytes => d.result = packet
<1>1. d.bytes \in ByteStrings /\ d.result = Decode(d.bytes)
  BY DatagramsAreBytes, Zenon DEF Handled
<1>2. ~ IsError(d.result) => Encode(d.result) = d.bytes
  BY <1>1, DecodeSound, Zenon
<1>3. \A packet \in Packets : Decode(Encode(packet)) = packet
  BY ReceiverAssumption, DecodeEncode, Zenon
<1> QED BY <1>1, <1>2, <1>3, Zenon

\* Whatever arrives, and in whatever order the task's polls, errors and sleeps come, each
\* datagram is routed as the packet that was encoded into it, or ignored when none was.
THEOREM PacketsDecodedAsMeant == Spec => []DecodedIsMeant
<1>1. ReceiverTyped => DecodedIsMeant
  <2> SUFFICES ASSUME ReceiverTyped, NEW i \in DOMAIN handled
               PROVE  LET d == handled[i] IN
                        /\ ~ IsError(d.result) => Encode(d.result) = d.bytes
                        /\ \A packet \in Packets : Encode(packet) = d.bytes => d.result = packet
    BY Zenon DEF DecodedIsMeant
  <2>1. handled[i] \in Handled
    BY DEF ReceiverTyped
  <2> QED BY <2>1, HandledIsMeant, Zenon
<1> QED BY <1>1, ReceiverInit, ReceiverTypedNext, PTL DEF Spec

-----------------------------------------------------------------------------
(***************************************************************************)
(* What the mailboxes and the SYN queue are given.                         *)
(***************************************************************************)

SynEntries == Results \X Addrs

\* What RoutedInOrder needs besides: connections are registered after what was handled by
\* then, mailboxes not yet in use are empty, and no stream outlives the socket.
RoutesTyped ==
  /\ mailbox \in [1 .. MaxHandles -> Seq(Results)]
  /\ syn_queue \in Seq(SynEntries)
  /\ Len(conns) <= MaxHandles
  /\ \A h \in 1 .. Len(conns) : conns[h].since <= Len(handled)
  /\ \A h \in 1 .. MaxHandles : h > Len(conns) => mailbox[h] = << >>
  /\ dropped \in Nat
  /\ dropped > 0 => live = {}

\* An enumeration goes on with a number that is greater than all before.
LEMMA EnumerationGrows ==
  ASSUME NEW n \in Nat, NEW m \in Nat, NEW S \in SUBSET (1 .. m), NEW f \in [1 .. n -> S],
         Enumerates(f, n, S)
  PROVE  \E g \in [1 .. n + 1 -> S \cup {m + 1}] :
           /\ Enumerates(g, n + 1, S \cup {m + 1})
           /\ \A i \in 1 .. n : g[i] = f[i]
           /\ g[n + 1] = m + 1
<1> DEFINE g == [i \in 1 .. n + 1 |-> IF i = n + 1 THEN m + 1 ELSE f[i]]
           T == S \cup {m + 1}
<1>1. \A i \in 1 .. n : g[i] = f[i] /\ g[i] \in S
  <2> TAKE i \in 1 .. n
  <2>1. i \in 1 .. n + 1 /\ i # n + 1 /\ f[i] \in S
    OBVIOUS
  <2> QED BY <2>1, Zenon
<1>2. g[n + 1] = m + 1
  OBVIOUS
<1>3. \A i \in 1 .. n + 1 : i \in 1 .. n \/ i = n + 1
  OBVIOUS
<1>4. DOMAIN g = 1 .. n + 1 /\ g \in [1 .. n + 1 -> T]
  BY <1>1, <1>2, <1>3, Zenon
<1> HIDE DEF g
<1>5. ASSUME NEW i \in 1 .. n + 1, NEW j \in 1 .. n + 1, i < j PROVE g[i] < g[j]
  <2>1. i \in 1 .. n
    BY <1>5
  <2>2. CASE j = n + 1
    <3>1. g[i] \in 1 .. m
      BY <1>1, <2>1, Zenon
    <3> QED BY <1>2, <2>2, <3>1
  <2>3. CASE j \in 1 .. n
    BY <1>1, <1>5, <2>1, <2>3, Zenon DEF Enumerates
  <2> QED BY <1>3, <2>2, <2>3, Zenon
<1>6. ASSUME NEW k \in T PROVE \E i \in 1 .. n + 1 : g[i] = k
  <2>1. CASE k \in S
    <3>1. PICK i \in 1 .. n : f[i] = k
      BY <2>1, Zenon DEF Enumerates
    <3>2. i \in 1 .. n + 1 /\ g[i] = k
      BY <1>1, <3>1
    <3> QED BY <3>2, Zenon
  <2>2. CASE k = m + 1
    <3>1. n + 1 \in 1 .. n + 1
      OBVIOUS
    <3> QED BY <1>2, <2>2, <3>1, Zenon
  <2> QED BY <2>1, <2>2, Zenon
<1> QED BY <1>1, <1>2, <1>4, <1>5, <1>6, Zenon DEF Enumerates

\* Every step keeps what RoutedInOrder needs besides.
LEMMA RoutesTypedNext == ReceiverTyped /\ TableRight /\ RoutesTyped /\ [Next]_vars => RoutesTyped'
<1> SUFFICES ASSUME ReceiverTyped, TableRight, RoutesTyped, [Next]_vars PROVE RoutesTyped'
  BY Zenon
<1>0. /\ mailbox \in [1 .. MaxHandles -> Seq(Results)] /\ syn_queue \in Seq(SynEntries)
      /\ Len(conns) <= MaxHandles /\ Len(conns) \in Nat /\ Len(handled) \in Nat
      /\ \A h \in 1 .. Len(conns) : conns[h].since <= Len(handled) /\ conns[h] \in Conns
      /\ \A h \in 1 .. MaxHandles : h > Len(conns) => mailbox[h] = << >>
      /\ dropped \in Nat /\ (dropped > 0 => live = {})
      /\ MaxHandles \in Nat
  <2>1. conns \in Seq(Conns) /\ handled \in Seq(Handled)
    BY Zenon DEF ReceiverTyped
  <2>2. Len(conns) \in Nat /\ Len(handled) \in Nat /\ \A h \in 1 .. Len(conns) : conns[h] \in Conns
    BY <2>1, LenProperties, ElementOfSeq, Zenon
  <2> QED BY <2>2, ReceiverAssumption, Zenon DEF RoutesTyped
<1>1. ASSUME UNCHANGED <<mailbox, syn_queue, conns, live, dropped>>,
             handled' = handled \/ \E d \in Handled : handled' = Append(handled, d)
      PROVE  RoutesTyped'
  <2>1. Len(handled) <= Len(handled')
    BY <1>0, <1>1, AppendProperties DEF ReceiverTyped
  <2>2. Len(handled') \in Nat
    BY <1>0, <1>1, AppendProperties DEF ReceiverTyped
  <2>3. \A h \in 1 .. Len(conns) : conns[h].since <= Len(handled')
    <3> TAKE h \in 1 .. Len(conns)
    <3>1. conns[h].since \in Nat /\ conns[h].since <= Len(handled)
      BY <1>0, Zenon DEF Conns
    <3> QED BY <1>0, <2>1, <2>2, <3>1
  <2> QED BY <1>0, <1>1, <2>3, Zenon DEF RoutesTyped
<1>2. CASE \/ \E from \in Addrs, packet \in Packets : ArrivePacket(from, packet)
           \/ \E from \in Addrs, bytes \in Probes : ArriveProbe(from, bytes)
           \/ DriverEnds
  BY <1>1, <1>2, Zenon DEF ArrivePacket, ArriveProbe, Arrive, DriverEnds, tableVars
<1>3. CASE BeginPoll \/ PollWithoutSocket \/ RecvReady \/ RecvReadyFails \/ RecvNotReady
           \/ RecvNothing \/ RecvYields \/ RecvFails
  BY <1>1, <1>3, Zenon DEF BeginPoll, PollWithoutSocket, RecvReady, RecvReadyFails, RecvNotReady,
                    RecvNothing, RecvYields, RecvFails, tableVars
<1>4. CASE UNCHANGED vars
  BY <1>1, <1>4, Zenon DEF vars, tableVars
<1>5. CASE DropField
  <2>1. live = {} /\ dropped' = dropped + 1 /\ UNCHANGED <<tableVars, syn_queue, handled>>
    BY <1>5, Zenon DEF DropField
  <2> QED BY <1>0, <2>1 DEF RoutesTyped, tableVars
<1>6. CASE \E h \in live : DropStream(h)
  BY <1>0, <1>6, Zenon DEF DropStream, RoutesTyped
<1>7. CASE RecvFrom
  <2>1. handled' = handled \/ \E d \in Handled : handled' = Append(handled, d)
    <3> DEFINE d == Head(arrived)
               done == [from |-> d.from, bytes |-> d.bytes, result |-> Decode(d.bytes)]
    <3>1. d \in [from : Addrs, bytes : Datagrams]
      BY <1>7, HeadTailProperties, Zenon DEF RecvFrom, ReceiverTyped
    <3>2. done \in Handled
      BY <3>1, Zenon DEF Handled, Results
    <3>3. handled' = handled \/ handled' = Append(handled, done)
      BY <1>7, Zenon DEF RecvFrom
    <3> QED BY <3>2, <3>3, Zenon
  <2>2. UNCHANGED <<mailbox, syn_queue, conns, live, dropped>>
    BY <1>7, Zenon DEF RecvFrom, tableVars
  <2> QED BY <1>1, <2>1, <2>2, Zenon
<1>8. CASE \E id \in Ids, addr \in Addrs : Register(id, addr)
  <2>1. PICK id \in Ids, addr \in Addrs : Register(id, addr)
    BY <1>8, Zenon
  <2> DEFINE c == [key |-> <<id, addr>>, since |-> Len(handled)]
             n == Len(conns)
  <2>2. /\ dropped = 0 /\ n + 1 <= MaxHandles /\ conns' = Append(conns, c)
        /\ UNCHANGED <<mailbox, syn_queue, dropped, handled>>
    BY <2>1, Zenon DEF Register
  <2>3. c \in Conns /\ c.since = Len(handled)
    BY <1>0, Zenon DEF Conns
  <2> HIDE DEF c
  <2>4. /\ Len(conns') = n + 1 /\ conns'[n + 1] = c
        /\ \A h \in 1 .. n : conns'[h] = conns[h]
    BY <2>2, <2>3, AppendProperties DEF ReceiverTyped
  <2>5. \A h \in 1 .. n + 1 : h \in 1 .. n \/ h = n + 1
    BY <1>0
  <2>6. ASSUME NEW h \in 1 .. n + 1 PROVE conns'[h].since <= Len(handled)
    <3>1. CASE h = n + 1
      BY <1>0, <2>3, <2>4, <3>1
    <3>2. CASE h \in 1 .. n
      BY <1>0, <2>4, <3>2, Zenon
    <3> QED BY <2>5, <3>1, <3>2, Zenon
  <2> QED BY <1>0, <2>2, <2>4, <2>6 DEF RoutesTyped
<1>9. CASE RouteSyn
  <2>1. /\ current \in Handled /\ handled' = Append(handled, current)
        /\ UNCHANGED <<tableVars, dropped>>
    BY <1>9, Zenon DEF RouteSyn, ReceiverTyped
  <2>2. \/ syn_queue' = syn_queue
        \/ syn_queue' = Append(syn_queue, SynEntry(current))
    BY <1>9, Zenon DEF RouteSyn
  <2>3. SynEntry(current) \in SynEntries
    BY <2>1, Zenon DEF Handled, Results, SynEntries, SynEntry
  <2>4. syn_queue' \in Seq(SynEntries)
    <3>1. syn_queue \in Seq(SynEntries)
      BY <1>0, Zenon
    <3>2. Append(syn_queue, SynEntry(current)) \in Seq(SynEntries)
      BY <2>3, <3>1, AppendProperties, Zenon
    <3> QED BY <2>2, <3>1, <3>2, Zenon
  <2>5. Len(handled') = Len(handled) + 1
    BY <2>1, AppendProperties, Zenon DEF ReceiverTyped
  <2>6. \A h \in 1 .. Len(conns) : conns[h].since <= Len(handled')
    <3> TAKE h \in 1 .. Len(conns)
    <3>1. conns[h].since \in Nat /\ conns[h].since <= Len(handled)
      BY <1>0, Zenon DEF Conns
    <3> QED BY <1>0, <2>5, <3>1
  <2> QED BY <1>0, <2>1, <2>4, <2>6, Zenon DEF RoutesTyped, tableVars
<1>10. CASE RouteOther
  <2> DEFINE key == <<current.result.connection_id, current.from>>
             h0 == routing_table[key]
             p == current.result
  <2>1. /\ current \in Handled /\ handled' = Append(handled, current)
        /\ UNCHANGED <<conns, live, syn_queue, dropped>>
    BY <1>10, Zenon DEF RouteOther, ReceiverTyped
  <2>2. \/ mailbox' = mailbox
        \/ key \in DOMAIN routing_table /\ mailbox' = [mailbox EXCEPT ![h0] = Append(@, p)]
    BY <1>10, Zenon DEF RouteOther
  <2>3. p \in Results
    BY <2>1, Zenon DEF Handled, Results
  <2>4. key \in DOMAIN routing_table => h0 \in 1 .. Len(conns)
    BY Zenon DEF TableRight
  <2> HIDE DEF key, h0, p
  <2>5. Len(handled') = Len(handled) + 1
    BY <2>1, AppendProperties, Zenon DEF ReceiverTyped
  <2>6. \A h \in 1 .. Len(conns) : conns[h].since <= Len(handled')
    <3> TAKE h \in 1 .. Len(conns)
    <3>1. conns[h].since \in Nat /\ conns[h].since <= Len(handled)
      BY <1>0, Zenon DEF Conns
    <3> QED BY <1>0, <2>5, <3>1
  <2>7. CASE mailbox' = mailbox
    BY <1>0, <2>1, <2>6, <2>7, Zenon DEF RoutesTyped
  <2>8. CASE h0 \in 1 .. Len(conns) /\ mailbox' = [mailbox EXCEPT ![h0] = Append(@, p)]
    <3>1. h0 \in 1 .. MaxHandles
      BY <1>0, <2>8
    <3>2. Append(mailbox[h0], p) \in Seq(Results)
      BY <1>0, <2>3, <3>1, AppendProperties, Zenon
    <3>3. mailbox' \in [1 .. MaxHandles -> Seq(Results)]
      BY <1>0, <2>8, <3>1, <3>2, Zenon
    <3>4. \A h \in 1 .. MaxHandles : h > Len(conns) => mailbox'[h] = << >>
      BY <1>0, <2>8
    <3> QED BY <1>0, <2>1, <2>6, <3>3, <3>4, Zenon DEF RoutesTyped
  <2> QED BY <2>2, <2>4, <2>7, <2>8, Zenon
<1> QED BY <1>2, <1>3, <1>4, <1>5, <1>6, <1>7, <1>8, <1>9, <1>10, Zenon DEF Next, Poll

\* The two parts of RoutedInOrder.
MailboxRight(h) ==
  \E f \in [1 .. Len(mailbox[h]) -> Addressed(h)] :
    /\ Enumerates(f, Len(mailbox[h]), Addressed(h))
    /\ \A i \in 1 .. Len(mailbox[h]) : mailbox[h][i] = handled[f[i]].result
SynsRight ==
  \E f \in [1 .. Len(syn_queue) -> Syns] :
    /\ Enumerates(f, Len(syn_queue), Syns)
    /\ \A i \in 1 .. Len(syn_queue) : syn_queue[i] = SynEntry(handled[f[i]])

\* What is being routed is a packet.
CurrentDecoded == pc = "routing" => ~ IsError(current.result)

RoutedInv == ReceiverTyped /\ TableRight /\ RoutesTyped /\ CurrentDecoded /\ RoutedInOrder

\* One more datagram is handled: what there was stays at its place.
LEMMA HandledGrows ==
  ASSUME ReceiverTyped, NEW d \in Handled, handled' = Append(handled, d)
  PROVE  /\ Len(handled) \in Nat /\ DOMAIN handled = 1 .. Len(handled)
         /\ DOMAIN handled' = 1 .. Len(handled) + 1
         /\ \A i \in 1 .. Len(handled) : handled'[i] = handled[i]
         /\ handled'[Len(handled) + 1] = d
<1>1. handled \in Seq(Handled)
  BY Zenon DEF ReceiverTyped
<1> QED BY <1>1, AppendProperties, LenProperties

\* A live connection: its datagrams are the same as before, and one more if that is for it.
LEMMA AddressedGrows ==
  ASSUME ReceiverTyped, RoutesTyped, NEW d \in Handled, handled' = Append(handled, d),
         conns' = conns,
         NEW h \in 1 .. Len(conns)
  PROVE  /\ Addressed(h) \in SUBSET (1 .. Len(handled))
         /\ Addressed(h)' = Addressed(h) \cup {i \in {Len(handled) + 1} : IsFor(d, conns[h].key)}
<1> DEFINE m == Len(handled)
<1>1. /\ m \in Nat /\ DOMAIN handled = 1 .. m /\ DOMAIN handled' = 1 .. m + 1
      /\ \A i \in 1 .. m : handled'[i] = handled[i]
      /\ handled'[m + 1] = d
  BY HandledGrows, Zenon
<1>2. conns[h].since \in Nat /\ conns[h].since <= m
  <2>1. conns[h] \in Conns
    BY ElementOfSeq, Zenon DEF ReceiverTyped
  <2> QED BY <2>1, Zenon DEF Conns, RoutesTyped
<1> HIDE DEF m
<1>3. m + 1 > conns[h].since
  BY <1>1, <1>2
<1>4. Addressed(h) \in SUBSET (1 .. m)
  BY <1>1, Zenon DEF Addressed
<1>5. ASSUME NEW i \in 1 .. m PROVE i \in Addressed(h)' <=> i \in Addressed(h)
  <2>1. i \in 1 .. m + 1 /\ handled'[i] = handled[i]
    BY <1>1
  <2> QED BY <1>1, <2>1, Zenon DEF Addressed
<1>6. m + 1 \in Addressed(h)' <=> IsFor(d, conns[h].key)
  <2>1. m + 1 \in 1 .. m + 1
    BY <1>1
  <2> QED BY <1>1, <1>3, <2>1, Zenon DEF Addressed
<1>7. Addressed(h)' \subseteq 1 .. m + 1
  BY <1>1, Zenon DEF Addressed
<1>8. \A i \in 1 .. m + 1 : i \in 1 .. m \/ i = m + 1
  BY <1>1
<1>9. Addressed(h)' = Addressed(h) \cup {i \in {m + 1} : IsFor(d, conns[h].key)}
  BY <1>4, <1>5, <1>6, <1>7, <1>8, Zenon
<1> QED BY <1>4, <1>9, Zenon DEF m

\* The SYNs likewise.
LEMMA SynsGrow ==
  ASSUME ReceiverTyped, NEW d \in Handled, handled' = Append(handled, d)
  PROVE  /\ Syns \in SUBSET (1 .. Len(handled))
         /\ Syns' = Syns \cup {i \in {Len(handled) + 1} : IsSyn(d)}
<1> DEFINE m == Len(handled)
<1>1. /\ m \in Nat /\ DOMAIN handled = 1 .. m /\ DOMAIN handled' = 1 .. m + 1
      /\ \A i \in 1 .. m : handled'[i] = handled[i]
      /\ handled'[m + 1] = d
  BY HandledGrows, Zenon
<1> HIDE DEF m
<1>4. Syns \in SUBSET (1 .. m)
  BY <1>1, Zenon DEF Syns
<1>5. ASSUME NEW i \in 1 .. m PROVE i \in Syns' <=> i \in Syns
  <2>1. i \in 1 .. m + 1 /\ handled'[i] = handled[i]
    BY <1>1
  <2> QED BY <1>1, <2>1, Zenon DEF Syns
<1>6. m + 1 \in Syns' <=> IsSyn(d)
  <2>1. m + 1 \in 1 .. m + 1
    BY <1>1
  <2> QED BY <1>1, <2>1, Zenon DEF Syns
<1>7. Syns' \subseteq 1 .. m + 1
  BY <1>1, Zenon DEF Syns
<1>8. \A i \in 1 .. m + 1 : i \in 1 .. m \/ i = m + 1
  BY <1>1
<1>9. Syns' = Syns \cup {i \in {m + 1} : IsSyn(d)}
  BY <1>4, <1>5, <1>6, <1>7, <1>8, Zenon
<1> QED BY <1>4, <1>9, Zenon DEF m

\* A mailbox that gets nothing when nothing for it is handled.
LEMMA MailboxSame ==
  ASSUME ReceiverTyped, RoutesTyped, NEW d \in Handled, handled' = Append(handled, d),
         conns' = conns,
         NEW h \in 1 .. Len(conns), MailboxRight(h), mailbox'[h] = mailbox[h],
         ~ IsFor(d, conns[h].key)
  PROVE  MailboxRight(h)'
<1> DEFINE n == Len(mailbox[h])
           S == Addressed(h)
<1>1. S \in SUBSET (1 .. Len(handled)) /\ Addressed(h)' = S
  BY AddressedGrows, Zenon
<1>2. \A i \in 1 .. Len(handled) : handled'[i] = handled[i]
  BY HandledGrows, Zenon
<1>3. PICK f \in [1 .. n -> S] : /\ Enumerates(f, n, S)
                                 /\ \A i \in 1 .. n : mailbox[h][i] = handled[f[i]].result
  BY Zenon DEF MailboxRight
<1>4. \A i \in 1 .. n : handled'[f[i]] = handled[f[i]]
  BY <1>1, <1>2, <1>3, Zenon
<1>5. Len(mailbox'[h]) = n /\ \A i \in 1 .. n : mailbox'[h][i] = handled'[f[i]].result
  BY <1>3, <1>4, Zenon
<1> HIDE DEF n, S
<1> QED BY <1>1, <1>3, <1>5, Zenon DEF MailboxRight

\* A mailbox that gets what is for it.
LEMMA MailboxGrows ==
  ASSUME ReceiverTyped, RoutesTyped, NEW d \in Handled, handled' = Append(handled, d),
         conns' = conns,
         NEW h \in 1 .. Len(conns), MailboxRight(h), mailbox'[h] = Append(mailbox[h], d.result),
         IsFor(d, conns[h].key)
  PROVE  MailboxRight(h)'
<1> DEFINE n == Len(mailbox[h])
           S == Addressed(h)
           m == Len(handled)
           T == S \cup {m + 1}
<1>1. S \in SUBSET (1 .. m) /\ Addressed(h)' = T
  BY AddressedGrows, Zenon
<1>2. m \in Nat /\ (\A i \in 1 .. m : handled'[i] = handled[i]) /\ handled'[m + 1] = d
  BY HandledGrows, Zenon
<1>3. PICK f \in [1 .. n -> S] : /\ Enumerates(f, n, S)
                                 /\ \A i \in 1 .. n : mailbox[h][i] = handled[f[i]].result
  BY Zenon DEF MailboxRight
<1>4. /\ n \in Nat /\ Len(mailbox'[h]) = n + 1 /\ mailbox'[h][n + 1] = d.result
      /\ \A i \in 1 .. n : mailbox'[h][i] = mailbox[h][i]
  <2>1. h \in 1 .. MaxHandles
    BY ReceiverAssumption, LenProperties DEF RoutesTyped, ReceiverTyped
  <2>2. mailbox[h] \in Seq(Results) /\ d.result \in Results
    BY <2>1, Zenon DEF RoutesTyped, Handled, Results
  <2> QED BY <2>2, AppendProperties, LenProperties
<1> HIDE DEF n, S, m, T
<1>5. PICK g \in [1 .. n + 1 -> T] : /\ Enumerates(g, n + 1, T)
                                     /\ \A i \in 1 .. n : g[i] = f[i]
                                     /\ g[n + 1] = m + 1
  BY <1>1, <1>2, <1>3, <1>4, EnumerationGrows, Zenon DEF T
<1>6. \A i \in 1 .. n : f[i] \in 1 .. m
  BY <1>1, <1>3, Zenon
<1>7. \A i \in 1 .. n : mailbox'[h][i] = handled'[g[i]].result
  <2> TAKE i \in 1 .. n
  <2>1. f[i] \in 1 .. m /\ g[i] = f[i]
    BY <1>5, <1>6, Zenon
  <2>2. handled'[g[i]] = handled[f[i]]
    BY <1>2, <2>1, Zenon
  <2>3. mailbox'[h][i] = handled[f[i]].result
    BY <1>3, <1>4, Zenon
  <2> QED BY <2>2, <2>3, Zenon
<1>8. mailbox'[h][n + 1] = handled'[g[n + 1]].result
  BY <1>2, <1>4, <1>5, Zenon
<1>9. \A i \in 1 .. n + 1 : i \in 1 .. n \/ i = n + 1
  BY <1>4
<1>10. \A i \in 1 .. n + 1 : mailbox'[h][i] = handled'[g[i]].result
  BY <1>7, <1>8, <1>9, Zenon
<1> QED BY <1>1, <1>4, <1>5, <1>10, Zenon DEF MailboxRight

\* The SYN queue, when what is handled is no SYN.
LEMMA SynsSame ==
  ASSUME ReceiverTyped, NEW d \in Handled, handled' = Append(handled, d), SynsRight,
         syn_queue' = syn_queue, ~ IsSyn(d)
  PROVE  SynsRight'
<1> DEFINE n == Len(syn_queue)
           S == Syns
<1>1. S \in SUBSET (1 .. Len(handled)) /\ Syns' = S
  BY SynsGrow, Zenon
<1>2. \A i \in 1 .. Len(handled) : handled'[i] = handled[i]
  BY HandledGrows, Zenon
<1>3. PICK f \in [1 .. n -> S] :
        /\ Enumerates(f, n, S)
        /\ \A i \in 1 .. n : syn_queue[i] = SynEntry(handled[f[i]])
  BY Zenon DEF SynsRight
<1>4. \A i \in 1 .. n : handled'[f[i]] = handled[f[i]]
  BY <1>1, <1>2, <1>3, Zenon
<1>5. /\ Len(syn_queue') = n
      /\ \A i \in 1 .. n : syn_queue'[i] = SynEntry(handled'[f[i]])
  BY <1>3, <1>4, Zenon
<1> HIDE DEF n, S
<1> QED BY <1>1, <1>3, <1>5, Zenon DEF SynsRight

\* And when it is one.
LEMMA SynsMore ==
  ASSUME ReceiverTyped, RoutesTyped, NEW d \in Handled, handled' = Append(handled, d), SynsRight,
         NEW e, e = SynEntry(d), syn_queue' = Append(syn_queue, e), IsSyn(d)
  PROVE  SynsRight'
<1> DEFINE n == Len(syn_queue)
           S == Syns
           m == Len(handled)
           T == S \cup {m + 1}
<1>1. S \in SUBSET (1 .. m) /\ Syns' = T
  BY SynsGrow, Zenon
<1>2. m \in Nat /\ (\A i \in 1 .. m : handled'[i] = handled[i]) /\ handled'[m + 1] = d
  BY HandledGrows, Zenon
<1>3. PICK f \in [1 .. n -> S] :
        /\ Enumerates(f, n, S)
        /\ \A i \in 1 .. n : syn_queue[i] = SynEntry(handled[f[i]])
  BY Zenon DEF SynsRight
<1>4. /\ n \in Nat /\ Len(syn_queue') = n + 1 /\ syn_queue'[n + 1] = e
      /\ \A i \in 1 .. n : syn_queue'[i] = syn_queue[i]
  <2>1. syn_queue \in Seq(SynEntries) /\ e \in SynEntries
    BY Zenon DEF RoutesTyped, Handled, Results, SynEntries, SynEntry
  <2> QED BY <2>1, AppendProperties, LenProperties
<1>5. e = SynEntry(handled'[m + 1])
  BY <1>2, Zenon
<1> HIDE DEF n, S, m, T
<1>6. PICK g \in [1 .. n + 1 -> T] : /\ Enumerates(g, n + 1, T)
                                     /\ \A i \in 1 .. n : g[i] = f[i]
                                     /\ g[n + 1] = m + 1
  BY <1>1, <1>2, <1>3, <1>4, EnumerationGrows, Zenon DEF T
<1>7. \A i \in 1 .. n : f[i] \in 1 .. m
  BY <1>1, <1>3, Zenon
<1>8. \A i \in 1 .. n : syn_queue'[i] = SynEntry(handled'[g[i]])
  <2> TAKE i \in 1 .. n
  <2>1. f[i] \in 1 .. m /\ g[i] = f[i]
    BY <1>6, <1>7, Zenon
  <2>2. handled'[g[i]] = handled[f[i]]
    BY <1>2, <2>1, Zenon
  <2>3. syn_queue'[i] = SynEntry(handled[f[i]])
    BY <1>3, <1>4, Zenon
  <2> QED BY <2>2, <2>3, Zenon
<1>9. syn_queue'[n + 1] = SynEntry(handled'[g[n + 1]])
  BY <1>4, <1>5, <1>6, Zenon
<1>10. \A i \in 1 .. n + 1 : i \in 1 .. n \/ i = n + 1
  BY <1>4
<1>11. \A i \in 1 .. n + 1 : syn_queue'[i] = SynEntry(handled'[g[i]])
  BY <1>8, <1>9, <1>10, Zenon
<1>12. /\ g \in [1 .. Len(syn_queue') -> Syns'] /\ Enumerates(g, Len(syn_queue'), Syns')
       /\ \A i \in 1 .. Len(syn_queue') : syn_queue'[i] = SynEntry(handled'[g[i]])
  BY <1>1, <1>4, <1>6, <1>11, Zenon
<1>13. \E h \in [1 .. Len(syn_queue') -> Syns'] :
         /\ Enumerates(h, Len(syn_queue'), Syns')
         /\ \A i \in 1 .. Len(syn_queue') : syn_queue'[i] = SynEntry(handled'[h[i]])
  BY <1>12, Zenon
<1> QED BY <1>13, Zenon DEF SynsRight, SynEntry

\* A connection to which nothing happens.
LEMMA MailboxKept ==
  ASSUME NEW h, MailboxRight(h), mailbox'[h] = mailbox[h], conns'[h] = conns[h], handled' = handled
  PROVE  MailboxRight(h)'
<1>1. Addressed(h)' = Addressed(h)
  BY Zenon DEF Addressed
<1> QED BY <1>1, Zenon DEF MailboxRight

\* Only a datagram that decodes is routed.
LEMMA CurrentNext == CurrentDecoded /\ [Next]_vars => CurrentDecoded'
<1> SUFFICES ASSUME CurrentDecoded, [Next]_vars PROVE CurrentDecoded'
  BY Zenon
<1>1. ASSUME (pc' = pc /\ current' = current) \/ pc' # "routing" PROVE CurrentDecoded'
  BY <1>1, Zenon DEF CurrentDecoded
<1>2. CASE \/ \E from \in Addrs, packet \in Packets : ArrivePacket(from, packet)
           \/ \E from \in Addrs, bytes \in Probes : ArriveProbe(from, bytes)
           \/ \E id \in Ids, addr \in Addrs : Register(id, addr)
           \/ \E h \in live : DropStream(h)
           \/ DriverEnds \/ DropField \/ UNCHANGED vars
  BY <1>1, <1>2, Zenon DEF ArrivePacket, ArriveProbe, Arrive, Register, DropStream, DriverEnds,
                    DropField, vars
<1>3. CASE BeginPoll \/ PollWithoutSocket \/ RecvReady \/ RecvReadyFails \/ RecvNotReady
           \/ RecvNothing \/ RecvYields \/ RecvFails \/ RouteSyn \/ RouteOther
  BY <1>1, <1>3, Zenon DEF BeginPoll, PollWithoutSocket, RecvReady, RecvReadyFails, RecvNotReady,
                    RecvNothing, RecvYields, RecvFails, RouteSyn, RouteOther, Sleep
<1>4. CASE RecvFrom
  BY <1>4 DEF RecvFrom, AfterInvalid, CurrentDecoded
<1> QED BY <1>2, <1>3, <1>4, Zenon DEF Next, Poll

\* Every step keeps the mailboxes and the SYN queue right.
LEMMA RoutedNext == RoutedInv /\ [Next]_vars => RoutedInv'
<1> SUFFICES ASSUME RoutedInv, [Next]_vars PROVE RoutedInv'
  BY Zenon
<1>1. ReceiverTyped /\ TableRight /\ RoutesTyped /\ CurrentDecoded
  BY Zenon DEF RoutedInv
<1>2. ReceiverTyped' /\ TableRight' /\ RoutesTyped' /\ CurrentDecoded'
  BY <1>1, ReceiverTypedNext, TableRightNext, RoutesTypedNext, CurrentNext, Zenon
<1>3. (\A h \in live : MailboxRight(h)) /\ (pc # "stopped" => SynsRight)
  BY Zenon DEF RoutedInv, RoutedInOrder, MailboxRight, SynsRight
<1>4. \A h \in live : h \in 1 .. Len(conns) /\ dropped = 0
  BY <1>1 DEF TableRight, RoutesTyped
<1> SUFFICES (\A h \in live' : MailboxRight(h)') /\ (pc' # "stopped" => SynsRight')
  BY <1>2, Zenon DEF RoutedInv, RoutedInOrder, MailboxRight, SynsRight
<1>5. ASSUME UNCHANGED <<mailbox, conns, handled, syn_queue>>, live' \subseteq live,
             pc' # "stopped" => pc # "stopped"
      PROVE  (\A h \in live' : MailboxRight(h)') /\ (pc' # "stopped" => SynsRight')
  <2>1. \A h \in live' : MailboxRight(h)'
    BY <1>3, <1>5, MailboxKept, Zenon
  <2>2. SynsRight => SynsRight'
    BY <1>5, Zenon DEF SynsRight, Syns
  <2> QED BY <1>3, <1>5, <2>1, <2>2, Zenon
<1>6. CASE \/ \E from \in Addrs, packet \in Packets : ArrivePacket(from, packet)
           \/ \E from \in Addrs, bytes \in Probes : ArriveProbe(from, bytes)
           \/ DriverEnds \/ DropField \/ \E h \in live : DropStream(h)
  BY <1>5, <1>6, Zenon DEF ArrivePacket, ArriveProbe, Arrive, DriverEnds, DropField, DropStream, tableVars
<1>7. CASE BeginPoll \/ PollWithoutSocket \/ RecvReady \/ RecvReadyFails \/ RecvNotReady
           \/ RecvNothing \/ RecvYields \/ RecvFails
  BY <1>5, <1>7, Zenon DEF BeginPoll, PollWithoutSocket, RecvReady, RecvReadyFails, RecvNotReady,
                    RecvNothing, RecvYields, RecvFails, Sleep, tableVars
<1>8. CASE UNCHANGED vars
  BY <1>5, <1>8, Zenon DEF vars, tableVars
<1>9. CASE \E id \in Ids, addr \in Addrs : Register(id, addr)
  <2>1. PICK id \in Ids, addr \in Addrs : Register(id, addr)
    BY <1>9, Zenon
  <2> DEFINE c == [key |-> <<id, addr>>, since |-> Len(handled)]
             n == Len(conns)
  <2>2. /\ conns' = Append(conns, c) /\ live' = live \cup {n + 1} /\ n + 1 <= MaxHandles
        /\ UNCHANGED <<mailbox, handled, syn_queue, pc>>
    BY <2>1, Zenon DEF Register
  <2>3. c \in Conns /\ c.since = Len(handled)
    BY <1>1 DEF Conns, ReceiverTyped
  <2> HIDE DEF c
  <2>4. /\ n \in Nat /\ conns'[n + 1] = c
        /\ \A h \in 1 .. n : conns'[h] = conns[h]
    BY <1>1, <2>2, <2>3, AppendProperties, LenProperties DEF ReceiverTyped
  <2>5. SynsRight => SynsRight'
    BY <2>2, Zenon DEF SynsRight, Syns
  <2>6. ASSUME NEW h \in live PROVE MailboxRight(h)'
    <3>1. conns'[h] = conns[h]
      BY <1>4, <2>4, Zenon
    <3> QED BY <1>3, <2>2, <3>1, MailboxKept, Zenon
  <2>7. ASSUME NEW h, h = n + 1 PROVE MailboxRight(h)'
    <3>1. h \in 1 .. MaxHandles /\ h > n
      BY <2>2, <2>4, <2>7, ReceiverAssumption
    <3>2. mailbox'[h] = << >> /\ Len(<< >>) = 0
      BY <1>1, <2>2, <3>1, Zenon DEF RoutesTyped
    <3>3. DOMAIN handled = 1 .. Len(handled) /\ Len(handled) \in Nat
      BY <1>1, LenProperties, Zenon DEF ReceiverTyped
    <3>4. Addressed(h)' = {}
      BY <2>2, <2>3, <2>4, <2>7, <3>3 DEF Addressed
    <3>5. 1 .. 0 = {}
      OBVIOUS
    <3> DEFINE f == [i \in {} |-> 0]
    <3>6. f \in [1 .. Len(mailbox'[h]) -> Addressed(h)']
      BY <3>2, <3>4, <3>5, Zenon
    <3>7. Enumerates(f, Len(mailbox'[h]), Addressed(h)')
      BY <3>2, <3>4, <3>5, Zenon DEF Enumerates
    <3>8. \A i \in 1 .. Len(mailbox'[h]) : mailbox'[h][i] = handled'[f[i]].result
      BY <3>2, <3>5, Zenon
    <3> HIDE DEF f
    <3> QED BY <3>6, <3>7, <3>8, Zenon DEF MailboxRight
  <2> QED BY <1>3, <2>2, <2>5, <2>6, <2>7, Zenon
<1>10. CASE RecvFrom
  <2> DEFINE d == Head(arrived)
             done == [from |-> d.from, bytes |-> d.bytes, result |-> Decode(d.bytes)]
  <2>1. d \in [from : Addrs, bytes : Datagrams]
    BY <1>1, <1>10, HeadTailProperties, Zenon DEF RecvFrom, ReceiverTyped
  <2>2. done \in Handled /\ done.result = Decode(d.bytes)
    BY <2>1, Zenon DEF Handled, Results
  <2>3. /\ \/ IsError(done.result) /\ handled' = Append(handled, done)
           \/ handled' = handled
        /\ UNCHANGED <<conns, live, mailbox, syn_queue>> /\ pc # "stopped"
    BY <1>10, Zenon DEF RecvFrom, tableVars
  <2> HIDE DEF d, done
  <2>4. CASE handled' = handled
    BY <1>5, <2>3, <2>4, Zenon
  <2>5. CASE IsError(done.result) /\ handled' = Append(handled, done)
    <3>1. ~ IsSyn(done) /\ \A h \in live : ~ IsFor(done, conns[h].key)
      BY <2>5, Zenon DEF IsSyn, IsFor
    <3>2. \A h \in live : MailboxRight(h)'
      BY <1>1, <1>3, <1>4, <2>2, <2>3, <2>5, <3>1, MailboxSame, Zenon
    <3>3. SynsRight'
      BY <1>1, <1>3, <2>2, <2>3, <2>5, <3>1, SynsSame, Zenon
    <3> QED BY <2>3, <3>2, <3>3, Zenon
  <2> QED BY <2>3, <2>4, <2>5, Zenon
<1>11. CASE RouteSyn
  <2>1. /\ current \in Handled /\ handled' = Append(handled, current) /\ pc # "stopped"
        /\ UNCHANGED <<conns, live, mailbox>>
        /\ current.result.packet_type = "Syn"
        /\ pc' # "stopped" => syn_queue' = Append(syn_queue, SynEntry(current))
    BY <1>1, <1>11, Zenon DEF RouteSyn, ReceiverTyped, tableVars
  <2>2. \A h \in live : ~ IsFor(current, conns[h].key)
    BY <2>1, Zenon DEF IsFor
  <2>3. \A h \in live : MailboxRight(h)'
    BY <1>1, <1>3, <1>4, <2>1, <2>2, MailboxSame, Zenon
  <2>4. IsSyn(current)
    BY <1>1, <1>11, <2>1, Zenon DEF IsSyn, CurrentDecoded, RouteSyn
  <2>5. ASSUME pc' # "stopped" PROVE SynsRight'
    BY <1>1, <1>3, <2>1, <2>4, <2>5, SynsMore, Zenon
  <2> QED BY <2>1, <2>3, <2>5, Zenon
<1>12. CASE RouteOther
  <2> DEFINE key == <<current.result.connection_id, current.from>>
             g == routing_table[key]
  <2>1. /\ current \in Handled /\ handled' = Append(handled, current) /\ pc # "stopped"
        /\ UNCHANGED <<conns, live, syn_queue>>
        /\ current.result.packet_type # "Syn"
    BY <1>1, <1>12, Zenon DEF RouteOther, ReceiverTyped
  <2>2. mailbox' = IF dropped < 2 /\ key \in DOMAIN routing_table /\ g \in live
                   THEN [mailbox EXCEPT ![g] = Append(@, current.result)]
                   ELSE mailbox
    BY <1>12, Zenon DEF RouteOther
  <2>3. ~ IsSyn(current) /\ \A k : IsFor(current, k) => k = key
    BY <2>1, Zenon DEF IsSyn, IsFor
  <2>4. SynsRight'
    BY <1>1, <1>3, <2>1, <2>3, SynsSame, Zenon
  <2>6. ~ IsError(current.result)
    BY <1>1, <1>12, Zenon DEF CurrentDecoded, RouteOther
  <2>7. IsFor(current, key)
    BY <2>1, <2>6, Zenon DEF IsFor
  <2> HIDE DEF key, g
  <2>8. ASSUME NEW h \in live PROVE MailboxRight(h)'
    <3>1. h \in 1 .. Len(conns) /\ dropped = 0 /\ MailboxRight(h) /\ h \in 1 .. MaxHandles
      <4>1. /\ Len(conns) \in Nat /\ Len(conns) <= MaxHandles /\ MaxHandles \in Nat
            /\ dropped \in Nat /\ (dropped > 0 => live = {})
        BY <1>1, ReceiverAssumption, LenProperties, Zenon DEF RoutesTyped, ReceiverTyped
      <4>2. h \in 1 .. Len(conns) /\ MailboxRight(h)
        BY <1>1, <1>3, <1>4, Zenon
      <4>3. h \in 1 .. MaxHandles
        BY <4>1, <4>2
      <4> QED BY <4>1, <4>2, <4>3
    <3>2. conns[h].key \in DOMAIN routing_table /\ routing_table[conns[h].key] = h
      BY <1>1, Zenon DEF TableRight
    <3>3. DOMAIN mailbox = 1 .. MaxHandles
      BY <1>1, Zenon DEF RoutesTyped
    <3>4. CASE conns[h].key = key
      <4>1. g = h /\ mailbox'[h] = Append(mailbox[h], current.result)
        BY <2>2, <3>1, <3>2, <3>3, <3>4 DEF g
      <4> QED BY <1>1, <2>1, <2>7, <3>1, <3>4, <4>1, MailboxGrows, Zenon
    <3>5. CASE conns[h].key # key
      <4>1. key \in DOMAIN routing_table => g # h
        BY <1>1, <3>5, Zenon DEF TableRight, g
      <4>2. mailbox'[h] = mailbox[h]
        BY <2>2, <3>1, <3>3, <4>1, Zenon
      <4>3. ~ IsFor(current, conns[h].key)
        BY <2>3, <3>5, Zenon
      <4> QED BY <1>1, <2>1, <3>1, <4>2, <4>3, MailboxSame, Zenon
    <3> QED BY <3>4, <3>5, Zenon
  <2> QED BY <2>1, <2>4, <2>8, Zenon
<1> QED BY <1>6, <1>7, <1>8, <1>9, <1>10, <1>11, <1>12, Zenon DEF Next, Poll

\* Nothing has been handled at the start.
LEMMA RoutedInit == Init => RoutedInv
<1> SUFFICES ASSUME Init PROVE RoutedInv
  BY Zenon
<1>1. ReceiverTyped /\ TableRight
  BY ReceiverInit, Zenon
<1>2. RoutesTyped
  <2>1. << >> \in Seq(Results) /\ << >> \in Seq(SynEntries) /\ Len(<< >>) = 0
    OBVIOUS
  <2> QED BY <2>1, ReceiverAssumption DEF Init, RoutesTyped
<1>3. RoutedInOrder
  <2>1. Len(syn_queue) = 0 /\ 1 .. 0 = {} /\ Syns = {} /\ live = {}
    BY DEF Init, Syns
  <2> DEFINE f == [i \in {} |-> 0]
  <2>2. f \in [1 .. Len(syn_queue) -> Syns] /\ Enumerates(f, Len(syn_queue), Syns)
    BY <2>1, Zenon DEF Enumerates
  <2>3. \A i \in 1 .. Len(syn_queue) : syn_queue[i] = SynEntry(handled[f[i]])
    BY <2>1, Zenon
  <2> HIDE DEF f
  <2> QED BY <2>1, <2>2, <2>3, Zenon DEF RoutedInOrder
<1>4. CurrentDecoded
  BY Zenon DEF Init, CurrentDecoded
<1> QED BY <1>1, <1>2, <1>3, <1>4, Zenon DEF RoutedInv

\* Whatever arrives, and whoever registers, goes and fails around it: a live stream's
\* mailbox has been given the packets for it, all of them, once and in the order they were
\* read in, and so has the SYN queue.
THEOREM PacketsRoutedInOrder == Spec => []RoutedInOrder
<1>1. RoutedInv => RoutedInOrder
  BY Zenon DEF RoutedInv
<1> QED BY <1>1, RoutedInit, RoutedNext, PTL DEF Spec

-----------------------------------------------------------------------------
(***************************************************************************)
(* The task implements PacketRouting.                                      *)
(***************************************************************************)

\* The routing table is a function.
TableMade == routing_table = [key \in DOMAIN routing_table |-> routing_table[key]]

\* Taking entries out of it and adding one leaves it one.
LEMMA TableMadeNext == TableMade /\ [Next]_vars => TableMade'
<1> SUFFICES ASSUME TableMade, [Next]_vars PROVE TableMade'
  BY Zenon
<1>1. CASE routing_table' = routing_table
  BY <1>1, Zenon DEF TableMade
<1>2. ASSUME NEW id \in Ids, NEW addr \in Addrs, Register(id, addr) PROVE TableMade'
  BY <1>2, Zenon DEF Register, TableMade
<1>3. CASE RouteOther
  BY <1>1, <1>3, Zenon DEF RouteOther, TableMade
<1>4. CASE \/ \E from \in Addrs, packet \in Packets : ArrivePacket(from, packet)
           \/ \E from \in Addrs, bytes \in Probes : ArriveProbe(from, bytes)
           \/ \E h \in live : DropStream(h)
           \/ DriverEnds \/ DropField \/ UNCHANGED vars
  BY <1>1, <1>4, Zenon DEF ArrivePacket, ArriveProbe, Arrive, DropStream, DriverEnds,
                    DropField, vars, tableVars
<1>5. CASE BeginPoll \/ PollWithoutSocket \/ RecvReady \/ RecvReadyFails \/ RecvNotReady
           \/ RecvNothing \/ RecvYields \/ RecvFails \/ RecvFrom \/ RouteSyn
  BY <1>1, <1>5, Zenon DEF BeginPoll, PollWithoutSocket, RecvReady, RecvReadyFails, RecvNotReady,
                    RecvNothing, RecvYields, RecvFails, RecvFrom, RouteSyn, tableVars
<1> QED BY <1>2, <1>3, <1>4, <1>5, Zenon DEF Next, Poll

\* A sequence with one element put before it.
LEMMA PutBefore ==
  ASSUME NEW S, NEW e \in S, NEW s \in Seq(S)
  PROVE  /\ <<e>> \o s # << >> /\ Head(<<e>> \o s) = e /\ Tail(<<e>> \o s) = s
         /\ \A x \in S : <<e>> \o Append(s, x) = Append(<<e>> \o s, x)
         /\ s # << >> /\ Head(s) = e => <<e>> \o Tail(s) = s
<1> DEFINE t == <<e>> \o s
<1>1. /\ <<e>> \in Seq(S) /\ Len(<<e>>) = 1 /\ <<e>>[1] = e
      /\ Len(s) \in Nat /\ DOMAIN s = 1 .. Len(s)
  BY LenProperties
<1>2. /\ t \in Seq(S) /\ Len(t) = 1 + Len(s) /\ t[1] = e
      /\ \A i \in 1 .. Len(s) : t[1 + i] = s[i]
  BY <1>1, ConcatProperties
<1> HIDE DEF t
<1>3. t # << >> /\ Head(t) = e
  BY <1>1, <1>2, EmptySeq, HeadTailProperties
<1>4. Tail(t) = s
  BY <1>1, <1>2, <1>3, HeadTailProperties, SeqEqual
<1>5. ASSUME NEW x \in S PROVE <<e>> \o Append(s, x) = Append(t, x)
  <2>1. Append(s, x) = s \o <<x>> /\ Append(t, x) = t \o <<x>>
    BY <1>2, AppendIsConcat, Zenon
  <2>2. <<x>> \in Seq(S)
    OBVIOUS
  <2> QED BY <1>1, <2>1, <2>2, ConcatAssociative DEF t
<1>6. ASSUME s # << >>, Head(s) = e PROVE <<e>> \o Tail(s) = s
  <2>1. Tail(s) \in Seq(S) /\ Len(Tail(s)) = Len(s) - 1 /\ s[1] = e
        /\ \A i \in 1 .. Len(Tail(s)) : Tail(s)[i] = s[i + 1]
    BY <1>6, HeadTailProperties
  <2> DEFINE r == Tail(s)
             u == <<e>> \o r
  <2> HIDE DEF r
  <2>2. u \in Seq(S) /\ Len(u) = 1 + Len(r) /\ u[1] = e /\ \A i \in 1 .. Len(r) : u[1 + i] = r[i]
    BY <1>1, <2>1, ConcatProperties DEF r
  <2> HIDE DEF u
  <2>3. Len(u) = Len(s) /\ Len(s) >= 1
    BY <1>1, <1>6, <2>1, <2>2, EmptySeq DEF r
  <2>4. \A i \in 1 .. Len(s) : u[i] = s[i]
    <3> TAKE i \in 1 .. Len(s)
    <3>1. CASE i = 1
      BY <2>1, <2>2, <3>1, Zenon
    <3>2. CASE i # 1
      <4>1. i - 1 \in 1 .. Len(r) /\ 1 + (i - 1) = i /\ (i - 1) + 1 = i
        BY <1>1, <2>1, <3>2 DEF r
      <4> QED BY <2>1, <2>2, <4>1, Zenon DEF r
    <3> QED BY <3>1, <3>2, Zenon
  <2> QED BY <2>2, <2>3, <2>4, SeqEqual, Zenon DEF u, r
<1> QED BY <1>3, <1>4, <1>5, <1>6, Zenon DEF t

\* Where a datagram is routed, the table leads to connections, and is a function.
RoutingInv == ReceiverTyped /\ TableRight /\ RoutesTyped /\ CurrentDecoded /\ TableMade

\* A step that routes nothing and registers nothing cannot be seen.
LEMMA RoutingHidden ==
  ASSUME UNCHANGED <<tableVars, syn_queue, dropped>>, Pending' = Pending
  PROVE  UNCHANGED Contract!vars
BY Zenon DEF tableVars, Contract!vars, Contract!tableVars

\* A datagram that arrives comes behind the pending ones.
LEMMA RoutingArrive ==
  ASSUME RoutingInv, NEW from \in Addrs, NEW bytes \in Datagrams, Arrive(from, bytes)
  PROVE  Contract!Arrive(from, bytes)
<1> DEFINE d == [from |-> from, bytes |-> bytes]
           S == [from : Addrs, bytes : Datagrams]
<1>1. d \in S /\ arrived \in Seq(S) /\ arrived' = Append(arrived, d)
      /\ UNCHANGED <<pc, current, tableVars, syn_queue, dropped>>
  BY Zenon DEF Arrive, RoutingInv, ReceiverTyped
<1>2. Pending' = Append(Pending, d)
  <2>1. CASE pc = "routing"
    <3> DEFINE e == [from |-> current.from, bytes |-> current.bytes]
    <3>1. e \in S
      BY <2>1, Zenon DEF RoutingInv, ReceiverTyped, Handled
    <3>2. Pending = <<e>> \o arrived /\ Pending' = <<e>> \o arrived'
      BY <1>1, <2>1, Zenon DEF Pending
    <3> HIDE DEF e, d, S
    <3> QED BY <1>1, <3>1, <3>2, PutBefore
  <2>2. CASE pc # "routing"
    BY <1>1, <2>2, Zenon DEF Pending
  <2> QED BY <2>1, <2>2, Zenon
<1> QED BY <1>1, <1>2, Zenon DEF Contract!Arrive, Contract!tableVars, tableVars

\* Registering a connection.
LEMMA RoutingRegister ==
  ASSUME RoutingInv, NEW id \in Ids, NEW addr \in Addrs, Register(id, addr)
  PROVE  Contract!Register(<<id, addr>>)
<1> DEFINE n == Len(conns)
           c == [key |-> <<id, addr>>, since |-> Len(handled)]
<1>1. /\ dropped = 0 /\ n + 1 <= MaxHandles /\ <<id, addr>> \notin DOMAIN routing_table
      /\ conns' = Append(conns, c)
      /\ routing_table' = [k \in DOMAIN routing_table \cup {<<id, addr>>} |->
                             IF k = <<id, addr>> THEN n + 1 ELSE routing_table[k]]
      /\ live' = live \cup {n + 1}
      /\ UNCHANGED <<arrived, pc, current, mailbox, syn_queue, dropped>>
  BY Zenon DEF Register, ioVars
<1>2. n \in Nat /\ Len(conns') = n + 1 /\ MaxHandles \in Nat
  <2>1. conns \in Seq(Conns) /\ c \in Conns
    BY DEF RoutingInv, ReceiverTyped, Conns
  <2> HIDE DEF c
  <2> QED BY <1>1, <2>1, AppendProperties, LenProperties, ReceiverAssumption, Zenon
<1>3. Pending' = Pending
  BY <1>1, Zenon DEF Pending
<1>4. n < MaxHandles
  BY <1>1, <1>2
<1> QED BY <1>1, <1>2, <1>3, <1>4, Zenon DEF Contract!Register

\* The task takes a datagram from the socket: nothing, or one that is no packet is ignored.
LEMMA RoutingRecv ==
  ASSUME RoutingInv, RecvFrom
  PROVE  Contract!Ignore \/ UNCHANGED Contract!vars
<1> DEFINE d == Head(arrived)
           S == [from : Addrs, bytes : Datagrams]
           r == Decode(d.bytes)
<1>1. arrived \in Seq(S) /\ arrived # << >> /\ arrived' = Tail(arrived) /\ Pending = arrived
      /\ UNCHANGED <<tableVars, syn_queue, dropped>>
  BY Zenon DEF RecvFrom, RoutingInv, ReceiverTyped, Pending
<1>2. d \in S
  BY <1>1, HeadTailProperties, Zenon
<1>3. CASE IsError(r)
  <2>1. Pending' = Tail(arrived)
    BY <1>1, <1>3, Zenon DEF RecvFrom, AfterInvalid, Pending
  <2> QED BY <1>1, <1>3, <2>1, Zenon
          DEF Contract!Ignore, Contract!Take, Contract!Packet, Contract!Oldest,
              Contract!tableVars, tableVars
<1>4. CASE ~ IsError(r)
  <2> DEFINE e == [from |-> d.from, bytes |-> d.bytes]
  <2>1. e = d
    BY <1>2, Zenon
  <2>2. Pending' = <<e>> \o Tail(arrived)
    BY <1>1, <1>4 DEF RecvFrom, Pending
  <2>3. <<d>> \o Tail(arrived) = arrived
    <3> HIDE DEF S
    <3> QED BY <1>1, <1>2, PutBefore, Zenon
  <2>4. Pending' = Pending
    BY <1>1, <2>1, <2>2, <2>3, Zenon
  <2> QED BY <1>1, <2>4, RoutingHidden, Zenon
<1> QED BY <1>3, <1>4, Zenon

\* What there is to say of the datagram that is being routed.
LEMMA RoutingCurrent ==
  ASSUME RoutingInv, pc = "routing", pc' # "routing", arrived' = arrived
  PROVE  /\ Contract!Take /\ Contract!Packet = current.result /\ ~ IsError(Contract!Packet)
         /\ Contract!Oldest.from = current.from
<1> DEFINE e == [from |-> current.from, bytes |-> current.bytes]
           S == [from : Addrs, bytes : Datagrams]
<1>1. /\ current \in Handled /\ arrived \in Seq(S) /\ ~ IsError(current.result)
      /\ Pending = <<e>> \o arrived /\ Pending' = arrived
  BY Zenon DEF RoutingInv, ReceiverTyped, CurrentDecoded, Pending
<1>2. e \in S /\ current.result = Decode(e.bytes) /\ e.from = current.from
  BY <1>1, Zenon DEF Handled
<1> HIDE DEF e, S
<1>3. Pending # << >> /\ Head(Pending) = e /\ Tail(Pending) = arrived
  BY <1>1, <1>2, PutBefore, Zenon
<1> QED BY <1>1, <1>2, <1>3, Zenon DEF Contract!Take, Contract!Packet, Contract!Oldest

\* A SYN.
LEMMA RoutingSyn ==
  ASSUME RoutingInv, RouteSyn
  PROVE  Contract!QueueSyn \/ Contract!Ignore
<1>1. /\ pc = "routing" /\ pc' # "routing" /\ UNCHANGED <<arrived, tableVars, dropped>>
      /\ current.result.packet_type = "Syn"
  BY Zenon DEF RouteSyn, ioVars
<1>2. /\ Contract!Take /\ Contract!Packet = current.result /\ ~ IsError(Contract!Packet)
      /\ Contract!Oldest.from = current.from
  BY <1>1, RoutingCurrent, Zenon
<1>3. CASE dropped < 3
  <2>1. syn_queue' = Append(syn_queue, <<current.result, current.from>>)
    BY <1>3, Zenon DEF RouteSyn, SynEntry
  <2> QED BY <1>1, <1>2, <2>1, Zenon DEF Contract!QueueSyn, Contract!tableVars, tableVars
<1>4. CASE ~ (dropped < 3)
  <2>1. syn_queue' = syn_queue /\ dropped # 0
    BY <1>4 DEF RouteSyn
  <2> QED BY <1>1, <1>2, <2>1, Zenon DEF Contract!Ignore, Contract!tableVars, tableVars
<1> QED BY <1>3, <1>4, Zenon

\* Another packet.
LEMMA RoutingOther ==
  ASSUME RoutingInv, RouteOther
  PROVE  Contract!Deliver \/ Contract!Ignore
<1> DEFINE key == <<current.result.connection_id, current.from>>
           h == routing_table[key]
<1>1. /\ pc = "routing" /\ pc' # "routing" /\ UNCHANGED <<arrived, conns, live, syn_queue, dropped>>
      /\ current.result.packet_type # "Syn"
  BY Zenon DEF RouteOther, ioVars
<1>2. /\ Contract!Take /\ Contract!Packet = current.result /\ ~ IsError(Contract!Packet)
      /\ Contract!Oldest.from = current.from
  BY <1>1, RoutingCurrent, Zenon
<1>3. routing_table = [k \in DOMAIN routing_table |-> routing_table[k]]
  BY Zenon DEF RoutingInv, TableMade
<1>4. CASE ~ (dropped < 2)
  <2>1. mailbox' = mailbox /\ routing_table' = routing_table /\ dropped # 0
    BY <1>4 DEF RouteOther
  <2> QED BY <1>1, <1>2, <2>1, Zenon DEF Contract!Ignore, Contract!tableVars
<1>5. CASE dropped < 2 /\ key \in DOMAIN routing_table /\ h \in live
  <2>1. mailbox' = [mailbox EXCEPT ![h] = Append(@, current.result)]
    BY <1>5, Zenon DEF RouteOther
  <2>2. routing_table' = routing_table
    <3>1. routing_table' = [k \in {k \in DOMAIN routing_table : k = key => ~ Stale(h)} |->
                              routing_table[k]]
      BY <1>5, Zenon DEF RouteOther
    <3>2. {k \in DOMAIN routing_table : k = key => ~ Stale(h)} = DOMAIN routing_table
      BY <1>5, Zenon DEF Stale
    <3> QED BY <1>3, <3>1, <3>2, Zenon
  <2> QED BY <1>1, <1>2, <1>5, <2>1, <2>2, Zenon DEF Contract!Deliver
<1>6. CASE dropped < 2 /\ ~ (key \in DOMAIN routing_table /\ h \in live)
  <2>1. mailbox' = mailbox
    BY <1>6, Zenon DEF RouteOther
  <2>2. routing_table' = [k \in DOMAIN routing_table \ {key} |-> routing_table[k]]
    <3>1. CASE key \in DOMAIN routing_table
      <4>1. routing_table' = [k \in {k \in DOMAIN routing_table : k = key => ~ Stale(h)} |->
                                routing_table[k]]
        BY <1>6, <3>1, Zenon DEF RouteOther
      <4>2. {k \in DOMAIN routing_table : k = key => ~ Stale(h)} = DOMAIN routing_table \ {key}
        BY <1>6, <3>1, Zenon DEF Stale
      <4> QED BY <4>1, <4>2, Zenon
    <3>2. CASE key \notin DOMAIN routing_table
      <4>1. routing_table' = routing_table
        BY <3>2, Zenon DEF RouteOther
      <4>2. DOMAIN routing_table \ {key} = DOMAIN routing_table
        BY <3>2, Zenon
      <4> QED BY <1>3, <4>1, <4>2, Zenon
    <3> QED BY <3>1, <3>2, Zenon
  <2> QED BY <1>1, <1>2, <1>6, <2>1, <2>2, Zenon DEF Contract!Deliver
<1> QED BY <1>4, <1>5, <1>6, Zenon

\* Every step is one of PacketRouting's, or cannot be seen.
LEMMA RoutingStep ==
  RoutingInv /\ [Next]_vars => [Contract!Next]_(Contract!vars)
<1> SUFFICES ASSUME RoutingInv, [Next]_vars PROVE [Contract!Next]_(Contract!vars)
  BY Zenon
<1>1. ASSUME NEW from \in Addrs, NEW packet \in Packets, ArrivePacket(from, packet)
      PROVE  Contract!Next
  <2>1. Arrive(from, Encode(packet)) /\ Encode(packet) \in Datagrams
    BY <1>1, Zenon DEF ArrivePacket, Datagrams
  <2>2. Contract!Arrive(from, Encode(packet))
    BY <2>1, RoutingArrive, Zenon
  <2> QED BY <2>1, <2>2, Zenon DEF Contract!Next
<1>2. ASSUME NEW from \in Addrs, NEW bytes \in Probes, ArriveProbe(from, bytes)
      PROVE  Contract!Next
  <2>1. Arrive(from, bytes) /\ bytes \in Datagrams
    BY <1>2, Zenon DEF ArriveProbe, Datagrams
  <2>2. Contract!Arrive(from, bytes)
    BY <2>1, RoutingArrive, Zenon
  <2> QED BY <2>1, <2>2, Zenon DEF Contract!Next
<1>3. ASSUME NEW id \in Ids, NEW addr \in Addrs, Register(id, addr) PROVE Contract!Next
  BY <1>3, RoutingRegister, Zenon DEF Contract!Next
<1>4. ASSUME NEW h \in live, DropStream(h) PROVE Contract!Next
  <2>1. /\ live' = live \ {h}
        /\ UNCHANGED <<arrived, pc, current, conns, routing_table, mailbox, syn_queue, dropped>>
    BY <1>4, Zenon DEF DropStream, ioVars
  <2>2. Pending' = Pending
    BY <2>1, Zenon DEF Pending
  <2>3. Contract!DropStream(h)
    BY <2>1, <2>2, Zenon DEF Contract!DropStream
  <2> QED BY <2>3, Zenon DEF Contract!Next
<1>5. CASE DropField
  <2>1. live = {} /\ dropped' = dropped + 1 /\ dropped \in Nat
        /\ UNCHANGED <<arrived, pc, current, tableVars, syn_queue>>
    BY <1>5, Zenon DEF DropField, ioVars, RoutingInv, RoutesTyped
  <2>2. Pending' = Pending
    BY <2>1, Zenon DEF Pending
  <2>3. dropped' # 0
    BY <2>1
  <2>4. CASE dropped = 0
    <3>1. Contract!Close
      BY <2>1, <2>2, <2>3, <2>4, Zenon DEF Contract!Close, Contract!tableVars, tableVars
    <3> QED BY <3>1, Zenon DEF Contract!Next
  <2>5. CASE dropped # 0
    BY <2>1, <2>2, <2>3, <2>5, Zenon DEF Contract!vars, Contract!tableVars, tableVars
  <2> QED BY <2>4, <2>5, Zenon
<1>6. ASSUME UNCHANGED <<arrived, tableVars, syn_queue, dropped>>,
             (pc' = pc /\ current' = current) \/ (pc # "routing" /\ pc' # "routing")
      PROVE  UNCHANGED Contract!vars
  <2>1. Pending' = Pending
    BY <1>6, Zenon DEF Pending
  <2> QED BY <1>6, <2>1, RoutingHidden, Zenon
<1>7. CASE DriverEnds \/ UNCHANGED vars
  BY <1>6, <1>7, Zenon DEF DriverEnds, vars, ioVars
<1>8. CASE BeginPoll \/ PollWithoutSocket \/ RecvReady \/ RecvReadyFails \/ RecvNotReady
           \/ RecvNothing \/ RecvYields \/ RecvFails
  BY <1>6, <1>8, Zenon DEF BeginPoll, PollWithoutSocket, RecvReady, RecvReadyFails, RecvNotReady,
                    RecvNothing, RecvYields, RecvFails, Sleep, ioVars
<1>9. CASE RecvFrom
  BY <1>9, RoutingRecv, Zenon DEF Contract!Next
<1>10. CASE RouteSyn
  BY <1>10, RoutingSyn, Zenon DEF Contract!Next
<1>11. CASE RouteOther
  BY <1>11, RoutingOther, Zenon DEF Contract!Next
<1> QED BY <1>1, <1>2, <1>3, <1>4, <1>5, <1>7, <1>8, <1>9, <1>10, <1>11, Zenon DEF Next, Poll

\* The loop of the receiver task deals with each datagram as if in one step, in the order of
\* arrival, whatever happens between its calls: UtpConnect may take it so.
THEOREM ReceiverImplementsRouting == Spec => ImplementsRouting
<1>1. Init => RoutingInv /\ Contract!Init
  <2> SUFFICES ASSUME Init PROVE RoutingInv /\ Contract!Init
    BY Zenon
  <2>1. ReceiverTyped /\ TableRight /\ RoutesTyped /\ CurrentDecoded
    BY RoutedInit, Zenon DEF RoutedInv
  <2>2. TableMade
    BY Zenon DEF Init, TableMade
  <2>3. Len(<< >>) = 0
    BY Zenon
  <2>4. Contract!Init
    BY <2>3, Zenon DEF Init, Contract!Init, Pending
  <2> QED BY <2>1, <2>2, <2>4, Zenon DEF RoutingInv
<1>2. RoutingInv /\ [Next]_vars => RoutingInv'
  BY ReceiverTypedNext, TableRightNext, RoutesTypedNext, CurrentNext, TableMadeNext, Zenon
     DEF RoutingInv
<1> QED BY <1>1, <1>2, RoutingStep, PTL DEF Spec, ImplementsRouting, Contract!Spec

=============================================================================
