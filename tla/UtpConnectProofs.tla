-------------------------- MODULE UtpConnectProofs --------------------------
(***************************************************************************)
(* For every value of the constants, whatever ids are drawn and however    *)
(* many sockets there are: the routing table serves every live stream,     *)
(* whatever the datagram service does; and with a reliable service the two *)
(* ends of a handshake agree.                                              *)
(***************************************************************************)
EXTENDS UtpConnect, SequenceTheorems, TLAPS

\* The part of TypeOK that routing depends on.
TableShape ==
  /\ DOMAIN routing_table = Addrs
  /\ phase \in [Handles -> Phases]
  /\ DOMAIN conn = Handles
  /\ \A h \in Handles : Live(h) => conn[h].local \in Addrs

RoutingInv == TableShape /\ LiveIsRouted

\* Nothing is live and nothing registered at the start.
LEMMA RoutingInit == Init => RoutingInv
BY Zenon DEF Init, RoutingInv, TableShape, LiveIsRouted, Live, Phases

\* Registering a fresh mailbox under a vacant key keeps every other one routed, since all
\* of them have occupied keys.
LEMMA RoutingInsert ==
  ASSUME RoutingInv,
         NEW a \in Addrs, NEW key, NEW h \in Handles, NEW record, NEW ph \in {"connecting", "open"},
         Fresh(h), ~ Occupied(a, key), InsertEntry(a, key, h),
         phase' = [phase EXCEPT ![h] = ph], conn' = [conn EXCEPT ![h] = record],
         record.local = a, Key(record.connection_id_recv, record.remote) = key
  PROVE  RoutingInv'
<1>1. /\ DOMAIN routing_table = Addrs /\ phase \in [Handles -> Phases] /\ DOMAIN conn = Handles
      /\ phase[h] = "unused"
  BY Zenon DEF RoutingInv, TableShape, Fresh
<1>2. /\ DOMAIN routing_table' = Addrs /\ phase' \in [Handles -> Phases] /\ DOMAIN conn' = Handles
      /\ phase'[h] = ph /\ conn'[h] = record
      /\ \A g \in Handles : g # h => phase'[g] = phase[g] /\ conn'[g] = conn[g]
  BY <1>1, Zenon DEF InsertEntry, Phases
<1>3. /\ DOMAIN routing_table'[a] = DOMAIN routing_table[a] \cup {key}
      /\ routing_table'[a][key] = h
      /\ \A k \in DOMAIN routing_table[a] : k # key => routing_table'[a][k] = routing_table[a][k]
      /\ \A b \in Addrs : b # a => routing_table'[b] = routing_table[b]
  BY <1>1, Zenon DEF InsertEntry
<1>4. TableShape'
  BY <1>2, Zenon DEF TableShape, RoutingInv, Live
<1>5. ASSUME NEW g \in Handles, Live(g)'
      PROVE  LET own == Key(conn'[g].connection_id_recv, conn'[g].remote)
                 table == routing_table'[conn'[g].local]
             IN own \in DOMAIN table /\ table[own] = g
  <2>1. CASE g = h
    BY <1>2, <1>3, <2>1, Zenon
  <2>2. CASE g # h
    <3>1. Live(g) /\ conn'[g] = conn[g]
      BY <1>2, <1>5, <2>2, Zenon DEF Live
    <3> DEFINE k == Key(conn[g].connection_id_recv, conn[g].remote)
               b == conn[g].local
    <3>2. b \in Addrs /\ k \in DOMAIN routing_table[b] /\ routing_table[b][k] = g
      BY <3>1, Zenon DEF RoutingInv, TableShape, LiveIsRouted, Occupied
    <3> HIDE DEF k, b
    <3>3. k \in DOMAIN routing_table'[b] /\ routing_table'[b][k] = g
      BY <1>3, <3>2, Zenon DEF Occupied
    <3> QED BY <3>1, <3>3, Zenon DEF k, b
  <2> QED BY <2>1, <2>2, Zenon
<1> QED
  BY <1>4, <1>5, Zenon DEF RoutingInv, LiveIsRouted, Occupied, Key

\* Removing stale entries, and streams that end or open, leave the live ones routed.
LEMMA RoutingKept ==
  ASSUME RoutingInv,
         DOMAIN routing_table' = Addrs,
         \A a \in Addrs : \A k \in DOMAIN routing_table[a] :
           \/ k \in DOMAIN routing_table'[a] /\ routing_table'[a][k] = routing_table[a][k]
           \/ ~ Live(routing_table[a][k]),
         phase' \in [Handles -> Phases],
         DOMAIN conn' = Handles,
         \A g \in Handles : Live(g)' => Live(g) /\ conn'[g] = conn[g]
  PROVE  RoutingInv'
<1>1. TableShape'
  BY Zenon DEF RoutingInv, TableShape
<1>2. ASSUME NEW g \in Handles, Live(g)'
      PROVE  LET own == Key(conn'[g].connection_id_recv, conn'[g].remote)
                 table == routing_table'[conn'[g].local]
             IN own \in DOMAIN table /\ table[own] = g
  BY <1>2 DEF RoutingInv, TableShape, LiveIsRouted, Occupied
<1> QED
  BY <1>1, <1>2, Zenon DEF RoutingInv, LiveIsRouted, Occupied, Key

\* The receiver task removes an entry only if its mailbox is closed.
LEMMA RouteRemovesStale ==
  ASSUME RoutingInv, NEW a \in Addrs, NEW datagram, Route(a, datagram)
  PROVE  /\ DOMAIN routing_table' = Addrs
         /\ \A b \in Addrs : \A k \in DOMAIN routing_table[b] :
              \/ k \in DOMAIN routing_table'[b] /\ routing_table'[b][k] = routing_table[b][k]
              \/ k \notin DOMAIN routing_table'[b] /\ ~ Live(routing_table[b][k])
<1> DEFINE key == Key(datagram.packet.connection_id, datagram.from)
<1>1. DOMAIN routing_table = Addrs
  BY Zenon DEF RoutingInv, TableShape
<1>2. CASE routing_table' = routing_table
  BY <1>1, <1>2, Zenon
<1>3. CASE /\ StaleEntry(a, key)
           /\ routing_table' = [routing_table EXCEPT ![a] =
                [k \in DOMAIN routing_table[a] \ {key} |-> routing_table[a][k]]]
  BY <1>1, <1>3, Zenon DEF StaleEntry
<1> QED BY <1>2, <1>3, Zenon DEF Route

\* Every step keeps the live streams routed.
LEMMA RoutingNext == RoutingInv /\ [Next]_vars => RoutingInv'
<1> SUFFICES ASSUME RoutingInv, [Next]_vars PROVE RoutingInv'
  BY Zenon
<1>1. /\ DOMAIN routing_table = Addrs /\ phase \in [Handles -> Phases] /\ DOMAIN conn = Handles
  BY Zenon DEF RoutingInv, TableShape
<1>2. ASSUME NEW pair \in Connects, NEW id \in Ids, NEW h \in Handles,
             Connect(pair[1], pair[2], id, h)
      PROVE  RoutingInv'
  <2> DEFINE record ==
        [local |-> pair[1], remote |-> pair[2], role |-> "connect",
         connection_id_recv |-> id, connection_id_send |-> WrappingAdd(id, 1), isn |-> 1]
  <2>1. pair[1] \in Addrs
    BY ConnectAssumption, Zenon
  <2>2. /\ Fresh(h) /\ ~ Occupied(pair[1], Key(id, pair[2]))
        /\ InsertEntry(pair[1], Key(id, pair[2]), h)
        /\ phase' = [phase EXCEPT ![h] = "connecting"] /\ conn' = [conn EXCEPT ![h] = record]
    BY <1>2, Zenon DEF Connect
  <2>3. record.local = pair[1] /\ record.connection_id_recv = id /\ record.remote = pair[2]
    BY Zenon
  <2> HIDE DEF record
  <2> QED BY <2>1, <2>2, <2>3, RoutingInsert, Zenon
<1>3. ASSUME NEW a \in Addrs, NEW s \in InitialSeqs, NEW h \in Handles, Accept(a, s, h)
      PROVE  RoutingInv'
  <2> DEFINE syn == Head(syn_queue[a])
             record ==
               [local |-> a, remote |-> syn.from, role |-> "accept",
                connection_id_recv |-> IdRecv(syn),
                connection_id_send |-> syn.packet.connection_id, isn |-> s]
  <2>1. /\ Fresh(h) /\ ~ Occupied(a, Key(IdRecv(syn), syn.from))
        /\ InsertEntry(a, Key(IdRecv(syn), syn.from), h)
        /\ phase' = [phase EXCEPT ![h] = "open"] /\ conn' = [conn EXCEPT ![h] = record]
    BY <1>3, Zenon DEF Accept
  <2>2. record.local = a /\ record.connection_id_recv = IdRecv(syn) /\ record.remote = syn.from
    BY Zenon
  <2> HIDE DEF record, syn
  <2> QED BY <2>1, <2>2, RoutingInsert, Zenon
<1>4. ASSUME UNCHANGED <<routing_table, phase, conn>> PROVE RoutingInv'
  BY <1>1, <1>4, RoutingKept, Zenon DEF Live
<1>5. ASSUME NEW h \in Handles, Connected(h) PROVE RoutingInv'
  <2>1. /\ routing_table' = routing_table /\ conn' = conn /\ phase[h] = "connecting"
        /\ \/ phase' = [phase EXCEPT ![h] = "open"]
           \/ phase' = [phase EXCEPT ![h] = "panicked"]
    BY <1>5, Zenon DEF Connected
  <2>2. /\ phase' \in [Handles -> Phases] /\ \A g \in Handles : Live(g)' => Live(g)
    BY <1>1, <2>1, Zenon DEF Live, Phases
  <2> QED BY <1>1, <2>1, <2>2, RoutingKept, Zenon
<1>6. ASSUME NEW h \in Handles, NEW type \in {"Data", "State"}, StreamSends(h, type)
      PROVE  RoutingInv'
  BY <1>4, <1>6, Zenon DEF StreamSends
<1>7. ASSUME NEW h \in Handles, DropStream(h) PROVE RoutingInv'
  <2>1. routing_table' = routing_table /\ conn' = conn /\ phase' = [phase EXCEPT ![h] = "dropped"]
    BY <1>7, Zenon DEF DropStream
  <2>2. /\ phase' \in [Handles -> Phases] /\ \A g \in Handles : Live(g)' => Live(g)
    BY <1>1, <2>1, Zenon DEF Live, Phases
  <2> QED BY <1>1, <2>1, <2>2, RoutingKept, Zenon
<1>8. ASSUME NEW a \in Addrs, NEW i \in Arriving(a), Receive(a, i) \/ Duplicate(a, i)
      PROVE  RoutingInv'
  <2>1. Route(a, wire[a][i]) /\ phase' = phase /\ conn' = conn
    BY <1>8, Zenon DEF Receive, Duplicate
  <2> QED BY <1>1, <2>1, RouteRemovesStale, RoutingKept, Zenon DEF Live
<1>9. ASSUME NEW a \in Addrs, NEW i \in Arriving(a), Lose(a, i) PROVE RoutingInv'
  BY <1>4, <1>9, Zenon DEF Lose
<1>10. ASSUME NEW a \in Addrs, AcceptFails(a) PROVE RoutingInv'
  BY <1>4, <1>10, Zenon DEF AcceptFails
<1>11. CASE UNCHANGED vars
  BY <1>4, <1>11, Zenon DEF vars
<1> QED
  BY <1>2, <1>3, <1>5, <1>6, <1>7, <1>8, <1>9, <1>10, <1>11, Zenon DEF Next, ReceiveSome, AcceptSome

\* Every live stream and connecting future stays reachable under its id and remote address.
THEOREM LiveStreamsRouted == Spec => []LiveIsRouted
<1>1. RoutingInv => LiveIsRouted
  BY Zenon DEF RoutingInv
<1> QED
  BY <1>1, RoutingInit, RoutingNext, PTL DEF Spec

-----------------------------------------------------------------------------
(***************************************************************************)
(* Types.                                                                  *)
(***************************************************************************)

\* Ids and numbers stay u16s when 1 is added.
LEMMA NumberType ==
  /\ 0 \in SeqNumbers /\ 1 \in SeqNumbers
  /\ \A n \in SeqNumbers : WrappingAdd(n, 1) \in SeqNumbers
BY ModulusAssumption DEF SeqNumbers, WrappingAdd

\* The other datagrams on the wire are still datagrams when one is taken out.
LEMMA WireType ==
  ASSUME NEW S, NEW s \in Seq(S), NEW i \in DOMAIN s
  PROVE  s[i] \in S /\ RemoveAt(s, i) \in Seq(S)
<1> DEFINE x == SubSeq(s, 1, i - 1)
           y == SubSeq(s, i + 1, Len(s))
<1>1. Len(s) \in Nat /\ i \in 1 .. Len(s) /\ \A j \in 1 .. Len(s) : s[j] \in S
  BY LenProperties, ElementOfSeq, Zenon
<1>2. x \in Seq(S)
  <2>1. \A j \in 1 .. i - 1 : s[j] \in S
    BY <1>1
  <2> QED BY <1>1, <2>1, SubSeqProperties
<1>3. y \in Seq(S)
  <2>1. \A j \in i + 1 .. Len(s) : s[j] \in S
    BY <1>1
  <2> QED BY <1>1, <2>1, SubSeqProperties
<1>4. RemoveAt(s, i) = x \o y
  BY Zenon DEF RemoveAt
<1> HIDE DEF x, y
<1> QED BY <1>1, <1>2, <1>3, <1>4, ConcatProperties, Zenon

\* A queue that gains one element, or loses its first, in a family of queues.
LEMMA QueueType ==
  ASSUME NEW D, NEW S, NEW q \in [D -> Seq(S)], NEW d \in D
  PROVE  /\ \A e \in S : [q EXCEPT ![d] = Append(@, e)] \in [D -> Seq(S)]
         /\ q[d] # << >> => /\ Head(q[d]) \in S
                            /\ [q EXCEPT ![d] = Tail(@)] \in [D -> Seq(S)]
<1>1. ASSUME NEW t \in Seq(S) PROVE [q EXCEPT ![d] = t] \in [D -> Seq(S)]
  BY Zenon
<1>2. q[d] \in Seq(S)
  BY Zenon
<1>3. \A e \in S : Append(q[d], e) \in Seq(S)
  BY <1>2, AppendProperties, Zenon
<1>4. q[d] # << >> => Head(q[d]) \in S /\ Tail(q[d]) \in Seq(S)
  BY <1>2, HeadTailProperties, Zenon
<1> QED BY <1>1, <1>3, <1>4, Zenon

\* The conjuncts of TypeOK about the table and about the streams.
TableTyped ==
  /\ DOMAIN routing_table = Addrs
  /\ \A a \in Addrs : /\ DOMAIN routing_table[a] \subseteq Keys
                      /\ \A key \in DOMAIN routing_table[a] : routing_table[a][key] \in Handles
ConnsTyped ==
  /\ phase \in [Handles -> Phases]
  /\ DOMAIN conn = Handles
  /\ \A h \in Handles : phase[h] # "unused" => conn[h] \in Conns

\* The table of one socket gains an entry.
LEMMA InsertType ==
  ASSUME TableTyped, NEW a \in Addrs, NEW key \in Keys, NEW h \in Handles, InsertEntry(a, key, h)
  PROVE  TableTyped'
BY Zenon DEF InsertEntry, TableTyped

\* A handle comes into use.
LEMMA ConnType ==
  ASSUME ConnsTyped, NEW h \in Handles, NEW record \in Conns, NEW ph \in Phases,
         phase' = [phase EXCEPT ![h] = ph], conn' = [conn EXCEPT ![h] = record]
  PROVE  ConnsTyped'
BY Zenon DEF ConnsTyped

\* A stream that is in use changes its phase.
LEMMA PhaseType ==
  ASSUME ConnsTyped, NEW h \in Handles, NEW ph \in Phases, phase[h] # "unused",
         phase' = [phase EXCEPT ![h] = ph], conn' = conn
  PROVE  ConnsTyped'
BY Zenon DEF ConnsTyped

\* What the receiver task changes keeps its type.
LEMMA RouteType ==
  ASSUME TypeOK, NEW a \in Addrs, NEW datagram \in Datagrams, Route(a, datagram)
  PROVE  /\ TableTyped'
         /\ mailbox' \in [Handles -> Seq(Packets)]
         /\ syn_queue' \in [Addrs -> Seq(Datagrams)]
<1> DEFINE key == Key(datagram.packet.connection_id, datagram.from)
<1>1. TableTyped /\ mailbox \in [Handles -> Seq(Packets)] /\ syn_queue \in [Addrs -> Seq(Datagrams)]
  BY Zenon DEF TypeOK, TableTyped
<1>2. datagram.packet \in Packets
  BY Zenon DEF Datagrams
<1>3. syn_queue' \in [Addrs -> Seq(Datagrams)]
  <2>1. \/ syn_queue' = syn_queue
        \/ syn_queue' = [syn_queue EXCEPT ![a] = Append(@, datagram)]
    BY Zenon DEF Route
  <2>2. [syn_queue EXCEPT ![a] = Append(@, datagram)] \in [Addrs -> Seq(Datagrams)]
    BY <1>1, QueueType, Zenon
  <2> QED BY <1>1, <2>1, <2>2, Zenon
<1>4. mailbox' \in [Handles -> Seq(Packets)]
  <2>1. CASE mailbox' = mailbox
    BY <1>1, <2>1, Zenon
  <2>2. CASE /\ Occupied(a, key)
             /\ mailbox' = [mailbox EXCEPT ![routing_table[a][key]] = Append(@, datagram.packet)]
    <3> DEFINE h == routing_table[a][key]
               packet == datagram.packet
    <3>1. h \in Handles
      BY <1>1, <2>2, Zenon DEF Occupied, TableTyped
    <3>2. packet \in Packets /\ mailbox' = [mailbox EXCEPT ![h] = Append(@, packet)]
      BY <1>2, <2>2, Zenon
    <3> HIDE DEF h, packet
    <3>3. [mailbox EXCEPT ![h] = Append(@, packet)] \in [Handles -> Seq(Packets)]
      BY <1>1, <3>1, <3>2, QueueType, Zenon
    <3> QED BY <3>2, <3>3, Zenon
  <2> QED BY <2>1, <2>2, Zenon DEF Route
<1>5. TableTyped'
  <2>1. CASE routing_table' = routing_table
    BY <1>1, <2>1, Zenon DEF TableTyped
  <2>2. CASE routing_table' = [routing_table EXCEPT ![a] =
               [k \in DOMAIN routing_table[a] \ {key} |-> routing_table[a][k]]]
    BY <1>1, <2>2, Zenon DEF TableTyped
  <2> QED BY <2>1, <2>2, Zenon DEF Route
<1> QED BY <1>3, <1>4, <1>5, Zenon

\* TypeOK again, with its parts.
LEMMA TypeParts ==
  TypeOK <=> /\ TableTyped /\ ConnsTyped
             /\ syn_queue \in [Addrs -> Seq(Datagrams)]
             /\ accepting \in [Addrs -> BOOLEAN]
             /\ seq_number \in [Handles -> SeqNumbers]
             /\ ack_number \in [Handles -> SeqNumbers]
             /\ mailbox \in [Handles -> Seq(Packets)]
             /\ wire \in [Addrs -> Seq(Datagrams)]
             /\ sends \in 0 .. MaxSends /\ drops \in 0 .. MaxDrops
             /\ losses \in 0 .. MaxLoss /\ dups \in 0 .. MaxDup
BY Zenon DEF TypeOK, TableTyped, ConnsTyped

\* The same after a step.
LEMMA TypePartsNext ==
  ASSUME TableTyped', ConnsTyped',
         syn_queue' \in [Addrs -> Seq(Datagrams)], accepting' \in [Addrs -> BOOLEAN],
         seq_number' \in [Handles -> SeqNumbers], ack_number' \in [Handles -> SeqNumbers],
         mailbox' \in [Handles -> Seq(Packets)], wire' \in [Addrs -> Seq(Datagrams)],
         sends' \in 0 .. MaxSends, drops' \in 0 .. MaxDrops,
         losses' \in 0 .. MaxLoss, dups' \in 0 .. MaxDup
  PROVE  TypeOK'
BY Zenon DEF TypeOK, TableTyped, ConnsTyped

\* Every step of the sockets, the streams and the network keeps the types.
LEMMA ConnectTypeNext == TypeOK /\ [Next]_vars => TypeOK'
<1> SUFFICES ASSUME TypeOK, [Next]_vars PROVE TypeOK'
  BY Zenon
<1>1. /\ TableTyped /\ ConnsTyped
      /\ syn_queue \in [Addrs -> Seq(Datagrams)]
      /\ accepting \in [Addrs -> BOOLEAN]
      /\ seq_number \in [Handles -> SeqNumbers]
      /\ ack_number \in [Handles -> SeqNumbers]
      /\ mailbox \in [Handles -> Seq(Packets)]
      /\ wire \in [Addrs -> Seq(Datagrams)]
      /\ sends \in 0 .. MaxSends /\ drops \in 0 .. MaxDrops
      /\ losses \in 0 .. MaxLoss /\ dups \in 0 .. MaxDup
  BY TypeParts, Zenon
<1>2. /\ MaxSends \in Nat /\ MaxDrops \in Nat /\ MaxLoss \in Nat /\ MaxDup \in Nat
      /\ Ids \subseteq SeqNumbers /\ InitialSeqs \subseteq SeqNumbers
      /\ Connects \subseteq Addrs \X Addrs
  BY ConnectAssumption, Zenon
<1>3. ASSUME routing_table' = routing_table PROVE TableTyped'
  BY <1>1, <1>3, Zenon DEF TableTyped
<1>4. ASSUME UNCHANGED <<phase, conn>> PROVE ConnsTyped'
  BY <1>1, <1>4, Zenon DEF ConnsTyped
<1>5. ASSUME NEW from \in Addrs, NEW to \in Addrs, NEW packet \in Packets, SendTo(from, to, packet)
      PROVE  wire' \in [Addrs -> Seq(Datagrams)]
  <2>1. [from |-> from, packet |-> packet] \in Datagrams
    BY Zenon DEF Datagrams
  <2> QED BY <1>1, <1>5, <2>1, QueueType DEF SendTo
<1>6. ASSUME NEW pair \in Connects, NEW id \in Ids, NEW h \in Handles,
             Connect(pair[1], pair[2], id, h)
      PROVE  TypeOK'
  <2> DEFINE record ==
        [local |-> pair[1], remote |-> pair[2], role |-> "connect",
         connection_id_recv |-> id, connection_id_send |-> WrappingAdd(id, 1), isn |-> 1]
  <2>1. pair[1] \in Addrs /\ pair[2] \in Addrs /\ id \in SeqNumbers
    BY <1>2, Zenon
  <2>2. record \in Conns /\ "connecting" \in Phases
    BY <2>1, NumberType, Zenon DEF Conns, Phases
  <2>3. Syn(id, h) \in Packets
    BY <2>1, NumberType, Zenon DEF Syn, Packets
  <2>4. Key(id, pair[2]) \in Keys
    BY <2>1, Zenon DEF Key, Keys
  <2>5. /\ InsertEntry(pair[1], Key(id, pair[2]), h)
        /\ phase' = [phase EXCEPT ![h] = "connecting"] /\ conn' = [conn EXCEPT ![h] = record]
        /\ seq_number' = [seq_number EXCEPT ![h] = WrappingAdd(1, 1)]
        /\ SendTo(pair[1], pair[2], Syn(id, h))
        /\ UNCHANGED <<syn_queue, accepting, ack_number, mailbox, faultVars>>
    BY <1>6, Zenon DEF Connect
  <2> HIDE DEF record
  <2>6. TableTyped' /\ ConnsTyped'
    BY <1>1, <2>1, <2>2, <2>4, <2>5, InsertType, ConnType, Zenon
  <2>7. wire' \in [Addrs -> Seq(Datagrams)]
    BY <1>5, <2>1, <2>3, <2>5, Zenon
  <2>8. seq_number' \in [Handles -> SeqNumbers]
    BY <1>1, <2>5, NumberType, Zenon
  <2> QED BY <1>1, <2>5, <2>6, <2>7, <2>8, TypePartsNext, Zenon DEF faultVars
<1>7. ASSUME NEW a \in Addrs, NEW s \in InitialSeqs, NEW h \in Handles, Accept(a, s, h)
      PROVE  TypeOK'
  <2> DEFINE syn == Head(syn_queue[a])
             id  == syn.packet.connection_id
             ack == syn.packet.seq_number
             record ==
               [local |-> a, remote |-> syn.from, role |-> "accept",
                connection_id_recv |-> IdRecv(syn), connection_id_send |-> id, isn |-> s]
  <2>1. syn_queue[a] # << >> /\ syn_queue' = [syn_queue EXCEPT ![a] = Tail(@)]
    BY <1>7, Zenon DEF Accept, GetSyn
  <2>2. syn \in Datagrams /\ syn_queue' \in [Addrs -> Seq(Datagrams)]
    BY <1>1, <2>1, QueueType, Zenon
  <2>3. /\ InsertEntry(a, Key(IdRecv(syn), syn.from), h)
        /\ phase' = [phase EXCEPT ![h] = "open"] /\ conn' = [conn EXCEPT ![h] = record]
        /\ seq_number' = [seq_number EXCEPT ![h] = WrappingAdd(s, 1)]
        /\ ack_number' = [ack_number EXCEPT ![h] = ack]
        /\ SendTo(a, syn.from, SynAck(id, s, ack, h))
        /\ UNCHANGED <<accepting, mailbox, faultVars>>
    BY <1>7, Zenon DEF Accept
  <2> HIDE DEF syn
  <2>4. syn.from \in Addrs /\ id \in SeqNumbers /\ ack \in SeqNumbers /\ s \in SeqNumbers
    BY <1>2, <2>2, Zenon DEF Datagrams, Packets
  <2>5. IdRecv(syn) \in SeqNumbers
    BY <2>4, NumberType, Zenon DEF IdRecv
  <2> HIDE DEF id, ack
  <2>6. record \in Conns /\ "open" \in Phases
    BY <2>4, <2>5, Zenon DEF Conns, Phases
  <2>7. SynAck(id, s, ack, h) \in Packets
    BY <2>4, Zenon DEF SynAck, Packets
  <2>8. Key(IdRecv(syn), syn.from) \in Keys
    BY <2>4, <2>5, Zenon DEF Key, Keys
  <2> HIDE DEF record
  <2>9. TableTyped' /\ ConnsTyped'
    BY <1>1, <2>3, <2>6, <2>8, InsertType, ConnType, Zenon
  <2>10. wire' \in [Addrs -> Seq(Datagrams)]
    BY <1>5, <2>3, <2>4, <2>7, Zenon
  <2>11. seq_number' \in [Handles -> SeqNumbers] /\ ack_number' \in [Handles -> SeqNumbers]
    BY <1>1, <2>3, <2>4, NumberType, Zenon
  <2> QED BY <1>1, <2>2, <2>3, <2>9, <2>10, <2>11, TypePartsNext, Zenon DEF faultVars
<1>8. ASSUME NEW h \in Handles, Connected(h) PROVE TypeOK'
  <2>1. /\ phase[h] = "connecting" /\ mailbox[h] # << >>
        /\ mailbox' = [mailbox EXCEPT ![h] = Tail(@)]
        /\ UNCHANGED <<routing_table, syn_queue, accepting, conn, seq_number, wire, faultVars>>
    BY <1>8, Zenon DEF Connected
  <2>2. Head(mailbox[h]) \in Packets /\ mailbox' \in [Handles -> Seq(Packets)]
    BY <1>1, <2>1, QueueType, Zenon
  <2>3. \E ph \in {"open", "panicked"} : phase' = [phase EXCEPT ![h] = ph]
    BY <1>8, Zenon DEF Connected
  <2>4. {"open", "panicked"} \subseteq Phases
    BY Zenon DEF Phases
  <2>5. ConnsTyped'
    BY <1>1, <2>1, <2>3, <2>4, PhaseType, Zenon
  <2>6. \/ ack_number' = [ack_number EXCEPT ![h] = Head(mailbox[h]).seq_number]
        \/ ack_number' = ack_number
    BY <1>8, Zenon DEF Connected
  <2>7. Head(mailbox[h]).seq_number \in SeqNumbers
    BY <2>2, Zenon DEF Packets
  <2>8. ack_number' \in [Handles -> SeqNumbers]
    BY <1>1, <2>6, <2>7, Zenon
  <2> QED BY <1>1, <1>3, <2>1, <2>2, <2>5, <2>8, TypePartsNext, Zenon DEF faultVars
<1>9. ASSUME NEW h \in Handles, NEW type \in {"Data", "State"}, StreamSends(h, type) PROVE TypeOK'
  <2>1. /\ phase[h] = "open" /\ sends < MaxSends /\ sends' = sends + 1
        /\ SendTo(conn[h].local, conn[h].remote, StreamPacket(type, h))
        /\ \/ seq_number' = [seq_number EXCEPT ![h] = WrappingAdd(@, 1)]
           \/ seq_number' = [seq_number EXCEPT ![h] = @]
        /\ UNCHANGED <<routing_table, syn_queue, accepting, phase, conn, ack_number, mailbox,
                       drops, losses, dups>>
    BY <1>9, Zenon DEF StreamSends
  <2>2. conn[h] \in Conns
    BY <1>1, <2>1, Zenon DEF ConnsTyped
  <2>3. /\ conn[h].local \in Addrs /\ conn[h].remote \in Addrs
        /\ conn[h].connection_id_send \in SeqNumbers
    BY <2>2, Zenon DEF Conns
  <2>4. StreamPacket(type, h) \in Packets
    BY <1>1, <2>3, Zenon DEF StreamPacket, Packets
  <2>5. wire' \in [Addrs -> Seq(Datagrams)]
    BY <1>5, <2>1, <2>3, <2>4, Zenon
  <2>6. seq_number' \in [Handles -> SeqNumbers]
    <3>1. WrappingAdd(seq_number[h], 1) \in SeqNumbers /\ seq_number[h] \in SeqNumbers
      BY <1>1, NumberType, Zenon
    <3>2. \E n \in SeqNumbers : seq_number' = [seq_number EXCEPT ![h] = n]
      BY <2>1, <3>1, Zenon
    <3> QED BY <1>1, <3>2, Zenon
  <2>7. sends' \in 0 .. MaxSends
    BY <1>1, <1>2, <2>1
  <2> QED BY <1>1, <1>3, <1>4, <2>1, <2>5, <2>6, <2>7, TypePartsNext, Zenon
<1>10. ASSUME NEW h \in Handles, DropStream(h) PROVE TypeOK'
  <2>1. /\ phase[h] # "unused" /\ drops < MaxDrops /\ drops' = drops + 1
        /\ phase' = [phase EXCEPT ![h] = "dropped"]
        /\ UNCHANGED <<routing_table, syn_queue, accepting, conn, numberVars, mailbox, wire,
                       sends, losses, dups>>
    BY <1>10, Zenon DEF DropStream, Live
  <2>2. ConnsTyped'
    BY <1>1, <2>1, PhaseType, Zenon DEF Phases
  <2>3. drops' \in 0 .. MaxDrops
    BY <1>1, <1>2, <2>1
  <2> QED BY <1>1, <1>3, <2>1, <2>2, <2>3, TypePartsNext, Zenon DEF numberVars
<1>11. ASSUME NEW a \in Addrs, AcceptFails(a) PROVE TypeOK'
  <2>1. /\ syn_queue[a] # << >> /\ syn_queue' = [syn_queue EXCEPT ![a] = Tail(@)]
        /\ accepting' = [accepting EXCEPT ![a] = FALSE]
        /\ UNCHANGED <<routing_table, phase, conn, numberVars, mailbox, wire, faultVars>>
    BY <1>11, Zenon DEF AcceptFails, GetSyn
  <2>2. syn_queue' \in [Addrs -> Seq(Datagrams)]
    BY <1>1, <2>1, QueueType, Zenon
  <2>3. accepting' \in [Addrs -> BOOLEAN]
    BY <1>1, <2>1, Zenon
  <2> QED BY <1>1, <1>3, <1>4, <2>1, <2>2, <2>3, TypePartsNext, Zenon DEF numberVars, faultVars
<1>12. ASSUME NEW a \in Addrs, NEW i \in Arriving(a), Receive(a, i) \/ Duplicate(a, i) \/ Lose(a, i)
       PROVE  TypeOK'
  <2>1. wire[a] \in Seq(Datagrams) /\ i \in DOMAIN wire[a]
    BY <1>1, Zenon DEF Arriving
  <2>2. wire[a][i] \in Datagrams /\ RemoveAt(wire[a], i) \in Seq(Datagrams)
    BY <2>1, WireType, Zenon
  <2>3. [wire EXCEPT ![a] = RemoveAt(@, i)] \in [Addrs -> Seq(Datagrams)]
    BY <1>1, <2>2, Zenon
  <2>4. CASE Receive(a, i)
    <3>1. /\ Route(a, wire[a][i]) /\ wire' = [wire EXCEPT ![a] = RemoveAt(@, i)]
          /\ UNCHANGED <<accepting, phase, conn, numberVars, faultVars>>
      BY <2>4, Zenon DEF Receive
    <3> QED BY <1>1, <1>4, <2>2, <2>3, <3>1, RouteType, TypePartsNext, Zenon DEF numberVars, faultVars
  <2>5. CASE Duplicate(a, i)
    <3>1. /\ Route(a, wire[a][i]) /\ dups < MaxDup /\ dups' = dups + 1
          /\ UNCHANGED <<accepting, phase, conn, numberVars, wire, sends, drops, losses>>
      BY <2>5, Zenon DEF Duplicate
    <3>2. dups' \in 0 .. MaxDup
      BY <1>1, <1>2, <3>1
    <3> QED BY <1>1, <1>4, <2>2, <3>1, <3>2, RouteType, TypePartsNext, Zenon DEF numberVars
  <2>6. CASE Lose(a, i)
    <3>1. /\ losses < MaxLoss /\ losses' = losses + 1
          /\ wire' = [wire EXCEPT ![a] = RemoveAt(@, i)]
          /\ UNCHANGED <<routing_table, syn_queue, accepting, phase, conn, numberVars, mailbox,
                         sends, drops, dups>>
      BY <2>6, Zenon DEF Lose
    <3>2. losses' \in 0 .. MaxLoss
      BY <1>1, <1>2, <3>1
    <3> QED BY <1>1, <1>3, <1>4, <2>3, <3>1, <3>2, TypePartsNext, Zenon DEF numberVars
  <2> QED BY <1>12, <2>4, <2>5, <2>6, Zenon
<1>13. CASE UNCHANGED vars
  BY <1>1, <1>3, <1>4, <1>13, TypePartsNext, Zenon DEF vars, numberVars, faultVars
<1> QED
  BY <1>6, <1>7, <1>8, <1>9, <1>10, <1>11, <1>12, <1>13, Zenon DEF Next, ReceiveSome, AcceptSome

\* Everything is empty at the start.
LEMMA ConnectTypeInit == Init => TypeOK
<1> SUFFICES ASSUME Init PROVE TypeOK
  BY Zenon
<1>1. TableTyped /\ ConnsTyped
  BY Zenon DEF Init, TableTyped, ConnsTyped, Phases
<1>2. << >> \in Seq(Datagrams) /\ << >> \in Seq(Packets)
  BY EmptySeq, Zenon
<1>3. /\ syn_queue \in [Addrs -> Seq(Datagrams)] /\ wire \in [Addrs -> Seq(Datagrams)]
      /\ mailbox \in [Handles -> Seq(Packets)]
  BY <1>2, Zenon DEF Init
<1>4. /\ accepting \in [Addrs -> BOOLEAN]
      /\ seq_number \in [Handles -> SeqNumbers] /\ ack_number \in [Handles -> SeqNumbers]
  BY NumberType, Zenon DEF Init
<1>5. /\ sends \in 0 .. MaxSends /\ drops \in 0 .. MaxDrops
      /\ losses \in 0 .. MaxLoss /\ dups \in 0 .. MaxDup
  BY ConnectAssumption DEF Init
<1> QED BY <1>1, <1>3, <1>4, <1>5, TypeParts, Zenon

\* Tables, queues, mailboxes and datagrams keep their types, and ids and numbers stay u16s
\* when connect and accept wrap them.
THEOREM ConnectTyped == Spec => []TypeOK
BY ConnectTypeInit, ConnectTypeNext, PTL DEF Spec

-----------------------------------------------------------------------------
(***************************************************************************)
(* The handshake, with a datagram service that loses and reorders nothing. *)
(***************************************************************************)

\* Datagrams are neither lost nor overtaken, and no stream is dropped.
Reliable == MaxLoss = 0 /\ MaxDrops = 0 /\ ~ Reorder

Used(h) == phase[h] # "unused"

\* A datagram under way to a, or in its SYN queue, is as its sender made it.
Genuine(a, d) ==
  LET g == d.packet.by IN
  /\ Used(g)
  /\ conn[g].local = d.from /\ conn[g].remote = a
  /\ IF d.packet.type = "Syn"
     THEN /\ conn[g].role = "connect"
          /\ d.packet.connection_id = conn[g].connection_id_recv
          /\ d.packet.seq_number = 1
     ELSE /\ phase[g] = "open"
          /\ d.packet.connection_id = conn[g].connection_id_send

\* The packet with which accept of g answered.
Answers(packet, g) ==
  packet.type = "State" /\ packet.by = g /\ packet.seq_number = conn[g].isn

\* Of g's packets among these datagrams the answer is the first.
AnswerComesFirst(s, g) ==
  \E j \in DOMAIN s : /\ Answers(s[j].packet, g)
                      /\ \A i \in 1 .. j - 1 : s[i].packet.by # g

\* A stream is waiting in connect or open, has the ids that connect gave it, and, if accept
\* made it, the number that its peer's SYN had.
StreamRight(h) ==
  /\ phase[h] \in {"connecting", "open"}
  /\ conn[h].role = "connect" =>
       conn[h].isn = 1 /\ conn[h].connection_id_send = WrappingAdd(conn[h].connection_id_recv, 1)
  /\ conn[h].role = "accept" => phase[h] = "open" /\ ack_number[h] = 1

StreamsRight == \A h \in Handles : Used(h) => StreamRight(h)

\* Every open stream has a peer.
PeersExist ==
  \A g \in Handles : phase[g] = "open" => \E h \in Handles : Used(h) /\ Paired(g, h)

\* d is under way to a, or in its SYN queue.
UnderWay(a, d) == \E i \in DOMAIN wire[a] : wire[a][i] = d
Queued(a, d) == \E i \in DOMAIN syn_queue[a] : syn_queue[a][i] = d

\* Every datagram is as its sender made it, and only SYNs are in SYN queues.
DatagramsGenuine ==
  \A a \in Addrs, d \in Datagrams :
    /\ UnderWay(a, d) => Genuine(a, d)
    /\ Queued(a, d) => Genuine(a, d) /\ d.packet.type = "Syn"

\* What is in a mailbox comes from the peer, and the peer is open.
MailboxesRight ==
  \A h \in Handles : \A i \in DOMAIN mailbox[h] :
    LET g == mailbox[h][i].by IN Used(h) /\ phase[g] = "open" /\ Paired(g, h)

\* The first packet in h's mailbox is the answer.
FoundAnswer(h) ==
  LET p == Head(mailbox[h]) IN conn[p.by].role = "accept" /\ Answers(p, p.by)

\* A connect that waits has the answer in its mailbox, or on its way to it before anything
\* else of the stream that accepted.
AnswersFirst ==
  \A h \in Handles : phase[h] = "connecting" =>
    /\ mailbox[h] # << >> => FoundAnswer(h)
    /\ mailbox[h] = << >> =>
         \A g \in Handles : Used(g) /\ conn[g].role = "accept" /\ Paired(g, h) =>
           AnswerComesFirst(wire[conn[h].local], g)

\* The inductive invariant.
HandshakeInv ==
  /\ TypeOK /\ LiveIsRouted
  /\ StreamsRight /\ PeersExist /\ DatagramsGenuine /\ MailboxesRight /\ AnswersFirst
  /\ HandshakeAgrees

\* Handles in use stay in use, with what their streams were given, and open streams stay open.
Settled ==
  \A h \in Handles : Used(h) => /\ Used(h)' /\ conn'[h] = conn[h]
                                /\ phase[h] = "open" => phase'[h] = "open"

\* What is paired stays paired, and what is genuine genuine.
LEMMA SettledKeeps ==
  ASSUME Settled
  PROVE  /\ \A g, h \in Handles : Used(g) /\ Used(h) => (Paired(g, h)' <=> Paired(g, h))
         /\ \A a \in Addrs, d \in Datagrams : Genuine(a, d) => Genuine(a, d)'
<1>1. ASSUME NEW g \in Handles, NEW h \in Handles, Used(g), Used(h)
      PROVE  Paired(g, h)' <=> Paired(g, h)
  BY <1>1, Zenon DEF Settled, Paired
<1>2. ASSUME NEW a \in Addrs, NEW d \in Datagrams, Genuine(a, d)
      PROVE  Genuine(a, d)'
  <2>1. d.packet.by \in Handles
    BY Zenon DEF Datagrams, Packets
  <2> QED BY <1>2, <2>1, Zenon DEF Settled, Genuine
<1> QED BY <1>1, <1>2, Zenon

\* A step that changes only the stream n keeps the others right.
LEMMA StreamsKept ==
  ASSUME StreamsRight, NEW n \in Handles, StreamRight(n)',
         \A h \in Handles : h # n => /\ phase'[h] = phase[h] /\ conn'[h] = conn[h]
                                      /\ ack_number'[h] = ack_number[h]
  PROVE  StreamsRight'
<1> SUFFICES ASSUME NEW h \in Handles, Used(h)', h # n PROVE StreamRight(h)'
  BY Zenon DEF StreamsRight
<1>1. Used(h)
  BY Zenon DEF Used
<1>2. StreamRight(h)
  BY <1>1, Zenon DEF StreamsRight
<1> QED BY <1>2, Zenon DEF StreamRight

\* The types that the steps below need.
LEMMA HandshakeTypes ==
  ASSUME TypeOK
  PROVE  /\ \A a \in Addrs : /\ wire[a] \in Seq(Datagrams) /\ syn_queue[a] \in Seq(Datagrams)
                             /\ \A i \in DOMAIN wire[a] : wire[a][i] \in Datagrams
                             /\ \A i \in DOMAIN syn_queue[a] : syn_queue[a][i] \in Datagrams
         /\ \A h \in Handles : /\ Used(h) => conn[h] \in Conns
                               /\ mailbox[h] \in Seq(Packets)
                               /\ \A i \in DOMAIN mailbox[h] : mailbox[h][i] \in Packets
                               /\ phase[h] \in Phases
         /\ \A d \in Datagrams : d.packet \in Packets /\ d.packet.by \in Handles /\ d.from \in Addrs
         /\ \A p \in Packets : p.by \in Handles
<1>1. /\ \A a \in Addrs : wire[a] \in Seq(Datagrams) /\ syn_queue[a] \in Seq(Datagrams)
      /\ \A h \in Handles : mailbox[h] \in Seq(Packets) /\ phase[h] \in Phases
      /\ \A h \in Handles : phase[h] # "unused" => conn[h] \in Conns
  BY Zenon DEF TypeOK
<1>2. ASSUME NEW S, NEW s \in Seq(S) PROVE \A i \in DOMAIN s : s[i] \in S
  BY LenProperties, ElementOfSeq, Zenon
<1>3. \A d \in Datagrams : d.packet \in Packets /\ d.from \in Addrs
  BY Zenon DEF Datagrams
<1>4. \A p \in Packets : p.by \in Handles
  BY Zenon DEF Packets
<1>5. \A a \in Addrs : /\ \A i \in DOMAIN wire[a] : wire[a][i] \in Datagrams
                       /\ \A i \in DOMAIN syn_queue[a] : syn_queue[a][i] \in Datagrams
  BY <1>1, <1>2, Zenon
<1>6. \A h \in Handles : \A i \in DOMAIN mailbox[h] : mailbox[h][i] \in Packets
  BY <1>1, <1>2, Zenon
<1> QED BY <1>1, <1>3, <1>4, <1>5, <1>6, Zenon DEF Used

\* A stream has one peer: both would be registered under the same id and address.
LEMMA OnePeer ==
  ASSUME HandshakeInv, NEW g \in Handles, NEW h \in Handles, NEW k \in Handles,
         Used(h), Used(k), Paired(g, h), Paired(g, k)
  PROVE  h = k
<1>1. Live(h) /\ Live(k)
  BY Zenon DEF HandshakeInv, StreamsRight, StreamRight, Used, Live
<1>2. /\ conn[h].local = conn[k].local /\ conn[h].remote = conn[k].remote
      /\ conn[h].connection_id_recv = conn[k].connection_id_recv
  BY Zenon DEF Paired
<1>3. \A x \in {h, k} :
        routing_table[conn[x].local][Key(conn[x].connection_id_recv, conn[x].remote)] = x
  BY <1>1, Zenon DEF HandshakeInv, LiveIsRouted
<1> QED BY <1>2, <1>3, Zenon

\* The first element of a queue.
LEMMA QueueHead ==
  ASSUME NEW S, NEW q \in Seq(S), q # << >>
  PROVE  1 \in DOMAIN q /\ Head(q) = q[1]
<1>1. Len(q) \in Nat /\ DOMAIN q = 1 .. Len(q) /\ Len(q) # 0
  BY LenProperties, EmptySeq, Zenon
<1> QED BY <1>1, HeadTailProperties

\* A datagram that is sent comes behind those that are under way.
LEMMA SentBehind ==
  ASSUME TypeOK, NEW from \in Addrs, NEW to \in Addrs, NEW packet \in Packets,
         SendTo(from, to, packet), NEW a \in Addrs
  PROVE  /\ DOMAIN wire[a] \subseteq DOMAIN wire'[a]
         /\ \A i \in DOMAIN wire[a] : wire'[a][i] = wire[a][i]
         /\ \A i \in DOMAIN wire'[a] \ DOMAIN wire[a] :
              a = to /\ wire'[a][i] = [from |-> from, packet |-> packet]
         /\ a = to => \E n \in DOMAIN wire'[a] : /\ wire'[a][n] = [from |-> from, packet |-> packet]
                                                 /\ \A i \in 1 .. n - 1 : i \in DOMAIN wire[a]
<1> DEFINE d == [from |-> from, packet |-> packet]
           s == wire[to]
<1>1. d \in Datagrams /\ s \in Seq(Datagrams) /\ DOMAIN wire = Addrs
  BY Zenon DEF Datagrams, TypeOK
<1>2. wire'[to] = Append(s, d) /\ \A b \in Addrs : b # to => wire'[b] = wire[b]
  BY <1>1, Zenon DEF SendTo
<1> HIDE DEF d, s
<1>3. /\ DOMAIN s = 1 .. Len(s) /\ Len(s) \in Nat
      /\ DOMAIN Append(s, d) = 1 .. Len(s) + 1
      /\ \A i \in 1 .. Len(s) : Append(s, d)[i] = s[i]
      /\ Append(s, d)[Len(s) + 1] = d
  <2>1. DOMAIN s = 1 .. Len(s) /\ Len(s) \in Nat
    BY <1>1, LenProperties, Zenon
  <2>2. Append(s, d) \in Seq(Datagrams) /\ Len(Append(s, d)) = Len(s) + 1
    BY <1>1, AppendProperties, Zenon
  <2>3. DOMAIN Append(s, d) = 1 .. Len(s) + 1
    BY <2>2, LenProperties, Zenon
  <2> QED BY <1>1, <2>1, <2>3, AppendProperties
<1>4. CASE a # to
  BY <1>2, <1>4, Zenon
<1>5. CASE a = to
  <2>1. wire[a] = s /\ wire'[a] = Append(s, d)
    BY <1>2, <1>5, Zenon DEF s
  <2>2. \A i \in DOMAIN wire'[a] \ DOMAIN wire[a] : i = Len(s) + 1
    BY <1>3, <2>1
  <2>3. Len(s) + 1 \in DOMAIN wire'[a] /\ \A i \in 1 .. (Len(s) + 1) - 1 : i \in DOMAIN wire[a]
    BY <1>3, <2>1
  <2> QED BY <1>3, <1>5, <2>1, <2>2, <2>3 DEF d
<1> QED BY <1>4, <1>5, Zenon

\* It is the last one.
LEMMA SentLast ==
  ASSUME TypeOK, NEW from \in Addrs, NEW to \in Addrs, NEW packet \in Packets,
         SendTo(from, to, packet)
  PROVE  \E n \in DOMAIN wire'[to] : /\ wire'[to][n] = [from |-> from, packet |-> packet]
                                     /\ \A i \in 1 .. n - 1 : i \in DOMAIN wire[to]
BY SentBehind

\* What is on the wire stays where it is.
LEMMA SentKeeps ==
  ASSUME TypeOK, NEW from \in Addrs, NEW to \in Addrs, NEW packet \in Packets,
         SendTo(from, to, packet), NEW a \in Addrs
  PROVE  /\ DOMAIN wire[a] \subseteq DOMAIN wire'[a]
         /\ \A i \in DOMAIN wire[a] : wire'[a][i] = wire[a][i]
BY SentBehind

\* And when another datagram is taken out at the front.
LEMMA FirstTakenOut ==
  ASSUME NEW s \in Seq(Datagrams), 1 \in DOMAIN s
  PROVE  /\ DOMAIN RemoveAt(s, 1) = 1 .. Len(s) - 1
         /\ \A i \in 1 .. Len(s) - 1 : RemoveAt(s, 1)[i] = s[i + 1] /\ i + 1 \in DOMAIN s
         /\ \A g \in Handles : AnswerComesFirst(s, g) /\ ~ Answers(s[1].packet, g) =>
              AnswerComesFirst(RemoveAt(s, 1), g)
<1> DEFINE y == SubSeq(s, 2, Len(s))
           t == RemoveAt(s, 1)
<1>1. DOMAIN s = 1 .. Len(s) /\ Len(s) \in Nat /\ Len(s) >= 1
  BY LenProperties
<1>2. y \in Seq(Datagrams) /\ Len(y) = Len(s) - 1 /\ \A i \in 1 .. Len(s) - 1 : y[i] = s[i + 1]
  <2>1. \A i \in 2 .. Len(s) : s[i] \in Datagrams
    BY <1>1, ElementOfSeq
  <2> QED BY <1>1, <2>1, SubSeqProperties
<1>3. t = y
  <2>1. t = SubSeq(s, 1, 0) \o y
    BY DEF RemoveAt
  <2>2. SubSeq(s, 1, 0) = << >>
    BY SubSeqProperties, <1>1
  <2> HIDE DEF y
  <2> QED BY <1>2, <2>1, <2>2, ConcatEmptySeq, Zenon
<1>4. DOMAIN t = 1 .. Len(s) - 1 /\ \A i \in 1 .. Len(s) - 1 : t[i] = s[i + 1] /\ i + 1 \in DOMAIN s
  <2> HIDE DEF y, t
  <2> QED BY <1>1, <1>2, <1>3, LenProperties
<1> HIDE DEF t, y
<1>5. ASSUME NEW g \in Handles, AnswerComesFirst(s, g), ~ Answers(s[1].packet, g)
      PROVE  AnswerComesFirst(t, g)
  <2>1. PICK j \in DOMAIN s : Answers(s[j].packet, g) /\ \A i \in 1 .. j - 1 : s[i].packet.by # g
    BY <1>5, Zenon DEF AnswerComesFirst
  <2>2. j # 1 /\ j - 1 \in DOMAIN t /\ t[j - 1] = s[j]
    BY <1>1, <1>4, <1>5, <2>1
  <2>3. \A i \in 1 .. (j - 1) - 1 : t[i].packet.by # g
    <3> TAKE i \in 1 .. (j - 1) - 1
    <3>1. i + 1 \in 1 .. j - 1 /\ i \in 1 .. Len(s) - 1
      BY <1>1, <2>1, <2>2
    <3> QED BY <1>4, <2>1, <3>1, Zenon
  <2> QED BY <2>1, <2>2, <2>3, Zenon DEF AnswerComesFirst
<1> QED BY <1>4, <1>5, Zenon DEF t

\* Genuine datagrams stay so.
LEMMA DatagramsKept ==
  ASSUME HandshakeInv, Settled,
         \A a \in Addrs, d \in Datagrams : UnderWay(a, d)' => UnderWay(a, d) \/ Genuine(a, d)',
         \A a \in Addrs, d \in Datagrams :
           Queued(a, d)' => Queued(a, d) \/ (Genuine(a, d)' /\ d.packet.type = "Syn")
  PROVE  DatagramsGenuine'
BY SettledKeeps, Zenon DEF DatagramsGenuine, HandshakeInv

\* Packets stay in the mailbox that they were meant for.
LEMMA MailboxesKept ==
  ASSUME HandshakeInv, Settled,
         \A h \in Handles : \A i \in DOMAIN mailbox'[h] :
           \/ \E j \in DOMAIN mailbox[h] : mailbox'[h][i] = mailbox[h][j]
           \/ LET g == mailbox'[h][i].by IN
                g \in Handles /\ Used(h) /\ phase[g] = "open" /\ Paired(g, h)
  PROVE  MailboxesRight'
<1>1. TypeOK /\ MailboxesRight
  BY Zenon DEF HandshakeInv
<1>2. ASSUME NEW h \in Handles, NEW i \in DOMAIN mailbox'[h]
      PROVE  /\ Used(h)'
             /\ phase'[mailbox'[h][i].by] = "open"
             /\ Paired(mailbox[h][i].by, h)'
  <2> DEFINE g == mailbox'[h][i].by
  <2>1. g \in Handles /\ Used(h) /\ phase[g] = "open" /\ Paired(g, h)
    <3>1. ASSUME NEW j \in DOMAIN mailbox[h], mailbox'[h][i] = mailbox[h][j]
          PROVE  g \in Handles /\ Used(h) /\ phase[g] = "open" /\ Paired(g, h)
      BY <1>1, <3>1, HandshakeTypes, Zenon DEF MailboxesRight
    <3> QED BY <3>1, Zenon
  <2>2. Used(g)
    BY <2>1, Zenon DEF Used
  <2>3. Used(h)' /\ phase'[g] = "open" /\ conn'[g] = conn[g] /\ conn'[h] = conn[h]
    BY <2>1, <2>2, Zenon DEF Settled
  <2> QED BY <2>1, <2>3, Zenon DEF Paired
<1> QED BY <1>2, Zenon DEF MailboxesRight

\* What is agreed on stays agreed on.
LEMMA AgreementKept ==
  ASSUME HandshakeInv, Settled,
         \A h \in Handles : phase[h] = "open" => ack_number'[h] = ack_number[h],
         \A h \in Handles : phase'[h] = "open" /\ conn'[h].role = "connect" =>
           \/ phase[h] = "open"
           \/ \E g \in Handles : /\ phase[g] = "open" /\ conn[g].role = "accept"
                                 /\ Used(h) /\ Paired(g, h)
                                 /\ ack_number'[h] = conn[g].isn
                                 /\ ack_number[g] = conn[h].isn
  PROVE  HandshakeAgrees'
<1>1. HandshakeAgrees
  BY Zenon DEF HandshakeInv
<1> SUFFICES ASSUME NEW h \in Handles, phase'[h] = "open", conn'[h].role = "connect"
             PROVE  \E g \in Handles :
                      /\ phase'[g] = "open" /\ conn'[g].role = "accept"
                      /\ Paired(g, h)'
                      /\ ack_number'[h] = conn'[g].isn
                      /\ ack_number'[g] = conn'[h].isn
  BY Zenon DEF HandshakeAgrees
<1>2. PICK g \in Handles : /\ phase[g] = "open" /\ conn[g].role = "accept"
                           /\ Used(h) /\ Paired(g, h)
                           /\ ack_number'[h] = conn[g].isn
                           /\ ack_number[g] = conn[h].isn
  <2>1. CASE phase[h] = "open"
    <3>1. Used(h) /\ conn'[h] = conn[h]
      BY <2>1, Zenon DEF Used, Settled
    <3> QED BY <1>1, <2>1, <3>1 DEF HandshakeAgrees
  <2> QED BY <2>1, Zenon
<1>3. Used(g) /\ phase'[g] = "open" /\ conn'[g] = conn[g] /\ conn'[h] = conn[h]
  BY <1>2, Zenon DEF Used, Settled
<1>4. Paired(g, h)'
  BY <1>2, <1>3, Zenon DEF Paired
<1> QED BY <1>2, <1>3, <1>4, Zenon

\* Open streams keep their peers.
LEMMA PeersKept ==
  ASSUME HandshakeInv, Settled,
         \A g \in Handles : phase'[g] = "open" =>
           phase[g] = "open" \/ \E h \in Handles : Used(h)' /\ Paired(g, h)'
  PROVE  PeersExist'
<1>1. PeersExist
  BY Zenon DEF HandshakeInv
<1>2. ASSUME NEW g \in Handles, phase[g] = "open" PROVE \E h \in Handles : Used(h)' /\ Paired(g, h)'
  <2>1. PICK h \in Handles : Used(h) /\ Paired(g, h)
    BY <1>1, <1>2, Zenon DEF PeersExist
  <2>2. Used(g)
    BY <1>2, Zenon DEF Used
  <2>3. Used(h)' /\ Paired(g, h)'
    BY <2>1, <2>2, SettledKeeps, Zenon DEF Settled
  <2> QED BY <2>3, Zenon
<1> QED BY <1>2, Zenon DEF PeersExist

\* The first packet in the mailbox of a connect that waits stays the answer.
LEMMA HeadKept ==
  ASSUME HandshakeInv, Settled, NEW h \in Handles, phase[h] = "connecting",
         mailbox[h] # << >>, Head(mailbox'[h]) = Head(mailbox[h])
  PROVE  FoundAnswer(h)'
<1> DEFINE p == Head(mailbox[h])
<1>1. conn[p.by].role = "accept" /\ Answers(p, p.by)
  BY Zenon DEF HandshakeInv, AnswersFirst, FoundAnswer
<1>2. mailbox[h] \in Seq(Packets)
  BY HandshakeTypes, Zenon DEF HandshakeInv
<1>3. 1 \in DOMAIN mailbox[h] /\ p = mailbox[h][1] /\ p \in Packets
  BY <1>2, HeadTailProperties, LenProperties, EmptySeq
<1>4. p.by \in Handles /\ Used(p.by)
  BY <1>3, Zenon DEF HandshakeInv, MailboxesRight, Used, Packets
<1>5. conn'[p.by] = conn[p.by]
  BY <1>4, Zenon DEF Settled
<1> QED BY <1>1, <1>5, Zenon DEF Answers, FoundAnswer

\* A new datagram is the only one that is under way and was not.
LEMMA SentUnderWay ==
  ASSUME TypeOK, NEW from \in Addrs, NEW to \in Addrs, NEW packet \in Packets,
         SendTo(from, to, packet), NEW a \in Addrs, NEW d \in Datagrams, UnderWay(a, d)'
  PROVE  UnderWay(a, d) \/ (a = to /\ d = [from |-> from, packet |-> packet])
<1>1. PICK i \in DOMAIN wire'[a] : wire'[a][i] = d
  BY Zenon DEF UnderWay
<1> DEFINE new == [from |-> from, packet |-> packet]
<1>4. /\ \A j \in DOMAIN wire[a] : wire'[a][j] = wire[a][j]
      /\ \A j \in DOMAIN wire'[a] \ DOMAIN wire[a] : a = to /\ wire'[a][j] = new
  BY SentBehind
<1> HIDE DEF new
<1>2. CASE i \in DOMAIN wire[a]
  <2>1. UnderWay(a, d)
    BY <1>1, <1>2, <1>4, Zenon DEF UnderWay
  <2> QED BY <2>1, Zenon
<1>3. CASE i \notin DOMAIN wire[a]
  <2>1. a = to /\ d = new
    BY <1>1, <1>3, <1>4, Zenon
  <2> QED BY <2>1, Zenon DEF new
<1> QED BY <1>2, <1>3, Zenon

\* A connect that waits with an empty mailbox: datagrams that are added behind change nothing.
LEMMA AnswerKept ==
  ASSUME HandshakeInv, Settled, NEW from \in Addrs, NEW to \in Addrs, NEW packet \in Packets,
         SendTo(from, to, packet),
         NEW h \in Handles, phase[h] = "connecting", mailbox[h] = << >>,
         NEW g \in Handles, Used(g), conn[g].role = "accept", Paired(g, h)
  PROVE  AnswerComesFirst(wire[conn[h].local], g)'
<1> DEFINE s == wire[conn[h].local]
           t == wire'[conn[h].local]
<1>1. TypeOK /\ AnswersFirst /\ Used(h)
  BY Zenon DEF HandshakeInv, Used
<1>2. AnswerComesFirst(s, g)
  BY <1>1, Zenon DEF AnswersFirst
<1>3. conn[h].local \in Addrs
  BY <1>1, HandshakeTypes, Zenon DEF Conns
<1>4. s \in Seq(Datagrams) /\ DOMAIN s \subseteq DOMAIN t /\ \A i \in DOMAIN s : t[i] = s[i]
  <2>1. s \in Seq(Datagrams)
    BY <1>1, <1>3, HandshakeTypes, Zenon
  <2>2. DOMAIN s \subseteq DOMAIN t /\ \A i \in DOMAIN s : t[i] = s[i]
    BY <1>1, <1>3, SentKeeps, Zenon
  <2> QED BY <2>1, <2>2, Zenon
<1>5. conn'[g] = conn[g] /\ conn'[h] = conn[h]
  BY <1>1, Zenon DEF Settled
<1>6. PICK j \in DOMAIN s : Answers(s[j].packet, g) /\ \A i \in 1 .. j - 1 : s[i].packet.by # g
  BY <1>2, Zenon DEF AnswerComesFirst
<1>7. DOMAIN s = 1 .. Len(s) /\ Len(s) \in Nat
  BY <1>4, LenProperties, Zenon
<1>8. \A i \in 1 .. j - 1 : i \in DOMAIN s
  <2> HIDE DEF s
  <2>1. j \in 1 .. Len(s)
    BY <1>7, Zenon
  <2> DEFINE l == Len(s)
  <2>2. l \in Nat /\ j \in 1 .. l
    BY <1>7, <2>1, Zenon
  <2> HIDE DEF l
  <2>3. \A i \in 1 .. j - 1 : i \in 1 .. l
    BY <2>2
  <2> QED BY <1>7, <2>3, Zenon DEF l
<1>9. /\ j \in DOMAIN t
      /\ t[j].packet.type = "State" /\ t[j].packet.by = g /\ t[j].packet.seq_number = conn'[g].isn
      /\ \A i \in 1 .. j - 1 : t[i].packet.by # g
  BY <1>4, <1>5, <1>6, <1>8, Zenon DEF Answers
<1> QED BY <1>5, <1>9, Zenon DEF AnswerComesFirst, Answers

\* Nothing waits in the mailbox of a handle that is not in use.
LEMMA UnusedEmpty ==
  ASSUME HandshakeInv, NEW h \in Handles, ~ Used(h)
  PROVE  mailbox[h] = << >>
<1>1. mailbox[h] \in Seq(Packets) /\ DOMAIN mailbox[h] = {}
  BY HandshakeTypes, Zenon DEF HandshakeInv, MailboxesRight
<1>2. Len(mailbox[h]) \in Nat /\ DOMAIN mailbox[h] = 1 .. Len(mailbox[h])
  BY <1>1, LenProperties, Zenon
<1>3. 1 \notin 1 .. Len(mailbox[h])
  BY <1>1, <1>2, Zenon
<1>4. Len(mailbox[h]) = 0
  BY <1>2, <1>3
<1> QED BY <1>1, <1>4, EmptySeq, Zenon

\* connect.
LEMMA HandshakeConnect ==
  ASSUME HandshakeInv, TypeOK', LiveIsRouted',
         NEW pair \in Connects, NEW id \in Ids, NEW n \in Handles, Connect(pair[1], pair[2], id, n)
  PROVE  HandshakeInv'
<1> DEFINE a == pair[1]
           b == pair[2]
           record == [local |-> a, remote |-> b, role |-> "connect", connection_id_recv |-> id,
                      connection_id_send |-> WrappingAdd(id, 1), isn |-> 1]
<1>1. TypeOK /\ a \in Addrs /\ b \in Addrs /\ id \in SeqNumbers
  BY ConnectAssumption, Zenon DEF HandshakeInv
<1>2. /\ ~ Used(n) /\ ~ Occupied(a, Key(id, b))
      /\ phase' = [phase EXCEPT ![n] = "connecting"] /\ conn' = [conn EXCEPT ![n] = record]
      /\ SendTo(a, b, Syn(id, n))
      /\ UNCHANGED <<syn_queue, ack_number, mailbox>>
  BY Zenon DEF Connect, Fresh, Used
<1>3. Syn(id, n) \in Packets
  BY <1>1, NumberType, Zenon DEF Syn, Packets
<1> HIDE DEF a, b
<1>4. /\ record.local = a /\ record.remote = b /\ record.role = "connect"
      /\ record.connection_id_recv = id /\ record.connection_id_send = WrappingAdd(id, 1)
      /\ record.isn = 1
  BY Zenon
<1> HIDE DEF record
<1>5. /\ phase'[n] = "connecting" /\ conn'[n] = record
      /\ \A h \in Handles : h # n => phase'[h] = phase[h] /\ conn'[h] = conn[h]
  BY <1>1, <1>2, Zenon DEF TypeOK
<1>6. Settled
  BY <1>2, <1>5, Zenon DEF Settled, Used
<1>7. StreamsRight'
  <2>1. StreamRight(n)'
    BY <1>4, <1>5, Zenon DEF StreamRight
  <2> QED BY <1>2, <1>5, <2>1, StreamsKept, Zenon DEF HandshakeInv
<1>8. PeersExist'
  BY <1>5, <1>6, PeersKept, Zenon
<1>9. DatagramsGenuine'
  <2>1. ASSUME NEW c \in Addrs, NEW d \in Datagrams, UnderWay(c, d)'
        PROVE  UnderWay(c, d) \/ Genuine(c, d)'
    <3>1. ASSUME c = b, d = [from |-> a, packet |-> Syn(id, n)] PROVE Genuine(c, d)'
      <4>1. d.from = a /\ d.packet.by = n /\ d.packet.type = "Syn" /\ d.packet.connection_id = id
            /\ d.packet.seq_number = 1
        BY <3>1, Zenon DEF Syn
      <4> QED BY <1>4, <1>5, <3>1, <4>1, Zenon DEF Genuine, Used
    <3> QED BY <1>1, <1>2, <1>3, <2>1, <3>1, SentUnderWay, Zenon
  <2>2. \A c \in Addrs, d \in Datagrams :
          Queued(c, d)' => Queued(c, d) \/ (Genuine(c, d)' /\ d.packet.type = "Syn")
    BY <1>2, Zenon DEF Queued
  <2> QED BY <1>6, <2>1, <2>2, DatagramsKept, Zenon
<1>10. MailboxesRight'
  BY <1>2, <1>6, MailboxesKept, Zenon
<1>11. AnswersFirst'
  <2> SUFFICES ASSUME NEW h \in Handles, phase'[h] = "connecting"
               PROVE  /\ mailbox'[h] # << >> => FoundAnswer(h)'
                      /\ mailbox'[h] = << >> =>
                           \A g \in Handles :
                             Used(g)' /\ conn'[g].role = "accept" /\ Paired(g, h)' =>
                               AnswerComesFirst(wire[conn[h].local], g)'
    BY Zenon DEF AnswersFirst
  <2>1. CASE h = n
    <3>1. mailbox'[h] = << >>
      BY <1>2, <2>1, UnusedEmpty, Zenon
    <3>2. ASSUME NEW g \in Handles, Used(g)', conn'[g].role = "accept", Paired(g, h)' PROVE FALSE
      <4>1. g # n
        BY <1>4, <1>5, <3>2, Zenon
      <4>2. Used(g) /\ conn'[g] = conn[g]
        BY <1>5, <3>2, <4>1, Zenon DEF Used
      <4>3. phase[g] = "open"
        BY <3>2, <4>2, Zenon DEF HandshakeInv, StreamsRight, StreamRight
      <4>4. PICK k \in Handles : Used(k) /\ Paired(g, k)
        BY <4>3, Zenon DEF HandshakeInv, PeersExist
      <4>5. Live(k)
        BY <4>4, Zenon DEF HandshakeInv, StreamsRight, StreamRight, Live
      <4>6. Occupied(conn[k].local, Key(conn[k].connection_id_recv, conn[k].remote))
        BY <4>5, Zenon DEF HandshakeInv, LiveIsRouted
      <4>7. conn[k].local = a /\ conn[k].connection_id_recv = id /\ conn[k].remote = b
        BY <1>4, <1>5, <2>1, <3>2, <4>2, <4>4, Zenon DEF Paired
      <4> QED BY <1>2, <4>6, <4>7, Zenon
    <3> QED BY <3>1, <3>2, Zenon
  <2>2. CASE h # n
    <3>1. phase[h] = "connecting" /\ conn'[h] = conn[h] /\ Used(h) /\ mailbox'[h] = mailbox[h]
      BY <1>2, <1>5, <2>2, Zenon DEF Used
    <3>2. ASSUME mailbox'[h] = << >>,
                 NEW g \in Handles, Used(g)', conn'[g].role = "accept", Paired(g, h)'
          PROVE  AnswerComesFirst(wire[conn[h].local], g)'
      <4>1. g # n
        BY <1>4, <1>5, <3>2, Zenon
      <4>2. Used(g) /\ conn'[g] = conn[g]
        BY <1>5, <3>2, <4>1, Zenon DEF Used
      <4>3. Paired(g, h)
        BY <1>6, <3>1, <3>2, <4>2, SettledKeeps, Zenon
      <4> QED BY <1>1, <1>2, <1>3, <1>6, <3>1, <3>2, <4>2, <4>3, AnswerKept, Zenon
    <3>3. ASSUME mailbox'[h] # << >>
          PROVE  FoundAnswer(h)'
      BY <1>6, <3>1, <3>3, HeadKept, Zenon
    <3> QED BY <3>2, <3>3, Zenon
  <2> QED BY <2>1, <2>2, Zenon
<1>12. HandshakeAgrees'
  BY <1>2, <1>5, <1>6, AgreementKept, Zenon
<1> QED BY <1>7, <1>8, <1>9, <1>10, <1>11, <1>12, Zenon DEF HandshakeInv

\* What is behind the first of a queue.
LEMMA TailElements ==
  ASSUME NEW S, NEW q \in Seq(S), q # << >>
  PROVE  \A i \in DOMAIN Tail(q) : i + 1 \in DOMAIN q /\ Tail(q)[i] = q[i + 1]
<1>1. /\ Tail(q) \in Seq(S) /\ Len(Tail(q)) = Len(q) - 1
      /\ \A i \in 1 .. Len(Tail(q)) : Tail(q)[i] = q[i + 1]
  BY HeadTailProperties, Zenon
<1>2. Len(q) \in Nat /\ DOMAIN q = 1 .. Len(q) /\ DOMAIN Tail(q) = 1 .. Len(Tail(q))
  BY <1>1, LenProperties, Zenon
<1> QED BY <1>1, <1>2

\* accept.
LEMMA HandshakeAccept ==
  ASSUME HandshakeInv, TypeOK', LiveIsRouted',
         NEW a \in Addrs, NEW s \in InitialSeqs, NEW n \in Handles, Accept(a, s, n)
  PROVE  HandshakeInv'
<1> DEFINE syn == Head(syn_queue[a])
           id  == syn.packet.connection_id
           ack == syn.packet.seq_number
           k   == syn.packet.by
           to  == syn.from
           record == [local |-> a, remote |-> to, role |-> "accept",
                      connection_id_recv |-> IdRecv(syn), connection_id_send |-> id, isn |-> s]
           answer == SynAck(id, s, ack, n)
<1>1. TypeOK /\ s \in SeqNumbers
  BY ConnectAssumption, Zenon DEF HandshakeInv
<1>2. /\ syn_queue[a] # << >> /\ syn_queue' = [syn_queue EXCEPT ![a] = Tail(@)]
      /\ ~ Used(n)
      /\ phase' = [phase EXCEPT ![n] = "open"] /\ conn' = [conn EXCEPT ![n] = record]
      /\ ack_number' = [ack_number EXCEPT ![n] = ack]
      /\ SendTo(a, to, answer)
      /\ UNCHANGED mailbox
  BY Zenon DEF Accept, Fresh, GetSyn, Used
<1>3. syn_queue[a] \in Seq(Datagrams) /\ 1 \in DOMAIN syn_queue[a] /\ syn = syn_queue[a][1]
  <2>1. syn_queue[a] \in Seq(Datagrams)
    BY <1>1, HandshakeTypes, Zenon
  <2> QED BY <1>2, <2>1, QueueHead, Zenon
<1>4. syn \in Datagrams /\ Queued(a, syn)
  BY <1>1, <1>3, HandshakeTypes, Zenon DEF Queued
<1>5. Genuine(a, syn) /\ syn.packet.type = "Syn"
  BY <1>4, Zenon DEF HandshakeInv, DatagramsGenuine
<1> HIDE DEF syn
<1>6. /\ k \in Handles /\ to \in Addrs /\ id \in SeqNumbers /\ ack \in SeqNumbers
      /\ IdRecv(syn) = WrappingAdd(id, 1)
  BY <1>4, Zenon DEF Datagrams, Packets, IdRecv
<1>7. /\ Used(k) /\ conn[k].local = to /\ conn[k].remote = a /\ conn[k].role = "connect"
      /\ conn[k].connection_id_recv = id /\ ack = 1
  BY <1>5, Zenon DEF Genuine
<1>8. conn[k].connection_id_send = WrappingAdd(id, 1)
  BY <1>6, <1>7, Zenon DEF HandshakeInv, StreamsRight, StreamRight
<1>9. /\ record.local = a /\ record.remote = to /\ record.role = "accept"
      /\ record.connection_id_recv = WrappingAdd(id, 1) /\ record.connection_id_send = id
      /\ record.isn = s
  BY <1>6, Zenon
<1>10. /\ answer \in Packets /\ answer.by = n /\ answer.type = "State"
       /\ answer.seq_number = s /\ answer.connection_id = id
  BY <1>1, <1>6, Zenon DEF SynAck, Packets
<1> HIDE DEF id, ack, k, to, record, answer
<1>11. /\ phase'[n] = "open" /\ conn'[n] = record /\ ack_number'[n] = 1
       /\ \A h \in Handles : h # n => /\ phase'[h] = phase[h] /\ conn'[h] = conn[h]
                                      /\ ack_number'[h] = ack_number[h]
  BY <1>1, <1>2, <1>7, Zenon DEF TypeOK
<1>12. Settled /\ k # n
  BY <1>2, <1>7, <1>11, Zenon DEF Settled, Used
<1>13. StreamsRight'
  <2>1. StreamRight(n)'
    BY <1>9, <1>11, Zenon DEF StreamRight
  <2> QED BY <1>11, <2>1, StreamsKept, Zenon DEF HandshakeInv
<1>14. PeersExist'
  <2>1. phase'[k] # "unused" /\ conn'[k] = conn[k]
    BY <1>6, <1>7, <1>12, Zenon DEF Settled, Used
  <2>2. /\ conn'[n].local = conn'[k].remote /\ conn'[n].remote = conn'[k].local
        /\ conn'[n].connection_id_send = conn'[k].connection_id_recv
        /\ conn'[k].connection_id_send = conn'[n].connection_id_recv
    BY <1>7, <1>8, <1>9, <1>11, <2>1, Zenon
  <2>3. PICK m \in Handles : m = k
    BY <1>6, Zenon
  <2>4. Used(m)' /\ Paired(n, m)'
    BY <2>1, <2>2, <2>3, Zenon DEF Paired, Used
  <2> QED BY <1>11, <1>12, <2>4, PeersKept, Zenon
<1>15. DatagramsGenuine'
  <2> DEFINE new == [from |-> a, packet |-> answer]
  <2>1. ASSUME NEW c \in Addrs, NEW d \in Datagrams, UnderWay(c, d)'
        PROVE  UnderWay(c, d) \/ Genuine(c, d)'
    <3>1. ASSUME c = to, d = new PROVE Genuine(c, d)'
      <4>1. d.from = a /\ d.packet.by = n /\ d.packet.type = "State" /\ d.packet.connection_id = id
        BY <1>10, <3>1, Zenon
      <4> QED BY <1>9, <1>11, <3>1, <4>1, Zenon DEF Genuine, Used
    <3>2. UnderWay(c, d) \/ (c = to /\ d = new)
      BY <1>1, <1>2, <1>6, <1>10, <2>1, SentUnderWay, Zenon
    <3> QED BY <3>1, <3>2, Zenon
  <2>2. ASSUME NEW c \in Addrs, NEW d \in Datagrams, Queued(c, d)' PROVE Queued(c, d)
    <3>1. PICK i \in DOMAIN syn_queue'[c] : syn_queue'[c][i] = d
      BY <2>2, Zenon DEF Queued
    <3>2. CASE c # a
      BY <1>2, <2>2, <3>2 DEF Queued
    <3>3. CASE c = a
      <4>1. syn_queue'[c] = Tail(syn_queue[a])
        BY <1>1, <1>2, <3>3, Zenon DEF TypeOK
      <4>2. i + 1 \in DOMAIN syn_queue[a] /\ Tail(syn_queue[a])[i] = syn_queue[a][i + 1]
        BY <1>2, <1>3, <3>1, <4>1, TailElements, Zenon
      <4> QED BY <3>1, <3>3, <4>1, <4>2, Zenon DEF Queued
    <3> QED BY <3>2, <3>3, Zenon
  <2> QED BY <1>12, <2>1, <2>2, DatagramsKept, Zenon
<1>16. MailboxesRight'
  BY <1>2, <1>12, MailboxesKept, Zenon
<1>17. AnswersFirst'
  <2> SUFFICES ASSUME NEW h \in Handles, phase'[h] = "connecting"
               PROVE  /\ mailbox'[h] # << >> => FoundAnswer(h)'
                      /\ mailbox'[h] = << >> =>
                           \A g \in Handles :
                             Used(g)' /\ conn'[g].role = "accept" /\ Paired(g, h)' =>
                               AnswerComesFirst(wire[conn[h].local], g)'
    BY Zenon DEF AnswersFirst
  <2>1. /\ h # n /\ phase[h] = "connecting" /\ conn'[h] = conn[h] /\ Used(h)
        /\ mailbox'[h] = mailbox[h]
    BY <1>2, <1>11, Zenon DEF Used
  <2>2. ASSUME mailbox'[h] = << >>,
               NEW g \in Handles, g # n, Used(g)', conn'[g].role = "accept", Paired(g, h)'
        PROVE  AnswerComesFirst(wire[conn[h].local], g)'
    <3>1. Used(g) /\ conn'[g] = conn[g]
      BY <1>11, <2>2, Zenon DEF Used
    <3>2. Paired(g, h)
      BY <1>12, <2>1, <2>2, <3>1, SettledKeeps, Zenon
    <3> QED BY <1>1, <1>2, <1>6, <1>10, <1>12, <2>1, <2>2, <3>1, <3>2, AnswerKept, Zenon
  <2>3. ASSUME Paired(n, h)' PROVE AnswerComesFirst(wire[conn[h].local], n)'
    <3>1. conn'[h].local = to
      BY <1>9, <1>11, <2>3, Zenon DEF Paired
    <3> DEFINE t == wire'[to]
               new == [from |-> a, packet |-> answer]
    <3>2. PICK j \in DOMAIN t : /\ t[j] = new
                                /\ \A i \in 1 .. j - 1 : i \in DOMAIN wire[to]
      <4>1. SendTo(a, to, answer) /\ to \in Addrs /\ answer \in Packets
        BY <1>2, <1>6, <1>10, Zenon
      <4> QED BY <1>1, <4>1, SentLast, Zenon
    <3>3. \A i \in DOMAIN wire[to] : t[i] = wire[to][i]
      <4>1. SendTo(a, to, answer) /\ to \in Addrs /\ answer \in Packets
        BY <1>2, <1>6, <1>10, Zenon
      <4> QED BY <1>1, <4>1, SentKeeps, Zenon
    <3>4. \A i \in DOMAIN wire[to] : wire[to][i].packet.by # n
      <4> TAKE i \in DOMAIN wire[to]
      <4>1. wire[to][i] \in Datagrams /\ UnderWay(to, wire[to][i])
        BY <1>1, <1>6, HandshakeTypes, Zenon DEF UnderWay
      <4>2. Genuine(to, wire[to][i])
        BY <1>6, <4>1, Zenon DEF HandshakeInv, DatagramsGenuine
      <4> QED BY <1>2, <4>2, Zenon DEF Genuine
    <3>5. \A i \in 1 .. j - 1 : t[i].packet.by # n
      BY <3>2, <3>3, <3>4, Zenon
    <3>6. /\ t[j].packet.type = "State" /\ t[j].packet.by = n
          /\ t[j].packet.seq_number = conn'[n].isn
      <4>1. new.packet = answer
        BY Zenon
      <4> HIDE DEF t, new
      <4> QED BY <1>9, <1>10, <1>11, <3>2, <4>1, Zenon
    <3> QED BY <3>1, <3>2, <3>5, <3>6, Zenon DEF AnswerComesFirst, Answers
  <2>4. ASSUME mailbox'[h] # << >>
        PROVE  FoundAnswer(h)'
    BY <1>12, <2>1, <2>4, HeadKept, Zenon
  <2> QED BY <2>2, <2>3, <2>4, Zenon
<1>18. HandshakeAgrees'
  BY <1>2, <1>9, <1>11, <1>12, AgreementKept, Zenon DEF Used
<1> QED BY <1>13, <1>14, <1>15, <1>16, <1>17, <1>18, Zenon DEF HandshakeInv

\* A stream that is open sends.
LEMMA HandshakeSends ==
  ASSUME HandshakeInv, TypeOK', LiveIsRouted',
         NEW n \in Handles, NEW type \in {"Data", "State"}, StreamSends(n, type)
  PROVE  HandshakeInv'
<1> DEFINE a == conn[n].local
           b == conn[n].remote
           packet == StreamPacket(type, n)
<1>1. /\ TypeOK /\ phase[n] = "open" /\ SendTo(a, b, packet)
      /\ UNCHANGED <<syn_queue, phase, conn, ack_number, mailbox>>
  BY Zenon DEF StreamSends, HandshakeInv
<1>2. conn[n] \in Conns
  BY <1>1, HandshakeTypes, Zenon DEF Used
<1>3. a \in Addrs /\ b \in Addrs /\ conn[n].connection_id_send \in SeqNumbers
  BY <1>2, Zenon DEF Conns
<1>4. /\ packet \in Packets /\ packet.by = n /\ packet.type # "Syn"
      /\ packet.connection_id = conn[n].connection_id_send
  BY <1>1, <1>3, Zenon DEF StreamPacket, Packets, TypeOK
<1> HIDE DEF packet
<1>5. Settled
  BY <1>1, Zenon DEF Settled, Used
<1>6. StreamsRight'
  BY <1>1, Zenon DEF HandshakeInv, StreamsRight, StreamRight, Used
<1>7. PeersExist'
  BY <1>1, <1>5, PeersKept, Zenon
<1>8. DatagramsGenuine'
  <2> DEFINE new == [from |-> a, packet |-> packet]
  <2>1. ASSUME NEW c \in Addrs, NEW d \in Datagrams, UnderWay(c, d)'
        PROVE  UnderWay(c, d) \/ Genuine(c, d)'
    <3>1. ASSUME c = b, d = new PROVE Genuine(c, d)'
      <4>1. /\ d.from = a /\ d.packet.by = n /\ d.packet.type # "Syn"
            /\ d.packet.connection_id = conn[n].connection_id_send
        BY <1>4, <3>1, Zenon
      <4> QED BY <1>1, <3>1, <4>1, Zenon DEF Genuine, Used
    <3>2. UnderWay(c, d) \/ (c = b /\ d = new)
      <4>1. a \in Addrs /\ b \in Addrs /\ packet \in Packets /\ SendTo(a, b, packet)
        BY <1>1, <1>3, <1>4, Zenon
      <4> HIDE DEF a, b
      <4> QED BY <1>1, <2>1, <4>1, SentUnderWay, Zenon
    <3> QED BY <3>1, <3>2, Zenon
  <2>2. \A c \in Addrs, d \in Datagrams :
          Queued(c, d)' => Queued(c, d) \/ (Genuine(c, d)' /\ d.packet.type = "Syn")
    BY <1>1, Zenon DEF Queued
  <2> QED BY <1>5, <2>1, <2>2, DatagramsKept, Zenon
<1>9. MailboxesRight'
  BY <1>1, <1>5, MailboxesKept, Zenon
<1>10. AnswersFirst'
  <2> SUFFICES ASSUME NEW h \in Handles, phase'[h] = "connecting"
               PROVE  /\ mailbox'[h] # << >> => FoundAnswer(h)'
                      /\ mailbox'[h] = << >> =>
                           \A g \in Handles :
                             Used(g)' /\ conn'[g].role = "accept" /\ Paired(g, h)' =>
                               AnswerComesFirst(wire[conn[h].local], g)'
    BY Zenon DEF AnswersFirst
  <2>1. phase[h] = "connecting" /\ Used(h) /\ mailbox'[h] = mailbox[h]
    BY <1>1, Zenon DEF Used
  <2>2. ASSUME mailbox'[h] = << >>,
               NEW g \in Handles, Used(g)', conn'[g].role = "accept", Paired(g, h)'
        PROVE  AnswerComesFirst(wire[conn[h].local], g)'
    <3>1. Used(g) /\ conn[g].role = "accept" /\ Paired(g, h)
      BY <1>1, <2>2, Zenon DEF Used, Paired
    <3> QED BY <1>1, <1>3, <1>4, <1>5, <2>1, <2>2, <3>1, AnswerKept, Zenon
  <2>3. ASSUME mailbox'[h] # << >>
        PROVE  FoundAnswer(h)'
    BY <1>5, <2>1, <2>3, HeadKept, Zenon
  <2> QED BY <2>2, <2>3, Zenon
<1>11. HandshakeAgrees'
  BY <1>1, <1>5, AgreementKept, Zenon
<1> QED BY <1>6, <1>7, <1>8, <1>9, <1>10, <1>11, Zenon DEF HandshakeInv

\* connect returns: what it finds in the mailbox is the answer.
LEMMA HandshakeConnected ==
  ASSUME HandshakeInv, TypeOK', LiveIsRouted', NEW n \in Handles, Connected(n)
  PROVE  HandshakeInv'
<1> DEFINE p == Head(mailbox[n])
           k == p.by
<1>1. /\ TypeOK /\ phase[n] = "connecting" /\ mailbox[n] # << >> /\ Used(n)
      /\ mailbox' = [mailbox EXCEPT ![n] = Tail(@)]
      /\ UNCHANGED <<syn_queue, conn, wire>>
  BY Zenon DEF Connected, HandshakeInv, Used
<1>2. mailbox[n] \in Seq(Packets) /\ 1 \in DOMAIN mailbox[n] /\ p = mailbox[n][1] /\ p \in Packets
  <2>1. mailbox[n] \in Seq(Packets) /\ \A i \in DOMAIN mailbox[n] : mailbox[n][i] \in Packets
    BY <1>1, HandshakeTypes, Zenon
  <2> QED BY <1>1, <2>1, QueueHead, Zenon
<1>3. conn[k].role = "accept" /\ p.type = "State" /\ p.seq_number = conn[k].isn
  BY <1>1, Zenon DEF HandshakeInv, AnswersFirst, FoundAnswer, Answers
<1>4. k \in Handles /\ phase[k] = "open" /\ Paired(k, n) /\ k # n /\ Used(k)
  BY <1>1, <1>2, Zenon DEF HandshakeInv, MailboxesRight, Packets, Used
<1>5. ack_number[k] = 1 /\ conn[n].role # "accept" /\ (conn[n].role = "connect" => conn[n].isn = 1)
  BY <1>1, <1>3, <1>4, Zenon DEF HandshakeInv, StreamsRight, StreamRight
<1>6. /\ phase' = [phase EXCEPT ![n] = "open"]
      /\ ack_number' = [ack_number EXCEPT ![n] = p.seq_number]
  BY <1>3, Zenon DEF Connected
<1> HIDE DEF p, k
<1>7. /\ phase'[n] = "open" /\ ack_number'[n] = p.seq_number
      /\ \A h \in Handles : h # n => /\ phase'[h] = phase[h] /\ ack_number'[h] = ack_number[h]
                                     /\ mailbox'[h] = mailbox[h]
      /\ mailbox'[n] = Tail(mailbox[n])
  BY <1>1, <1>6, Zenon DEF TypeOK
<1>8. Settled
  BY <1>1, <1>7, Zenon DEF Settled, Used
<1>9. StreamsRight'
  <2>1. StreamRight(n)
    BY <1>1, Zenon DEF HandshakeInv, StreamsRight
  <2>2. StreamRight(n)'
    BY <1>1, <1>5, <1>7, <2>1, Zenon DEF StreamRight
  <2> QED BY <1>1, <1>7, <2>2, StreamsKept, Zenon DEF HandshakeInv
<1>10. PeersExist'
  <2>1. PICK m \in Handles : m = k
    BY <1>4, Zenon
  <2>2. Used(m)' /\ Paired(n, m)'
    BY <1>1, <1>4, <1>8, <2>1, Zenon DEF Settled, Paired
  <2> QED BY <1>7, <1>8, <2>2, PeersKept, Zenon
<1>11. DatagramsGenuine'
  <2>1. \A c \in Addrs, d \in Datagrams : UnderWay(c, d)' => UnderWay(c, d) \/ Genuine(c, d)'
    BY <1>1, Zenon DEF UnderWay
  <2>2. \A c \in Addrs, d \in Datagrams :
          Queued(c, d)' => Queued(c, d) \/ (Genuine(c, d)' /\ d.packet.type = "Syn")
    BY <1>1, Zenon DEF Queued
  <2> QED BY <1>8, <2>1, <2>2, DatagramsKept, Zenon
<1>12. MailboxesRight'
  <2>1. ASSUME NEW h \in Handles, NEW i \in DOMAIN mailbox'[h]
        PROVE  \E j \in DOMAIN mailbox[h] : mailbox'[h][i] = mailbox[h][j]
    <3>1. CASE h # n
      BY <1>7, <2>1, <3>1, Zenon
    <3>2. CASE h = n
      <4>1. \A m \in DOMAIN Tail(mailbox[n]) :
              m + 1 \in DOMAIN mailbox[n] /\ Tail(mailbox[n])[m] = mailbox[n][m + 1]
        BY <1>1, <1>2, TailElements, Zenon
      <4> QED BY <1>7, <2>1, <3>2, <4>1, Zenon
    <3> QED BY <3>1, <3>2, Zenon
  <2> QED BY <1>8, <2>1, MailboxesKept, Zenon
<1>13. AnswersFirst'
  <2> SUFFICES ASSUME NEW h \in Handles, phase'[h] = "connecting"
               PROVE  /\ mailbox'[h] # << >> => FoundAnswer(h)'
                      /\ mailbox'[h] = << >> =>
                           \A g \in Handles :
                             Used(g)' /\ conn'[g].role = "accept" /\ Paired(g, h)' =>
                               AnswerComesFirst(wire[conn[h].local], g)'
    BY Zenon DEF AnswersFirst
  <2>1. h # n /\ phase[h] = "connecting" /\ Used(h) /\ mailbox'[h] = mailbox[h]
    BY <1>7, Zenon DEF Used
  <2>2. ASSUME mailbox'[h] = << >>,
               NEW g \in Handles, Used(g)', conn'[g].role = "accept", Paired(g, h)'
        PROVE  AnswerComesFirst(wire[conn[h].local], g)'
    <3>1. Used(g) /\ conn[g].role = "accept" /\ Paired(g, h)
      BY <1>1, <1>7, <2>2, Zenon DEF Used, Paired
    <3>2. AnswerComesFirst(wire[conn[h].local], g)
      BY <2>1, <2>2, <3>1, Zenon DEF HandshakeInv, AnswersFirst
    <3> QED BY <1>1, <3>2, Zenon DEF AnswerComesFirst, Answers
  <2>3. ASSUME mailbox'[h] # << >>
        PROVE  FoundAnswer(h)'
    BY <1>8, <2>1, <2>3, HeadKept, Zenon
  <2> QED BY <2>2, <2>3, Zenon
<1>14. HandshakeAgrees'
  BY <1>1, <1>3, <1>4, <1>5, <1>7, <1>8, AgreementKept, Zenon
<1> QED BY <1>9, <1>10, <1>11, <1>12, <1>13, <1>14, Zenon DEF HandshakeInv

\* A datagram that is no SYN goes into the mailbox of its sender's peer, for which it is the
\* answer when that one waits for it.
LEMMA Delivered ==
  ASSUME HandshakeInv, NEW a \in Addrs, 1 \in DOMAIN wire[a], wire[a][1].packet.type # "Syn",
         Route(a, wire[a][1])
  PROVE  LET p == wire[a][1].packet IN
         \E h \in Handles :
           /\ Used(h) /\ p \in Packets /\ phase[p.by] = "open" /\ Paired(p.by, h)
           /\ mailbox' = [mailbox EXCEPT ![h] = Append(@, p)]
           /\ syn_queue' = syn_queue
           /\ phase[h] = "connecting" /\ mailbox[h] = << >> =>
                conn[p.by].role = "accept" /\ Answers(p, p.by)
<1> DEFINE d == wire[a][1]
           p == d.packet
           g == p.by
<1>1. TypeOK /\ d \in Datagrams /\ UnderWay(a, d)
  BY HandshakeTypes, Zenon DEF HandshakeInv, UnderWay
<1>2. Genuine(a, d)
  BY <1>1, Zenon DEF HandshakeInv, DatagramsGenuine
<1>3. p \in Packets /\ g \in Handles
  BY <1>1, HandshakeTypes, Zenon
<1>4. /\ Used(g) /\ phase[g] = "open" /\ conn[g].local = d.from /\ conn[g].remote = a
      /\ p.connection_id = conn[g].connection_id_send
  BY <1>2, Zenon DEF Genuine
<1>5. PICK h \in Handles : Used(h) /\ Paired(g, h)
  BY <1>3, <1>4, Zenon DEF HandshakeInv, PeersExist
<1>6. Live(h)
  BY <1>5, Zenon DEF HandshakeInv, StreamsRight, StreamRight, Live
<1>7. /\ Occupied(conn[h].local, Key(conn[h].connection_id_recv, conn[h].remote))
      /\ routing_table[conn[h].local][Key(conn[h].connection_id_recv, conn[h].remote)] = h
  BY <1>6, Zenon DEF HandshakeInv, LiveIsRouted
<1>8. conn[h].local = a /\ conn[h].connection_id_recv = p.connection_id /\ conn[h].remote = d.from
  BY <1>4, <1>5, Zenon DEF Paired
<1> DEFINE key == Key(p.connection_id, d.from)
<1>9. Occupied(a, key) /\ routing_table[a][key] = h
  BY <1>7, <1>8, Zenon
<1>10. /\ mailbox' = IF Occupied(a, key) /\ Live(routing_table[a][key])
                     THEN [mailbox EXCEPT ![routing_table[a][key]] = Append(@, p)]
                     ELSE mailbox
       /\ syn_queue' = syn_queue
  BY Zenon DEF Route
<1>11. mailbox' = [mailbox EXCEPT ![h] = Append(@, p)]
  <2> HIDE DEF key, p
  <2> QED BY <1>6, <1>9, <1>10, Zenon
<1>12. ASSUME phase[h] = "connecting", mailbox[h] = << >>
       PROVE  conn[g].role = "accept" /\ Answers(p, g)
  <2>1. conn[g].role \in {"connect", "accept"}
    BY <1>1, <1>3, <1>4, HandshakeTypes, Zenon DEF Conns
  <2>2. ASSUME conn[g].role = "connect" PROVE FALSE
    <3>1. PICK k \in Handles : phase[k] = "open" /\ Paired(k, g)
      BY <1>3, <1>4, <2>2, Zenon DEF HandshakeInv, HandshakeAgrees
    <3>2. Used(k) /\ Paired(g, k)
      BY <3>1, Zenon DEF Used, Paired
    <3>3. k = h
      BY <1>3, <1>5, <3>2, OnePeer, Zenon
    <3> QED BY <1>12, <3>1, <3>3, Zenon
  <2>3. conn[g].role = "accept"
    BY <2>1, <2>2, Zenon
  <2>4. AnswerComesFirst(wire[a], g)
    BY <1>3, <1>4, <1>5, <1>8, <1>12, <2>3, Zenon DEF HandshakeInv, AnswersFirst
  <2>5. PICK j \in DOMAIN wire[a] : /\ Answers(wire[a][j].packet, g)
                                    /\ \A i \in 1 .. j - 1 : wire[a][i].packet.by # g
    BY <2>4, Zenon DEF AnswerComesFirst
  <2>6. wire[a] \in Seq(Datagrams)
    BY <1>1, HandshakeTypes, Zenon
  <2>7. j \in Nat /\ j >= 1
    BY <2>6, LenProperties
  <2>8. 1 \notin 1 .. j - 1
    BY <2>5, Zenon
  <2>9. j = 1
    BY <2>7, <2>8
  <2> QED BY <2>3, <2>5, <2>9, Zenon
<1> QED BY <1>3, <1>4, <1>5, <1>10, <1>11, <1>12, Zenon

\* What comes first on a wire, as long as the streams are the same.
LEMMA FirstAgain ==
  ASSUME conn' = conn, NEW g, NEW h, NEW s, AnswerComesFirst(s, g), wire'[conn[h].local] = s
  PROVE  AnswerComesFirst(wire[conn[h].local], g)'
BY Zenon DEF AnswerComesFirst, Answers

\* Datagrams stay first of their sender when one of another is taken out.
LEMMA FirstKept ==
  ASSUME HandshakeInv, NEW a \in Addrs, 1 \in DOMAIN wire[a], conn' = conn,
         wire' = wire \/ wire' = [wire EXCEPT ![a] = RemoveAt(@, 1)],
         NEW h \in Handles, Used(h), NEW g \in Handles,
         conn[h].local = a => ~ Answers(wire[a][1].packet, g),
         AnswerComesFirst(wire[conn[h].local], g)
  PROVE  AnswerComesFirst(wire[conn[h].local], g)'
<1>1. TypeOK /\ wire[a] \in Seq(Datagrams)
  BY HandshakeTypes, Zenon DEF HandshakeInv
<1>2. conn[h].local \in Addrs
  BY <1>1, HandshakeTypes, Zenon DEF Conns
<1>3. CASE wire'[conn[h].local] = wire[conn[h].local]
  BY <1>3, FirstAgain, Zenon
<1>4. CASE conn[h].local = a /\ wire'[a] = RemoveAt(wire[a], 1)
  <2>1. AnswerComesFirst(RemoveAt(wire[a], 1), g)
    BY <1>1, <1>4, FirstTakenOut, Zenon
  <2>2. wire'[conn[h].local] = RemoveAt(wire[a], 1)
    BY <1>4, Zenon
  <2> QED BY <2>1, <2>2, FirstAgain, Zenon
<1> QED BY <1>1, <1>2, <1>3, <1>4, Zenon DEF TypeOK

\* What is taken out leaves no new datagram on the wire.
LEMMA NothingNew ==
  ASSUME TypeOK, NEW a \in Addrs, 1 \in DOMAIN wire[a],
         wire' = wire \/ wire' = [wire EXCEPT ![a] = RemoveAt(@, 1)],
         NEW c \in Addrs, NEW d \in Datagrams, UnderWay(c, d)'
  PROVE  UnderWay(c, d)
<1>1. wire[a] \in Seq(Datagrams)
  BY HandshakeTypes, Zenon
<1>2. CASE wire'[c] = wire[c]
  BY <1>2, Zenon DEF UnderWay
<1>3. CASE c = a /\ wire'[a] = RemoveAt(wire[a], 1)
  <2>1. PICK i \in DOMAIN RemoveAt(wire[a], 1) : RemoveAt(wire[a], 1)[i] = d
    BY <1>3, Zenon DEF UnderWay
  <2>2. i + 1 \in DOMAIN wire[a] /\ wire[a][i + 1] = d
    BY <1>1, <2>1, FirstTakenOut, Zenon
  <2> QED BY <1>3, <2>2, Zenon DEF UnderWay
<1> QED BY <1>2, <1>3, Zenon DEF TypeOK

\* An element that is added to a queue comes behind the others.
LEMMA AppendElements ==
  ASSUME NEW S, NEW q \in Seq(S), NEW e \in S
  PROVE  /\ \A i \in DOMAIN Append(q, e) :
              (i \in DOMAIN q /\ Append(q, e)[i] = q[i]) \/ Append(q, e)[i] = e
         /\ Append(q, e) # << >>
         /\ q = << >> => Head(Append(q, e)) = e
         /\ q # << >> => Head(Append(q, e)) = Head(q)
<1>1. /\ Append(q, e) \in Seq(S) /\ Len(Append(q, e)) = Len(q) + 1
      /\ \A i \in 1 .. Len(q) : Append(q, e)[i] = q[i]
      /\ Append(q, e)[Len(q) + 1] = e
  BY AppendProperties
<1>2. /\ Len(q) \in Nat /\ DOMAIN q = 1 .. Len(q) /\ DOMAIN Append(q, e) = 1 .. Len(q) + 1
  BY <1>1, LenProperties, Zenon
<1>3. \A i \in DOMAIN Append(q, e) :
        (i \in DOMAIN q /\ Append(q, e)[i] = q[i]) \/ Append(q, e)[i] = e
  <2> TAKE i \in DOMAIN Append(q, e)
  <2>1. i \in 1 .. Len(q) \/ i = Len(q) + 1
    BY <1>2
  <2> QED BY <1>1, <1>2, <2>1, Zenon
<1>4. Append(q, e) # << >>
  BY <1>1, <1>2, EmptySeq
<1>5. Head(Append(q, e)) = Append(q, e)[1]
  BY <1>1, <1>4, HeadTailProperties
<1>6. q = << >> => Len(q) = 0
  BY EmptySeq, Zenon
<1>7. q # << >> => Head(q) = q[1] /\ Len(q) # 0
  BY HeadTailProperties, EmptySeq
<1>8. Len(q) # 0 => 1 \in 1 .. Len(q)
  BY <1>2
<1> QED BY <1>1, <1>3, <1>4, <1>5, <1>6, <1>7, <1>8

\* So does a packet that is added to a mailbox.
LEMMA PacketAppended ==
  ASSUME NEW q \in Seq(Packets), NEW e \in Packets
  PROVE  /\ \A i \in DOMAIN Append(q, e) :
              (i \in DOMAIN q /\ Append(q, e)[i] = q[i]) \/ Append(q, e)[i] = e
         /\ Append(q, e) # << >>
         /\ q = << >> => Head(Append(q, e)) = e
         /\ q # << >> => Head(Append(q, e)) = Head(q)
BY AppendElements, Zenon

\* The receiver task takes the datagram that came first, or a copy of it.
LEMMA HandshakeRoute ==
  ASSUME HandshakeInv, TypeOK', LiveIsRouted', NEW a \in Addrs, 1 \in DOMAIN wire[a],
         Route(a, wire[a][1]),
         wire' = wire \/ wire' = [wire EXCEPT ![a] = RemoveAt(@, 1)],
         UNCHANGED <<phase, conn, ack_number>>
  PROVE  HandshakeInv'
<1> DEFINE d == wire[a][1]
           p == d.packet
<1>1. TypeOK /\ d \in Datagrams /\ UnderWay(a, d)
  BY HandshakeTypes, Zenon DEF HandshakeInv, UnderWay
<1>2. Genuine(a, d)
  BY <1>1, Zenon DEF HandshakeInv, DatagramsGenuine
<1>3. Settled
  BY Zenon DEF Settled, Used
<1>4. StreamsRight' /\ PeersExist' /\ HandshakeAgrees'
  BY <1>3, PeersKept, AgreementKept, Zenon
     DEF HandshakeInv, StreamsRight, StreamRight, Used
<1>5. \A c \in Addrs, e \in Datagrams : UnderWay(c, e)' => UnderWay(c, e) \/ Genuine(c, e)'
  BY <1>1, NothingNew, Zenon
<1>6. CASE p.type = "Syn"
  <2>1. syn_queue' = [syn_queue EXCEPT ![a] = Append(@, d)] /\ mailbox' = mailbox
    BY <1>6, Zenon DEF Route
  <2>2. DatagramsGenuine'
    <3>1. ASSUME NEW c \in Addrs, NEW e \in Datagrams, Queued(c, e)'
          PROVE  Queued(c, e) \/ (Genuine(c, e)' /\ e.packet.type = "Syn")
      <4>1. PICK i \in DOMAIN syn_queue'[c] : syn_queue'[c][i] = e
        BY <3>1, Zenon DEF Queued
      <4>2. CASE c # a
        <5>1. syn_queue'[c] = syn_queue[c]
          BY <2>1, <4>2
        <5> QED BY <4>1, <5>1, Zenon DEF Queued
      <4>3. CASE c = a
        <5>1. syn_queue[a] \in Seq(Datagrams) /\ syn_queue'[a] = Append(syn_queue[a], d)
          BY <1>1, <2>1, HandshakeTypes, Zenon DEF TypeOK
        <5>2. (i \in DOMAIN syn_queue[a] /\ e = syn_queue[a][i]) \/ e = d
          BY <1>1, <4>1, <4>3, <5>1, AppendElements
        <5>3. CASE i \in DOMAIN syn_queue[a] /\ e = syn_queue[a][i]
          BY <4>3, <5>3, Zenon DEF Queued
        <5>4. CASE e = d
          BY <1>2, <1>3, <1>6, <4>3, <5>4, SettledKeeps, Zenon
        <5> QED BY <5>2, <5>3, <5>4, Zenon
      <4> QED BY <4>2, <4>3, Zenon
    <3> QED BY <1>3, <1>5, <3>1, DatagramsKept, Zenon
  <2>3. MailboxesRight'
    BY <1>3, <2>1, MailboxesKept, Zenon
  <2>4. AnswersFirst'
    <3> SUFFICES ASSUME NEW h \in Handles, phase'[h] = "connecting"
                 PROVE  /\ mailbox'[h] # << >> => FoundAnswer(h)'
                        /\ mailbox'[h] = << >> =>
                             \A g \in Handles :
                               Used(g)' /\ conn'[g].role = "accept" /\ Paired(g, h)' =>
                                 AnswerComesFirst(wire[conn[h].local], g)'
      BY Zenon DEF AnswersFirst
    <3>1. phase[h] = "connecting" /\ Used(h) /\ mailbox'[h] = mailbox[h]
      BY <2>1, Zenon DEF Used
    <3>2. ASSUME mailbox'[h] = << >>,
                 NEW g \in Handles, Used(g)', conn'[g].role = "accept", Paired(g, h)'
          PROVE  AnswerComesFirst(wire[conn[h].local], g)'
      <4>1. Used(g) /\ conn[g].role = "accept" /\ Paired(g, h)
        BY <3>2, Zenon DEF Used, Paired
      <4>2. AnswerComesFirst(wire[conn[h].local], g)
        BY <3>1, <3>2, <4>1, Zenon DEF HandshakeInv, AnswersFirst
      <4>3. ~ Answers(p, g)
        BY <1>6, Zenon DEF Answers
      <4> QED BY <3>1, <4>2, <4>3, FirstKept, Zenon
    <3>3. ASSUME mailbox'[h] # << >>
          PROVE  FoundAnswer(h)'
      BY <1>3, <3>1, <3>3, HeadKept, Zenon
    <3> QED BY <3>2, <3>3, Zenon
  <2> QED BY <1>4, <2>2, <2>3, <2>4, Zenon DEF HandshakeInv
<1>7. CASE p.type # "Syn"
  <2>1. PICK k \in Handles :
          /\ Used(k) /\ p \in Packets /\ phase[p.by] = "open" /\ Paired(p.by, k)
          /\ mailbox' = [mailbox EXCEPT ![k] = Append(@, p)]
          /\ syn_queue' = syn_queue
          /\ phase[k] = "connecting" /\ mailbox[k] = << >> =>
               conn[p.by].role = "accept" /\ Answers(p, p.by)
    BY <1>7, Delivered, Zenon
  <2>2. DatagramsGenuine'
    <3>1. \A c \in Addrs, e \in Datagrams :
            Queued(c, e)' => Queued(c, e) \/ (Genuine(c, e)' /\ e.packet.type = "Syn")
      BY <2>1, Zenon DEF Queued
    <3> QED BY <1>3, <1>5, <3>1, DatagramsKept, Zenon
  <2>3. /\ mailbox[k] \in Seq(Packets) /\ mailbox'[k] = Append(mailbox[k], p)
        /\ \A h \in Handles : h # k => mailbox'[h] = mailbox[h]
    BY <1>1, <2>1, HandshakeTypes, Zenon DEF TypeOK
  <2>4. p.by \in Handles
    BY <2>1, Zenon DEF Packets
  <2> HIDE DEF p
  <2>5. MailboxesRight'
    <3>1. ASSUME NEW h \in Handles, NEW i \in DOMAIN mailbox'[h]
          PROVE  \/ \E j \in DOMAIN mailbox[h] : mailbox'[h][i] = mailbox[h][j]
                 \/ LET g == mailbox'[h][i].by IN
                      g \in Handles /\ Used(h) /\ phase[g] = "open" /\ Paired(g, h)
      <4>1. CASE h # k
        BY <2>3, <3>1, <4>1, Zenon
      <4>2. CASE h = k
        <5>1. p \in Packets /\ i \in DOMAIN Append(mailbox[k], p)
          BY <2>1, <2>3, <3>1, <4>2, Zenon
        <5>2. (i \in DOMAIN mailbox[k] /\ mailbox'[k][i] = mailbox[k][i]) \/ mailbox'[k][i] = p
          <6>1. \/ i \in DOMAIN mailbox[k] /\ Append(mailbox[k], p)[i] = mailbox[k][i]
                \/ Append(mailbox[k], p)[i] = p
            BY <2>3, <5>1, PacketAppended, Zenon
          <6> QED BY <2>3, <6>1, Zenon
        <5> QED BY <2>1, <2>4, <4>2, <5>2, Zenon
      <4> QED BY <4>1, <4>2, Zenon
    <3> QED BY <1>3, <3>1, MailboxesKept, Zenon
  <2>6. AnswersFirst'
    <3> SUFFICES ASSUME NEW h \in Handles, phase'[h] = "connecting"
                 PROVE  /\ mailbox'[h] # << >> => FoundAnswer(h)'
                        /\ mailbox'[h] = << >> =>
                             \A g \in Handles :
                               Used(g)' /\ conn'[g].role = "accept" /\ Paired(g, h)' =>
                                 AnswerComesFirst(wire[conn[h].local], g)'
      BY Zenon DEF AnswersFirst
    <3>1. phase[h] = "connecting" /\ Used(h)
      BY Zenon DEF Used
    <3>2. CASE h # k
      <4>1. mailbox'[h] = mailbox[h]
        BY <2>3, <3>2, Zenon
      <4>2. ASSUME mailbox'[h] = << >>,
                   NEW g \in Handles, Used(g)', conn'[g].role = "accept", Paired(g, h)'
            PROVE  AnswerComesFirst(wire[conn[h].local], g)'
        <5>1. Used(g) /\ conn[g].role = "accept" /\ Paired(g, h)
          BY <4>2, Zenon DEF Used, Paired
        <5>2. AnswerComesFirst(wire[conn[h].local], g)
          BY <3>1, <4>1, <4>2, <5>1, Zenon DEF HandshakeInv, AnswersFirst
        <5>3. p.by # g
          BY <2>1, <3>1, <3>2, <5>1, OnePeer, Zenon
        <5>4. ~ Answers(wire[a][1].packet, g)
          BY <5>3, Zenon DEF Answers, p
        <5> QED BY <3>1, <5>2, <5>4, FirstKept, Zenon
      <4>3. ASSUME mailbox'[h] # << >>
            PROVE  FoundAnswer(h)'
        BY <1>3, <3>1, <4>1, <4>3, HeadKept, Zenon
      <4> QED BY <4>2, <4>3, Zenon
    <3>3. CASE h = k
      <4>1. /\ mailbox'[k] # << >>
            /\ mailbox[k] = << >> => Head(mailbox'[k]) = p
            /\ mailbox[k] # << >> => Head(mailbox'[k]) = Head(mailbox[k])
        <5> DEFINE q == Append(mailbox[k], p)
        <5>1. /\ q # << >> /\ (mailbox[k] = << >> => Head(q) = p)
              /\ mailbox[k] # << >> => Head(q) = Head(mailbox[k])
          BY <2>1, <2>3, PacketAppended, Zenon
        <5> HIDE DEF q
        <5> QED BY <2>3, <5>1, Zenon DEF q
      <4>2. FoundAnswer(h)'
        <5>1. CASE mailbox[k] # << >>
          BY <1>3, <3>1, <3>3, <4>1, <5>1, HeadKept, Zenon
        <5>2. CASE mailbox[k] = << >>
          <6>1. Head(mailbox'[h]) = p /\ conn[p.by].role = "accept" /\ Answers(p, p.by)
            BY <2>1, <3>1, <3>3, <4>1, <5>2, Zenon
          <6> QED BY <6>1, Zenon DEF Answers, FoundAnswer
        <5> QED BY <5>1, <5>2, Zenon
      <4> QED BY <3>3, <4>1, <4>2, Zenon
    <3> QED BY <3>2, <3>3, Zenon
  <2> QED BY <1>4, <2>2, <2>5, <2>6, Zenon DEF HandshakeInv
<1> QED BY <1>6, <1>7, Zenon

\* A step that only takes from the SYN queues changes nothing about it.
LEMMA HandshakeIdle ==
  ASSUME HandshakeInv, TypeOK', LiveIsRouted',
         UNCHANGED <<phase, conn, ack_number, mailbox, wire>>,
         \A c \in Addrs, d \in Datagrams : Queued(c, d)' => Queued(c, d)
  PROVE  HandshakeInv'
<1>1. Settled
  BY Zenon DEF Settled, Used
<1>2. \A c \in Addrs, d \in Datagrams : UnderWay(c, d)' => UnderWay(c, d) \/ Genuine(c, d)'
  BY Zenon DEF UnderWay
<1>3. DatagramsGenuine'
  BY <1>1, <1>2, DatagramsKept, Zenon
<1>4. StreamsRight' /\ PeersExist' /\ MailboxesRight' /\ HandshakeAgrees'
  BY <1>1, PeersKept, MailboxesKept, AgreementKept, Zenon
     DEF HandshakeInv, StreamsRight, StreamRight, Used
<1>5. AnswersFirst'
  <2> SUFFICES ASSUME NEW h \in Handles, phase'[h] = "connecting"
               PROVE  /\ mailbox'[h] # << >> => FoundAnswer(h)'
                      /\ mailbox'[h] = << >> =>
                           \A g \in Handles :
                             Used(g)' /\ conn'[g].role = "accept" /\ Paired(g, h)' =>
                               AnswerComesFirst(wire[conn[h].local], g)'
    BY Zenon DEF AnswersFirst
  <2>1. phase[h] = "connecting" /\ Used(h) /\ mailbox'[h] = mailbox[h]
    BY Zenon DEF Used
  <2>2. ASSUME mailbox'[h] = << >>,
               NEW g \in Handles, Used(g)', conn'[g].role = "accept", Paired(g, h)'
        PROVE  AnswerComesFirst(wire[conn[h].local], g)'
    <3>1. Used(g) /\ conn[g].role = "accept" /\ Paired(g, h)
      BY <2>2, Zenon DEF Used, Paired
    <3>2. AnswerComesFirst(wire[conn[h].local], g)
      BY <2>1, <2>2, <3>1, Zenon DEF HandshakeInv, AnswersFirst
    <3> QED BY <3>2, Zenon DEF AnswerComesFirst, Answers
  <2>3. ASSUME mailbox'[h] # << >>
        PROVE  FoundAnswer(h)'
    BY <1>1, <2>1, <2>3, HeadKept, Zenon
  <2> QED BY <2>2, <2>3, Zenon
<1> QED BY <1>3, <1>4, <1>5, Zenon DEF HandshakeInv

\* Every step keeps the invariant of the handshake.
LEMMA HandshakeNext == ASSUME Reliable PROVE HandshakeInv /\ [Next]_vars => HandshakeInv'
<1> SUFFICES ASSUME HandshakeInv, [Next]_vars PROVE HandshakeInv'
  BY Zenon
<1>1. TypeOK /\ LiveIsRouted
  BY Zenon DEF HandshakeInv
<1>2. TypeOK'
  BY <1>1, ConnectTypeNext, Zenon
<1>3. LiveIsRouted'
  <2>1. TableShape
    BY <1>1, Zenon DEF TypeOK, TableShape, Conns, Live
  <2> QED BY <1>1, <2>1, RoutingNext, Zenon DEF RoutingInv
<1>4. MaxLoss = 0 /\ MaxDrops = 0 /\ ~ Reorder /\ losses \in 0 .. MaxLoss /\ drops \in 0 .. MaxDrops
  BY <1>1, Zenon DEF Reliable, TypeOK
<1>5. ASSUME NEW h \in Handles, DropStream(h) PROVE FALSE
  BY <1>4, <1>5 DEF DropStream
<1>6. ASSUME NEW a \in Addrs, NEW i \in Arriving(a), Lose(a, i) PROVE FALSE
  BY <1>4, <1>6 DEF Lose
<1>7. ASSUME NEW a \in Addrs, AcceptFails(a) PROVE HandshakeInv'
  <2>1. /\ syn_queue[a] # << >> /\ syn_queue' = [syn_queue EXCEPT ![a] = Tail(@)]
        /\ UNCHANGED <<phase, conn, ack_number, mailbox, wire>>
    BY <1>7, Zenon DEF AcceptFails, GetSyn, numberVars
  <2>3. ASSUME NEW c \in Addrs, NEW d \in Datagrams, Queued(c, d)' PROVE Queued(c, d)
    <3>1. CASE c # a
      BY <2>1, <2>3, <3>1 DEF Queued
    <3>2. CASE c = a
      <4>1. syn_queue[a] \in Seq(Datagrams) /\ syn_queue'[a] = Tail(syn_queue[a])
        BY <1>1, <2>1, Zenon DEF TypeOK
      <4>2. \A i \in DOMAIN Tail(syn_queue[a]) :
              i + 1 \in DOMAIN syn_queue[a] /\ Tail(syn_queue[a])[i] = syn_queue[a][i + 1]
        BY <2>1, <4>1, TailElements, Zenon
      <4> QED BY <2>3, <3>2, <4>1, <4>2, Zenon DEF Queued
    <3> QED BY <3>1, <3>2, Zenon
  <2> QED BY <1>2, <1>3, <2>1, <2>3, HandshakeIdle, Zenon
<1>8. ASSUME NEW a \in Addrs, NEW i \in Arriving(a), Receive(a, i) \/ Duplicate(a, i)
      PROVE  HandshakeInv'
  <2>1. i = 1 /\ 1 \in DOMAIN wire[a]
    BY <1>4, Zenon DEF Arriving
  <2>2. /\ Route(a, wire[a][1])
        /\ wire' = wire \/ wire' = [wire EXCEPT ![a] = RemoveAt(@, 1)]
        /\ UNCHANGED <<phase, conn, ack_number>>
    BY <1>8, <2>1, Zenon DEF Receive, Duplicate, numberVars
  <2> QED BY <1>2, <1>3, <2>1, <2>2, HandshakeRoute, Zenon
<1>9. CASE UNCHANGED vars
  <2>1. UNCHANGED <<phase, conn, ack_number, mailbox, wire, syn_queue>>
    BY <1>9, Zenon DEF vars, numberVars
  <2>2. \A c \in Addrs, d \in Datagrams : Queued(c, d)' => Queued(c, d)
    BY <2>1, Zenon DEF Queued
  <2> QED BY <1>2, <1>3, <2>1, <2>2, HandshakeIdle, Zenon
<1> QED
  BY <1>2, <1>3, <1>5, <1>6, <1>7, <1>8, <1>9, HandshakeConnect, HandshakeAccept, HandshakeSends,
     HandshakeConnected, Zenon
  DEF Next, ReceiveSome, AcceptSome

\* At the start no handle is in use and nothing is under way.
LEMMA HandshakeInit == Init => HandshakeInv
<1> SUFFICES ASSUME Init PROVE HandshakeInv
  BY Zenon
<1>1. TypeOK /\ LiveIsRouted
  BY ConnectTypeInit, RoutingInit, Zenon DEF RoutingInv
<1>2. /\ \A h \in Handles : phase[h] = "unused" /\ mailbox[h] = << >>
      /\ \A a \in Addrs : wire[a] = << >> /\ syn_queue[a] = << >>
  BY Zenon DEF Init
<1>3. DOMAIN << >> = {}
  OBVIOUS
<1> QED
  BY <1>1, <1>2, <1>3, Zenon
     DEF HandshakeInv, StreamsRight, StreamRight, PeersExist, DatagramsGenuine, UnderWay, Queued,
                          MailboxesRight, AnswersFirst, HandshakeAgrees, Used

\* If datagrams are neither lost nor overtaken and no stream is dropped, what connect and
\* accept leave behind are two streams that are each other's peers and agree on both
\* initial sequence numbers, however often datagrams are duplicated and whatever ids are
\* drawn.
THEOREM HandshakesAgree == ASSUME Reliable PROVE Spec => []HandshakeAgrees
<1>1. HandshakeInv => HandshakeAgrees
  BY Zenon DEF HandshakeInv
<1> QED
  BY <1>1, HandshakeInit, HandshakeNext, PTL DEF Spec

\* A packet gets into no mailbox but that of its sender's peer.
THEOREM MailboxesFromPeers == ASSUME Reliable PROVE Spec => []MailboxFromPeer
<1>1. HandshakeInv => MailboxFromPeer
  BY Zenon DEF HandshakeInv, MailboxesRight, MailboxFromPeer
<1> QED
  BY <1>1, HandshakeInit, HandshakeNext, PTL DEF Spec

=============================================================================
