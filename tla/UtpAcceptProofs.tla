-------------------------- MODULE UtpAcceptProofs ---------------------------
(***************************************************************************)
(* What accept can find under the key it is to insert, for every value of  *)
(* the constants, if the datagram service is reliable and duplicates       *)
(* nothing: a connect of its own socket, never an accepted stream.         *)
(***************************************************************************)
EXTENDS UtpConnectProofs

\* The i-th of these datagrams is the SYN of g.
SynAt(s, i, g) == i \in DOMAIN s /\ s[i].packet.type = "Syn" /\ s[i].packet.by = g

\* The SYN of g is among the datagrams under way, w, or the ones in the SYN queue, q.
SynThere(w, q, g) == (\E i \in DOMAIN w : SynAt(w, i, g)) \/ (\E i \in DOMAIN q : SynAt(q, i, g))

\* It is there once at most.
SynOnce(w, q, g) ==
  /\ \A i, j \in DOMAIN w : SynAt(w, i, g) /\ SynAt(w, j, g) => i = j
  /\ \A i, j \in DOMAIN q : SynAt(q, i, g) /\ SynAt(q, j, g) => i = j
  /\ \A i \in DOMAIN w, j \in DOMAIN q : ~ (SynAt(w, i, g) /\ SynAt(q, j, g))

SynsOnce == \A a \in Addrs, g \in Handles : SynOnce(wire[a], syn_queue[a], g)

\* h accepted the connection of g.
AcceptedBy(g, h) == Used(h) /\ conn[h].role = "accept" /\ Paired(g, h)

\* Whose SYN is there has not been accepted yet.
SynsNew ==
  \A a \in Addrs, g \in Handles : SynThere(wire[a], syn_queue[a], g) =>
    \A h \in Handles : ~ AcceptedBy(g, h)

\* A routing table has the streams of its socket, each under its own key.
EntriesRight ==
  \A a \in Addrs : \A key \in DOMAIN routing_table[a] :
    LET h == routing_table[a][key] IN
      Used(h) /\ conn[h].local = a /\ Key(conn[h].connection_id_recv, conn[h].remote) = key

\* What accept made was a connect's.
OriginsRight ==
  \A h \in Handles : Used(h) /\ conn[h].role = "accept" =>
    \E g \in Handles : Used(g) /\ conn[g].role = "connect" /\ Paired(g, h)

\* The inductive invariant, beside HandshakeInv.
InsertInv == SynsOnce /\ SynsNew /\ EntriesRight /\ OriginsRight

\* The ids derived from two ids differ when they do.
LEMMA NextIdDiffers ==
  ASSUME NEW m \in SeqNumbers, NEW n \in SeqNumbers, WrappingAdd(m, 1) = WrappingAdd(n, 1)
  PROVE  m = n
BY ModulusAssumption DEF SeqNumbers, WrappingAdd

\* A datagram that is sent is no second SYN of g, if it is not a SYN of g or there is none.
LEMMA SynsSent ==
  ASSUME NEW w \in Seq(Datagrams), NEW q, NEW d \in Datagrams, NEW g, SynOnce(w, q, g),
         (d.packet.type = "Syn" /\ d.packet.by = g) => ~ SynThere(w, q, g)
  PROVE  /\ SynOnce(Append(w, d), q, g)
         /\ SynThere(Append(w, d), q, g) =>
              SynThere(w, q, g) \/ (d.packet.type = "Syn" /\ d.packet.by = g)
<1> DEFINE t == Append(w, d)
<1>1. /\ DOMAIN w = 1 .. Len(w) /\ Len(w) \in Nat /\ DOMAIN t = 1 .. Len(w) + 1
      /\ \A i \in 1 .. Len(w) : t[i] = w[i]
      /\ t[Len(w) + 1] = d
  <2>1. t \in Seq(Datagrams) /\ Len(t) = Len(w) + 1
    BY AppendProperties, Zenon
  <2>2. DOMAIN t = 1 .. Len(w) + 1 /\ DOMAIN w = 1 .. Len(w) /\ Len(w) \in Nat
    BY <2>1, LenProperties, Zenon
  <2> QED BY <2>2, AppendProperties
<1> HIDE DEF t
<1>2. \A i \in DOMAIN t :
        \/ i \in DOMAIN w /\ (SynAt(t, i, g) <=> SynAt(w, i, g))
        \/ i = Len(w) + 1 /\ (SynAt(t, i, g) <=> d.packet.type = "Syn" /\ d.packet.by = g)
  BY <1>1 DEF SynAt
<1> QED BY <1>2, Zenon DEF SynOnce, SynThere, t

\* The receiver task takes the first datagram off the wire, and its SYN to the queue.
LEMMA SynsReceived ==
  ASSUME NEW w \in Seq(Datagrams), 1 \in DOMAIN w, NEW q \in Seq(Datagrams), NEW g,
         SynOnce(w, q, g)
  PROVE  LET t == RemoveAt(w, 1)
             p == Append(q, w[1])
         IN /\ SynOnce(t, q, g) /\ (SynThere(t, q, g) => SynThere(w, q, g))
            /\ SynOnce(t, p, g) /\ (SynThere(t, p, g) => SynThere(w, q, g))
<1> DEFINE t == RemoveAt(w, 1)
           d == w[1]
           p == Append(q, d)
<1>1. DOMAIN t = 1 .. Len(w) - 1 /\ \A i \in 1 .. Len(w) - 1 : t[i] = w[i + 1] /\ i + 1 \in DOMAIN w
  BY FirstTakenOut, Zenon
<1>2. d \in Datagrams /\ Len(w) \in Nat
  BY LenProperties, ElementOfSeq, Zenon
<1> HIDE DEF t, d
<1>3. /\ DOMAIN q = 1 .. Len(q) /\ Len(q) \in Nat /\ DOMAIN p = 1 .. Len(q) + 1
      /\ \A i \in 1 .. Len(q) : p[i] = q[i]
      /\ p[Len(q) + 1] = d
  <2>1. p \in Seq(Datagrams) /\ Len(p) = Len(q) + 1
    BY <1>2, AppendProperties, Zenon
  <2>2. DOMAIN p = 1 .. Len(q) + 1 /\ DOMAIN q = 1 .. Len(q) /\ Len(q) \in Nat
    BY <2>1, LenProperties, Zenon
  <2> QED BY <1>2, <2>2, AppendProperties
<1> HIDE DEF p
<1>4. \A i \in DOMAIN t : i \in Int /\ i + 1 # 1 /\ i + 1 \in DOMAIN w /\ (SynAt(t, i, g) <=> SynAt(w, i + 1, g))
  BY <1>1, <1>2 DEF SynAt
<1>5. \A i \in DOMAIN p :
        \/ i \in DOMAIN q /\ (SynAt(p, i, g) <=> SynAt(q, i, g))
        \/ i = Len(q) + 1 /\ (SynAt(p, i, g) <=> SynAt(w, 1, g))
  BY <1>3 DEF SynAt, d
<1>6. \A i, j \in DOMAIN t : SynAt(t, i, g) /\ SynAt(t, j, g) => i = j
  BY <1>4 DEF SynOnce
<1>7. \A i \in DOMAIN t, j \in DOMAIN q : ~ (SynAt(t, i, g) /\ SynAt(q, j, g))
  BY <1>4, Zenon DEF SynOnce
<1>8. \A i, j \in DOMAIN p : SynAt(p, i, g) /\ SynAt(p, j, g) => i = j
  BY <1>5, Zenon DEF SynOnce
<1>9. \A i \in DOMAIN t, j \in DOMAIN p : ~ (SynAt(t, i, g) /\ SynAt(p, j, g))
  <2> SUFFICES ASSUME NEW i \in DOMAIN t, NEW j \in DOMAIN p, SynAt(t, i, g), SynAt(p, j, g)
               PROVE  FALSE
    BY Zenon
  <2>1. i + 1 # 1 /\ i + 1 \in DOMAIN w /\ SynAt(w, i + 1, g)
    BY <1>4, Zenon
  <2>2. (j \in DOMAIN q /\ SynAt(q, j, g)) \/ SynAt(w, 1, g)
    BY <1>5, Zenon
  <2> QED BY <2>1, <2>2, Zenon DEF SynOnce
<1>10. /\ SynThere(t, q, g) => SynThere(w, q, g)
       /\ SynThere(t, p, g) => SynThere(w, q, g)
  BY <1>4, <1>5, Zenon DEF SynThere
<1>11. SynOnce(t, q, g) /\ SynOnce(t, p, g)
  BY <1>6, <1>7, <1>8, <1>9, Zenon DEF SynOnce
<1> QED BY <1>10, <1>11, Zenon DEF t, p, d

\* accept takes the oldest SYN out of the queue: it was the only one of its sender's.
LEMMA SynsTaken ==
  ASSUME NEW w, NEW q \in Seq(Datagrams), q # << >>, NEW g, SynOnce(w, q, g)
  PROVE  /\ SynOnce(w, Tail(q), g) /\ (SynThere(w, Tail(q), g) => SynThere(w, q, g))
         /\ Head(q).packet.type = "Syn" /\ Head(q).packet.by = g => ~ SynThere(w, Tail(q), g)
<1> DEFINE t == Tail(q)
<1>1. 1 \in DOMAIN q /\ Head(q) = q[1] /\ DOMAIN q = 1 .. Len(q) /\ Len(q) \in Nat
  BY QueueHead, LenProperties, Zenon
<1>2. \A i \in DOMAIN t : i \in Nat /\ i # 0 /\ i + 1 \in DOMAIN q /\ t[i] = q[i + 1]
  <2>1. t \in Seq(Datagrams)
    BY HeadTailProperties, Zenon
  <2>2. DOMAIN t = 1 .. Len(t) /\ Len(t) \in Nat
    BY <2>1, LenProperties, Zenon
  <2> QED BY <2>2, TailElements
<1> HIDE DEF t
<1>3. \A i \in DOMAIN t : i \in Int /\ i + 1 # 1 /\ i + 1 \in DOMAIN q /\ (SynAt(t, i, g) <=> SynAt(q, i + 1, g))
  BY <1>2 DEF SynAt
<1>4. Head(q).packet.type = "Syn" /\ Head(q).packet.by = g => SynAt(q, 1, g)
  BY <1>1, Zenon DEF SynAt
<1>5. SynOnce(w, t, g) /\ (SynThere(w, t, g) => SynThere(w, q, g))
  BY <1>3 DEF SynOnce, SynThere
<1>6. SynAt(q, 1, g) => ~ SynThere(w, t, g)
  BY <1>1, <1>3, Zenon DEF SynOnce, SynThere
<1> QED BY <1>4, <1>5, <1>6, Zenon DEF t

\* The SYN of g is there: g called connect.
LEMMA SynGenuine ==
  ASSUME HandshakeInv, NEW a \in Addrs, NEW g \in Handles, SynThere(wire[a], syn_queue[a], g)
  PROVE  Used(g) /\ conn[g].role = "connect" /\ conn[g].remote = a
<1>1. PICK d : /\ UnderWay(a, d) \/ Queued(a, d)
               /\ d \in Datagrams /\ d.packet.type = "Syn" /\ d.packet.by = g
  <2>1. TypeOK
    BY Zenon DEF HandshakeInv
  <2>2. ASSUME NEW i \in DOMAIN wire[a], SynAt(wire[a], i, g)
        PROVE  \E d : UnderWay(a, d) /\ d \in Datagrams /\ d.packet.type = "Syn" /\ d.packet.by = g
    BY <2>1, <2>2, HandshakeTypes, Zenon DEF SynAt, UnderWay
  <2>3. ASSUME NEW i \in DOMAIN syn_queue[a], SynAt(syn_queue[a], i, g)
        PROVE  \E d : Queued(a, d) /\ d \in Datagrams /\ d.packet.type = "Syn" /\ d.packet.by = g
    BY <2>1, <2>3, HandshakeTypes, Zenon DEF SynAt, Queued
  <2> QED BY <2>2, <2>3, Zenon DEF SynThere
<1>2. Genuine(a, d)
  BY <1>1, Zenon DEF HandshakeInv, DatagramsGenuine
<1> QED BY <1>1, <1>2, Zenon DEF Genuine

\* Two streams of one socket with the same id and remote address are the same.
LEMMA OneStream ==
  ASSUME HandshakeInv, NEW g \in Handles, NEW h \in Handles, Used(g), Used(h),
         conn[g].local = conn[h].local, conn[g].remote = conn[h].remote,
         conn[g].connection_id_recv = conn[h].connection_id_recv
  PROVE  g = h
<1>1. Live(g) /\ Live(h)
  BY Zenon DEF HandshakeInv, StreamsRight, StreamRight, Used, Live
<1>2. \A x \in {g, h} :
        routing_table[conn[x].local][Key(conn[x].connection_id_recv, conn[x].remote)] = x
  BY <1>1, Zenon DEF HandshakeInv, LiveIsRouted
<1> QED BY <1>2, Zenon

\* Nothing is inserted.
LEMMA InsertKept ==
  ASSUME HandshakeInv, InsertInv, routing_table' = routing_table, conn' = conn,
         \A h \in Handles : Used(h)' <=> Used(h),
         \A a \in Addrs, g \in Handles :
           /\ SynOnce(wire'[a], syn_queue'[a], g)
           /\ SynThere(wire'[a], syn_queue'[a], g) => SynThere(wire[a], syn_queue[a], g)
  PROVE  InsertInv'
<1>1. SynsOnce'
  BY Zenon DEF SynsOnce
<1>2. \A g, h \in Handles : AcceptedBy(g, h)' <=> AcceptedBy(g, h)
  BY Zenon DEF AcceptedBy, Paired
<1>3. SynsNew'
  BY <1>2, Zenon DEF InsertInv, SynsNew
<1>4. EntriesRight'
  <2>1. TypeOK
    BY Zenon DEF HandshakeInv
  <2>2. \A a \in Addrs : \A key \in DOMAIN routing_table[a] : routing_table[a][key] \in Handles
    BY <2>1, Zenon DEF TypeOK
  <2> QED BY <2>2, Zenon DEF InsertInv, EntriesRight
<1>5. OriginsRight'
  <2>1. \A g, h \in Handles : Paired(g, h)' <=> Paired(g, h)
    BY Zenon DEF Paired
  <2> QED BY <2>1, Zenon DEF InsertInv, OriginsRight
<1> QED BY <1>1, <1>3, <1>4, <1>5, Zenon DEF InsertInv

\* A stream n comes into use and is put in the table of its socket under its key.
LEMMA EntryInserted ==
  ASSUME HandshakeInv, EntriesRight, NEW a \in Addrs, NEW n \in Handles, NEW key,
         ~ Used(n), Used(n)', InsertEntry(a, key, n),
         conn'[n].local = a, Key(conn'[n].connection_id_recv, conn'[n].remote) = key,
         \A h \in Handles : Used(h) => Used(h)' /\ conn'[h] = conn[h]
  PROVE  EntriesRight'
<1>1. TypeOK
  BY Zenon DEF HandshakeInv
<1>2. /\ DOMAIN routing_table = Addrs
      /\ \A b \in Addrs : \A k \in DOMAIN routing_table[b] : routing_table[b][k] \in Handles
  BY <1>1, Zenon DEF TypeOK
<1>3. ASSUME NEW b \in Addrs, NEW k \in DOMAIN routing_table'[b]
      PROVE  \/ b = a /\ k = key /\ routing_table'[b][k] = n
             \/ k \in DOMAIN routing_table[b] /\ routing_table'[b][k] = routing_table[b][k]
  BY <1>2, <1>3, Zenon DEF InsertEntry
<1>4. ASSUME NEW b \in Addrs, NEW k \in DOMAIN routing_table'[b], NEW h, h = routing_table'[b][k]
      PROVE  Used(h)' /\ conn'[h].local = b /\ Key(conn'[h].connection_id_recv, conn'[h].remote) = k
  <2>1. CASE b = a /\ k = key /\ h = n
    BY <2>1, Zenon
  <2>2. CASE k \in DOMAIN routing_table[b] /\ h = routing_table[b][k]
    <3>1. h \in Handles /\ Used(h) /\ conn[h].local = b
          /\ Key(conn[h].connection_id_recv, conn[h].remote) = k
      BY <1>2, <2>2, Zenon DEF EntriesRight
    <3> QED BY <3>1, Zenon
  <2> QED BY <1>3, <1>4, <2>1, <2>2, Zenon
<1>5. ASSUME NEW b \in Addrs, NEW k \in DOMAIN routing_table'[b]
      PROVE  LET h == routing_table'[b][k] IN
               /\ phase'[h] # "unused" /\ conn'[h].local = b
               /\ Key(conn'[h].connection_id_recv, conn'[h].remote) = k
  BY <1>4, <1>5 DEF Used
<1> QED BY <1>5, Zenon DEF EntriesRight, Used

\* connect.
LEMMA InsertConnect ==
  ASSUME HandshakeInv, InsertInv,
         NEW pair \in Connects, NEW id \in Ids, NEW n \in Handles, Connect(pair[1], pair[2], id, n)
  PROVE  InsertInv'
<1> DEFINE a == pair[1]
           b == pair[2]
           record == [local |-> a, remote |-> b, role |-> "connect", connection_id_recv |-> id,
                      connection_id_send |-> WrappingAdd(id, 1), isn |-> 1]
           d == [from |-> a, packet |-> Syn(id, n)]
<1>1. TypeOK /\ a \in Addrs /\ b \in Addrs /\ id \in SeqNumbers
  BY ConnectAssumption, Zenon DEF HandshakeInv
<1>2. /\ ~ Used(n) /\ ~ Occupied(a, Key(id, b)) /\ InsertEntry(a, Key(id, b), n)
      /\ phase' = [phase EXCEPT ![n] = "connecting"] /\ conn' = [conn EXCEPT ![n] = record]
      /\ wire' = [wire EXCEPT ![b] = Append(@, d)]
      /\ UNCHANGED syn_queue
  BY Zenon DEF Connect, Fresh, Used, SendTo
<1>3. d \in Datagrams /\ d.packet.by = n
  BY <1>1, NumberType, Zenon DEF Syn, Packets, Datagrams
<1> HIDE DEF a, b, d
<1>4. /\ record.local = a /\ record.remote = b /\ record.role = "connect"
      /\ record.connection_id_recv = id /\ record.connection_id_send = WrappingAdd(id, 1)
  BY Zenon
<1> HIDE DEF record
<1>5. /\ Used(n)' /\ conn'[n] = record
      /\ \A h \in Handles : h # n => (Used(h)' <=> Used(h)) /\ conn'[h] = conn[h]
  BY <1>1, <1>2, Zenon DEF TypeOK, Used
<1>6. \A h \in Handles : Used(h) => Used(h)' /\ conn'[h] = conn[h]
  BY <1>2, <1>5, Zenon
<1>7. ASSUME NEW c \in Addrs, NEW g \in Handles
      PROVE  /\ SynOnce(wire'[c], syn_queue'[c], g)
             /\ SynThere(wire'[c], syn_queue'[c], g) =>
                  SynThere(wire[c], syn_queue[c], g) \/ g = n
  <2>1. SynOnce(wire[c], syn_queue[c], g) /\ syn_queue'[c] = syn_queue[c]
    BY <1>2, Zenon DEF InsertInv, SynsOnce
  <2>2. CASE c # b
    <3>1. wire'[c] = wire[c]
      BY <1>2, <2>2
    <3> QED BY <2>1, <3>1, Zenon
  <2>3. CASE c = b
    <3>1. wire[c] \in Seq(Datagrams) /\ wire'[c] = Append(wire[c], d)
      BY <1>1, <1>2, <2>3, Zenon DEF TypeOK
    <3>2. g = n => ~ SynThere(wire[c], syn_queue[c], g)
      BY <1>2, SynGenuine, Zenon
    <3> QED BY <1>3, <2>1, <3>1, <3>2, SynsSent
  <2> QED BY <2>2, <2>3, Zenon
<1>8. SynsOnce'
  BY <1>7, Zenon DEF SynsOnce
<1>9. SynsNew'
  <2> SUFFICES ASSUME NEW c \in Addrs, NEW g \in Handles, SynThere(wire'[c], syn_queue'[c], g),
                      NEW h \in Handles, AcceptedBy(g, h)'
               PROVE  FALSE
    BY Zenon DEF SynsNew
  <2>1. h # n /\ Used(h) /\ conn'[h] = conn[h] /\ conn[h].role = "accept" /\ Paired(g, h)'
    BY <1>4, <1>5, Zenon DEF AcceptedBy
  <2>2. CASE g # n
    <3>1. SynThere(wire[c], syn_queue[c], g) /\ conn'[g] = conn[g]
      BY <1>5, <1>7, <2>2, Zenon
    <3>2. AcceptedBy(g, h)
      BY <2>1, <3>1, Zenon DEF AcceptedBy, Paired
    <3> QED BY <3>1, <3>2, Zenon DEF InsertInv, SynsNew
  <2>3. CASE g = n
    <3>1. /\ conn[h].remote = a /\ conn[h].local = b /\ conn[h].connection_id_send = id
      BY <1>4, <1>5, <2>1, <2>3, Zenon DEF Paired
    <3>2. PICK k \in Handles : Used(k) /\ Paired(k, h)
      BY <2>1, Zenon DEF InsertInv, OriginsRight
    <3>3. conn[k].local = a /\ conn[k].remote = b /\ conn[k].connection_id_recv = id
      BY <3>1, <3>2, Zenon DEF Paired
    <3>4. Live(k)
      BY <3>2, Zenon DEF HandshakeInv, StreamsRight, StreamRight, Used, Live
    <3> QED BY <1>2, <3>3, <3>4, Zenon DEF HandshakeInv, LiveIsRouted
  <2> QED BY <2>2, <2>3, Zenon
<1>10. EntriesRight'
  <2>1. conn'[n].local = a /\ Key(conn'[n].connection_id_recv, conn'[n].remote) = Key(id, b)
    BY <1>4, <1>5, Zenon
  <2> QED BY <1>1, <1>2, <1>5, <1>6, <2>1, EntryInserted, Zenon DEF InsertInv
<1>11. OriginsRight'
  <2> SUFFICES ASSUME NEW h \in Handles, Used(h)', conn'[h].role = "accept"
               PROVE  \E g \in Handles : Used(g)' /\ conn'[g].role = "connect" /\ Paired(g, h)'
    BY Zenon DEF OriginsRight
  <2>1. CASE h = n
    BY <1>4, <1>5, <2>1, Zenon
  <2>2. CASE h # n
    <3>1. Used(h) /\ conn'[h] = conn[h]
      BY <1>5, <2>2, Zenon
    <3>2. PICK g \in Handles : Used(g) /\ conn[g].role = "connect" /\ Paired(g, h)
      BY <3>1, Zenon DEF InsertInv, OriginsRight
    <3> QED BY <1>6, <3>1, <3>2, Zenon DEF Paired
  <2> QED BY <2>1, <2>2, Zenon
<1> QED BY <1>8, <1>9, <1>10, <1>11, Zenon DEF InsertInv

\* accept.
LEMMA InsertAccept ==
  ASSUME HandshakeInv, InsertInv,
         NEW a \in Addrs, NEW s \in InitialSeqs, NEW n \in Handles, Accept(a, s, n)
  PROVE  InsertInv'
<1> DEFINE syn == Head(syn_queue[a])
           id  == syn.packet.connection_id
           k   == syn.packet.by
           to  == syn.from
           record == [local |-> a, remote |-> to, role |-> "accept",
                      connection_id_recv |-> IdRecv(syn), connection_id_send |-> id, isn |-> s]
           d == [from |-> a, packet |-> SynAck(id, s, syn.packet.seq_number, n)]
<1>1. TypeOK /\ s \in SeqNumbers
  BY ConnectAssumption, Zenon DEF HandshakeInv
<1>2. /\ syn_queue[a] # << >> /\ syn_queue' = [syn_queue EXCEPT ![a] = Tail(@)]
      /\ ~ Used(n) /\ InsertEntry(a, Key(IdRecv(syn), to), n)
      /\ phase' = [phase EXCEPT ![n] = "open"] /\ conn' = [conn EXCEPT ![n] = record]
      /\ wire' = [wire EXCEPT ![to] = Append(@, d)]
  BY Zenon DEF Accept, Fresh, GetSyn, Used, SendTo
<1>3. syn_queue[a] \in Seq(Datagrams) /\ 1 \in DOMAIN syn_queue[a] /\ syn = syn_queue[a][1]
  <2>1. syn_queue[a] \in Seq(Datagrams)
    BY <1>1, HandshakeTypes, Zenon
  <2> QED BY <1>2, <2>1, QueueHead, Zenon
<1>4. syn \in Datagrams /\ Queued(a, syn)
  BY <1>1, <1>3, HandshakeTypes, Zenon DEF Queued
<1>5. Genuine(a, syn) /\ syn.packet.type = "Syn"
  BY <1>4, Zenon DEF HandshakeInv, DatagramsGenuine
<1>6. Head(syn_queue[a]).packet.type = "Syn" /\ Head(syn_queue[a]).packet.by = k
  BY <1>5, Zenon
<1> HIDE DEF syn
<1>7. /\ k \in Handles /\ to \in Addrs /\ id \in SeqNumbers /\ syn.packet.seq_number \in SeqNumbers
      /\ IdRecv(syn) = WrappingAdd(id, 1)
  BY <1>4, Zenon DEF Datagrams, Packets, IdRecv
<1>8. /\ Used(k) /\ conn[k].local = to /\ conn[k].remote = a /\ conn[k].role = "connect"
      /\ conn[k].connection_id_recv = id
  BY <1>5, Zenon DEF Genuine
<1>9. conn[k].connection_id_send = WrappingAdd(id, 1)
  BY <1>7, <1>8, Zenon DEF HandshakeInv, StreamsRight, StreamRight
<1>10. /\ record.local = a /\ record.remote = to /\ record.role = "accept"
       /\ record.connection_id_recv = IdRecv(syn) /\ record.connection_id_send = id
  BY Zenon
<1>11. d \in Datagrams /\ d.packet.type = "State"
  BY <1>1, <1>7, Zenon DEF SynAck, Packets, Datagrams
<1> HIDE DEF id, k, to, record, d
<1>12. /\ Used(n)' /\ conn'[n] = record
       /\ \A h \in Handles : h # n => (Used(h)' <=> Used(h)) /\ conn'[h] = conn[h]
  BY <1>1, <1>2, Zenon DEF TypeOK, Used
<1>13. \A h \in Handles : Used(h) => Used(h)' /\ conn'[h] = conn[h]
  BY <1>2, <1>12, Zenon
<1>14. ASSUME NEW c \in Addrs, NEW g \in Handles
       PROVE  /\ SynOnce(wire'[c], syn_queue'[c], g)
              /\ SynThere(wire'[c], syn_queue'[c], g) => SynThere(wire[c], syn_queue[c], g)
              /\ SynThere(wire'[c], syn_queue'[c], g) /\ c = a => g # k
  <2>1. SynOnce(wire[c], syn_queue[c], g)
    BY Zenon DEF InsertInv, SynsOnce
  <2>2. /\ SynOnce(wire[c], syn_queue'[c], g)
        /\ SynThere(wire[c], syn_queue'[c], g) => SynThere(wire[c], syn_queue[c], g)
        /\ SynThere(wire[c], syn_queue'[c], g) /\ c = a => g # k
    <3>1. CASE c # a
      <4>1. syn_queue'[c] = syn_queue[c]
        BY <1>2, <3>1
      <4> QED BY <2>1, <3>1, <4>1, Zenon
    <3>2. CASE c = a
      <4>1. syn_queue'[a] = Tail(syn_queue[a])
        BY <1>1, <1>2, Zenon DEF TypeOK
      <4>2. SynOnce(wire[a], syn_queue[a], g) /\ syn_queue[a] \in Seq(Datagrams)
        BY <1>3, <2>1, <3>2, Zenon
      <4>3. /\ SynOnce(wire[a], Tail(syn_queue[a]), g)
            /\ SynThere(wire[a], Tail(syn_queue[a]), g) => SynThere(wire[a], syn_queue[a], g)
            /\ g = k => ~ SynThere(wire[a], Tail(syn_queue[a]), g)
        BY <1>2, <1>6, <4>2, SynsTaken, Zenon
      <4> QED BY <3>2, <4>1, <4>3, Zenon
    <3> QED BY <3>1, <3>2, Zenon
  <2>3. /\ SynOnce(wire'[c], syn_queue'[c], g)
        /\ SynThere(wire'[c], syn_queue'[c], g) => SynThere(wire[c], syn_queue'[c], g)
    <3>1. CASE c # to
      <4>1. wire'[c] = wire[c]
        BY <1>2, <3>1
      <4> QED BY <2>2, <4>1, Zenon
    <3>2. CASE c = to
      <4>1. wire[c] \in Seq(Datagrams) /\ wire'[c] = Append(wire[c], d)
        BY <1>1, <1>2, <3>2, Zenon DEF TypeOK
      <4> QED BY <1>11, <2>2, <4>1, SynsSent
    <3> QED BY <3>1, <3>2, Zenon
  <2> QED BY <2>2, <2>3, Zenon
<1>15. SynsOnce'
  BY <1>14, Zenon DEF SynsOnce
<1>16. SynsNew'
  <2> SUFFICES ASSUME NEW c \in Addrs, NEW g \in Handles, SynThere(wire'[c], syn_queue'[c], g),
                      NEW h \in Handles, AcceptedBy(g, h)'
               PROVE  FALSE
    BY Zenon DEF SynsNew
  <2>1. SynThere(wire[c], syn_queue[c], g)
    BY <1>14, Zenon
  <2>2. Used(g) /\ conn'[g] = conn[g]
    BY <1>13, <2>1, SynGenuine, Zenon
  <2>3. CASE h # n
    <3>1. AcceptedBy(g, h)
      BY <1>12, <2>2, <2>3, Zenon DEF AcceptedBy, Paired
    <3> QED BY <2>1, <3>1, Zenon DEF InsertInv, SynsNew
  <2>4. CASE h = n
    <3>1. conn[g].local = to /\ conn[g].remote = a /\ conn[g].connection_id_recv = id
      BY <1>10, <1>12, <2>2, <2>4, Zenon DEF AcceptedBy, Paired
    <3>2. g = k
      BY <1>7, <1>8, <2>2, <3>1, OneStream, Zenon
    <3>3. c = a
      BY <2>1, <3>1, SynGenuine, Zenon
    <3> QED BY <1>14, <3>2, <3>3, Zenon
  <2> QED BY <2>3, <2>4, Zenon
<1>17. EntriesRight'
  <2>1. conn'[n].local = a /\ Key(conn'[n].connection_id_recv, conn'[n].remote) = Key(IdRecv(syn), to)
    BY <1>10, <1>12, Zenon
  <2> QED BY <1>2, <1>12, <1>13, <2>1, EntryInserted, Zenon DEF InsertInv
<1>18. OriginsRight'
  <2> SUFFICES ASSUME NEW h \in Handles, Used(h)', conn'[h].role = "accept"
               PROVE  \E g \in Handles : Used(g)' /\ conn'[g].role = "connect" /\ Paired(g, h)'
    BY Zenon DEF OriginsRight
  <2>1. CASE h = n
    <3>1. PICK m \in Handles : m = k
      BY <1>7, Zenon
    <3>2. Used(m)' /\ conn'[m] = conn[m] /\ conn'[m].role = "connect"
      BY <1>8, <1>13, <3>1, Zenon
    <3>3. Paired(m, h)'
      BY <1>7, <1>8, <1>9, <1>10, <1>12, <2>1, <3>1, <3>2, Zenon DEF Paired
    <3> QED BY <1>10, <1>12, <2>1, <3>2, <3>3, Zenon
  <2>2. CASE h # n
    <3>1. Used(h) /\ conn'[h] = conn[h]
      BY <1>12, <2>2, Zenon
    <3>2. PICK g \in Handles : Used(g) /\ conn[g].role = "connect" /\ Paired(g, h)
      BY <3>1, Zenon DEF InsertInv, OriginsRight
    <3> QED BY <1>13, <3>1, <3>2, Zenon DEF Paired
  <2> QED BY <2>1, <2>2, Zenon
<1> QED BY <1>15, <1>16, <1>17, <1>18, Zenon DEF InsertInv

\* A datagram that is not a SYN is sent.
LEMMA InsertSends ==
  ASSUME HandshakeInv, InsertInv, NEW h \in Handles, NEW type \in {"Data", "State"},
         StreamSends(h, type)
  PROVE  InsertInv'
<1> DEFINE to == conn[h].remote
           d == [from |-> conn[h].local, packet |-> StreamPacket(type, h)]
<1>1. TypeOK /\ conn[h] \in Conns
  BY Zenon DEF HandshakeInv, TypeOK, StreamSends
<1>2. /\ wire' = [wire EXCEPT ![to] = Append(@, d)]
      /\ UNCHANGED <<routing_table, syn_queue, phase, conn>>
  BY Zenon DEF StreamSends, SendTo
<1>3. seq_number[h] \in SeqNumbers /\ ack_number[h] \in SeqNumbers
  BY <1>1, Zenon DEF TypeOK
<1>4. to \in Addrs /\ d \in Datagrams /\ d.packet.type # "Syn"
  BY <1>1, <1>3, Zenon DEF Conns, StreamPacket, Packets, Datagrams
<1> HIDE DEF to, d
<1>5. ASSUME NEW c \in Addrs, NEW g \in Handles
      PROVE  /\ SynOnce(wire'[c], syn_queue'[c], g)
             /\ SynThere(wire'[c], syn_queue'[c], g) => SynThere(wire[c], syn_queue[c], g)
  <2>1. SynOnce(wire[c], syn_queue[c], g) /\ syn_queue'[c] = syn_queue[c]
    BY <1>2, Zenon DEF InsertInv, SynsOnce
  <2>2. CASE c # to
    <3>1. wire'[c] = wire[c]
      BY <1>2, <2>2
    <3> QED BY <2>1, <3>1, Zenon
  <2>3. CASE c = to
    <3>1. wire[c] \in Seq(Datagrams) /\ wire'[c] = Append(wire[c], d)
      BY <1>1, <1>2, <2>3, Zenon DEF TypeOK
    <3> QED BY <1>4, <2>1, <3>1, SynsSent
  <2> QED BY <2>2, <2>3, Zenon
<1> QED BY <1>2, <1>5, InsertKept, Zenon DEF Used

\* The receiver task takes a datagram: every entry that it finds is that of a live stream.
LEMMA InsertReceive ==
  ASSUME HandshakeInv, InsertInv, NEW a \in Addrs, 1 \in DOMAIN wire[a], Receive(a, 1)
  PROVE  InsertInv'
<1> DEFINE d == wire[a][1]
           key == Key(d.packet.connection_id, d.from)
<1>1. TypeOK /\ wire[a] \in Seq(Datagrams) /\ syn_queue[a] \in Seq(Datagrams)
  BY Zenon DEF HandshakeInv, TypeOK
<1>2. /\ Route(a, d) /\ wire' = [wire EXCEPT ![a] = RemoveAt(@, 1)]
      /\ UNCHANGED <<phase, conn>>
  BY Zenon DEF Receive
<1>3. ~ StaleEntry(a, key)
  <2>1. ASSUME Occupied(a, key) PROVE Live(routing_table[a][key])
    <3>1. routing_table[a][key] \in Handles /\ Used(routing_table[a][key])
      BY <1>1, <2>1, Zenon DEF TypeOK, InsertInv, EntriesRight, Occupied
    <3> QED BY <3>1, Zenon DEF HandshakeInv, StreamsRight, StreamRight, Live
  <2> QED BY <2>1, Zenon DEF StaleEntry
<1>4. /\ routing_table' = routing_table
      /\ syn_queue' = syn_queue \/ syn_queue' = [syn_queue EXCEPT ![a] = Append(@, d)]
  BY <1>2, <1>3, Zenon DEF Route
<1> HIDE DEF key, d
<1>5. ASSUME NEW c \in Addrs, NEW g \in Handles
      PROVE  /\ SynOnce(wire'[c], syn_queue'[c], g)
             /\ SynThere(wire'[c], syn_queue'[c], g) => SynThere(wire[c], syn_queue[c], g)
  <2>1. SynOnce(wire[c], syn_queue[c], g)
    BY Zenon DEF InsertInv, SynsOnce
  <2>2. CASE c # a
    <3>1. wire'[c] = wire[c]
      BY <1>2, <2>2
    <3>2. syn_queue'[c] = syn_queue[c]
      <4>1. CASE syn_queue' = [syn_queue EXCEPT ![a] = Append(@, d)]
        BY <1>1, <2>2, <4>1, Zenon DEF TypeOK
      <4> QED BY <1>4, <4>1, Zenon
    <3> QED BY <2>1, <3>1, <3>2, Zenon
  <2>3. CASE c = a
    <3>1. wire'[a] = RemoveAt(wire[a], 1)
      BY <1>1, <1>2, Zenon DEF TypeOK
    <3>2. syn_queue'[a] = syn_queue[a] \/ syn_queue'[a] = Append(syn_queue[a], wire[a][1])
      BY <1>1, <1>4, Zenon DEF TypeOK, d
    <3> QED BY <1>1, <2>1, <2>3, <3>1, <3>2, SynsReceived, Zenon
  <2> QED BY <2>2, <2>3, Zenon
<1> QED BY <1>2, <1>4, <1>5, InsertKept, Zenon DEF Used

\* Every step keeps the invariant.
LEMMA InsertNext ==
  ASSUME Reliable, MaxDup = 0
  PROVE  HandshakeInv /\ InsertInv /\ [Next]_vars => InsertInv'
<1> SUFFICES ASSUME HandshakeInv, InsertInv, [Next]_vars PROVE InsertInv'
  BY Zenon
<1>1. TypeOK
  BY Zenon DEF HandshakeInv
<1>2. /\ MaxLoss = 0 /\ MaxDrops = 0 /\ ~ Reorder
      /\ losses \in 0 .. MaxLoss /\ drops \in 0 .. MaxDrops /\ dups \in 0 .. MaxDup
  BY <1>1, Zenon DEF Reliable, TypeOK
<1>3. ASSUME NEW h \in Handles, DropStream(h) PROVE FALSE
  BY <1>2, <1>3 DEF DropStream
<1>4. ASSUME NEW a \in Addrs, NEW i \in Arriving(a), Lose(a, i) \/ Duplicate(a, i) PROVE FALSE
  BY <1>2, <1>4 DEF Lose, Duplicate
<1>5. ASSUME NEW a \in Addrs, NEW i \in Arriving(a), Receive(a, i) PROVE InsertInv'
  <2>1. i = 1 /\ 1 \in DOMAIN wire[a]
    BY <1>2, Zenon DEF Arriving
  <2> QED BY <1>5, <2>1, InsertReceive, Zenon
<1>6. \A c \in Addrs, g \in Handles : SynOnce(wire[c], syn_queue[c], g)
  BY Zenon DEF InsertInv, SynsOnce
<1>7. ASSUME NEW a \in Addrs, AcceptFails(a) PROVE InsertInv'
  <2>1. /\ syn_queue[a] # << >> /\ syn_queue' = [syn_queue EXCEPT ![a] = Tail(@)]
        /\ UNCHANGED <<routing_table, phase, conn, wire>>
    BY <1>7, Zenon DEF AcceptFails, GetSyn
  <2>2. ASSUME NEW c \in Addrs, NEW g \in Handles
        PROVE  /\ SynOnce(wire'[c], syn_queue'[c], g)
               /\ SynThere(wire'[c], syn_queue'[c], g) => SynThere(wire[c], syn_queue[c], g)
    <3>1. CASE c # a
      <4>1. wire'[c] = wire[c] /\ syn_queue'[c] = syn_queue[c]
        BY <2>1, <3>1
      <4> QED BY <1>6, <4>1, Zenon
    <3>2. CASE c = a
      <4>1. /\ syn_queue[c] \in Seq(Datagrams) /\ syn_queue[c] # << >>
            /\ syn_queue'[c] = Tail(syn_queue[c]) /\ wire'[c] = wire[c]
        BY <1>1, <2>1, <3>2, Zenon DEF TypeOK
      <4> QED BY <1>6, <4>1, SynsTaken
    <3> QED BY <3>1, <3>2, Zenon
  <2> QED BY <2>1, <2>2, InsertKept, Zenon DEF Used
<1>8. ASSUME NEW h \in Handles, Connected(h) PROVE InsertInv'
  <2>1. /\ phase[h] = "connecting"
        /\ \E ph \in {"open", "panicked"} : phase' = [phase EXCEPT ![h] = ph]
        /\ UNCHANGED <<routing_table, syn_queue, conn, wire>>
    BY <1>8, Zenon DEF Connected
  <2>2. \A g \in Handles : Used(g)' <=> Used(g)
    BY <1>1, <2>1, Zenon DEF Used, TypeOK
  <2> QED BY <1>6, <2>1, <2>2, InsertKept, Zenon
<1>9. CASE UNCHANGED vars
  <2>1. UNCHANGED <<routing_table, syn_queue, phase, conn, wire>>
    BY <1>9, Zenon DEF vars
  <2> QED BY <1>6, <2>1, InsertKept, Zenon DEF Used
<1> QED
  BY <1>3, <1>4, <1>5, <1>7, <1>8, <1>9, InsertConnect, InsertAccept, InsertSends, Zenon
  DEF Next, ReceiveSome, AcceptSome

\* At the start there is no SYN and no entry.
LEMMA InsertInit == Init => InsertInv
<1> SUFFICES ASSUME Init PROVE InsertInv
  BY Zenon
<1>1. /\ \A h \in Handles : phase[h] = "unused"
      /\ \A a \in Addrs : wire[a] = << >> /\ syn_queue[a] = << >> /\ DOMAIN routing_table[a] = {}
  BY Zenon DEF Init
<1>2. DOMAIN << >> = {}
  OBVIOUS
<1>3. EntriesRight /\ OriginsRight
  BY <1>1, Zenon DEF EntriesRight, OriginsRight, Used
<1>4. SynsOnce /\ SynsNew
  BY <1>1, <1>2, Zenon DEF SynsOnce, SynOnce, SynsNew, SynThere
<1> QED BY <1>3, <1>4, Zenon DEF InsertInv

\* A stream that accept made and that holds the key accepted the same SYN.
LEMMA InsertCollides == ASSUME HandshakeInv, InsertInv PROVE OnlyConnectsCollide
<1> SUFFICES ASSUME NEW a \in Addrs, syn_queue[a] # << >>,
                    LET syn == Head(syn_queue[a])
                        key == Key(IdRecv(syn), syn.from)
                    IN Occupied(a, key) /\ conn[routing_table[a][key]].role # "connect"
             PROVE  FALSE
  BY Zenon DEF OnlyConnectsCollide
<1> DEFINE syn == Head(syn_queue[a])
           g == syn.packet.by
           key == Key(IdRecv(syn), syn.from)
           h == routing_table[a][key]
<1>1. TypeOK /\ syn_queue[a] \in Seq(Datagrams)
  BY Zenon DEF HandshakeInv, TypeOK
<1>2. 1 \in DOMAIN syn_queue[a] /\ syn = syn_queue[a][1]
  BY <1>1, QueueHead, Zenon
<1>3. syn \in Datagrams /\ Queued(a, syn)
  BY <1>1, <1>2, HandshakeTypes, Zenon DEF Queued
<1>4. Genuine(a, syn) /\ syn.packet.type = "Syn"
  BY <1>3, Zenon DEF HandshakeInv, DatagramsGenuine
<1>5. g \in Handles /\ SynThere(wire[a], syn_queue[a], g)
  BY <1>2, <1>3, <1>4, Zenon DEF Datagrams, Packets, SynThere, SynAt
<1>6. key \in DOMAIN routing_table[a] /\ conn[h].role # "connect"
  BY Zenon DEF Occupied
<1>7. /\ h \in Handles /\ Used(h) /\ conn[h].local = a
      /\ Key(conn[h].connection_id_recv, conn[h].remote) = key
  BY <1>1, <1>6, Zenon DEF TypeOK, InsertInv, EntriesRight
<1> HIDE DEF syn, h
<1>8. /\ Used(g) /\ conn[g].local = syn.from /\ conn[g].remote = a /\ conn[g].role = "connect"
      /\ syn.packet.connection_id = conn[g].connection_id_recv
  BY <1>4, Zenon DEF Genuine
<1>9. /\ conn[h].remote = syn.from
      /\ conn[h].connection_id_recv = WrappingAdd(conn[g].connection_id_recv, 1)
  BY <1>7, <1>8, Zenon DEF Key, IdRecv
<1>10. conn[h].role = "accept"
  BY <1>1, <1>6, <1>7, HandshakeTypes, Zenon DEF Conns
<1>11. conn[g].connection_id_send = conn[h].connection_id_recv
  BY <1>5, <1>8, <1>9, Zenon DEF HandshakeInv, StreamsRight, StreamRight
<1>12. PICK k \in Handles : Used(k) /\ conn[k].role = "connect" /\ Paired(k, h)
  BY <1>7, <1>10, Zenon DEF InsertInv, OriginsRight
<1>13. conn[k].connection_id_recv = conn[g].connection_id_recv
  <2>1. /\ conn[k].connection_id_send = WrappingAdd(conn[k].connection_id_recv, 1)
        /\ conn[k].connection_id_send = conn[h].connection_id_recv
    BY <1>12, Zenon DEF HandshakeInv, StreamsRight, StreamRight, Paired
  <2>2. conn[k].connection_id_recv \in SeqNumbers /\ conn[g].connection_id_recv \in SeqNumbers
    BY <1>1, <1>5, <1>8, <1>12, HandshakeTypes, Zenon DEF Conns
  <2> QED BY <1>9, <2>1, <2>2, NextIdDiffers, Zenon
<1>14. AcceptedBy(g, h)
  BY <1>7, <1>8, <1>9, <1>10, <1>11, <1>12, <1>13, Zenon DEF AcceptedBy, Paired
<1> QED BY <1>5, <1>7, <1>14, Zenon DEF InsertInv, SynsNew

\* If datagrams are neither lost, duplicated nor overtaken and no stream is dropped, the only
\* key that insert_connection can find in use is that of a connect of the same socket: accept
\* ends in its todo!() on the collision of neighbouring ids and on nothing else, however many
\* sockets connect to one another and in whatever order.
THEOREM AcceptFailsOnConnectsOnly ==
  ASSUME Reliable, MaxDup = 0
  PROVE  Spec => []OnlyConnectsCollide
<1>1. HandshakeInv /\ InsertInv => OnlyConnectsCollide
  BY InsertCollides, Zenon
<1> QED
  BY <1>1, HandshakeInit, HandshakeNext, InsertInit, InsertNext, PTL DEF Spec

=============================================================================
