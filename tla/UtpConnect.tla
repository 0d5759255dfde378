----------------------------- MODULE UtpConnect -----------------------------
(***************************************************************************)
(* Opening, routing and dropping connections: UtpSocket of                 *)
(* src/src/socket.rs with its routing table and its receiver task          *)
(* (src/src/socket/packet_receiver.rs), UtpListener::accept of             *)
(* src/src/listener.rs and UtpStream::connect of src/src/stream.rs, for    *)
(* any number of sockets that talk over UDP.                               *)
(*                                                                         *)
(* A handle names the mailbox that register_connection or                  *)
(* insert_connection makes, and with it the connecting future or stream    *)
(* that holds its receive half.  What an open stream does with the packets *)
(* in its mailbox is the subject of UtpStream; here it only sends some.    *)
(* A socket lives as long as the program: every listener and stream owns   *)
(* a share of it.                                                          *)
(***************************************************************************)
EXTENDS SeqNum, SequenceOps, FiniteSets

CONSTANTS
  Addrs,        \* the sockets, each named by its address
  Ids,          \* connection ids that register_connection may draw
  InitialSeqs,  \* sequence numbers that accept may draw
  Connects,     \* pairs <<local, remote>> for which an application calls connect
  MaxHandles,   \* bound: mailboxes ever made
  MaxConnects,  \* bound: of these, by connect
  MaxSends,     \* bound: packets that open streams send
  MaxDrops,     \* bound: streams and connecting futures that are dropped
  Reorder,      \* datagrams may overtake one another
  MaxLoss,      \* bound: datagrams lost
  MaxDup        \* bound: datagrams duplicated

ASSUME ConnectAssumption ==
  /\ Ids \subseteq SeqNumbers
  /\ InitialSeqs \subseteq SeqNumbers
  /\ Connects \subseteq Addrs \X Addrs
  /\ {MaxHandles, MaxConnects, MaxSends, MaxDrops, MaxLoss, MaxDup} \subseteq Nat
  /\ Reorder \in BOOLEAN

Handles == 1 .. MaxHandles

VARIABLES
  routing_table, \* per socket: (connection id, remote address) -> handle
  syn_queue,     \* per socket: SYN packets for the listener, with their senders
  accepting,     \* per socket: whether its accept loop still runs
  phase,         \* per handle: the life of its stream
  conn,          \* per handle: the fields of its stream that never change
  seq_number,    \* per handle: sequence number of the next packet to send
  ack_number,    \* per handle: number of the peer's that is acknowledged
  mailbox,       \* per handle: packets in the channel
  wire,          \* per address: datagrams on their way there
  sends, drops, losses, dups

numberVars == <<seq_number, ack_number>>
faultVars == <<sends, drops, losses, dups>>
vars == <<routing_table, syn_queue, accepting, phase, conn, numberVars, mailbox, wire, faultVars>>

\* The key under which a connection is registered.
Key(id, remote) == <<id, remote>>
Keys == SeqNumbers \X Addrs

\* A packet as the handshake reads it.  "by" is history: the handle that sent it.
Packets == [type : {"Syn", "State", "Data"}, connection_id : SeqNumbers,
            seq_number : SeqNumbers, ack_number : SeqNumbers, by : Handles]
Datagrams == [from : Addrs, packet : Packets]

\* "isn" is history: the number before the first data packet of the stream.
Conns == [local : Addrs, remote : Addrs, role : {"connect", "accept"},
          connection_id_recv : SeqNumbers, connection_id_send : SeqNumbers,
          isn : SeqNumbers]

Phases == {"unused", "connecting", "open", "panicked", "dropped"}

TypeOK ==
  /\ DOMAIN routing_table = Addrs
  /\ \A a \in Addrs : /\ DOMAIN routing_table[a] \subseteq Keys
                      /\ \A key \in DOMAIN routing_table[a] : routing_table[a][key] \in Handles
  /\ syn_queue \in [Addrs -> Seq(Datagrams)]
  /\ accepting \in [Addrs -> BOOLEAN]
  /\ phase \in [Handles -> Phases]
  /\ DOMAIN conn = Handles
  /\ \A h \in Handles : phase[h] # "unused" => conn[h] \in Conns
  /\ seq_number \in [Handles -> SeqNumbers]
  /\ ack_number \in [Handles -> SeqNumbers]
  /\ mailbox \in [Handles -> Seq(Packets)]
  /\ wire \in [Addrs -> Seq(Datagrams)]
  /\ sends \in 0 .. MaxSends
  /\ drops \in 0 .. MaxDrops
  /\ losses \in 0 .. MaxLoss
  /\ dups \in 0 .. MaxDup

Init ==
  /\ routing_table = [a \in Addrs |-> [key \in {} |-> 0]]
  /\ syn_queue = [a \in Addrs |-> << >>]
  /\ accepting = [a \in Addrs |-> TRUE]
  /\ phase = [h \in Handles |-> "unused"]
  /\ conn = [h \in Handles |-> << >>]
  /\ seq_number = [h \in Handles |-> 0]
  /\ ack_number = [h \in Handles |-> 0]
  /\ mailbox = [h \in Handles |-> << >>]
  /\ wire = [a \in Addrs |-> << >>]
  /\ sends = 0 /\ drops = 0 /\ losses = 0 /\ dups = 0

-----------------------------------------------------------------------------
(***************************************************************************)
(* The routing table.                                                      *)
(***************************************************************************)

\* A mailbox is closed when the future or stream that holds its receive half is gone.
Live(h) == phase[h] \in {"connecting", "open"}

\* The next handle.
Fresh(h) == phase[h] = "unused" /\ \A g \in Handles : g < h => phase[g] # "unused"

\* Entry::Occupied.
Occupied(a, key) == key \in DOMAIN routing_table[a]

\* or_insert on a vacant entry.
InsertEntry(a, key, h) ==
  routing_table' = [routing_table EXCEPT ![a] =
    [k \in DOMAIN @ \cup {key} |-> IF k = key THEN h ELSE @[k]]]

\* Mutant of StaleEntry: the predicate of remove_if answers the wrong way round.
DeliveredEntry(a, key) == Occupied(a, key) /\ Live(routing_table[a][key])

\* remove_if takes an entry out when the send into its mailbox fails.
StaleEntry(a, key) == Occupied(a, key) /\ ~ Live(routing_table[a][key])

\* send_to: the sender task puts the packet on the wire.
SendTo(from, to, packet) ==
  wire' = [wire EXCEPT ![to] = Append(@, [from |-> from, packet |-> packet])]

-----------------------------------------------------------------------------
(***************************************************************************)
(* connect, accept, and the life of a stream.                              *)
(***************************************************************************)

Syn(id, h) ==
  [type |-> "Syn", connection_id |-> id, seq_number |-> 1, ack_number |-> 0, by |-> h]

\* Calls of connect so far.
ConnectCount == Cardinality({h \in Handles : phase[h] # "unused" /\ conn[h].role = "connect"})

\* connect, up to its await: the id that register_connection draws is not in use for this
\* remote address (one that is, is drawn again); the SYN is sent.
Connect(a, b, id, h) ==
  /\ Fresh(h)
  /\ ConnectCount < MaxConnects
  /\ ~ Occupied(a, Key(id, b))
  /\ InsertEntry(a, Key(id, b), h)
  /\ phase' = [phase EXCEPT ![h] = "connecting"]
  /\ conn' = [conn EXCEPT ![h] =
       [local |-> a, remote |-> b, role |-> "connect",
        connection_id_recv |-> id, connection_id_send |-> WrappingAdd(id, 1), isn |-> 1]]
  /\ seq_number' = [seq_number EXCEPT ![h] = WrappingAdd(1, 1)]
  /\ SendTo(a, b, Syn(id, h))
  /\ UNCHANGED <<syn_queue, accepting, ack_number, mailbox, faultVars>>

\* Mutant of Connected: the number of the next packet is taken for the last one's.
ConnectedToNext(h) ==
  /\ phase[h] = "connecting"
  /\ mailbox[h] # << >>
  /\ phase' = [phase EXCEPT ![h] = "open"]
  /\ ack_number' = [ack_number EXCEPT ![h] = WrappingAdd(Head(mailbox[h]).seq_number, 1)]
  /\ mailbox' = [mailbox EXCEPT ![h] = Tail(@)]
  /\ UNCHANGED <<routing_table, syn_queue, accepting, conn, seq_number, wire, faultVars>>

\* The rest of connect: the first packet in the mailbox is the answer, if it is a State
\* packet; of any other kind it ends in a todo!().  That is a Data packet here: Fin and
\* Reset, which would end there too, no code of this repository sends.
Connected(h) ==
  /\ phase[h] = "connecting"
  /\ mailbox[h] # << >>
  /\ LET response == Head(mailbox[h]) IN
       IF response.type = "State"
       THEN /\ phase' = [phase EXCEPT ![h] = "open"]
            /\ ack_number' = [ack_number EXCEPT ![h] = response.seq_number]
       ELSE /\ phase' = [phase EXCEPT ![h] = "panicked"]
            /\ UNCHANGED ack_number
  /\ mailbox' = [mailbox EXCEPT ![h] = Tail(@)]
  /\ UNCHANGED <<routing_table, syn_queue, accepting, conn, seq_number, wire, faultVars>>

\* Mutant of SynAck: the answer carries the id that the acceptor receives under.
SynAckUnderIdRecv(id, s, ack, h) ==
  [type |-> "State", connection_id |-> WrappingAdd(id, 1), seq_number |-> s, ack_number |-> ack,
   by |-> h]

SynAck(id, s, ack, h) ==
  [type |-> "State", connection_id |-> id, seq_number |-> s, ack_number |-> ack, by |-> h]

\* Mutants of IdRecv: both ends are taken to receive under the same id; the id does not
\* wrap.
IdRecvNotShifted(syn) == syn.packet.connection_id
IdRecvNotWrapping(syn) == syn.packet.connection_id + 1

\* The id under which the acceptor of a SYN receives.
IdRecv(syn) == WrappingAdd(syn.packet.connection_id, 1)

\* Mutant of GetSyn: the oldest SYN is answered but stays in the queue.
GetSynPeeks(a) ==
  /\ syn_queue[a] # << >>
  /\ UNCHANGED syn_queue

\* get_syn: the oldest SYN leaves the queue.
GetSyn(a) ==
  /\ syn_queue[a] # << >>
  /\ syn_queue' = [syn_queue EXCEPT ![a] = Tail(@)]

\* accept: insert_connection succeeds, and the answer is sent.
Accept(a, s, h) ==
  /\ accepting[a]
  /\ GetSyn(a)
  /\ Fresh(h)
  /\ LET syn == Head(syn_queue[a])
         id  == syn.packet.connection_id
         ack == syn.packet.seq_number
     IN /\ ~ Occupied(a, Key(IdRecv(syn), syn.from))
        /\ InsertEntry(a, Key(IdRecv(syn), syn.from), h)
        /\ conn' = [conn EXCEPT ![h] =
             [local |-> a, remote |-> syn.from, role |-> "accept",
              connection_id_recv |-> IdRecv(syn), connection_id_send |-> id, isn |-> s]]
        /\ seq_number' = [seq_number EXCEPT ![h] = WrappingAdd(s, 1)]
        /\ ack_number' = [ack_number EXCEPT ![h] = ack]
        /\ SendTo(a, syn.from, SynAck(id, s, ack, h))
  /\ phase' = [phase EXCEPT ![h] = "open"]
  /\ UNCHANGED <<accepting, mailbox, faultVars>>

\* accept: insert_connection fails, and the task that accepts ends in a todo!().
AcceptFails(a) ==
  /\ accepting[a]
  /\ GetSyn(a)
  /\ LET syn == Head(syn_queue[a]) IN Occupied(a, Key(IdRecv(syn), syn.from))
  /\ accepting' = [accepting EXCEPT ![a] = FALSE]
  /\ UNCHANGED <<routing_table, phase, conn, numberVars, mailbox, wire, faultVars>>

StreamPacket(type, h) ==
  [type |-> type, connection_id |-> conn[h].connection_id_send,
   seq_number |-> seq_number[h], ack_number |-> ack_number[h], by |-> h]

\* An open stream sends a data packet or an ACK (send_data, send_ack).
StreamSends(h, type) ==
  /\ phase[h] = "open"
  /\ sends < MaxSends
  /\ sends' = sends + 1
  /\ SendTo(conn[h].local, conn[h].remote, StreamPacket(type, h))
  /\ seq_number' = [seq_number EXCEPT ![h] = IF type = "Data" THEN WrappingAdd(@, 1) ELSE @]
  /\ UNCHANGED <<routing_table, syn_queue, accepting, phase, conn, ack_number, mailbox,
                 drops, losses, dups>>

\* The application drops a stream, or a connect that it will not wait for any longer.
\* The entry in the routing table stays.
DropStream(h) ==
  /\ Live(h)
  /\ drops < MaxDrops
  /\ drops' = drops + 1
  /\ phase' = [phase EXCEPT ![h] = "dropped"]
  /\ UNCHANGED <<routing_table, syn_queue, accepting, conn, numberVars, mailbox, wire,
                 sends, losses, dups>>

-----------------------------------------------------------------------------
(***************************************************************************)
(* The receiver task and the datagram service.                             *)
(***************************************************************************)

\* What the receiver task of socket a does with a datagram.
Route(a, datagram) ==
  LET packet == datagram.packet
      key    == Key(packet.connection_id, datagram.from)
  IN IF packet.type = "Syn"
     THEN /\ syn_queue' = [syn_queue EXCEPT ![a] = Append(@, datagram)]
          /\ UNCHANGED <<routing_table, mailbox>>
     ELSE /\ mailbox' = IF Occupied(a, key) /\ Live(routing_table[a][key])
                        THEN [mailbox EXCEPT ![routing_table[a][key]] = Append(@, packet)]
                        ELSE mailbox
          /\ routing_table' = IF StaleEntry(a, key)
                              THEN [routing_table EXCEPT ![a] =
                                      [k \in DOMAIN @ \ {key} |-> @[k]]]
                              ELSE routing_table
          /\ UNCHANGED syn_queue

Arriving(a) == IF Reorder THEN DOMAIN wire[a] ELSE DOMAIN wire[a] \cap {1}

Receive(a, i) ==
  /\ Route(a, wire[a][i])
  /\ wire' = [wire EXCEPT ![a] = RemoveAt(@, i)]
  /\ UNCHANGED <<accepting, phase, conn, numberVars, faultVars>>

Duplicate(a, i) ==
  /\ dups < MaxDup
  /\ dups' = dups + 1
  /\ Route(a, wire[a][i])
  /\ UNCHANGED <<accepting, phase, conn, numberVars, wire, sends, drops, losses>>

Lose(a, i) ==
  /\ losses < MaxLoss
  /\ losses' = losses + 1
  /\ wire' = [wire EXCEPT ![a] = RemoveAt(@, i)]
  /\ UNCHANGED <<routing_table, syn_queue, accepting, phase, conn, numberVars, mailbox,
                 sends, drops, dups>>

-----------------------------------------------------------------------------
ReceiveSome(a) == \E i \in Arriving(a) : Receive(a, i)
AcceptSome(a) == \E s \in InitialSeqs, h \in Handles : Accept(a, s, h)

Next ==
  \/ \E pair \in Connects, id \in Ids, h \in Handles : Connect(pair[1], pair[2], id, h)
  \/ \E h \in Handles : Connected(h)
  \/ \E h \in Handles, type \in {"Data", "State"} : StreamSends(h, type)
  \/ \E h \in Handles : DropStream(h)
  \/ \E a \in Addrs : AcceptSome(a)
  \/ \E a \in Addrs : AcceptFails(a)
  \/ \E a \in Addrs : ReceiveSome(a)
  \/ \E a \in Addrs : \E i \in Arriving(a) : Duplicate(a, i)
  \/ \E a \in Addrs : \E i \in Arriving(a) : Lose(a, i)

Spec == Init /\ [][Next]_vars

\* The receiver task is woken for every datagram, tasks that await a packet are woken when
\* it is there, and a listener goes on accepting until a todo!() ends it.
Fairness ==
  /\ \A a \in Addrs : WF_vars(ReceiveSome(a)) /\ WF_vars(AcceptSome(a) \/ AcceptFails(a))
  /\ \A h \in Handles : WF_vars(Connected(h))

FairSpec == Spec /\ Fairness

-----------------------------------------------------------------------------
(***************************************************************************)
(* Properties.                                                             *)
(***************************************************************************)

\* As long as its stream or connecting future lives, a mailbox is the one registered for
\* its id and remote address, whatever is dropped, registered and removed around it.  So
\* its send half is never dropped: the recv().await.unwrap() of connect cannot panic, and
\* the end-of-stream branches of poll_read_packet are never taken.
LiveIsRouted ==
  \A h \in Handles : Live(h) =>
    LET c == conn[h]
        key == Key(c.connection_id_recv, c.remote)
    IN Occupied(c.local, key) /\ routing_table[c.local][key] = h

\* g and h are the two ends of one connection: each sends to the other under the id that
\* the other receives under.
Paired(g, h) ==
  /\ conn[g].local = conn[h].remote /\ conn[g].remote = conn[h].local
  /\ conn[g].connection_id_send = conn[h].connection_id_recv
  /\ conn[h].connection_id_send = conn[g].connection_id_recv

\* What connect and accept leave behind is the state in which UtpStream starts: an open
\* stream of connect has a peer that accepted its SYN, and each acknowledges the number
\* before the first that the other sends.
HandshakeAgrees ==
  \A h \in Handles : phase[h] = "open" /\ conn[h].role = "connect" =>
    \E g \in Handles :
      /\ phase[g] = "open" /\ conn[g].role = "accept"
      /\ Paired(g, h)
      /\ ack_number[h] = conn[g].isn
      /\ ack_number[g] = conn[h].isn

\* A packet in a mailbox was sent by the other end of that very connection.
MailboxFromPeer ==
  \A h \in Handles : \A i \in DOMAIN mailbox[h] : Paired(mailbox[h][i].by, h)

\* insert_connection is called for a pair that is not in the routing table: accept never
\* ends in its todo!().
InsertIsNew ==
  \A a \in Addrs : accepting[a] /\ syn_queue[a] # << >> =>
    LET syn == Head(syn_queue[a]) IN ~ Occupied(a, Key(IdRecv(syn), syn.from))

\* The only thing that accept can find under the key it is to insert is a connect of its own
\* socket to the sender of the SYN, which drew the id after the SYN's: never the stream of an
\* earlier accept.  A SYN is accepted once, and no two of a socket's SYNs ask for one key.
OnlyConnectsCollide ==
  \A a \in Addrs : accepting[a] /\ syn_queue[a] # << >> =>
    LET syn == Head(syn_queue[a])
        key == Key(IdRecv(syn), syn.from)
    IN Occupied(a, key) => conn[routing_table[a][key]].role = "connect"

\* A connect gets its stream, and does not panic, as long as the remote socket goes on
\* accepting: it is left waiting only when the accept there has met a collision.
ConnectReturns ==
  \A h \in Handles : phase[h] = "connecting" ~>
    \/ phase[h] = "open"
    \/ phase[h] = "connecting" /\ ~ accepting[conn[h].remote]

=============================================================================
