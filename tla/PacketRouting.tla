---------------------------- MODULE PacketRouting ----------------------------
(***************************************************************************)
(* What the receiver task promises to connections and to the listener: the *)
(* datagrams that arrived are taken in order and one at a time.  One that  *)
(* is no packet has no effect, a SYN goes to the SYN queue, any other      *)
(* packet to the mailbox of the stream that its id and sender lead to.  In *)
(* the same step an entry is removed if it leads to a stream that is gone. *)
(* UtpConnect uses the task in this form: there Route is a single step.    *)
(***************************************************************************)
EXTENDS Naturals, Sequences

CONSTANTS
  Addrs,       \* remote addresses
  Ids,         \* connection ids that are registered
  Datagrams,   \* byte strings that arrive
  Decode(_),   \* the packet that a byte string is, or an error
  IsError(_),
  MaxHandles   \* bound: connections registered

VARIABLES
  pending,        \* datagrams that arrived, with their senders
  registered,     \* number of connections registered
  routing_table,  \* (connection id, remote address) -> number of the connection
  live,           \* connections whose stream exists
  mailbox,        \* per connection: packets ever put into its mailbox
  syn_queue,      \* SYN packets with their senders
  open            \* FALSE once the socket is being dropped

tableVars == <<registered, routing_table, live, mailbox>>
vars == <<pending, tableVars, syn_queue, open>>

Init ==
  /\ pending = << >>
  /\ registered = 0
  /\ routing_table = [key \in {} |-> 0]
  /\ live = {}
  /\ mailbox = [h \in 1 .. MaxHandles |-> << >>]
  /\ syn_queue = << >>
  /\ open = TRUE

Arrive(from, bytes) ==
  /\ pending' = Append(pending, [from |-> from, bytes |-> bytes])
  /\ UNCHANGED <<tableVars, syn_queue, open>>

Register(key) ==
  /\ open
  /\ registered < MaxHandles
  /\ key \notin DOMAIN routing_table
  /\ registered' = registered + 1
  /\ routing_table' = [k \in DOMAIN routing_table \cup {key} |->
                         IF k = key THEN registered + 1 ELSE routing_table[k]]
  /\ live' = live \cup {registered + 1}
  /\ UNCHANGED <<pending, mailbox, syn_queue, open>>

DropStream(h) ==
  /\ live' = live \ {h}
  /\ UNCHANGED <<pending, registered, routing_table, mailbox, syn_queue, open>>

Close ==
  /\ open /\ live = {}
  /\ open' = FALSE
  /\ UNCHANGED <<pending, tableVars, syn_queue>>

\* The oldest datagram, and what it decodes to.
Oldest == Head(pending)
Packet == Decode(Oldest.bytes)

Take == pending # << >> /\ pending' = Tail(pending)

\* It is no packet, or the socket is being dropped.
Ignore ==
  /\ Take
  /\ IsError(Packet) \/ ~ open
  /\ UNCHANGED <<tableVars, syn_queue, open>>

QueueSyn ==
  /\ Take
  /\ ~ IsError(Packet) /\ Packet.packet_type = "Syn"
  /\ syn_queue' = Append(syn_queue, <<Packet, Oldest.from>>)
  /\ UNCHANGED <<tableVars, open>>

Deliver ==
  LET key   == <<Packet.connection_id, Oldest.from>>
      found == key \in DOMAIN routing_table
      h     == routing_table[key]
  IN /\ Take
     /\ ~ IsError(Packet) /\ Packet.packet_type # "Syn"
     /\ IF found /\ h \in live
        THEN /\ mailbox' = [mailbox EXCEPT ![h] = Append(@, Packet)]
             /\ UNCHANGED routing_table
        ELSE /\ routing_table' = [k \in DOMAIN routing_table \ {key} |-> routing_table[k]]
             /\ UNCHANGED mailbox
     /\ UNCHANGED <<registered, live, syn_queue, open>>

Next ==
  \/ \E from \in Addrs, bytes \in Datagrams : Arrive(from, bytes)
  \/ \E id \in Ids, addr \in Addrs : Register(<<id, addr>>)
  \/ \E h \in live : DropStream(h)
  \/ Close
  \/ Ignore \/ QueueSyn \/ Deliver

Spec == Init /\ [][Next]_vars

=============================================================================
