# Verification of utp-rs

TLA+ models of the uTP implementation in this repository, model-checked with TLC
on small instances and, where marked, proved with TLAPS for every value of the
constants. `PROJECT.json` maps every definition to the lines it models and lists
runs, mutants, findings, hazards and theorems.

## 1. Inventory

| Part | State it keeps | Operations | What makes it correct |
|---|---|---|---|
| `UtpStream` (`stream.rs`) | next number to send, last number assembled, segments out of order, assembled data, unacknowledged chunks, mailbox | `poll_read`, `poll_write`, `poll_flush`, `poll_shutdown`, `connect` | data comes out in the order it went in; flush tells the truth; no waiting call is forgotten |
| `UtpListener` (`listener.rs`) | a share of the socket | `accept` | the new stream agrees with its peer on ids and numbers |
| `UtpSocket` (`socket.rs`) | routing table, SYN queue, outgoing channel | `send_to`, `register_connection`, `insert_connection`, `get_syn` | one live mailbox per (id, address) |
| `PacketReceiver` (`socket/packet_receiver.rs`) | weak references only | `poll` | every packet reaches its connection; only stale entries are removed |
| `PacketSender` (`socket/packet_sender.rs`) | outgoing buffer | `poll` | every packet is sent once, in order; never asleep with work to do |
| `CongestionController` (`congestion.rs`, `time.rs`) | base delays, samples, windows | `update_state` | samples differ as the delays do; a sample less the base delay is the queueing delay (nothing reads it yet) |
| `Packet` (`packet.rs`, `error.rs`) | none | encode, decode | they are inverse to each other; anything else is an error |
| error texts, test helpers | none | none | none |

How they interact: a stream or a listener gives packets to `send_to`; the sender
task writes them to the UDP socket. The receiver task reads datagrams and puts a
SYN in the listener's queue and anything else in the mailbox that the routing
table names for (id, remote address). A stream takes packets from its mailbox
only while `poll_read` or `poll_flush` runs, and acknowledges only at the end of
a `poll_read`.

What is hard about it: packets are lost, duplicated and reordered; the mailbox
fills up while a poll drains it; it has one waker but two calls that wait on it;
numbers and ids wrap; the routing table keeps entries of dropped streams and ids
are drawn again; polls are cut short by tokio's cooperative budget; and
unfinished paths end in `todo!()`. `PROJECT.json` lists these hazards with their
lines and the properties that cover them.

## 2. Modules

- `SeqNum`: the u16 arithmetic, with the modulus as a constant. `SequenceOps`: three
  operators on sequences, by themselves because every definition in sight makes the
  provers slower.
- `UtpStream`: both ends of one connection and everything between them. `Duplex`: what
  a connection promises to its applications; `UtpStreamContract`: the mapping of the one
  to the other. `MCUtpStream` instantiates them.
- `UtpStreamProofs` (types, the inductive invariant, and order), `UtpStreamTheorems`
  (flush, `is_suspicious`, waiting, no retraction, the contract): its theorems.
- `UtpConnect`: sockets, routing tables, `connect`, `accept`, drops, and what the
  receiver task does with a datagram. `MCUtpConnect` instantiates it,
  `UtpConnectProofs` (routing, and the two ends of a handshake) and `UtpAcceptProofs`
  (what makes `accept` fail) hold its theorems.
- `PacketSender`: the sender task, with `PacketSenderProofs`. `OutgoingQueue`: what
  `send_to` promises.
- `PacketReceiver`: the receiver task, with `PacketReceiverProofs`. It decodes what
  arrives with `PacketCodec`. `PacketRouting`: what the task promises to connections and
  to the listener, one step for each datagram; `PacketReceiverContract`: the mapping of
  the one to the other. `MCPacketReceiver` chooses the datagrams.
- `PacketCodec`: encode and decode, with `PacketCodecProofs`.
- `CongestionController`: delay measurement, with `CongestionControllerProofs`.

The modules meet at these places. `UtpStream` and `UtpConnect` use `send_to` as an
append to the wire, which is what `OutgoingQueue` says and `PacketSender` is
proved to implement. They take the receiver task's handling of a datagram as one
step, which is what `PacketRouting` says and `PacketReceiver` is proved to implement. The state in which `UtpStream` starts is the one that
`HandshakeAgrees` of `UtpConnect` says a handshake leaves, on a network that keeps
order and loses nothing.

### UtpStream

The variables have the names of the struct's fields, one value per end. A chunk
of `poll_write` is one segment, and the payload of the n-th segment an end writes
is the number n. Of a packet the model keeps what the receiving stream reads.

A poll of `poll_read` or `poll_flush` is several steps: `BeginPoll`, one
`ReadPacket` per packet (`poll_read_packet`, `is_suspicious`, `handle_packet`),
then `FinishRead` or `FinishFlush` for the rest of the function. Packets may
arrive between these steps. The last `poll_recv`, which finds the mailbox empty and
leaves the waker in one go, and the rest of the function are one step: nothing in the
rest depends on what arrives meanwhile. `poll_write` never waits and is one step. `call` says
for each half whether it is called, scheduled or waiting, and `waker` whose waker
the mailbox keeps. `Split` puts reading and flushing in two tasks, as
`tokio::io::split` allows; without it one task makes all calls. `EndPoll` also
covers a poll that tokio's budget cuts short.

Left out: the end-of-stream branches (`None` from the mailbox). They are
unreachable: `LiveIsRouted` shows that the send half of a live stream's mailbox
stays in the routing table. Errors of `send_to` are left out too, since the
sender task only ends when the socket is dropped, and a stream owns a share of it.
`is_shutdown` is set only by `poll_shutdown`, which always panics, so the stream
does not outlive it. Fin and Reset packets, on which `is_suspicious` panics, are left
out because nothing in the repository sends them. Empty buffers are not given to `poll_read` or `poll_write`.

### UtpConnect

A handle names a mailbox and with it the stream or the connecting future that
holds its receive half. `Connect` is `connect` up to its await, `Connected` the
rest. `Accept` and `AcceptFails` are the two ends of `accept`. `StreamSends`
stands for all traffic of open streams. `Receive` is the receiver task with one
datagram, `DropStream` the drop of a stream or of a connect in progress, which
leaves its routing entry behind. The lock on the table's entry makes each table
operation one step.

### PacketSender

One step per call into the channel or the UDP socket. `notified` is the
executor's mark that the task is to be polled (again), `rx_waker` and `io_waker`
say who would set it.

### PacketReceiver and PacketCodec

One step per call into the UDP socket, the routing table or the SYN queue.
`ready` is tokio's cached readiness, which only a read that finds nothing clears.
`Register`, `DropStream` and `DropField` are what connections and the owner of the
socket do meanwhile; the fields of `UtpSocket` are dropped in their order, so the
task may find the UDP socket alive and the table gone. Dropping the UDP socket
wakes nobody: a task that sleeps then is left behind, and the model keeps that.
`handled` is history, for the properties.

A datagram is a sequence. Each field of the header is one element, since fields
have fixed places and are copied whole; extensions and data are bytes, since there
lengths and types decide what the next byte means. `ByteModulus` stands for 256.
A datagram longer than `MAX_DATAGRAM_SIZE`, which the read cuts, is not modelled.

### CongestionController

One direction: packets from `send_packet` of the peer to `poll_read_packet` here,
with a clock at either end. The clocks run at one speed, differ by an unknown
offset, either way, and wrap. `delays` is history: how long each packet really took.

## 3. Runs

| Run | Result | Distinct states | Question |
|---|---|---|---|
| `stream_faults` | pass | 627,908 | order, flush, no retraction, no stranded call, no needed ACK ignored and the contract `Duplex`, with one loss, one duplicate, reordering, unasked-for polls and a shutdown |
| `stream_wrap` | pass | 1,670,712 | reassembly while the numbers wrap, and no needed segment ignored, with more segments than the window, reordering and a duplicate |
| `stream_live` | pass | 291,460 | both ends write, read and flush in one task each, on a network without faults: no stranded call, written data is read, flush returns, with the exceptions below |
| `stream_wrap_flush` | violated | | `FlushedIsReceived` when numbers wrap |
| `stream_split` | violated | | `DataDelivered` with two tasks |
| `stream_burst` | violated | | `FreshDataNotSuspicious` with 129 segments |
| `connect_paired` | pass | 83,025 | both ends agree, connect returns a stream, and accept fails only on a connect of its own socket |
| `connect_churn` | pass | 1,277,997 | routing of live streams under drops, reuse, loss, duplication and reordering |
| `connect_collision` | violated | | `InsertIsNew` with neighbouring ids |
| `sender` | pass | 9,399 | nothing lost, nothing stranded, the task ends with the socket, refines `OutgoingQueue` |
| `receiver` | pass | 262,222 | every datagram handled, mailboxes in order, decode and encode inverse, refines `PacketRouting`, under errors, drops and a failing driver |
| `delays` | pass | 568,240 | delays compared and excess delays measured across wrapping clocks |

The violated runs state what a comment of the repository says; section 6
describes them. Those of the stream use the code's own constants (65536, 128, 3).

**Bounds.** The stream runs write two or three segments: enough for a gap, a
segment out of order, an ACK of a part, and a duplicate of something already
assembled. The modulus is 8 with a window of 2 or 3, so that the window is
smaller than the number space, as in the code, and numbers wrap where the run is
about that. `stream_wrap` writes three segments through a window of two, so that
`WindowedDataNotSuspicious` is about segments that a larger burst would lose.
`stream_live` writes one segment one way and two the other, with numbers that wrap (7
and 0) and numbers that do not; that is not more than the window, beyond which
`stream_burst` shows that data is lost. `stream_wrap_flush` starts before 65535. One loss, one duplicate and one unasked-for poll are each enough to
put every later step in the changed situation. `connect_paired` and
`connect_churn` have two sockets, each of which may connect to the other; the modulus is
4 so that ids wrap. `connect_paired` has three connects, six mailboxes and the ids 3 and
0, which are neighbours across the wrap, so that connects of the two sockets collide.
`connect_churn` has two connects and four mailboxes. The
sender has three packets, so that the buffer, the channel and the socket can hold
one each. The receiver gets one packet
and one other datagram, in either order, for one id that two connections register
one after the other; the other datagrams are every body of up to four bytes 0 and 1
behind a header that announces an extension, and one for each error of the header.
With `ByteModulus` 5 the longest extension that a length byte can describe has four
bytes, and is among the packets. The delays run has a modulus of 8, so that both
clocks wrap during its nine ticks, and offsets that put the local clock ahead or (6, 7)
behind by less than the longest delay, so that samples wrap too.

Deadlock is not checked: an idle connection and an ended task really stop.

**Fairness.** In `UtpStream`: tokio polls scheduled tasks and polls end (`RunTask`;
strong fairness when reading and flushing are two tasks, since each may find the stream
held by the other whenever its turn comes); datagrams that are not lost arrive; the
application goes on calling read (strong fairness, since one task also makes other
calls). Nothing obliges anyone to write or flush. In `UtpConnect`: the receiver task handles what arrives, a
waiting `connect` is woken, a listener goes on accepting. In `PacketSender`: the
task is polled when scheduled and a full send buffer empties.
In `PacketReceiver`: the task is polled when scheduled. Errors of `poll_send_to` are bounded by `MaxErrors`: the code retries at once and for
ever, so a permanent error would keep it busy for ever.

**Exceptions in the liveness properties.** They are what the code does, named in the
properties so that these say that nothing else goes wrong. `FlushReturns` excepts two
ends that both wait in a flush, since only `poll_read` sends ACKs, and unreleased chunks
whose numbers wrap (`UnackedWrap`, section 6). `DataDelivered` excepts a reader that
waits for ever in such a flush. `ConnectReturns` demands a stream, not only an end of the
waiting, unless the accept of the remote socket has panicked on a collision.

`HandshakeAgrees` and `MailboxFromPeer` are checked, and proved, without drops, loss
or reordering because they need that: `connect` takes the first State packet for
its answer, and ids may be drawn again. `OnlyConnectsCollide` needs besides that no SYN is
duplicated. The hazard list says how they would fail. `InsertIsNew`, that accept never
finds its key taken at all, fails even so (`connect_collision`).

## 4. Theorems

All constants are arbitrary, subject to the named assumptions of the modules. Three
matter. `StreamAssumption`: an end writes fewer segments than there are numbers
(`MaxSegs[p] < SeqModulus`); without it an old duplicate could be taken for a new
segment. `TimeAssumption`: no packet takes as long as the clocks take to wrap, 72 minutes
(`time.rs:5-6`); the offset of the clocks is arbitrary. `ReceiverAssumption`: packets
are `WellFormed`, that is, no extension is longer than its length byte can say or has
the type 0 that ends the chain (`From<Packet>` cuts such a length; no code sends
extensions yet), and whatever else arrives consists of bytes.

The stream:

- `TypeCorrect`: `Spec => []TypeOK`.
- `NumbersMatch`: `Spec => []NumbersMatchSegments`. The inductive invariant: the
  counters, every packet under way, `inbound_data` and `unacked_data` pair each
  segment with the number it was given. It is needed because `InOrderPrefix`
  alone says nothing of the packets that will be assembled next.
- `InOrderDelivery`: `Spec => []InOrderPrefix`, from the same invariant: the run
  that `poll_read` assembles after `ack_number` can only be the next segments
  (`RunExact`), since fewer than one round of numbers are in use.
- `NothingRetracted`: `Spec => NeverRetracted`. Counts of what is delivered, assembled
  and released only grow (`OnlyGrows`), and by the invariant the contents are
  determined by the counts.
- `FlushedCorrect`: `FlushedIsReceived`, assuming `NoWrap`: the numbers in use do
  not wrap. `stream_wrap_flush` shows that the assumption is needed.
- `FreshAckAccepted`: `FreshAckNotSuspicious`, with wrapping.
- `WindowedDataAccepted`: `WindowedDataNotSuspicious`, with wrapping and without an
  assumption of its own: while the peer has at most `AcceptableDistance` of the written
  segments still to assemble, it ignores none of them. `stream_burst` shows that one more
  is too many. `FlushingWriterHeard`: a writer that keeps at most `AcceptableDistance`
  chunks unreleased is safe, assuming `NoWrap`, by `FlushedIsReceived`.
- `StreamsImplementDuplex`: `Spec => ImplementsDuplex`, assuming `NoWrap`. The mapping
  shows the applications' calls, what was written, the number of segments assembled and
  what was handed out, and hides packets, buffers, polls and wakers. The step that
  matters for `flush` needs `FlushedIsReceived`, so the theorem shares its assumption;
  the step for `read` needs the numbering invariant; and `PollsRight` (a poll that runs
  is of a call that was made, on an open stream) says which call a poll ends.
- `NoWakeUpLost`: `NoStrandedCall`, assuming one task per stream (`~ Split`).
  `stream_split` shows what happens with two. The
  inductive invariant (`WaitInv`): one call at a time, the running poll is that
  call's, and a call that waits has an empty mailbox, a waker in it, and nothing it
  could return.

The sockets and their tasks:

- `LiveStreamsRouted`: `Spec => []LiveIsRouted`. It is inductive together with the
  types of the table, the phases and the local addresses (`RoutingInv`): a vacant
  key is no live stream's, and `remove_if` takes out no live stream's entry.
- `ConnectTyped`: `TypeOK`.
- `HandshakesAgree`, `MailboxesFromPeers`: `HandshakeAgrees` and `MailboxFromPeer`,
  assuming `Reliable`: nothing is lost, overtaken or dropped (duplicates may occur).
  The inductive invariant is `HandshakeInv`: a datagram under way, in a SYN queue or in
  a mailbox is as its sender made it and addressed to the end that its sender is paired
  with; every accepting stream has the connect whose SYN it took; and (`AnswersFirst`)
  as long as a connect waits, the first packet to reach it from the stream that accepted
  it is the answer. The last part is what makes `connect` read the right number, and what
  reordering would break.
- `AcceptFailsOnConnectsOnly`: `OnlyConnectsCollide`, assuming `Reliable` and `MaxDup = 0`:
  what may be in the way of a SYN is a connect of the accepting socket, and nothing else.
  The inductive invariant is `HandshakeInv` with `InsertInv`: of every SYN there is one at
  most, on the wire or in the queue (`SynsOnce`), and its connection is not accepted yet
  (`SynsNew`); a table has the streams of its socket under their keys (`EntriesRight`); an
  accepting stream has its connect (`OriginsRight`). An entry in the way that is no
  connect's would be the accepting stream of that very SYN. `connect_collision` shows that
  a connect can be in the way.
- `SenderLosesNothing`, `SenderNeverStrands`: `NothingLost`, `NoStrandedPacket`.
- `SenderImplementsQueue`: `Spec => ImplementsQueue`: the mapping of channel and
  buffer to one queue takes every step to a step of `OutgoingQueue` or to none.
- `ReceiverNeverStrands`: `NoStrandedDatagram`; what is needed besides is that a
  datagram in the receive buffer makes the socket ready (`ready`).
- `ReceiverKeepsRoutes`: the table leads to every live connection (`TableRight`).
- `PacketsRoutedInOrder`: `RoutedInOrder`. A mailbox is compared with the datagrams
  handled since its registration by an increasing function that reaches all of them
  (`Enumerates`); the proof extends that function by one place when a packet is routed,
  and needs `TableRight` to know that the entry found is the connection's.
- `ReceiverImplementsRouting`: `Spec => ImplementsRouting`. The mapping counts the datagram
  in hand as pending until it is in its place, and hides readiness, wakers, errors and the
  order in which the socket's fields are dropped. What is needed besides (`RoutingInv`): the
  datagram in hand decodes to a packet, and the table leads to registered connections only.
- `PacketsDecodedAsMeant`: `DecodedIsMeant`, from two theorems about the codec alone,
  for every byte modulus and datagrams and chains of extensions of any length:
  `DecodeSound` (what `try_from` accepts encodes to the bytes it was given) and
  `DecodeEncode` (what `From<Packet>` writes is decoded to the same packet). Both go
  through the loop over the extensions by an invariant: the extensions found so far,
  encoded, followed by the type and the bytes left, are the bytes the loop began with.
  That the invariant holds after every round is an induction over the set of rounds for
  which it does, so that no operator is passed to an induction theorem.
- `SamplesMeasureDelays`, `DelaysMeasured`, `DelaysTyped`: `SamplesComparable`,
  `ExcessDelayMeasured` and `TypeOK` of `CongestionController`. The invariant: a packet's
  time stamp is the peer's clock at the time it was sent, so every sample is its delay plus
  the offset, modulo the width of the clocks. Two samples therefore compare right with a
  wrapping subtraction, whatever the offset. The base delay is a plain minimum, and is the
  quickest packet's unless the samples straddle a wrap (`SamplesOnOneSide`), which they do
  when the local clock is behind by more than the quickest packet took and no more than the
  slowest; it is then a slower packet's, and stays so.

Only model-checked: all liveness (`DataDelivered`, `FlushReturns`, `ConnectReturns`,
`AllSent`, `TaskEnds`, `AllHandled`), which is out of the prover's reach. Every
invariant and every action property of the passing runs is also proved.

## 5. Not modelled

- Retransmission, timeouts and end of stream: the code has none.
- Fin and Reset packets. They decode and are routed like any other, and the stream that
  reads one panics (`stream.rs:218`, before `stream.rs:246` is reached; `connect` at
  `stream.rs:126`). No code of the repository sends one, so none is on the wire of
  `UtpStream` and `UtpConnect`; `PacketReceiver` and `PacketCodec` treat all types.
- Address lookup, error texts, logging, and conversions that only construct.
- Reads cut at `MAX_DATAGRAM_SIZE`: peers of this code never send more.
- `current_window` and `local_recieve_window` of the congestion controller: written
  once and never read. Its `update_state` is modelled apart from `UtpStream`, since
  nothing the stream does depends on it.
- The time stamps of SYN and its answer, which are 0 and meet `update_state` only if
  the network repeats the answer.
- Streams whose numbers come round a second time (see `StreamAssumption`).

## 6. Where code and comments disagree

- **Flush near the wrap** (`stream.rs:236`). ACKs are compared as plain numbers, so
  an ACK of 65535 also releases the chunk numbered 0. `lib.rs:32-33` promises
  otherwise. The other way round, when the peer reads 65535 and 0 at once, its ACK of 0
  releases neither and the flush hangs: the exception `UnackedWrap` of `FlushReturns`.
- **Two tasks, one waker** (`stream.rs:159`). A flush in one task takes the waker
  and the packets of a read in another, and the reader sleeps on. `lib.rs:35-36`.
- **Bursts** (`stream.rs:192`). A flush drains without assembling, so a burst of
  129 segments loses its last one for good. `lib.rs:35-36`.
- **Neighbouring ids** (`listener.rs:73`). `accept` derives its id from the SYN's;
  `register_connection` may have drawn it. `socket.rs:105-106` says that the pair
  should not exist.

Smaller ones, not shown by a run of their own: a duplicate of an assembled segment
stays in `inbound_data`, which the comment at `stream.rs:43` describes as unACKed data;
the samples that `congestion.rs:23-26` calls differences to the base delay are the
delays themselves; the window that `congestion.rs:12` says is advertised in each
packet is sent as 0; a receiver task that sleeps when its socket is dropped never
reaches the shutdown that `packet_receiver.rs:36` describes.
