------------------------- MODULE UtpStreamContract --------------------------
(***************************************************************************)
(* UtpStream as an implementation of Duplex.                               *)
(***************************************************************************)
EXTENDS UtpStream

\* What the applications see: received_data and inbound_data, the packets and the polls are
\* hidden, and a call lasts from its start until poll_read or poll_flush answers Ready.
Contract == INSTANCE Duplex WITH
  received <- [p \in Ends |-> AssembledCount(p)],
  calls <- [p \in Ends |-> {h \in Halves : call[p][h] # "idle"}],
  open <- [p \in Ends |-> status[p] = "open"]

\* The two streams keep the contract: read returns with the peer's next chunks and with at
\* least one, flush returns only when the peer has all that was written, and no packet, poll
\* or fault between them shows in any other way.
ImplementsDuplex == Contract!Spec

=============================================================================
