------------------------------- MODULE Duplex -------------------------------
(***************************************************************************)
(* What a connection promises to the applications at its two ends, in the  *)
(* terms of AsyncRead and AsyncWrite: write takes chunks at once; read     *)
(* returns the next chunks of the other end's, at least one, in order; and *)
(* flush returns once the other end has everything that was written.       *)
(* Whether a call returns at all is left open.  UtpStream does this on any *)
(* datagram service as long as its numbers do not wrap.                    *)
(***************************************************************************)
EXTENDS Naturals, Sequences

CONSTANTS
  Ends,    \* the two ends
  MaxSegs  \* bound: chunks each end writes

VARIABLES
  written,    \* number of chunks taken from an end's application: the n-th is the number n
  received,   \* number of the other end's chunks that an end has in order
  delivered,  \* chunks given to an end's application
  calls,      \* the calls an end's application waits for
  open        \* FALSE once an end was shut down

vars == <<written, received, delivered, calls, open>>

Init ==
  /\ written = [p \in Ends |-> 0]
  /\ received = [p \in Ends |-> 0]
  /\ delivered = [p \in Ends |-> << >>]
  /\ calls = [p \in Ends |-> {}]
  /\ open = [p \in Ends |-> TRUE]

Call(p, h) ==
  /\ open[p]
  /\ h \notin calls[p]
  /\ calls' = [calls EXCEPT ![p] = @ \cup {h}]
  /\ UNCHANGED <<written, received, delivered, open>>

Write(p, n) ==
  /\ open[p]
  /\ "flush" \notin calls[p]
  /\ written' = [written EXCEPT ![p] = @ + n]
  /\ UNCHANGED <<received, delivered, calls, open>>

\* read returns with n of the chunks that p has now, m more than before.
ReadReturns(p, m, n) ==
  /\ open[p]
  /\ "read" \in calls[p]
  /\ received' = [received EXCEPT ![p] = @ + m]
  /\ delivered' = [delivered EXCEPT ![p] = @ \o [i \in 1 .. n |-> Len(@) + i]]
  /\ calls' = [calls EXCEPT ![p] = @ \ {"read"}]
  /\ UNCHANGED <<written, open>>

\* flush returns when the other end q has all.
FlushReturns(p, q) ==
  /\ open[p]
  /\ "flush" \in calls[p]
  /\ received[q] = written[p]
  /\ calls' = [calls EXCEPT ![p] = @ \ {"flush"}]
  /\ UNCHANGED <<written, received, delivered, open>>

Shutdown(p) ==
  /\ open[p]
  /\ "flush" \notin calls[p]
  /\ open' = [open EXCEPT ![p] = FALSE]
  /\ UNCHANGED <<written, received, delivered, calls>>

Next ==
  \E p \in Ends :
    \/ \E h \in {"read", "flush"} : Call(p, h)
    \/ \E n \in 1 .. MaxSegs[p] - written[p] : Write(p, n)
    \/ \E q \in Ends \ {p} : \E m \in 0 .. written[q] - received[p] :
         \E n \in 1 .. received[p] + m - Len(delivered[p]) : ReadReturns(p, m, n)
    \/ \E q \in Ends \ {p} : FlushReturns(p, q)
    \/ Shutdown(p)

Spec == Init /\ [][Next]_vars

=============================================================================
