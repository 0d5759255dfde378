---------------------------- MODULE MCUtpStream -----------------------------
(***************************************************************************)
(* Instances of UtpStream for TLC.                                         *)
(***************************************************************************)
EXTENDS UtpStreamContract, TLC

\* How many chunks each end writes.
Segs(initiator, acceptor) == "initiator" :> initiator @@ "acceptor" :> acceptor

Segs20 == Segs(2, 0)
Segs12 == Segs(1, 2)
Segs11 == Segs(1, 1)
Segs02 == Segs(0, 2)
Segs03 == Segs(0, 3)
Segs0_129 == Segs(0, 129)

=============================================================================
