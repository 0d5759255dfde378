---------------------------- MODULE MCUtpConnect ----------------------------
(***************************************************************************)
(* Instances of UtpConnect for TLC.                                        *)
(***************************************************************************)
EXTENDS UtpConnect, TLC

CONSTANTS a, b

TwoSockets == {a, b}

\* Each socket connects to the other.
Crosswise == {<<a, b>>, <<b, a>>}

=============================================================================
