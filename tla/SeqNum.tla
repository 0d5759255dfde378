------------------------------- MODULE SeqNum -------------------------------
(***************************************************************************)
(* The u16 arithmetic that sequence and acknowledgement numbers live in.   *)
(* SeqModulus is 2^16 in the code; it is a parameter so that small instances   *)
(* can wrap around.  The operators are written without %, which is the     *)
(* same thing for arguments in the ranges given below and keeps them       *)
(* linear for the provers.                                                 *)
(***************************************************************************)
EXTENDS Integers

CONSTANT SeqModulus

ASSUME ModulusAssumption == SeqModulus \in Nat /\ SeqModulus > 2

SeqNumbers == 0 .. SeqModulus - 1

\* u16::wrapping_add, for a \in SeqNumbers and b \in 0 .. SeqModulus.
WrappingAdd(a, b) == IF a + b < SeqModulus THEN a + b ELSE a + b - SeqModulus

\* u16::wrapping_sub, for a, b \in SeqNumbers.
WrappingSub(a, b) == IF a >= b THEN a - b ELSE a - b + SeqModulus

=============================================================================
