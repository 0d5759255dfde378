---------------------------- MODULE SequenceOps -----------------------------
(***************************************************************************)
(* Three operators on sequences.  They are not taken from SequencesExt,    *)
(* since every definition of a module that is extended is part of each     *)
(* proof obligation, and those of SequencesExt and of the modules it       *)
(* extends would make up most of it.                                       *)
(***************************************************************************)
EXTENDS Naturals, Sequences

\* s without its i-th element.
RemoveAt(s, i) == SubSeq(s, 1, i - 1) \o SubSeq(s, i + 1, Len(s))

\* t starts with s.
IsPrefix(s, t) == Len(s) <= Len(t) /\ \A i \in 1 .. Len(s) : s[i] = t[i]

\* What a loop makes that appends the elements of parts to a buffer, one after the other.
JoinAll(parts) ==
  LET buffer[n \in 0 .. Len(parts)] == IF n = 0 THEN << >> ELSE buffer[n - 1] \o parts[n]
  IN buffer[Len(parts)]

=============================================================================
