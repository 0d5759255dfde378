------------------------- MODULE PacketCodecProofs --------------------------
(***************************************************************************)
(* Decoding is the inverse of encoding, for every packet of the protocol's *)
(* version and every datagram: the two theorems at the end.                *)
(***************************************************************************)
EXTENDS PacketCodec, SequenceTheorems, NaturalsInduction, WellFoundedInduction, TLAPS

-----------------------------------------------------------------------------
(***************************************************************************)
(* Induction, with sets of numbers in the place of predicates, and what it *)
(* gives: functions defined by recursion on the natural numbers.           *)
(***************************************************************************)

\* A set of natural numbers has a least one.
LEMMA Least ==
  ASSUME NEW T, T \subseteq Nat, T # {}
  PROVE  \E m \in T : \A n \in T : ~ (n < m)
<1> DEFINE R == OpToRel(<, Nat)
<1>1. IsWellFoundedOn(R, Nat)
  BY NatLessThanWellFounded, Zenon
<1>2. \A x, y \in Nat : <<x, y>> \in R <=> x < y
  BY Zenon DEF OpToRel
<1> HIDE DEF R
<1>3. \E x \in T : \A y \in T : ~ (<<y, x>> \in R)
  BY <1>1, WFMin, Zenon
<1> QED BY <1>2, <1>3, Zenon

\* Induction, for a set in the place of a predicate.
LEMMA SetInduction ==
  ASSUME NEW S, 0 \in S, \A n \in Nat : n \in S => n + 1 \in S
  PROVE  Nat \subseteq S
<1> SUFFICES ASSUME Nat \ S # {} PROVE FALSE
  BY Zenon
<1>1. PICK m \in Nat \ S : \A n \in Nat \ S : ~ (n < m)
  BY Least, Zenon
<1>2. m # 0 /\ m - 1 \in Nat
  BY <1>1
<1>3. m - 1 \in S
  BY <1>1, <1>2
<1>4. (m - 1) + 1 \in S
  BY <1>2, <1>3, Zenon
<1> QED BY <1>1, <1>4

\* f on 0 .. n starts with first and follows step.
Follows(f, n, first, step) ==
  f[0] = first /\ \A k \in 0 .. n - 1 : f[k + 1] = step[k][f[k]]

\* A function of the numbers up to n can be defined from its predecessor.
LEMMA FollowsExists ==
  ASSUME NEW S, NEW first \in S, NEW step \in [Nat -> [S -> S]], NEW n \in Nat
  PROVE  \E f \in [0 .. n -> S] : Follows(f, n, first, step)
<1> DEFINE T == {k \in Nat : \E f \in [0 .. k -> S] : Follows(f, k, first, step)}
<1>1. 0 \in T
  <2>1. [k \in 0 .. 0 |-> first] \in [0 .. 0 -> S]
    BY Zenon
  <2>2. Follows([k \in 0 .. 0 |-> first], 0, first, step)
    BY DEF Follows
  <2> QED BY <2>1, <2>2, Zenon
<1>2. ASSUME NEW k \in Nat, k \in T PROVE k + 1 \in T
  <2>1. PICK f \in [0 .. k -> S] : Follows(f, k, first, step)
    BY <1>2, Zenon
  <2> DEFINE g == [i \in 0 .. k + 1 |-> IF i = k + 1 THEN step[k][f[k]] ELSE f[i]]
  <2>2. g \in [0 .. k + 1 -> S]
    OBVIOUS
  <2>3. Follows(g, k + 1, first, step)
    <3>1. g[0] = first
      BY <2>1 DEF Follows
    <3>2. ASSUME NEW i \in 0 .. k PROVE g[i + 1] = step[i][g[i]]
      <4>1. g[i] = f[i]
        OBVIOUS
      <4>2. CASE i = k
        <5>1. g[i + 1] = step[k][f[k]]
          BY <4>2
        <5> QED BY <4>1, <4>2, <5>1, Zenon
      <4>3. CASE i # k
        <5>1. i \in 0 .. k - 1 /\ i + 1 # k + 1 /\ i + 1 \in 0 .. k
          BY <4>3
        <5>2. g[i + 1] = f[i + 1]
          BY <5>1
        <5> QED BY <2>1, <4>1, <5>1, <5>2, Zenon DEF Follows
      <4> QED BY <4>2, <4>3, Zenon
    <3> HIDE DEF g
    <3> QED BY <3>1, <3>2 DEF Follows
  <2> QED BY <2>2, <2>3
<1> HIDE DEF T
<1>3. n \in T
  BY <1>1, <1>2, SetInduction, Zenon
<1> QED BY <1>3, Zenon DEF T

\* There is only one.
LEMMA FollowsUnique ==
  ASSUME NEW first, NEW step, NEW f, NEW g, NEW m \in Nat, NEW n \in Nat,
         Follows(f, m, first, step), Follows(g, n, first, step),
         NEW k \in Nat, k <= m, k <= n
  PROVE  f[k] = g[k]
<1> DEFINE T == {i \in Nat : i <= m /\ i <= n => f[i] = g[i]}
<1>1. 0 \in T
  BY Zenon DEF Follows
<1>2. ASSUME NEW i \in Nat, i \in T PROVE i + 1 \in T
  <2> SUFFICES ASSUME i + 1 <= m, i + 1 <= n PROVE f[i + 1] = g[i + 1]
    OBVIOUS
  <2>1. i \in 0 .. m - 1 /\ i \in 0 .. n - 1 /\ f[i] = g[i]
    BY <1>2
  <2> QED BY <2>1, Zenon DEF Follows
<1> HIDE DEF T
<1>3. k \in T
  BY <1>1, <1>2, SetInduction, Zenon
<1> QED BY <1>3, Zenon DEF T

\* f on the natural numbers does.
Iterates(f, first, step) == f[0] = first /\ \A n \in Nat : f[n + 1] = step[n][f[n]]

\* A function of the natural numbers can be defined from its predecessor.
LEMMA PrimitiveRecursion ==
  ASSUME NEW S, NEW first \in S, NEW step \in [Nat -> [S -> S]]
  PROVE  \E f \in [Nat -> S] : Iterates(f, first, step)
<1> DEFINE p(n) == CHOOSE f \in [0 .. n -> S] : Follows(f, n, first, step)
           h == [n \in Nat |-> p(n)[n]]
<1>1. \A n \in Nat : p(n) \in [0 .. n -> S] /\ Follows(p(n), n, first, step)
  BY FollowsExists, Zenon
<1>2. \A n \in Nat : h[n] = p(n)[n]
  BY Zenon
<1>3. h \in [Nat -> S]
  BY <1>1
<1> HIDE DEF p, h
<1>4. h[0] = first
  BY <1>1, <1>2, Zenon DEF Follows
<1>5. ASSUME NEW n \in Nat PROVE h[n + 1] = step[n][h[n]]
  <2>1. h[n] = p(n)[n] /\ h[n + 1] = p(n + 1)[n + 1]
    BY <1>2
  <2>2. Follows(p(n), n, first, step) /\ Follows(p(n + 1), n + 1, first, step)
    BY <1>1
  <2>3. p(n)[n] = p(n + 1)[n]
    BY <2>2, FollowsUnique
  <2>4. p(n + 1)[n + 1] = step[n][p(n + 1)[n]]
    BY <2>2 DEF Follows
  <2> QED BY <2>1, <2>3, <2>4, Zenon
<1> QED BY <1>3, <1>4, <1>5, Zenon DEF Iterates

-----------------------------------------------------------------------------
(***************************************************************************)
(* JoinAll, which Encode uses.                                             *)
(***************************************************************************)

\* There is a function that joins the first n of some sequences.
LEMMA Joins ==
  ASSUME NEW A, NEW seqs \in Seq(Seq(A))
  PROVE  \E f \in [Nat -> Seq(A)] :
           f[0] = << >> /\ \A n \in Nat : n < Len(seqs) => f[n + 1] = f[n] \o seqs[n + 1]
<1> DEFINE S == Seq(A)
           step == [n \in Nat |-> [s \in S |-> IF n < Len(seqs) THEN s \o seqs[n + 1] ELSE s]]
<1>1. step \in [Nat -> [S -> S]]
  <2>1. ASSUME NEW n \in Nat, NEW s \in S, n < Len(seqs) PROVE s \o seqs[n + 1] \in S
    <3>1. n + 1 \in 1 .. Len(seqs)
      BY <2>1, LenProperties
    <3>2. seqs[n + 1] \in S
      BY <3>1, ElementOfSeq, Zenon
    <3> QED BY <3>2, ConcatProperties, Zenon
  <2> HIDE DEF S
  <2> QED BY <2>1, Zenon
<1> DEFINE none == << >>
<1>2. none \in S
  BY EmptySeq, Zenon
<1>3. \A n \in Nat, s \in S : n < Len(seqs) => step[n][s] = s \o seqs[n + 1]
  BY Zenon
<1> HIDE DEF step, S, none
<1>4. PICK f \in [Nat -> S] : Iterates(f, none, step)
  BY <1>1, <1>2, PrimitiveRecursion, Zenon
<1>5. \A n \in Nat : n < Len(seqs) => f[n + 1] = f[n] \o seqs[n + 1]
  BY <1>3, <1>4, Zenon DEF Iterates
<1> QED BY <1>4, <1>5, Zenon DEF S, none, Iterates

\* The number before one that is not 0, and the one behind one that is not the last.
LEMMA Neighbours ==
  ASSUME NEW N \in Nat
  PROVE  /\ \A n \in 0 .. N : n # 0 =>
              n - 1 \in Nat /\ n - 1 < N /\ (n - 1) + 1 = n /\ n - 1 \in 0 .. N
         /\ \A n \in Nat : n + 1 <= N =>
              n + 1 \in 0 .. N /\ n < N /\ n <= N /\ (n + 1) - 1 = n /\ n + 1 # 0
OBVIOUS

\* What JoinAll computes.
LEMMA JoinAllAs ==
  ASSUME NEW A, NEW seqs \in Seq(Seq(A)), NEW f \in [Nat -> Seq(A)], f[0] = << >>,
         \A n \in Nat : n < Len(seqs) => f[n + 1] = f[n] \o seqs[n + 1]
  PROVE  JoinAll(seqs) = f[Len(seqs)]
<1> DEFINE N == Len(seqs)
           Fits(h) == h = [n \in 0 .. N |-> IF n = 0 THEN << >> ELSE h[n - 1] \o seqs[n]]
           g == [n \in 0 .. N |-> f[n]]
           buffer == CHOOSE h : Fits(h)
<1>1. N \in Nat
  BY LenProperties, Zenon
<1>2. JoinAll(seqs) = buffer[N]
  BY Zenon DEF JoinAll
<1>3. \A n \in 0 .. N : g[n] = IF n = 0 THEN << >> ELSE g[n - 1] \o seqs[n]
  <2> SUFFICES ASSUME NEW n \in 0 .. N PROVE g[n] = IF n = 0 THEN << >> ELSE g[n - 1] \o seqs[n]
    BY Zenon
  <2>1. CASE n = 0
    BY <1>1, <2>1, Zenon
  <2>2. CASE n # 0
    <3>1. n - 1 \in Nat /\ n - 1 < Len(seqs) /\ (n - 1) + 1 = n /\ n - 1 \in 0 .. N
      BY <1>1, <2>2, Neighbours, Zenon
    <3>2. f[n] = f[n - 1] \o seqs[n]
      BY <3>1, Zenon
    <3> QED BY <2>2, <3>1, <3>2, Zenon
  <2> QED BY <2>1, <2>2, Zenon
<1>4. Fits(g)
  <2> HIDE DEF N
  <2> DEFINE k == [n \in 0 .. N |-> IF n = 0 THEN << >> ELSE g[n - 1] \o seqs[n]]
  <2>1. \A n \in 0 .. N : g[n] = k[n]
    BY <1>3, Zenon
  <2>2. DOMAIN g = DOMAIN k /\ g = [n \in DOMAIN g |-> g[n]] /\ k = [n \in DOMAIN k |-> k[n]]
        /\ DOMAIN g = 0 .. N
    OBVIOUS
  <2> HIDE DEF g, k
  <2>3. g = k
    BY <2>1, <2>2, Zenon
  <2> QED BY <2>3, Zenon DEF k
<1> HIDE DEF g
<1>5. Fits(buffer)
  BY <1>4, Zenon
<1> HIDE DEF buffer
<1>6. \A n \in 0 .. N : buffer[n] = IF n = 0 THEN << >> ELSE buffer[n - 1] \o seqs[n]
  BY <1>5, Zenon
<1> HIDE DEF Fits, N
<1> DEFINE T == {n \in Nat : n <= N => buffer[n] = f[n]}
<1>7. 0 \in T
  <2>1. 0 \in 0 .. N
    BY <1>1
  <2> QED BY <1>6, <2>1, Zenon
<1>8. ASSUME NEW n \in Nat, n \in T PROVE n + 1 \in T
  <2>0. n + 1 \in Nat
    OBVIOUS
  <2> SUFFICES ASSUME n + 1 <= N PROVE buffer[n + 1] = f[n + 1]
    BY <2>0, Zenon
  <2>1. n + 1 \in 0 .. N /\ n < Len(seqs) /\ n <= N /\ (n + 1) - 1 = n /\ n + 1 # 0
    BY <1>1, Neighbours, Zenon DEF N
  <2>2. f[n + 1] = f[n] \o seqs[n + 1]
    BY <2>1, Zenon
  <2>3. buffer[n] = f[n]
    BY <1>8, <2>1, Zenon
  <2>4. buffer[n + 1] = buffer[n] \o seqs[n + 1]
    BY <1>6, <2>1, Zenon
  <2> QED BY <2>2, <2>3, <2>4, Zenon
<1> HIDE DEF T
<1>9. N \in T
  BY <1>1, <1>7, <1>8, SetInduction, Zenon
<1>10. buffer[N] = f[N]
  BY <1>1, <1>9 DEF T
<1> QED BY <1>2, <1>10, Zenon DEF N

\* JoinAll of nothing, and with one sequence more.
LEMMA JoinAllProperties ==
  /\ JoinAll(<< >>) = << >>
  /\ \A A : \A seqs \in Seq(Seq(A)) : JoinAll(seqs) \in Seq(A)
  /\ \A A : \A seqs \in Seq(Seq(A)), s \in Seq(A) :
       JoinAll(Append(seqs, s)) = JoinAll(seqs) \o s
<1>1. JoinAll(<< >>) = << >>
  <2> DEFINE f == [n \in Nat |-> << >>]
             none == << >>
  <2>1. none \in Seq(Seq({})) /\ f \in [Nat -> Seq({})] /\ f[0] = << >> /\ Len(none) = 0
    BY EmptySeq, Zenon
  <2>2. \A n \in Nat : n < Len(none) => f[n + 1] = f[n] \o none[n + 1]
    BY <2>1
  <2> HIDE DEF f, none
  <2>3. JoinAll(none) = f[Len(none)]
    BY <2>1, <2>2, JoinAllAs, Zenon
  <2> QED BY <2>1, <2>3, Zenon DEF none
<1>2. ASSUME NEW A, NEW seqs \in Seq(Seq(A)), NEW s \in Seq(A)
      PROVE  JoinAll(seqs) \in Seq(A) /\ JoinAll(Append(seqs, s)) = JoinAll(seqs) \o s
  <2> DEFINE S == Seq(A)
             N == Len(seqs)
             more == Append(seqs, s)
  <2> HIDE DEF S
  <2>1. N \in Nat /\ more \in Seq(S) /\ Len(more) = N + 1 /\ more[N + 1] = s
        /\ \A i \in 1 .. N : more[i] = seqs[i]
    BY AppendProperties, LenProperties DEF S
  <2> HIDE DEF more, N
  <2>2. PICK f \in [Nat -> S] :
          f[0] = << >> /\ \A n \in Nat : n < N + 1 => f[n + 1] = f[n] \o more[n + 1]
    <3>1. more \in Seq(Seq(A)) /\ Len(more) = N + 1
      BY <2>1, Zenon DEF S
    <3>2. \E f \in [Nat -> Seq(A)] :
            f[0] = << >> /\ \A n \in Nat : n < Len(more) => f[n + 1] = f[n] \o more[n + 1]
      BY <3>1, Joins, Zenon
    <3> QED BY <3>1, <3>2, Zenon DEF S
  <2>3. JoinAll(more) = f[N + 1]
    BY <2>1, <2>2, JoinAllAs, Zenon DEF S
  <2>4. \A n \in Nat : n < N => f[n + 1] = f[n] \o seqs[n + 1]
    <3> SUFFICES ASSUME NEW n \in Nat, n < N PROVE f[n + 1] = f[n] \o seqs[n + 1]
      BY Zenon
    <3>1. n + 1 \in 1 .. N /\ n < N + 1
      BY <2>1
    <3> QED BY <2>1, <2>2, <3>1, Zenon
  <2>5. JoinAll(seqs) = f[N]
    BY <2>2, <2>4, JoinAllAs, Zenon DEF S, N
  <2>6. f[N + 1] = f[N] \o s
    <3>1. N < N + 1
      BY <2>1
    <3>2. f[N + 1] = f[N] \o more[N + 1]
      BY <2>1, <2>2, <3>1, Zenon
    <3> QED BY <2>1, <3>2, Zenon
  <2> QED BY <2>1, <2>2, <2>3, <2>5, <2>6, Zenon DEF more, S
<1>3. \A A : << >> \in Seq(A)
  BY EmptySeq, Zenon
<1> QED BY <1>1, <1>2, <1>3, Zenon

-----------------------------------------------------------------------------
(***************************************************************************)
(* Type numbers, and bytes.                                                *)
(***************************************************************************)

\* The number of a packet type and the packet type of a number.
LEMMA TypeNumbers ==
  /\ \A n \in 0 .. 4 : /\ PacketTypes[n + 1] \in Range(PacketTypes)
                       /\ TypeNumber(PacketTypes[n + 1]) = n
  /\ \A type \in Range(PacketTypes) :
       TypeNumber(type) \in 0 .. 4 /\ PacketTypes[TypeNumber(type) + 1] = type
<1>1. DOMAIN PacketTypes = 1 .. 5
  BY DEF PacketTypes
<1>2. \A i, j \in 1 .. 5 : PacketTypes[i] = PacketTypes[j] => i = j
  BY DEF PacketTypes
<1>3. ASSUME NEW n \in 0 .. 4
      PROVE  PacketTypes[n + 1] \in Range(PacketTypes) /\ TypeNumber(PacketTypes[n + 1]) = n
  <2>1. \A k \in 0 .. 4 : PacketTypes[k + 1] = PacketTypes[n + 1] => k = n
    BY <1>2
  <2>2. n + 1 \in DOMAIN PacketTypes
    BY <1>1
  <2> QED BY <2>1, <2>2, Zenon DEF TypeNumber, Range
<1>4. ASSUME NEW type \in Range(PacketTypes)
      PROVE  TypeNumber(type) \in 0 .. 4 /\ PacketTypes[TypeNumber(type) + 1] = type
  <2>1. PICK i \in 1 .. 5 : type = PacketTypes[i]
    BY <1>1, Zenon DEF Range
  <2>2. i - 1 \in 0 .. 4 /\ (i - 1) + 1 = i
    OBVIOUS
  <2> QED BY <2>1, <2>2, Zenon DEF TypeNumber
<1> QED BY <1>3, <1>4, Zenon

\* The number of an extension type and the extension type of a number.
LEMMA ExtensionNumbers ==
  ASSUME NEW n \in Nat
  PROVE  ExtensionNumber(ExtensionType(n)) = n
<1>1. CASE n <= 3
  <2>1. \A i, j \in 1 .. 4 : ExtensionNames[i] = ExtensionNames[j] => i = j
    BY DEF ExtensionNames
  <2> DEFINE name == ExtensionNames[n + 1]
  <2>2. \A k \in 0 .. 3 : ExtensionNames[k + 1] = name => k = n
    BY <1>1, <2>1
  <2>3. (CHOOSE k \in 0 .. 3 : ExtensionNames[k + 1] = name) = n
    BY <1>1, <2>2
  <2> HIDE DEF name
  <2>4. Len(<<name>>) # 2 /\ <<name>>[1] = name
    OBVIOUS
  <2>5. ExtensionType(n) = <<name>>
    BY <1>1, Zenon DEF ExtensionType, name
  <2> QED BY <2>3, <2>4, <2>5, Zenon DEF ExtensionNumber
<1>2. CASE ~ (n <= 3)
  BY <1>2, Zenon DEF ExtensionNumber, ExtensionType
<1> QED BY <1>1, <1>2, Zenon

\* The type number of an extension.
Number(e) == ExtensionNumber(e.extension_type)

\* It is a byte other than 0, and the extension is the one of that type and with its data.
LEMMA ExtensionTypes ==
  ASSUME NEW e \in Extensions
  PROVE  /\ Number(e) \in Bytes \ {0} /\ ExtensionType(Number(e)) = e.extension_type
         /\ e.data \in Seq(Bytes) /\ Len(e.data) \in Bytes
         /\ e = [extension_type |-> e.extension_type, data |-> e.data]
<1>1. PICK n \in Bytes \ {0} : e.extension_type = ExtensionType(n)
  BY Zenon DEF Extensions
<1>2. n \in Nat
  BY ByteAssumption DEF Bytes
<1>3. Number(e) = n
  BY <1>1, <1>2, ExtensionNumbers, Zenon DEF Number
<1>4. e.data \in Seq(Bytes) /\ Len(e.data) < ByteModulus
  BY Zenon DEF Extensions
<1>5. Len(e.data) \in Bytes
  BY <1>4, LenProperties, ByteAssumption DEF Bytes
<1>6. e = [extension_type |-> e.extension_type, data |-> e.data]
  BY Zenon DEF Extensions
<1> QED BY <1>1, <1>3, <1>4, <1>5, <1>6, Zenon

\* \o, for provers that had better not look into it.
Joined(p, q) == p \o q

\* Joining bytes is associative.
LEMMA JoinedAssociative ==
  \A p, q, r \in Seq(Bytes) : Joined(p, Joined(q, r)) = Joined(Joined(p, q), r)
<1>1. \A p, q, r \in Seq(Bytes) : (p \o q) \o r = p \o (q \o r)
  BY ConcatAssociative
<1> QED BY <1>1, Zenon DEF Joined

\* What is joined to the same bytes can be compared.
LEMMA JoinedCancel ==
  \A p, q, r \in Seq(Bytes) : Joined(p, q) = Joined(p, r) => q = r
BY ConcatSimplifications, Zenon DEF Joined

\* Joining bytes gives bytes, and nothing joined to bytes makes no difference.
LEMMA JoinedBytes ==
  /\ \A p, q \in Seq(Bytes) : Joined(p, q) \in Seq(Bytes)
  /\ \A p \in Seq(Bytes) : Joined(<< >>, p) = p
BY ConcatProperties, ConcatEmptySeq, Zenon DEF Joined

\* A sequence that starts with the length of what follows, taken apart.
LEMMA Cut ==
  ASSUME NEW bytes \in Seq(Bytes), bytes # << >>, Head(bytes) <= Len(bytes) - 1
  PROVE  /\ SubSeq(bytes, 2, Head(bytes) + 1) \in Seq(Bytes)
         /\ Len(SubSeq(bytes, 2, Head(bytes) + 1)) = Head(bytes)
         /\ SubSeq(bytes, Head(bytes) + 2, Len(bytes)) \in Seq(Bytes)
         /\ Len(SubSeq(bytes, Head(bytes) + 2, Len(bytes))) = Len(bytes) - 1 - Head(bytes)
         /\ bytes = Joined(<<Head(bytes)>>,
                           Joined(SubSeq(bytes, 2, Head(bytes) + 1),
                                  SubSeq(bytes, Head(bytes) + 2, Len(bytes))))
<1> DEFINE l == Head(bytes)
           n == Len(bytes)
<1>1. l \in Nat /\ n \in Nat \ {0} /\ l <= n - 1 /\ bytes[1] = l
  <2>1. l \in Bytes
    BY HeadTailProperties, Zenon
  <2>2. n \in Nat \ {0} /\ bytes[1] = l
    BY EmptySeq
  <2> QED BY <2>1, <2>2, ByteAssumption DEF Bytes
<1> HIDE DEF l
<1>2. \A i \in 1 .. n : bytes[i] \in Bytes
  BY ElementOfSeq, Zenon
<1>3. SubSeq(bytes, 1, n) = <<l>> \o SubSeq(bytes, 2, n)
  <2>1. 1 \in 1 .. n /\ n \in 1 .. n /\ 1 + 1 = 2
    BY <1>1
  <2>2. SubSeq(bytes, 1, n) = <<bytes[1]>> \o SubSeq(bytes, 2, n)
    BY <2>1, SubSeqRecursiveFirst, Zenon
  <2> QED BY <1>1, <2>2, Zenon
<1>4. SubSeq(bytes, 2, n) = SubSeq(bytes, 2, l + 1) \o SubSeq(bytes, l + 2, n)
  <2>1. 2 \in 1 .. n + 1 /\ l + 1 \in 2 - 1 .. n /\ n \in l + 1 .. n /\ (l + 1) + 1 = l + 2
    BY <1>1
  <2> QED BY <2>1, ConcatAdjacentSubSeq, Zenon
<1>6. SubSeq(bytes, 1, n) = bytes
  BY SubSeqFull, Zenon
<1>7. SubSeq(bytes, 2, l + 1) \in Seq(Bytes) /\ Len(SubSeq(bytes, 2, l + 1)) = l
  <2>1. \A i \in 2 .. l + 1 : bytes[i] \in Bytes
    BY <1>1, <1>2
  <2> QED BY <1>1, <2>1, SubSeqProperties
<1>8. SubSeq(bytes, l + 2, n) \in Seq(Bytes) /\ Len(SubSeq(bytes, l + 2, n)) = n - 1 - l
  <2>1. \A i \in l + 2 .. n : bytes[i] \in Bytes
    BY <1>1, <1>2
  <2> QED BY <1>1, <2>1, SubSeqProperties
<1> QED BY <1>3, <1>4, <1>6, <1>7, <1>8, Zenon DEF l, n, Joined

-----------------------------------------------------------------------------
(***************************************************************************)
(* The bytes of a chain of extensions.                                     *)
(***************************************************************************)

\* The bytes of an extension with type number t behind it.
Piece(t, e) == Joined(<<t, Len(e.data)>>, e.data)

\* The bytes of extensions with type number t behind the last one.
Pieces(found, t) ==
  [i \in 1 .. Len(found) |->
     Piece(IF i < Len(found) THEN Number(found[i + 1]) ELSE t, found[i])]

\* All of them, one after the other.
Chain(found, t) == JoinAll(Pieces(found, t))

\* The bytes of an extension are bytes.
LEMMA PieceTyped ==
  ASSUME NEW t \in Bytes, NEW e \in Extensions
  PROVE  Piece(t, e) \in Seq(Bytes)
<1>1. Len(e.data) \in Bytes /\ e.data \in Seq(Bytes)
  BY ExtensionTypes, Zenon
<1>2. <<t, Len(e.data)>> \in Seq(Bytes)
  BY <1>1
<1> QED BY <1>1, <1>2, JoinedBytes, Zenon DEF Piece

\* So are those of each extension of a chain.
LEMMA PiecesTyped ==
  ASSUME NEW t \in Bytes, NEW found \in Seq(Extensions)
  PROVE  Pieces(found, t) \in Seq(Seq(Bytes))
<1>1. Len(found) \in Nat /\ \A i \in 1 .. Len(found) : found[i] \in Extensions
  BY LenProperties, ElementOfSeq, Zenon
<1>2. ASSUME NEW i \in 1 .. Len(found)
      PROVE  Piece(IF i < Len(found) THEN Number(found[i + 1]) ELSE t, found[i]) \in Seq(Bytes)
  <2>1. CASE i < Len(found)
    <3>1. i + 1 \in 1 .. Len(found)
      BY <1>1, <2>1
    <3>2. Number(found[i + 1]) \in Bytes
      BY <1>1, <3>1, ExtensionTypes, Zenon
    <3>3. Piece(Number(found[i + 1]), found[i]) \in Seq(Bytes)
      BY <1>1, <3>2, PieceTyped, Zenon
    <3> QED BY <2>1, <3>3, Zenon
  <2>2. CASE ~ (i < Len(found))
    <3>1. Piece(t, found[i]) \in Seq(Bytes)
      BY <1>1, PieceTyped, Zenon
    <3> QED BY <2>2, <3>1, Zenon
  <2> QED BY <2>1, <2>2, Zenon
<1> DEFINE S == Seq(Bytes)
<1> HIDE DEF S
<1>3. Pieces(found, t) \in [1 .. Len(found) -> S]
  BY <1>2, Zenon DEF Pieces, S
<1>4. Pieces(found, t) \in Seq(S)
  BY <1>1, <1>3, SeqDef, Zenon
<1> QED BY <1>4, Zenon DEF S

\* So are those of the chain.
LEMMA ChainTyped ==
  ASSUME NEW t \in Bytes, NEW found \in Seq(Extensions)
  PROVE  Chain(found, t) \in Seq(Bytes)
BY PiecesTyped, JoinAllProperties, Zenon DEF Chain

\* A chain with one extension more is the chain with that one's type behind it, and then the
\* extension.
LEMMA ChainAppend ==
  ASSUME NEW t \in Bytes, NEW found \in Seq(Extensions), NEW e \in Extensions
  PROVE  Chain(Append(found, e), t) = Joined(Chain(found, Number(e)), Piece(t, e))
<1> DEFINE n == Len(found)
           more == Append(found, e)
           S == Seq(Bytes)
           p == Pieces(found, Number(e))
           x == Piece(t, e)
           q == Pieces(more, t)
<1>1. /\ n \in Nat /\ Len(more) = n + 1 /\ more[n + 1] = e
      /\ \A i \in 1 .. n : more[i] = found[i]
  BY AppendProperties, LenProperties
<1>2. p \in Seq(S) /\ x \in S
  BY PiecesTyped, PieceTyped, ExtensionTypes, Zenon
<1>3. Len(p) = n
  BY <1>1 DEF Pieces
<1>4. /\ Append(p, x) \in Seq(S) /\ Len(Append(p, x)) = n + 1
      /\ \A i \in 1 .. n : Append(p, x)[i] = p[i]
      /\ Append(p, x)[n + 1] = x
  <2> HIDE DEF p, x, n, more, q, S
  <2> QED BY <1>2, <1>3, AppendProperties
<1>5. ASSUME NEW i \in 1 .. n + 1
      PROVE  q[i] = IF i = n + 1 THEN x ELSE p[i]
  <2>1. q[i] = Piece(IF i < n + 1 THEN Number(more[i + 1]) ELSE t, more[i])
    BY <1>1, Zenon DEF Pieces
  <2>2. CASE i = n + 1
    <3>1. ~ (i < n + 1) /\ more[i] = e
      BY <1>1, <2>2
    <3> QED BY <2>1, <2>2, <3>1, Zenon
  <2>3. CASE i \in 1 .. n
    <3>1. i < n + 1 /\ i # n + 1 /\ more[i] = found[i]
      BY <1>1, <2>3
    <3>2. q[i] = Piece(Number(more[i + 1]), found[i])
      BY <2>1, <3>1, Zenon
    <3>3. p[i] = Piece(IF i < n THEN Number(found[i + 1]) ELSE Number(e), found[i])
      BY <2>3, Zenon DEF Pieces
    <3>4. Number(more[i + 1]) = IF i < n THEN Number(found[i + 1]) ELSE Number(e)
      <4>1. CASE i < n
        <5>1. i + 1 \in 1 .. n
          BY <1>1, <2>3, <4>1
        <5> QED BY <1>1, <4>1, <5>1, Zenon
      <4>2. CASE ~ (i < n)
        <5>1. i + 1 = n + 1
          BY <1>1, <2>3, <4>2
        <5> QED BY <1>1, <4>2, <5>1, Zenon
      <4> QED BY <4>1, <4>2, Zenon
    <3> QED BY <3>1, <3>2, <3>3, <3>4, Zenon
  <2> QED BY <1>1, <2>2, <2>3
<1>6. q \in Seq(S) /\ Len(q) = n + 1
  <2>1. more \in Seq(Extensions)
    BY AppendProperties, Zenon
  <2>2. q \in Seq(S)
    BY <2>1, PiecesTyped, Zenon
  <2>3. Len(q) = Len(more)
    <3> HIDE DEF more
    <3> QED BY <1>1 DEF Pieces
  <2> QED BY <1>1, <2>2, <2>3, Zenon
<1>7. q = Append(p, x)
  <2> HIDE DEF p, x, n, more, q, S
  <2>1. \A i \in 1 .. n + 1 : q[i] = Append(p, x)[i]
    BY <1>1, <1>4, <1>5
  <2> QED BY <1>4, <1>6, <2>1, SeqEqual, Zenon
<1> HIDE DEF p, x, q
<1>8. JoinAll(Append(p, x)) = JoinAll(p) \o x
  BY <1>2, JoinAllProperties, Zenon
<1>9. JoinAll(q) = JoinAll(p) \o x
  BY <1>7, <1>8, Zenon
<1> QED BY <1>9, Zenon DEF Chain, Joined, p, x, q

-----------------------------------------------------------------------------
(***************************************************************************)
(* A round of the loop that decodes extensions.                            *)
(***************************************************************************)

\* The bytes that the loop has not made extensions of.
Left(s) == IF s.type = 0 THEN s.bytes ELSE Joined(<<s.next>>, s.bytes)

\* The conditions of the loop: it stops, and it stops for want of bytes.
Ended(s) == s.type = 0 \/ s.error # ""
Lacks(s) == s.bytes = << >> \/ Head(s.bytes) > Len(s.bytes) - 1

\* The fields of a state of the loop.
LEMMA LoopTyped ==
  /\ \A s \in Loops : /\ s.type \in Bytes /\ s.next \in Bytes
                      /\ s.bytes \in Seq(Bytes) /\ s.found \in Seq(Extensions)
                      /\ Len(s.bytes) \in Nat
  /\ \A type, next \in Bytes, bytes \in Seq(Bytes), found \in Seq(Extensions) :
       Loop(type, next, bytes, found, "") \in Loops
<1>1. \A s \in Loops : /\ s.type \in Bytes /\ s.next \in Bytes
                       /\ s.bytes \in Seq(Bytes) /\ s.found \in Seq(Extensions)
  BY Zenon DEF Loops
<1>2. \A s \in Loops : Len(s.bytes) \in Nat
  BY <1>1, LenProperties, Zenon
<1>3. \A type, next \in Bytes, bytes \in Seq(Bytes), found \in Seq(Extensions) :
        Loop(type, next, bytes, found, "") \in Loops
  BY Zenon DEF Loop, Loops
<1> QED BY <1>1, <1>2, <1>3, Zenon

\* A round of a loop that has ended, and of one that lacks bytes.
LEMMA RoundEnds ==
  ASSUME NEW s \in Loops
  PROVE  /\ Ended(s) => DecodeExtension[s] = s
         /\ ~ Ended(s) /\ Lacks(s) => /\ DecodeExtension[s] \in Loops
                                      /\ DecodeExtension[s].error # ""
<1>1. CASE Ended(s)
  BY <1>1, Zenon DEF DecodeExtension, Ended
<1>2. CASE ~ Ended(s) /\ s.bytes = << >>
  <2>1. DecodeExtension[s] = [s EXCEPT !.error = "MissingExtension"]
    BY <1>2, Zenon DEF DecodeExtension, Ended
  <2> QED BY <1>2, <2>1, Zenon DEF Loops
<1>3. CASE ~ Ended(s) /\ s.bytes # << >> /\ Head(s.bytes) > Len(s.bytes) - 1
  <2>1. DecodeExtension[s] = [s EXCEPT !.error = "IncompleteExtension"]
    BY <1>3, Zenon DEF DecodeExtension, Ended
  <2> QED BY <1>3, <2>1, Zenon DEF Loops
<1> QED BY <1>1, <1>2, <1>3, Zenon DEF Lacks

\* The type byte that is read ahead, and what is left behind it.
LEMMA NextTypeLeft ==
  ASSUME NEW next \in Bytes, NEW rest \in Seq(Bytes)
  PROVE  /\ NextType(next, rest).next \in Bytes /\ NextType(next, rest).bytes \in Seq(Bytes)
         /\ Len(NextType(next, rest).bytes) <= Len(rest)
         /\ next = 0 => NextType(next, rest).bytes = rest
         /\ next # 0 /\ rest = << >> => NextType(next, rest).bytes = << >>
         /\ next # 0 /\ rest # << >> =>
              Joined(<<NextType(next, rest).next>>, NextType(next, rest).bytes) = rest
<1>1. CASE next # 0 /\ rest # << >>
  <2>1. NextType(next, rest).next = Head(rest) /\ NextType(next, rest).bytes = Tail(rest)
    BY <1>1, Zenon DEF NextType
  <2>2. /\ Head(rest) \in Bytes /\ Tail(rest) \in Seq(Bytes)
        /\ Len(Tail(rest)) = Len(rest) - 1 /\ Len(rest) \in Nat
    BY <1>1, HeadTailProperties, LenProperties, Zenon
  <2>3. Joined(<<Head(rest)>>, Tail(rest)) = rest
    <3>1. 1 \in 1 .. Len(rest) /\ Len(rest) \in 1 .. Len(rest) /\ 1 + 1 = 2
      BY <1>1, EmptySeq
    <3>2. SubSeq(rest, 1, Len(rest)) = <<rest[1]>> \o SubSeq(rest, 2, Len(rest))
      BY <3>1, SubSeqRecursiveFirst, Zenon
    <3>3. SubSeq(rest, 1, Len(rest)) = rest /\ Tail(rest) = SubSeq(rest, 2, Len(rest))
      BY <1>1, SubSeqFull, TailIsSubSeq, Zenon
    <3>4. rest[1] = Head(rest)
      BY <1>1
    <3> QED BY <3>2, <3>3, <3>4, Zenon DEF Joined
  <2>4. Len(Tail(rest)) <= Len(rest)
    BY <2>2
  <2> QED BY <1>1, <2>1, <2>2, <2>3, <2>4, Zenon
<1>2. CASE ~ (next # 0 /\ rest # << >>)
  <2>1. NextType(next, rest).next = next /\ NextType(next, rest).bytes = rest
    BY <1>2, Zenon DEF NextType
  <2>2. Len(rest) <= Len(rest)
    BY LenProperties
  <2> QED BY <1>2, <2>1, <2>2, Zenon
<1> QED BY <1>1, <1>2, Zenon

\* A round of the loop that takes an extension e: its bytes are the first of those left.
LEMMA RoundTakes ==
  ASSUME NEW s \in Loops, ~ Ended(s), ~ Lacks(s)
  PROVE  \E e \in Extensions, rest \in Seq(Bytes) :
           /\ Number(e) = s.type
           /\ Left(s) = Joined(Piece(s.next, e), rest)
           /\ DecodeExtension[s] \in Loops
           /\ DecodeExtension[s].type = s.next
           /\ DecodeExtension[s].next = NextType(s.next, rest).next
           /\ DecodeExtension[s].bytes = NextType(s.next, rest).bytes
           /\ DecodeExtension[s].found = Append(s.found, e)
           /\ DecodeExtension[s].error = ""
           /\ Len(rest) < Len(s.bytes)
<1> DEFINE bytes == s.bytes
           l == Head(bytes)
           data == SubSeq(bytes, 2, l + 1)
           rest == SubSeq(bytes, l + 2, Len(bytes))
           e == [extension_type |-> ExtensionType(s.type), data |-> data]
<1>0. /\ bytes \in Seq(Bytes) /\ s.type \in Bytes \ {0} /\ s.next \in Bytes
      /\ s.found \in Seq(Extensions)
  BY Zenon DEF Loops, Ended
<1>1. bytes # << >> /\ l \in Bytes /\ l \in Nat /\ Len(bytes) \in Nat
  <2>1. l \in Bytes
    BY <1>0, HeadTailProperties, Zenon DEF Lacks
  <2> QED BY <1>0, <2>1, ByteAssumption, LenProperties DEF Lacks, Bytes
<1>2. l <= Len(bytes) - 1
  BY <1>1 DEF Lacks
<1>3. /\ data \in Seq(Bytes) /\ Len(data) = l
      /\ rest \in Seq(Bytes) /\ Len(rest) = Len(bytes) - 1 - l
      /\ bytes = Joined(<<l>>, Joined(data, rest))
  BY <1>0, <1>1, <1>2, Cut, Zenon
<1>4. DecodeExtension[s] = Loop(s.next, NextType(s.next, rest).next,
                                NextType(s.next, rest).bytes, Append(s.found, e), "")
  BY <1>1, <1>2, Zenon DEF DecodeExtension, Ended, Lacks
<1> HIDE DEF bytes, l, data, rest
<1>5. e \in Extensions
  <2>1. Len(data) < ByteModulus
    BY <1>1, <1>3, ByteAssumption DEF Bytes
  <2> QED BY <1>0, <1>3, <2>1, Zenon DEF Extensions
<1>6. Number(e) = s.type
  <2>1. s.type \in Nat
    BY <1>0, ByteAssumption DEF Bytes
  <2> QED BY <2>1, ExtensionNumbers, Zenon DEF Number
<1>7. Left(s) = Joined(<<s.next>>, Joined(<<l>>, Joined(data, rest)))
  BY <1>0, <1>3, Zenon DEF Left, bytes
<1>8. Piece(s.next, e) = Joined(<<s.next, l>>, data)
  BY <1>3, Zenon DEF Piece
<1> DEFINE a == <<s.next>>
           b == <<l>>
           c == <<s.next, l>>
<1>9. c = Joined(a, b) /\ a \in Seq(Bytes) /\ b \in Seq(Bytes) /\ c \in Seq(Bytes)
  BY <1>0, <1>1 DEF Joined
<1> HIDE DEF e, a, b, c
<1>10. Left(s) = Joined(Piece(s.next, e), rest)
  <2>1. Joined(data, rest) \in Seq(Bytes)
    BY <1>3, JoinedBytes, Zenon
  <2>2. Joined(c, Joined(data, rest)) = Joined(Joined(c, data), rest)
    BY <1>3, <1>9, JoinedAssociative
  <2>3. Joined(a, Joined(b, Joined(data, rest))) = Joined(Joined(a, b), Joined(data, rest))
    BY <1>9, <2>1, JoinedAssociative
  <2> QED BY <1>7, <1>8, <1>9, <2>2, <2>3, Zenon DEF a, b, c
<1>11. Len(rest) < Len(s.bytes)
  BY <1>1, <1>3 DEF bytes
<1> DEFINE next == NextType(s.next, rest).next
           behind == NextType(s.next, rest).bytes
           more == Append(s.found, e)
           after == DecodeExtension[s]
<1>12. next \in Bytes /\ behind \in Seq(Bytes) /\ more \in Seq(Extensions)
  BY <1>0, <1>3, <1>5, NextTypeLeft, AppendProperties, Zenon
<1>13. after = Loop(s.next, next, behind, more, "")
  BY <1>4, Zenon
<1> HIDE DEF next, behind, more, after
<1>14. after \in Loops
  BY <1>0, <1>12, <1>13, LoopTyped, Zenon
<1>15. /\ after.type = s.next /\ after.next = next /\ after.bytes = behind
       /\ after.found = more /\ after.error = ""
  BY <1>13, Zenon DEF Loop
<1> QED BY <1>3, <1>5, <1>6, <1>10, <1>11, <1>14, <1>15, Zenon DEF next, behind, more, after

-----------------------------------------------------------------------------
(***************************************************************************)
(* The loop: it ends, within the rounds that DecodeExtensions gives it.    *)
(***************************************************************************)

\* The rounds keep to the states of the loop.
LEMMA RoundTyped == DecodeExtension \in [Loops -> Loops]
<1>1. ASSUME NEW s \in Loops PROVE DecodeExtension[s] \in Loops
  <2>1. CASE Ended(s) \/ Lacks(s)
    BY <2>1, RoundEnds, Zenon
  <2>2. CASE ~ Ended(s) /\ ~ Lacks(s)
    BY <2>2, RoundTakes, Zenon
  <2> QED BY <2>1, <2>2, Zenon
<1>2. DecodeExtension = [s \in Loops |-> DecodeExtension[s]]
  BY Zenon DEF DecodeExtension
<1> QED BY <1>1, <1>2, Zenon

\* f is the loop from s on, round by round.
Rounds(f, s) ==
  /\ f \in [Nat -> Loops] /\ f[0] = s
  /\ \A n \in Nat : f[n + 1] = DecodeExtension[f[n]]

\* DecodeExtensions is where the loop is after so many rounds.
LEMMA LoopRuns ==
  ASSUME NEW s \in Loops
  PROVE  \E f : Rounds(f, s) /\ DecodeExtensions(s) = f[Len(s.bytes) + 1]
<1> DEFINE step == [n \in Nat |-> DecodeExtension]
<1>1. step \in [Nat -> [Loops -> Loops]] /\ \A n \in Nat : step[n] = DecodeExtension
  BY RoundTyped, Zenon
<1> HIDE DEF step
<1>2. PICK f \in [Nat -> Loops] : Iterates(f, s, step)
  BY <1>1, PrimitiveRecursion, Zenon
<1>3. f[0] = s /\ \A n \in Nat : f[n + 1] = DecodeExtension[f[n]]
  BY <1>1, <1>2, Zenon DEF Iterates
<1> DEFINE Fits(h) == h = [n \in Nat |-> IF n = 0 THEN s ELSE DecodeExtension[h[n - 1]]]
           after == CHOOSE h : Fits(h)
<1>4. DecodeExtensions(s) = after[Len(s.bytes) + 1]
  BY Zenon DEF DecodeExtensions
<1>5. Fits(f)
  <2>1. ASSUME NEW n \in Nat PROVE f[n] = IF n = 0 THEN s ELSE DecodeExtension[f[n - 1]]
    <3>1. CASE n = 0
      BY <1>3, <3>1, Zenon
    <3>2. CASE n # 0
      <4>1. n - 1 \in Nat /\ (n - 1) + 1 = n
        BY <3>2
      <4> QED BY <1>3, <3>2, <4>1, Zenon
    <3> QED BY <3>1, <3>2, Zenon
  <2>2. f = [n \in Nat |-> f[n]]
    BY <1>2, Zenon
  <2> QED BY <2>1, <2>2, Zenon
<1>6. Fits(after)
  BY <1>5, Zenon
<1> HIDE DEF after
<1>7. \A n \in Nat : after[n] = IF n = 0 THEN s ELSE DecodeExtension[after[n - 1]]
  BY <1>6, Zenon
<1> HIDE DEF Fits
<1> DEFINE T == {n \in Nat : after[n] = f[n]}
<1>8. 0 \in T
  BY <1>3, <1>7, Zenon
<1>9. ASSUME NEW n \in Nat, n \in T PROVE n + 1 \in T
  <2>1. n + 1 \in Nat /\ n + 1 # 0 /\ (n + 1) - 1 = n /\ after[n] = f[n]
    BY <1>9
  <2>2. after[n + 1] = DecodeExtension[after[n]]
    BY <1>7, <2>1, Zenon
  <2> QED BY <1>3, <2>1, <2>2, Zenon
<1> HIDE DEF T
<1>10. Len(s.bytes) + 1 \in Nat
  <2>1. Len(s.bytes) \in Nat
    BY LoopTyped, Zenon
  <2> QED BY <2>1
<1>11. Len(s.bytes) + 1 \in T
  BY <1>8, <1>9, <1>10, SetInduction, Zenon
<1> QED BY <1>2, <1>3, <1>4, <1>11, Zenon DEF T, Rounds

\* By then it has ended.
LEMMA LoopEnds ==
  ASSUME NEW s \in Loops, NEW f, Rounds(f, s)
  PROVE  Ended(f[Len(s.bytes) + 1])
<1> DEFINE N == Len(s.bytes)
           T == {n \in Nat : ~ Ended(f[n]) => n + Len(f[n].bytes) <= N}
<1>0. \A x \in Loops : x.bytes \in Seq(Bytes) /\ Len(x.bytes) \in Nat /\ x.next \in Bytes
  BY LoopTyped, Zenon
<1>1. 0 \in T
  BY <1>0 DEF Rounds
<1>2. ASSUME NEW n \in Nat, n \in T PROVE n + 1 \in T
  <2>0. n + 1 \in T <=> (~ Ended(f[n + 1]) => (n + 1) + Len(f[n + 1].bytes) <= N)
    <3>1. n + 1 \in Nat
      OBVIOUS
    <3> QED BY <3>1, Zenon
  <2> SUFFICES ASSUME ~ Ended(f[n + 1]) PROVE (n + 1) + Len(f[n + 1].bytes) <= N
    BY <2>0, Zenon
  <2>1. f[n] \in Loops /\ f[n + 1] = DecodeExtension[f[n]]
    BY Zenon DEF Rounds
  <2>2. ~ Ended(f[n]) /\ ~ Lacks(f[n])
    BY <2>1, RoundEnds, Zenon DEF Ended
  <2>3. PICK e \in Extensions, rest \in Seq(Bytes) :
          /\ f[n + 1].bytes = NextType(f[n].next, rest).bytes
          /\ Len(rest) < Len(f[n].bytes)
    BY <2>1, <2>2, RoundTakes, Zenon
  <2>5. NextType(f[n].next, rest).bytes \in Seq(Bytes)
        /\ Len(NextType(f[n].next, rest).bytes) <= Len(rest)
    BY <1>0, <2>1, NextTypeLeft, Zenon
  <2>6. Len(f[n + 1].bytes) \in Nat /\ Len(rest) \in Nat /\ Len(f[n].bytes) \in Nat /\ N \in Nat
    BY <1>0, <2>1, <2>3, <2>5, LenProperties, Zenon
  <2>7. n + Len(f[n].bytes) <= N
    BY <1>2, <2>2, Zenon
  <2>8. Len(f[n + 1].bytes) <= Len(rest) /\ Len(rest) < Len(f[n].bytes)
    BY <2>3, <2>5, Zenon
  <2> DEFINE a == Len(f[n + 1].bytes)
             b == Len(rest)
             c == Len(f[n].bytes)
  <2> HIDE DEF N, T, a, b, c
  <2>9. a \in Nat /\ b \in Nat /\ c \in Nat /\ N \in Nat /\ a <= b /\ b < c /\ n + c <= N
    BY <2>6, <2>7, <2>8, Zenon DEF a, b, c
  <2>10. (n + 1) + a <= N
    BY <2>9
  <2> QED BY <2>10, Zenon DEF a
<1>3. N + 1 \in T
  <2> HIDE DEF T
  <2>1. N + 1 \in Nat
    BY <1>0
  <2> QED BY <1>1, <1>2, <2>1, SetInduction, Zenon
<1>4. f[N + 1] \in Loops /\ N \in Nat
  BY <1>0 DEF Rounds
<1> QED BY <1>0, <1>3, <1>4

-----------------------------------------------------------------------------
(***************************************************************************)
(* What the loop finds is what the bytes say.                              *)
(***************************************************************************)

\* The type number of the first extension, with t behind the last one.
FirstType(found, t) == IF found = << >> THEN t ELSE Number(found[1])

\* The extensions found and what is left of them make up all the bytes, the type of the first
\* one being the number first; unless the loop is about to lack a byte or has failed.
Right(all, first, s) ==
  s.error = "" =>
    \/ s.type # 0 /\ s.bytes = << >>
    \/ /\ all = Joined(Chain(s.found, s.type), Left(s))
       /\ FirstType(s.found, s.type) = first

\* A round keeps it.
LEMMA RoundRight ==
  ASSUME NEW all, NEW first, NEW s \in Loops, Right(all, first, s)
  PROVE  Right(all, first, DecodeExtension[s])
<1> DEFINE u == DecodeExtension[s]
<1>1. CASE Ended(s)
  BY <1>1, RoundEnds, Zenon
<1>2. CASE ~ Ended(s) /\ Lacks(s)
  BY <1>2, RoundEnds, Zenon DEF Right
<1>3. CASE ~ Ended(s) /\ ~ Lacks(s)
  <2>0. /\ s.type \in Bytes /\ s.next \in Bytes /\ s.bytes \in Seq(Bytes)
        /\ s.found \in Seq(Extensions)
    BY LoopTyped, Zenon
  <2>1. PICK e \in Extensions, rest \in Seq(Bytes) :
           /\ Number(e) = s.type
           /\ Left(s) = Joined(Piece(s.next, e), rest)
           /\ u.type = s.next
           /\ u.next = NextType(s.next, rest).next
           /\ u.bytes = NextType(s.next, rest).bytes
           /\ u.found = Append(s.found, e)
    BY <1>3, RoundTakes, Zenon
  <2> HIDE DEF u
  <2>2. all = Joined(Chain(s.found, s.type), Left(s)) /\ FirstType(s.found, s.type) = first
    BY <1>3, Zenon DEF Right, Ended, Lacks
  <2>3. Chain(u.found, u.type) = Joined(Chain(s.found, s.type), Piece(s.next, e))
    BY <2>0, <2>1, ChainAppend, Zenon
  <2>4. Chain(s.found, s.type) \in Seq(Bytes) /\ Piece(s.next, e) \in Seq(Bytes)
    BY <2>0, ChainTyped, PieceTyped, Zenon
  <2>5. all = Joined(Chain(u.found, u.type), rest)
    BY <2>1, <2>2, <2>3, <2>4, JoinedAssociative
  <2>6. FirstType(u.found, u.type) = first
    <3>1. CASE s.found = << >>
      <4>1. u.found # << >> /\ u.found[1] = e
        BY <2>0, <2>1, <3>1
      <4>2. FirstType(u.found, u.type) = s.type
        BY <2>1, <4>1, Zenon DEF FirstType
      <4> QED BY <2>2, <3>1, <4>2, Zenon DEF FirstType
    <3>2. CASE s.found # << >>
      <4>1. 1 \in 1 .. Len(s.found)
        BY <2>0, <3>2, EmptySeq
      <4>2. u.found # << >> /\ u.found[1] = s.found[1]
        BY <2>0, <2>1, <4>1, AppendProperties
      <4> QED BY <2>2, <3>2, <4>2, Zenon DEF FirstType
    <3> QED BY <3>1, <3>2, Zenon
  <2>7. (u.type # 0 /\ u.bytes = << >>) \/ Left(u) = rest
    <3>1. CASE s.next = 0
      <4>1. u.bytes = rest /\ u.type = 0
        BY <2>0, <2>1, <3>1, NextTypeLeft, Zenon
      <4> QED BY <4>1, Zenon DEF Left
    <3>2. CASE s.next # 0 /\ rest = << >>
      <4>1. NextType(s.next, rest).bytes = << >>
        BY <2>0, <3>2, NextTypeLeft, Zenon
      <4> QED BY <2>1, <3>2, <4>1, Zenon
    <3>3. CASE s.next # 0 /\ rest # << >>
      <4>1. Joined(<<NextType(s.next, rest).next>>, NextType(s.next, rest).bytes) = rest
        BY <2>0, <3>3, NextTypeLeft, Zenon
      <4>2. Left(u) = Joined(<<u.next>>, u.bytes)
        BY <2>1, <3>3, Zenon DEF Left
      <4> QED BY <2>1, <4>1, <4>2, Zenon
    <3> QED BY <3>1, <3>2, <3>3, Zenon
  <2> QED BY <2>5, <2>6, <2>7, Zenon DEF Right, u
<1> QED BY <1>1, <1>2, <1>3, Zenon

\* The loop as it is entered.
Started(first, all) ==
  Loop(first, NextType(first, all).next, NextType(first, all).bytes, << >>, "")

\* Nothing is found then, and all is left.
LEMMA LoopStarts ==
  ASSUME NEW first \in Bytes, NEW all \in Seq(Bytes), first = 0 \/ all # << >>
  PROVE  /\ Started(first, all) \in Loops
         /\ Started(first, all).error = "" /\ Started(first, all).found = << >>
         /\ Started(first, all).type = first
         /\ Left(Started(first, all)) = all
         /\ Right(all, first, Started(first, all))
<1> DEFINE next == NextType(first, all).next
           bytes == NextType(first, all).bytes
           s == Started(first, all)
           none == << >>
<1>1. next \in Bytes /\ bytes \in Seq(Bytes) /\ none \in Seq(Extensions)
  BY NextTypeLeft, EmptySeq, Zenon
<1>2. (first = 0 => bytes = all) /\ (first # 0 => Joined(<<next>>, bytes) = all)
  BY NextTypeLeft, Zenon
<1>3. s = Loop(first, next, bytes, none, "")
  BY Zenon DEF Started
<1> HIDE DEF next, bytes, s, none
<1>4. s \in Loops
  BY <1>1, <1>3, LoopTyped, Zenon
<1>5. s.type = first /\ s.next = next /\ s.bytes = bytes /\ s.found = none /\ s.error = ""
  BY <1>3, Zenon DEF Loop
<1>6. Left(s) = all
  BY <1>2, <1>5, Zenon DEF Left
<1>7. Chain(s.found, s.type) = << >>
  <2>1. Len(none) = 0
    BY Zenon DEF none
  <2>2. Pieces(none, first) = << >>
    BY <2>1 DEF Pieces
  <2> QED BY <1>5, <2>2, JoinAllProperties, Zenon DEF Chain
<1>8. all = Joined(Chain(s.found, s.type), Left(s))
  BY <1>6, <1>7, JoinedBytes, Zenon
<1>9. FirstType(s.found, s.type) = first
  BY <1>5, Zenon DEF FirstType, none
<1>10. Right(all, first, s)
  BY <1>8, <1>9, Zenon DEF Right
<1> QED BY <1>4, <1>5, <1>6, <1>10, Zenon DEF s, none

\* What the loop finds and leaves make up all the bytes.
LEMMA LoopRight ==
  ASSUME NEW all, NEW first, NEW s \in Loops, Right(all, first, s)
  PROVE  LET r == DecodeExtensions(s) IN
           /\ r \in Loops
           /\ r.error = "" => /\ all = Joined(Chain(r.found, 0), r.bytes)
                             /\ FirstType(r.found, 0) = first
<1> DEFINE r == DecodeExtensions(s)
           N == Len(s.bytes) + 1
<1>1. PICK f : Rounds(f, s) /\ r = f[N]
  BY LoopRuns, Zenon
<1>2. Ended(r)
  BY <1>1, LoopEnds, Zenon
<1>3. N \in Nat
  <2>1. Len(s.bytes) \in Nat
    BY LoopTyped, Zenon
  <2> QED BY <2>1
<1> HIDE DEF r, N
<1> DEFINE T == {n \in Nat : Right(all, first, f[n])}
<1>4. 0 \in T
  BY <1>1, Zenon DEF Rounds
<1>5. ASSUME NEW n \in Nat, n \in T PROVE n + 1 \in T
  <2>1. f[n] \in Loops /\ f[n + 1] = DecodeExtension[f[n]]
    BY <1>1, Zenon DEF Rounds
  <2>2. Right(all, first, f[n])
    BY <1>5, Zenon
  <2>3. Right(all, first, f[n + 1])
    BY <2>1, <2>2, RoundRight, Zenon
  <2> QED BY <2>3
<1> HIDE DEF T
<1>6. N \in T
  BY <1>3, <1>4, <1>5, SetInduction, Zenon
<1>7. r \in Loops /\ Right(all, first, r)
  BY <1>1, <1>3, <1>6, Zenon DEF T, Rounds
<1>8. ASSUME r.error = ""
      PROVE  all = Joined(Chain(r.found, 0), r.bytes) /\ FirstType(r.found, 0) = first
  <2>1. r.type = 0
    BY <1>2, <1>8, Zenon DEF Ended
  <2> QED BY <1>7, <1>8, <2>1, Zenon DEF Right, Left
<1> QED BY <1>7, <1>8, Zenon DEF r

-----------------------------------------------------------------------------
(***************************************************************************)
(* The bytes of extensions can be read in one way only, and so the loop    *)
(* finds the extensions that they are the bytes of.                        *)
(***************************************************************************)

\* What joining two sequences of bytes gives, element by element.
LEMMA JoinedElements ==
  ASSUME NEW p \in Seq(Bytes), NEW q \in Seq(Bytes)
  PROVE  /\ Len(Joined(p, q)) = Len(p) + Len(q) /\ Len(p) \in Nat /\ Len(q) \in Nat
         /\ \A i \in 1 .. Len(p) : Joined(p, q)[i] = p[i]
<1>1. Len(p) \in Nat /\ Len(q) \in Nat
  BY LenProperties, Zenon
<1>2. /\ Len(p \o q) = Len(p) + Len(q)
      /\ \A i \in 1 .. Len(p) + Len(q) :
           (p \o q)[i] = IF i <= Len(p) THEN p[i] ELSE q[i - Len(p)]
  BY ConcatProperties, Zenon
<1>3. ASSUME NEW i \in 1 .. Len(p) PROVE (p \o q)[i] = p[i]
  BY <1>1, <1>2
<1> QED BY <1>1, <1>2, <1>3, Zenon DEF Joined

\* Equal beginnings of equal length.
LEMMA JoinedInjective ==
  ASSUME NEW p \in Seq(Bytes), NEW q \in Seq(Bytes), NEW r \in Seq(Bytes),
         NEW u \in Seq(Bytes), Joined(p, q) = Joined(r, u), Len(p) = Len(r)
  PROVE  p = r /\ q = u
<1>1. \A i \in 1 .. Len(p) : p[i] = r[i]
  <2>1. \A i \in 1 .. Len(p) : Joined(p, q)[i] = p[i]
    BY JoinedElements, Zenon
  <2>2. \A i \in 1 .. Len(r) : Joined(r, u)[i] = r[i]
    BY JoinedElements, Zenon
  <2> QED BY <2>1, <2>2, Zenon
<1>2. p = r
  BY <1>1, SeqEqual, Zenon
<1> QED BY <1>2, JoinedCancel, Zenon

\* The bytes of an extension say where it ends and what it is.
LEMMA PieceInjective ==
  ASSUME NEW t \in Bytes, NEW e \in Extensions, NEW r \in Seq(Bytes),
         NEW u \in Bytes, NEW g \in Extensions, NEW s \in Seq(Bytes),
         Joined(Piece(t, e), r) = Joined(Piece(u, g), s)
  PROVE  t = u /\ e.data = g.data /\ r = s
<1> DEFINE a == <<t, Len(e.data)>>
           b == <<u, Len(g.data)>>
<1>1. /\ e.data \in Seq(Bytes) /\ Len(e.data) \in Bytes
      /\ g.data \in Seq(Bytes) /\ Len(g.data) \in Bytes
  BY ExtensionTypes, Zenon
<1>2. a \in Seq(Bytes) /\ b \in Seq(Bytes) /\ Len(a) = 2 /\ Len(b) = 2
  BY <1>1
<1>3. Piece(t, e) = Joined(a, e.data) /\ Piece(u, g) = Joined(b, g.data)
  BY Zenon DEF Piece
<1>4. a = b => t = u /\ Len(e.data) = Len(g.data)
  BY Zenon
<1> HIDE DEF a, b
<1>5. Joined(e.data, r) \in Seq(Bytes) /\ Joined(g.data, s) \in Seq(Bytes)
  BY <1>1, JoinedBytes, Zenon
<1>6. Joined(Joined(a, e.data), r) = Joined(a, Joined(e.data, r))
  BY <1>1, <1>2, JoinedAssociative
<1>7. Joined(Joined(b, g.data), s) = Joined(b, Joined(g.data, s))
  BY <1>1, <1>2, JoinedAssociative
<1>8. Joined(a, Joined(e.data, r)) = Joined(b, Joined(g.data, s))
  BY <1>3, <1>6, <1>7, Zenon
<1>9. a = b /\ Joined(e.data, r) = Joined(g.data, s)
  BY <1>2, <1>5, <1>8, JoinedInjective
<1>10. t = u /\ Len(e.data) = Len(g.data)
  BY <1>4, <1>9, Zenon
<1>11. e.data = g.data /\ r = s
  BY <1>1, <1>9, <1>10, JoinedInjective, Zenon
<1> QED BY <1>10, <1>11, Zenon

\* A loop before the bytes of an extension does not lack any.
LEMMA EnoughLeft ==
  ASSUME NEW s \in Loops, s.type # 0, NEW t \in Bytes, NEW e \in Extensions,
         NEW r \in Seq(Bytes), Left(s) = Joined(Piece(t, e), r)
  PROVE  ~ Lacks(s)
<1> DEFINE l == Len(e.data)
           a == <<t>>
           b == <<l>>
           c == <<t, l>>
           d == <<s.next>>
           bytes == s.bytes
           rest == Joined(e.data, r)
<1>1. e.data \in Seq(Bytes) /\ l \in Bytes /\ bytes \in Seq(Bytes) /\ s.next \in Bytes
  BY ExtensionTypes, LoopTyped, Zenon
<1>2. /\ a \in Seq(Bytes) /\ b \in Seq(Bytes) /\ c \in Seq(Bytes) /\ d \in Seq(Bytes)
      /\ c = Joined(a, b) /\ Len(a) = Len(d) /\ Len(b) = 1 /\ b[1] = l
  BY <1>1 DEF Joined
<1>3. Piece(t, e) = Joined(c, e.data) /\ Left(s) = Joined(d, bytes)
  BY Zenon DEF Piece, Left
<1> HIDE DEF l, a, b, c, d, bytes
<1>4. rest \in Seq(Bytes)
  BY <1>1, JoinedBytes, Zenon
<1>5. Joined(Joined(c, e.data), r) = Joined(c, rest)
  BY <1>1, <1>2, JoinedAssociative
<1> HIDE DEF rest
<1>6. Joined(c, rest) = Joined(a, Joined(b, rest))
  BY <1>2, <1>4, JoinedAssociative
<1>7. Joined(b, rest) \in Seq(Bytes)
  BY <1>2, <1>4, JoinedBytes, Zenon
<1>8. Joined(d, bytes) = Joined(a, Joined(b, rest))
  BY <1>3, <1>5, <1>6, Zenon
<1>9. bytes = Joined(b, rest)
  BY <1>1, <1>2, <1>7, <1>8, JoinedInjective, Zenon
<1>10. Len(bytes) = 1 + Len(rest) /\ bytes[1] = l /\ Len(rest) \in Nat
  <2>1. /\ Len(Joined(b, rest)) = Len(b) + Len(rest) /\ Len(rest) \in Nat
        /\ \A i \in 1 .. Len(b) : Joined(b, rest)[i] = b[i]
    BY <1>2, <1>4, JoinedElements, Zenon
  <2> QED BY <1>2, <1>9, <2>1
<1>11. Len(rest) >= l /\ l \in Nat
  <2>1. Len(rest) = Len(e.data) + Len(r) /\ Len(e.data) \in Nat /\ Len(r) \in Nat
    BY <1>1, JoinedElements, Zenon DEF rest
  <2> QED BY <2>1 DEF l
<1>12. bytes # << >>
  BY <1>10
<1>13. Head(bytes) = l
  BY <1>1, <1>10, <1>12
<1>14. ~ (Head(bytes) > Len(bytes) - 1)
  BY <1>10, <1>11, <1>13
<1> QED BY <1>12, <1>14, Zenon DEF Lacks, bytes

\* The bytes of the first n of some extensions.
Begun(X, n) == Chain(SubSeq(X, 1, n), TypeByte(X, n + 1))

\* What is known of the first extensions.
LEMMA Beginnings ==
  ASSUME NEW X \in Seq(Extensions), NEW n \in Nat, n < Len(X)
  PROVE  /\ X[n + 1] \in Extensions /\ TypeByte(X, n + 1) = Number(X[n + 1])
         /\ SubSeq(X, 1, n) \in Seq(Extensions)
         /\ SubSeq(X, 1, n + 1) = Append(SubSeq(X, 1, n), X[n + 1])
<1>1. Len(X) \in Nat /\ n + 1 \in 1 .. Len(X)
  BY LenProperties
<1>2. X[n + 1] \in Extensions
  BY <1>1, ElementOfSeq, Zenon
<1>3. TypeByte(X, n + 1) = Number(X[n + 1])
  BY <1>1 DEF TypeByte, Number
<1>4. SubSeq(X, 1, n) \in Seq(Extensions)
  <2>1. \A i \in 1 .. n : X[i] \in Extensions
    BY <1>1, ElementOfSeq
  <2> QED BY <2>1, SubSeqProperties
<1>5. SubSeq(X, 1, n + 1) = Append(SubSeq(X, 1, n), X[n + 1])
  <2>1. 1 \in 1 .. Len(X) /\ n + 1 \in 1 .. Len(X) /\ (n + 1) - 1 = n
    BY <1>1
  <2>2. SubSeq(X, 1, n + 1) = SubSeq(X, 1, n) \o <<X[n + 1]>>
    BY <2>1, SubSeqRecursiveSecond, Zenon
  <2>3. Append(SubSeq(X, 1, n), X[n + 1]) = SubSeq(X, 1, n) \o <<X[n + 1]>>
    BY <1>2, <1>4, AppendIsConcat, Zenon
  <2> QED BY <2>2, <2>3, Zenon
<1> QED BY <1>2, <1>3, <1>4, <1>5, Zenon

\* Type numbers are bytes, and only the one behind the last extension is 0.
LEMMA TypeBytes ==
  ASSUME NEW X \in Seq(Extensions), NEW i \in Nat \ {0}
  PROVE  TypeByte(X, i) \in Bytes /\ (TypeByte(X, i) = 0 <=> i > Len(X))
<1>1. Len(X) \in Nat /\ 0 \in Bytes
  BY LenProperties, ByteAssumption DEF Bytes
<1>2. CASE i <= Len(X)
  <2>1. i - 1 \in Nat /\ i - 1 < Len(X) /\ (i - 1) + 1 = i
    BY <1>1, <1>2
  <2>2. X[i] \in Extensions /\ TypeByte(X, i) = Number(X[i])
    BY <2>1, Beginnings, Zenon
  <2> QED BY <1>1, <1>2, <2>2, ExtensionTypes
<1>3. CASE ~ (i <= Len(X))
  BY <1>1, <1>3 DEF TypeByte
<1> QED BY <1>2, <1>3, Zenon

\* One extension more.
LEMMA BegunNext ==
  ASSUME NEW X \in Seq(Extensions), NEW n \in Nat, n < Len(X)
  PROVE  /\ Begun(X, n) \in Seq(Bytes) /\ Begun(X, n + 1) \in Seq(Bytes)
         /\ TypeByte(X, n + 2) \in Bytes /\ X[n + 1] \in Extensions
         /\ Piece(TypeByte(X, n + 2), X[n + 1]) \in Seq(Bytes)
         /\ Begun(X, n + 1) = Joined(Begun(X, n), Piece(TypeByte(X, n + 2), X[n + 1]))
<1> DEFINE front == SubSeq(X, 1, n)
           e == X[n + 1]
           t == TypeByte(X, n + 2)
<1>1. /\ e \in Extensions /\ TypeByte(X, n + 1) = Number(e)
      /\ front \in Seq(Extensions) /\ SubSeq(X, 1, n + 1) = Append(front, e)
  BY Beginnings, Zenon
<1>2. t \in Bytes /\ (n + 1) + 1 = n + 2
  BY TypeBytes
<1>3. Begun(X, n + 1) = Chain(Append(front, e), t)
  BY <1>1, <1>2, Zenon DEF Begun
<1>4. Begun(X, n) = Chain(front, Number(e))
  BY <1>1, Zenon DEF Begun
<1> HIDE DEF front, e, t
<1>5. Piece(t, e) \in Seq(Bytes) /\ Number(e) \in Bytes
  BY <1>1, <1>2, PieceTyped, ExtensionTypes, Zenon
<1>6. Chain(front, Number(e)) \in Seq(Bytes)
  BY <1>1, <1>5, ChainTyped, Zenon
<1>7. Chain(Append(front, e), t) = Joined(Chain(front, Number(e)), Piece(t, e))
  BY <1>1, <1>2, ChainAppend, Zenon
<1>8. Joined(Chain(front, Number(e)), Piece(t, e)) \in Seq(Bytes)
  BY <1>5, <1>6, JoinedBytes, Zenon
<1> QED BY <1>1, <1>2, <1>3, <1>4, <1>5, <1>6, <1>7, <1>8, Zenon DEF front, e, t

\* The bytes of all extensions and of the data begin with those of the first extensions.
LEMMA Begins ==
  ASSUME NEW X \in Seq(Extensions), NEW data \in Seq(Bytes), NEW n \in Nat, n <= Len(X)
  PROVE  \E rest \in Seq(Bytes) : Joined(Chain(X, 0), data) = Joined(Begun(X, n), rest)
<1> DEFINE all == Joined(Chain(X, 0), data)
           m == Len(X)
           Start(i) == \E rest \in Seq(Bytes) : all = Joined(Begun(X, i), rest)
           T == {k \in Nat : k <= m => Start(m - k)}
<1>0. m \in Nat
  BY LenProperties, Zenon
<1>1. Begun(X, m) = Chain(X, 0)
  <2>1. SubSeq(X, 1, m) = X
    BY SubSeqFull, Zenon
  <2>2. TypeByte(X, m + 1) = 0
    BY <1>0 DEF TypeByte
  <2> QED BY <2>1, <2>2, Zenon DEF Begun
<1>2. ASSUME NEW i \in Nat, i < m, Start(i + 1) PROVE Start(i)
  <2>1. PICK rest \in Seq(Bytes) : all = Joined(Begun(X, i + 1), rest)
    BY <1>2, Zenon
  <2> DEFINE x == Piece(TypeByte(X, i + 2), X[i + 1])
  <2>2. Begun(X, i) \in Seq(Bytes) /\ x \in Seq(Bytes) /\ Begun(X, i + 1) = Joined(Begun(X, i), x)
    BY <1>2, BegunNext, Zenon
  <2> HIDE DEF x, all
  <2>3. Joined(Joined(Begun(X, i), x), rest) = Joined(Begun(X, i), Joined(x, rest))
    BY <2>2, JoinedAssociative, Zenon
  <2>4. Joined(x, rest) \in Seq(Bytes)
    BY <2>2, JoinedBytes, Zenon
  <2> QED BY <2>1, <2>2, <2>3, <2>4, Zenon
<1>3. Start(m)
  BY <1>1, Zenon
<1> HIDE DEF Start, all
<1>4. 0 \in T
  BY <1>0, <1>3
<1>5. ASSUME NEW k \in Nat, k \in T PROVE k + 1 \in T
  <2> SUFFICES ASSUME k + 1 <= m PROVE Start(m - (k + 1))
    OBVIOUS
  <2> DEFINE i == m - (k + 1)
  <2>1. i \in Nat /\ i < m /\ i + 1 = m - k /\ k <= m
    BY <1>0
  <2>2. Start(i + 1)
    BY <1>5, <2>1, Zenon
  <2> QED BY <1>2, <2>1, <2>2, Zenon
<1> HIDE DEF T
<1>6. m - n \in Nat
  BY <1>0
<1>7. m - n \in T
  BY <1>4, <1>5, <1>6, SetInduction, Zenon
<1>8. m - n <= m /\ m - (m - n) = n
  BY <1>0
<1>9. Start(n)
  BY <1>7, <1>8, Zenon DEF T
<1> QED BY <1>9, Zenon DEF Start, all

\* The loop has found the first n of the extensions that the bytes stand for.
HasFound(X, all, n, s) ==
  /\ s \in Loops /\ s.error = ""
  /\ s.type = TypeByte(X, n + 1) /\ s.found = SubSeq(X, 1, n)
  /\ all = Joined(Begun(X, n), Left(s))

\* Left is a sequence of bytes.
LEMMA LeftTyped ==
  ASSUME NEW s \in Loops
  PROVE  Left(s) \in Seq(Bytes)
<1>1. s.bytes \in Seq(Bytes) /\ s.next \in Bytes
  BY LoopTyped, Zenon
<1>2. <<s.next>> \in Seq(Bytes)
  BY <1>1
<1>3. Joined(<<s.next>>, s.bytes) \in Seq(Bytes)
  BY <1>1, <1>2, JoinedBytes, Zenon
<1> QED BY <1>1, <1>3, Zenon DEF Left

\* What is left then starts with the next extension.
LEMMA FindsNext ==
  ASSUME NEW X \in Seq(Extensions), NEW data \in Seq(Bytes), NEW n \in Nat, n < Len(X),
         NEW left \in Seq(Bytes), Joined(Chain(X, 0), data) = Joined(Begun(X, n), left)
  PROVE  \E rest \in Seq(Bytes) :
           /\ left = Joined(Piece(TypeByte(X, n + 2), X[n + 1]), rest)
           /\ Joined(Chain(X, 0), data) = Joined(Begun(X, n + 1), rest)
<1> DEFINE all == Joined(Chain(X, 0), data)
           x == Piece(TypeByte(X, n + 2), X[n + 1])
<1>1. n + 1 \in Nat /\ n + 1 <= Len(X)
  BY LenProperties
<1>2. PICK rest \in Seq(Bytes) : all = Joined(Begun(X, n + 1), rest)
  BY <1>1, Begins, Zenon
<1>3. Begun(X, n) \in Seq(Bytes) /\ x \in Seq(Bytes) /\ Begun(X, n + 1) = Joined(Begun(X, n), x)
  BY BegunNext, Zenon
<1>4. all = Joined(Begun(X, n), left)
  BY Zenon
<1> HIDE DEF all, x
<1>5. Joined(Joined(Begun(X, n), x), rest) = Joined(Begun(X, n), Joined(x, rest))
  BY <1>3, JoinedAssociative
<1>6. Joined(x, rest) \in Seq(Bytes)
  BY <1>3, JoinedBytes, Zenon
<1>7. Joined(Begun(X, n), left) = Joined(Begun(X, n), Joined(x, rest))
  BY <1>2, <1>3, <1>4, <1>5, Zenon
<1>8. left = Joined(x, rest)
  BY <1>3, <1>6, <1>7, JoinedCancel, Zenon
<1> QED BY <1>2, <1>8, Zenon DEF all, x

\* An extension takes bytes.
LEMMA PieceNotEmpty ==
  ASSUME NEW t \in Bytes, NEW e \in Extensions, NEW rest \in Seq(Bytes)
  PROVE  Joined(Piece(t, e), rest) # << >>
<1>1. e.data \in Seq(Bytes) /\ Len(e.data) \in Bytes
  BY ExtensionTypes, Zenon
<1>2. <<t, Len(e.data)>> \in Seq(Bytes) /\ Len(<<t, Len(e.data)>>) = 2
  BY <1>1
<1>3. Len(Piece(t, e)) = 2 + Len(e.data) /\ Len(e.data) \in Nat
  BY <1>1, <1>2, JoinedElements, Zenon DEF Piece
<1>4. Len(Joined(Piece(t, e), rest)) = Len(Piece(t, e)) + Len(rest) /\ Len(rest) \in Nat
  BY PieceTyped, JoinedElements, Zenon
<1>5. Len(Joined(Piece(t, e), rest)) # 0
  BY <1>3, <1>4
<1> QED BY <1>5

\* Without an extension there are no bytes yet.
LEMMA NoneBegun ==
  ASSUME NEW X
  PROVE  Begun(X, 0) = << >>
<1>1. SubSeq(X, 1, 0) = << >>
  BY SubSeqEmpty
<1>2. Pieces(<< >>, TypeByte(X, 0 + 1)) = << >>
  BY DEF Pieces
<1> QED BY <1>1, <1>2, JoinAllProperties, Zenon DEF Begun, Chain

\* A round finds the next one.
LEMMA RoundFinds ==
  ASSUME NEW X \in Seq(Extensions), NEW data \in Seq(Bytes), NEW n \in Nat, n < Len(X),
         NEW s, HasFound(X, Joined(Chain(X, 0), data), n, s)
  PROVE  HasFound(X, Joined(Chain(X, 0), data), n + 1, DecodeExtension[s])
<1> DEFINE all == Joined(Chain(X, 0), data)
           u == DecodeExtension[s]
           e == X[n + 1]
           t == TypeByte(X, n + 2)
<1>1. /\ s \in Loops /\ s.error = "" /\ s.type = TypeByte(X, n + 1)
      /\ s.found = SubSeq(X, 1, n) /\ all = Joined(Begun(X, n), Left(s))
  BY Zenon DEF HasFound
<1>2. /\ e \in Extensions /\ TypeByte(X, n + 1) = Number(e)
      /\ SubSeq(X, 1, n + 1) = Append(SubSeq(X, 1, n), e)
  BY Beginnings, Zenon
<1>3. t \in Bytes /\ Begun(X, n + 1) \in Seq(Bytes)
  BY BegunNext, Zenon
<1>4. s.type # 0 /\ s.next \in Bytes /\ Left(s) \in Seq(Bytes)
  <2>1. Number(e) \in Bytes \ {0}
    BY <1>2, ExtensionTypes, Zenon
  <2>2. s.next \in Bytes /\ Left(s) \in Seq(Bytes)
    BY <1>1, LoopTyped, LeftTyped, Zenon
  <2> QED BY <1>1, <1>2, <2>1, <2>2, Zenon
<1>5. PICK rest \in Seq(Bytes) :
        Left(s) = Joined(Piece(t, e), rest) /\ all = Joined(Begun(X, n + 1), rest)
  BY <1>1, <1>4, FindsNext, Zenon
<1> HIDE DEF all, e, t
<1>6. ~ Ended(s) /\ ~ Lacks(s)
  BY <1>1, <1>2, <1>3, <1>4, <1>5, EnoughLeft, Zenon DEF Ended
<1>7. PICK g \in Extensions, behind \in Seq(Bytes) :
        /\ Number(g) = s.type
        /\ Left(s) = Joined(Piece(s.next, g), behind)
        /\ u \in Loops /\ u.type = s.next /\ u.error = ""
        /\ u.next = NextType(s.next, behind).next
        /\ u.bytes = NextType(s.next, behind).bytes
        /\ u.found = Append(s.found, g)
  BY <1>1, <1>6, RoundTakes, Zenon
<1> HIDE DEF u
<1>8. s.next = t /\ g.data = e.data /\ behind = rest
  <2>1. Joined(Piece(s.next, g), behind) = Joined(Piece(t, e), rest)
    BY <1>5, <1>7, Zenon
  <2> QED BY <1>2, <1>3, <1>4, <2>1, PieceInjective
<1>9. g = e
  <2>1. Number(g) = Number(e)
    BY <1>1, <1>2, <1>7, Zenon
  <2>2. /\ g = [extension_type |-> g.extension_type, data |-> g.data]
        /\ e = [extension_type |-> e.extension_type, data |-> e.data]
        /\ g.extension_type = ExtensionType(Number(g))
        /\ e.extension_type = ExtensionType(Number(e))
    BY <1>2, ExtensionTypes, Zenon
  <2> QED BY <1>8, <2>1, <2>2, Zenon
<1>10. u.found = SubSeq(X, 1, n + 1)
  BY <1>1, <1>2, <1>7, <1>9, Zenon
<1>11. Left(u) = rest
  <2>1. CASE t = 0
    <3>1. NextType(t, rest).bytes = rest
      BY <1>3, <2>1, NextTypeLeft, Zenon
    <3> QED BY <1>7, <1>8, <2>1, <3>1, Zenon DEF Left
  <2>2. CASE t # 0
    <3>1. n + 1 < Len(X) /\ n + 1 \in Nat
      <4>1. n + 2 \in Nat \ {0} /\ Len(X) \in Nat
        BY LenProperties
      <4>2. ~ (n + 2 > Len(X))
        BY <2>2, <4>1, TypeBytes, Zenon DEF t
      <4> QED BY <4>1, <4>2
    <3> DEFINE v == TypeByte(X, (n + 1) + 2)
               h == X[(n + 1) + 1]
    <3>2. PICK far \in Seq(Bytes) : rest = Joined(Piece(v, h), far)
      BY <1>5, <3>1, FindsNext DEF all
    <3>3. v \in Bytes /\ h \in Extensions
      BY <3>1, BegunNext, Zenon
    <3> HIDE DEF v, h
    <3>4. rest # << >>
      BY <3>2, <3>3, PieceNotEmpty, Zenon
    <3>5. Joined(<<NextType(t, rest).next>>, NextType(t, rest).bytes) = rest
      BY <1>3, <2>2, <3>4, NextTypeLeft, Zenon
    <3> QED BY <1>7, <1>8, <2>2, <3>5, Zenon DEF Left
  <2> QED BY <2>1, <2>2, Zenon
<1>12. (n + 1) + 1 = n + 2
  OBVIOUS
<1>13. HasFound(X, all, n + 1, u)
  BY <1>5, <1>7, <1>8, <1>10, <1>11, <1>12, Zenon DEF HasFound, t
<1> QED BY <1>13, Zenon DEF all, u

\* The loop takes the bytes of extensions and of data for just these.
LEMMA LoopFinds ==
  ASSUME NEW X \in Seq(Extensions), NEW data \in Seq(Bytes), NEW s,
         HasFound(X, Joined(Chain(X, 0), data), 0, s)
  PROVE  LET r == DecodeExtensions(s) IN r.error = "" /\ r.found = X /\ r.bytes = data
<1> DEFINE all == Joined(Chain(X, 0), data)
           r == DecodeExtensions(s)
           N == Len(s.bytes) + 1
           m == Len(X)
<1>1. s \in Loops
  BY Zenon DEF HasFound
<1>2. PICK f : Rounds(f, s) /\ r = f[N]
  BY <1>1, LoopRuns, Zenon
<1>3. Ended(r)
  BY <1>1, <1>2, LoopEnds, Zenon
<1>4. N \in Nat /\ m \in Nat
  <2>1. Len(s.bytes) \in Nat /\ m \in Nat
    BY <1>1, LoopTyped, LenProperties, Zenon
  <2> QED BY <2>1
<1> HIDE DEF r, N
<1> DEFINE T == {n \in Nat : n <= m => HasFound(X, all, n, f[n])}
<1>5. 0 \in T
  BY <1>2, Zenon DEF Rounds
<1>6. ASSUME NEW n \in Nat, n \in T PROVE n + 1 \in T
  <2> SUFFICES ASSUME n + 1 <= m PROVE HasFound(X, all, n + 1, f[n + 1])
    OBVIOUS
  <2>1. n < m /\ n <= m
    BY <1>4
  <2>2. f[n + 1] = DecodeExtension[f[n]]
    BY <1>2, Zenon DEF Rounds
  <2>3. HasFound(X, all, n, f[n])
    BY <1>6, <2>1, Zenon
  <2> QED BY <2>1, <2>2, <2>3, RoundFinds, Zenon
<1> HIDE DEF T
<1>7. \A n \in Nat : n <= m => HasFound(X, all, n, f[n])
  <2>1. Nat \subseteq T
    BY <1>5, <1>6, SetInduction, Zenon
  <2> QED BY <2>1, Zenon DEF T
<1>8. N >= m
  <2> SUFFICES ASSUME N < m PROVE FALSE
    BY <1>4
  <2>1. HasFound(X, all, N, f[N])
    BY <1>4, <1>7
  <2>2. TypeByte(X, N + 1) # 0
    <3>1. N + 1 \in Nat \ {0} /\ ~ (N + 1 > m)
      BY <1>4
    <3> QED BY <3>1, TypeBytes, Zenon
  <2> QED BY <1>2, <1>3, <2>1, <2>2, Zenon DEF HasFound, Ended
<1> DEFINE z == f[m]
<1>9. HasFound(X, all, m, z)
  BY <1>4, <1>7
<1>10. z \in Loops /\ z.type = 0 /\ z.error = "" /\ z.found = X /\ z.bytes = data
  <2>1. /\ z \in Loops /\ z.error = "" /\ z.type = TypeByte(X, m + 1)
        /\ z.found = SubSeq(X, 1, m) /\ all = Joined(Begun(X, m), Left(z))
    BY <1>9, Zenon DEF HasFound
  <2> HIDE DEF z
  <2>2. TypeByte(X, m + 1) = 0
    BY <1>4 DEF TypeByte
  <2>3. SubSeq(X, 1, m) = X
    BY SubSeqFull, Zenon
  <2>4. Begun(X, m) = Chain(X, 0)
    BY <2>2, <2>3, Zenon DEF Begun
  <2>5. Left(z) = z.bytes /\ z.bytes \in Seq(Bytes)
    BY <2>1, <2>2, LoopTyped, Zenon DEF Left
  <2>6. Chain(X, 0) \in Seq(Bytes)
    <3>1. 0 \in Bytes
      BY ByteAssumption DEF Bytes
    <3> QED BY <3>1, ChainTyped, Zenon
  <2>7. Joined(Chain(X, 0), z.bytes) = Joined(Chain(X, 0), data)
    BY <2>1, <2>4, <2>5, Zenon
  <2>8. z.bytes = data
    BY <2>5, <2>6, <2>7, JoinedCancel, Zenon
  <2> QED BY <2>1, <2>2, <2>3, <2>8, Zenon
<1> DEFINE U == {k \in Nat : f[m + k] = z}
<1>11. 0 \in U
  BY <1>4
<1>12. ASSUME NEW k \in Nat, k \in U PROVE k + 1 \in U
  <2>1. f[m + k] = z /\ m + k \in Nat /\ (m + k) + 1 = m + (k + 1) /\ k + 1 \in Nat
    BY <1>4, <1>12
  <2>2. f[(m + k) + 1] = DecodeExtension[f[m + k]]
    BY <1>2, <2>1, Zenon DEF Rounds
  <2> HIDE DEF z
  <2>3. DecodeExtension[z] = z
    BY <1>10, RoundEnds, Zenon DEF Ended
  <2> QED BY <2>1, <2>2, <2>3, Zenon
<1> HIDE DEF U, z
<1>13. N - m \in U
  <2>1. N - m \in Nat
    BY <1>4, <1>8
  <2> QED BY <1>11, <1>12, <2>1, SetInduction, Zenon
<1>14. r = z
  <2>1. m + (N - m) = N
    BY <1>4
  <2> QED BY <1>2, <1>13, <2>1, Zenon DEF U
<1> QED BY <1>10, <1>14, Zenon DEF r

-----------------------------------------------------------------------------
(***************************************************************************)
(* The datagram of a packet.                                               *)
(***************************************************************************)

\* The bytes of the extensions, as Encode puts them together.
LEMMA ExtensionBytes ==
  ASSUME NEW X \in Seq(Extensions)
  PROVE  /\ JoinAll([i \in 1 .. Len(X) |-> EncodeExtension(X, i)]) = Chain(X, 0)
         /\ TypeByte(X, 1) = FirstType(X, 0)
         /\ Chain(X, 0) \in Seq(Bytes)
<1>1. Len(X) \in Nat
  BY LenProperties, Zenon
<1>2. ASSUME NEW i \in 1 .. Len(X)
      PROVE  EncodeExtension(X, i) = Piece(IF i < Len(X) THEN Number(X[i + 1]) ELSE 0, X[i])
  <2>1. X[i] \in Extensions
    BY ElementOfSeq, Zenon
  <2>2. Len(X[i].data) % ByteModulus = Len(X[i].data)
    <3>1. Len(X[i].data) \in Bytes
      BY <2>1, ExtensionTypes, Zenon
    <3> DEFINE l == Len(X[i].data)
    <3> HIDE DEF l
    <3>2. l \in Nat /\ l < ByteModulus
      BY <3>1, ByteAssumption DEF Bytes, l
    <3>3. l % ByteModulus = l
      BY <3>2, ByteAssumption
    <3> QED BY <3>3, Zenon DEF l
  <2>3. TypeByte(X, i + 1) = IF i < Len(X) THEN Number(X[i + 1]) ELSE 0
    BY <1>1 DEF TypeByte, Number
  <2> QED BY <2>2, <2>3, Zenon DEF EncodeExtension, Piece, Joined
<1>3. [i \in 1 .. Len(X) |-> EncodeExtension(X, i)] = Pieces(X, 0)
  BY <1>2, Zenon DEF Pieces
<1>4. TypeByte(X, 1) = FirstType(X, 0)
  <2>1. X = << >> <=> Len(X) = 0
    BY EmptySeq, Zenon
  <2> QED BY <1>1, <2>1 DEF TypeByte, FirstType, Number
<1>5. 0 \in Bytes
  BY ByteAssumption DEF Bytes
<1> QED BY <1>3, <1>4, <1>5, ChainTyped, Zenon DEF Chain

\* Joining the fields of a header with bytes is associative as well.
LEMMA FieldsJoined ==
  ASSUME NEW p \in Seq(Nat), NEW q \in Seq(Nat), NEW r \in Seq(Nat)
  PROVE  Joined(p, Joined(q, r)) = Joined(Joined(p, q), r)
<1> DEFINE S == Nat
<1>1. p \in Seq(S) /\ q \in Seq(S) /\ r \in Seq(S)
  BY Zenon
<1> HIDE DEF S
<1>2. (p \o q) \o r = p \o (q \o r)
  BY <1>1, ConcatAssociative
<1> QED BY <1>2, Zenon DEF Joined

\* The header of a packet.
HeaderOf(packet) ==
  <<TypeNumber(packet.packet_type) * 16 + packet.version, TypeByte(packet.extensions, 1),
    packet.connection_id, packet.timestamp_micros, packet.timestamp_delta_micros,
    packet.window_size, packet.seq_number, packet.ack_number>>

\* The datagram of a packet: its header, and behind it its extensions and its data.
LEMMA EncodeForm ==
  ASSUME NEW packet, packet.extensions \in Seq(Extensions), packet.data \in Seq(Bytes),
         HeaderOf(packet) \in Seq(Nat)
  PROVE  /\ Encode(packet) =
              Joined(HeaderOf(packet), Joined(Chain(packet.extensions, 0), packet.data))
         /\ Joined(Chain(packet.extensions, 0), packet.data) \in Seq(Bytes)
<1> DEFINE h == HeaderOf(packet)
           X == packet.extensions
           c == Chain(X, 0)
           d == packet.data
<1>1. JoinAll([i \in 1 .. Len(X) |-> EncodeExtension(X, i)]) = c /\ c \in Seq(Bytes)
  BY ExtensionBytes, Zenon
<1>2. Encode(packet) = Joined(Joined(h, c), d)
  BY <1>1, Zenon DEF Encode, HeaderOf, Joined
<1>3. Bytes \subseteq Nat
  BY ByteAssumption DEF Bytes
<1> HIDE DEF h, c, d
<1>4. h \in Seq(Nat) /\ c \in Seq(Nat) /\ d \in Seq(Nat)
  BY <1>1, <1>3, SeqMonotonic, Zenon DEF h, d
<1>5. Joined(Joined(h, c), d) = Joined(h, Joined(c, d))
  BY <1>4, FieldsJoined
<1>6. Joined(c, d) \in Seq(Bytes)
  BY <1>1, JoinedBytes, Zenon DEF d
<1> QED BY <1>2, <1>5, <1>6, Zenon DEF h, c, d

\* A datagram is eight fields and a body.
LEMMA DatagramForm ==
  ASSUME NEW bytes \in ByteStrings, ~ (Len(bytes) < HeaderLen)
  PROVE  /\ bytes = Joined(<<bytes[1], bytes[2], bytes[3], bytes[4], bytes[5], bytes[6],
                             bytes[7], bytes[8]>>, SubSeq(bytes, HeaderLen + 1, Len(bytes)))
         /\ \A i \in 1 .. 8 : bytes[i] \in Nat
         /\ bytes[2] \in Bytes
         /\ SubSeq(bytes, HeaderLen + 1, Len(bytes)) \in Seq(Bytes)
<1> DEFINE n == Len(bytes)
           h == <<bytes[1], bytes[2], bytes[3], bytes[4], bytes[5], bytes[6], bytes[7], bytes[8]>>
<1>1. bytes \in Seq(Nat) /\ n \in Nat /\ n >= 8 /\ DOMAIN bytes = 1 .. n
  BY LenProperties DEF ByteStrings, HeaderLen
<1>2. \A i \in 1 .. 8 : bytes[i] \in Nat
  BY <1>1
<1>3. bytes[2] \in Bytes /\ \A i \in 9 .. n : bytes[i] \in Bytes
  BY <1>1 DEF ByteStrings, HeaderLen
<1>4. SubSeq(bytes, 9, n) \in Seq(Bytes)
  BY <1>1, <1>3, SubSeqProperties
<1>5. SubSeq(bytes, 1, 8) \o SubSeq(bytes, 9, n) = SubSeq(bytes, 1, n)
  <2>1. 1 \in 1 .. n + 1 /\ 8 \in 1 - 1 .. n /\ n \in 8 .. n /\ 8 + 1 = 9
    BY <1>1
  <2>2. SubSeq(bytes, 1, 8) \o SubSeq(bytes, 8 + 1, n) = SubSeq(bytes, 1, n)
    BY <1>1, <2>1, ConcatAdjacentSubSeq, Zenon
  <2> QED BY <2>1, <2>2, Zenon
<1>6. SubSeq(bytes, 1, n) = bytes
  BY <1>1, SubSeqFull, Zenon
<1>7. SubSeq(bytes, 1, 8) = h
  <2>1. /\ SubSeq(bytes, 1, 8) \in Seq(Nat) /\ Len(SubSeq(bytes, 1, 8)) = 8
        /\ \A i \in 1 .. 8 : SubSeq(bytes, 1, 8)[i] = bytes[i]
    BY <1>2, SubSeqProperties
  <2>2. h \in Seq(Nat) /\ Len(h) = 8 /\ \A i \in 1 .. 8 : h[i] = bytes[i]
    BY <1>2
  <2> HIDE DEF h
  <2> QED BY <2>1, <2>2, SeqEqual
<1>8. HeaderLen + 1 = 9
  BY DEF HeaderLen
<1> HIDE DEF h
<1>9. bytes = Joined(h, SubSeq(bytes, 9, n))
  BY <1>5, <1>6, <1>7, Zenon DEF Joined
<1> QED BY <1>2, <1>3, <1>4, <1>8, <1>9, Zenon DEF h

\* The other way round.
LEMMA FieldsAndBody ==
  ASSUME NEW h \in Seq(Nat), Len(h) = HeaderLen, NEW body \in Seq(Bytes)
  PROVE  /\ Joined(h, body) \in Seq(Nat) /\ ~ (Len(Joined(h, body)) < HeaderLen)
         /\ Len(Joined(h, body)) = 8 + Len(body) /\ Len(body) \in Nat
         /\ \A i \in 1 .. 8 + Len(body) : i > 8 => Joined(h, body)[i] = body[i - 8]
         /\ \A i \in 1 .. 8 : Joined(h, body)[i] = h[i]
         /\ SubSeq(Joined(h, body), HeaderLen + 1, Len(Joined(h, body))) = body
<1> DEFINE b == Joined(h, body)
           n == Len(body)
<1>1. Bytes \subseteq Nat
  BY ByteAssumption DEF Bytes
<1>2. body \in Seq(Nat) /\ n \in Nat
  BY <1>1, SeqMonotonic, LenProperties, Zenon
<1>3. /\ b \in Seq(Nat) /\ Len(b) = 8 + n
      /\ \A i \in 1 .. 8 + n : b[i] = IF i <= 8 THEN h[i] ELSE body[i - 8]
  <2> DEFINE m == Len(h)
  <2>1. m = 8
    BY Zenon DEF HeaderLen
  <2>2. /\ b \in Seq(Nat) /\ Len(b) = m + n
        /\ \A i \in 1 .. m + n : b[i] = IF i <= m THEN h[i] ELSE body[i - m]
    BY <1>2, ConcatProperties, Zenon DEF Joined
  <2> HIDE DEF m, b, n
  <2> QED BY <2>1, <2>2, Zenon
<1> HIDE DEF b, n
<1>4. \A i \in 1 .. 8 : b[i] = h[i]
  <2> SUFFICES ASSUME NEW i \in 1 .. 8 PROVE b[i] = h[i]
    BY Zenon
  <2>1. i \in 1 .. 8 + n /\ i <= 8
    BY <1>2
  <2> QED BY <1>3, <2>1, Zenon
<1>5. \A i \in 1 .. n : b[9 + i - 1] = body[i]
  <2> SUFFICES ASSUME NEW i \in 1 .. n PROVE b[9 + i - 1] = body[i]
    BY Zenon
  <2>1. 9 + i - 1 \in 1 .. 8 + n /\ ~ (9 + i - 1 <= 8) /\ (9 + i - 1) - 8 = i
    BY <1>2
  <2> QED BY <1>3, <2>1, Zenon
<1>6. SubSeq(b, 9, 8 + n) = body
  <2>1. \A i \in 9 .. 8 + n : b[i] \in Nat
    BY <1>2, <1>3
  <2>2. /\ SubSeq(b, 9, 8 + n) \in Seq(Nat)
        /\ Len(SubSeq(b, 9, 8 + n)) = IF 9 <= 8 + n THEN 8 + n - 9 + 1 ELSE 0
        /\ \A i \in 1 .. 8 + n - 9 + 1 : SubSeq(b, 9, 8 + n)[i] = b[9 + i - 1]
    BY <1>2, <2>1, SubSeqProperties
  <2>3. Len(SubSeq(b, 9, 8 + n)) = n /\ 8 + n - 9 + 1 = n
    BY <1>2, <2>2
  <2>4. \A i \in 1 .. n : SubSeq(b, 9, 8 + n)[i] = body[i]
    BY <1>5, <2>2, <2>3, Zenon
  <2> QED BY <1>2, <2>2, <2>3, <2>4, SeqEqual, Zenon DEF n
<1>7. ~ (Len(b) < HeaderLen) /\ HeaderLen + 1 = 9
  BY <1>2, <1>3 DEF HeaderLen
<1>8. \A i \in 1 .. 8 + n : i > 8 => b[i] = body[i - 8]
  BY <1>2, <1>3
<1> QED BY <1>2, <1>3, <1>4, <1>6, <1>7, <1>8, Zenon DEF b, n

-----------------------------------------------------------------------------
(***************************************************************************)
(* Decode and Encode.                                                      *)
(***************************************************************************)

\* The packet that Decode makes of a datagram, once its extensions are found.
PacketOf(bytes, parsed) ==
  NewPacket(PacketTypes[bytes[1] \div 16 + 1], 1, bytes[3], bytes[4], bytes[5],
            bytes[6], bytes[7], bytes[8], parsed.found, parsed.bytes)

\* What follows the header, and what the loop makes of it.
Body(bytes) == SubSeq(bytes, HeaderLen + 1, Len(bytes))
Parsed(bytes) == DecodeExtensions(Started(bytes[2], Body(bytes)))

\* A datagram that is a packet has none of the faults that Decode looks for.
LEMMA DecodeForm ==
  ASSUME NEW bytes
  PROVE  /\ ~ IsError(Decode(bytes)) =>
              /\ ~ (Len(bytes) < HeaderLen) /\ ~ (bytes[1] \div 16 > 4)
              /\ ~ (bytes[1] % 16 # 1) /\ ~ (bytes[2] # 0 /\ Body(bytes) = << >>)
              /\ ~ (Parsed(bytes).error # "")
         /\ ~ (Len(bytes) < HeaderLen) /\ ~ (bytes[1] \div 16 > 4)
            /\ ~ (bytes[1] % 16 # 1) /\ ~ (bytes[2] # 0 /\ Body(bytes) = << >>)
            /\ ~ (Parsed(bytes).error # "") =>
              Decode(bytes) = PacketOf(bytes, Parsed(bytes))
<1> DEFINE small == Len(bytes) < HeaderLen
           type == bytes[1] \div 16 > 4
           version == bytes[1] % 16 # 1
           missing == bytes[2] # 0 /\ Body(bytes) = << >>
           parsed == Parsed(bytes)
           error == parsed.error
           packet == PacketOf(bytes, parsed)
<1>1. \A x : IsError(Failed(x))
  BY Zenon DEF IsError, Failed
<1>2. Decode(bytes) = IF small THEN Failed("TooSmall")
                      ELSE IF type THEN Failed("InvalidPacketType")
                      ELSE IF version THEN Failed("UnsupportedVersion")
                      ELSE IF missing THEN Failed("MissingExtension")
                      ELSE IF error # "" THEN Failed(error)
                      ELSE packet
  BY Zenon DEF Decode, Parsed, Started, Body, PacketOf
<1> HIDE DEF small, type, version, missing, error, packet, parsed
<1>3. /\ ~ IsError(Decode(bytes)) => ~ small /\ ~ type /\ ~ version /\ ~ missing /\ ~ (error # "")
      /\ ~ small /\ ~ type /\ ~ version /\ ~ missing /\ ~ (error # "") => Decode(bytes) = packet
  BY <1>1, <1>2, Zenon
<1> QED BY <1>3, Zenon DEF small, type, version, missing, error, packet, parsed

\* A type and version byte of version 1.
LEMMA TypeAndVersion ==
  ASSUME NEW n \in Nat, ~ (n \div 16 > 4), ~ (n % 16 # 1)
  PROVE  n \div 16 \in 0 .. 4 /\ n = (n \div 16) * 16 + 1
<1>1. n = (n \div 16) * 16 + (n % 16)
  OBVIOUS
<1>2. n \div 16 \in Nat
  OBVIOUS
<1> QED BY <1>1, <1>2

\* try_from takes a datagram for a packet only if From<Packet> gives that packet this datagram:
\* whatever a peer sends, no byte of it is lost, read twice or taken for another field, along
\* chains of extensions of any length and for data of any length.
THEOREM DecodeSound ==
  ASSUME NEW bytes \in ByteStrings, ~ IsError(Decode(bytes))
  PROVE  Encode(Decode(bytes)) = bytes
<1> DEFINE n == bytes[1]
           first == bytes[2]
           body == Body(bytes)
           parsed == Parsed(bytes)
           packet == Decode(bytes)
           X == parsed.found
           k == n \div 16
           h == <<bytes[1], bytes[2], bytes[3], bytes[4], bytes[5], bytes[6], bytes[7], bytes[8]>>
<1>1. /\ ~ (Len(bytes) < HeaderLen) /\ ~ (n \div 16 > 4) /\ ~ (n % 16 # 1)
      /\ ~ (first # 0 /\ body = << >>) /\ ~ (parsed.error # "")
  BY DecodeForm, Zenon
<1>2. packet = PacketOf(bytes, parsed)
  BY <1>1, DecodeForm, Zenon
<1>4. /\ bytes = Joined(h, body) /\ \A i \in 1 .. 8 : bytes[i] \in Nat
      /\ first \in Bytes /\ body \in Seq(Bytes)
  BY <1>1, DatagramForm, Zenon DEF Body
<1>5. n \in Nat /\ k \in 0 .. 4 /\ n = k * 16 + 1
  <2>1. n \in Nat
    BY <1>4
  <2> QED BY <1>1, <2>1, TypeAndVersion, Zenon
<1>6. /\ parsed \in Loops /\ body = Joined(Chain(X, 0), parsed.bytes)
      /\ FirstType(X, 0) = first
  <2> DEFINE s == Started(first, body)
  <2>1. s \in Loops /\ Right(body, first, s)
    BY <1>1, <1>4, LoopStarts, Zenon
  <2>2. parsed = DecodeExtensions(s)
    BY Zenon DEF Parsed
  <2> HIDE DEF s, parsed, first, body
  <2> QED BY <1>1, <2>1, <2>2, LoopRight, Zenon
<1>7. X \in Seq(Extensions) /\ parsed.bytes \in Seq(Bytes)
  BY <1>6, LoopTyped, Zenon
<1>8. /\ packet.packet_type = PacketTypes[k + 1] /\ packet.version = 1
      /\ packet.connection_id = bytes[3] /\ packet.timestamp_micros = bytes[4]
      /\ packet.timestamp_delta_micros = bytes[5] /\ packet.window_size = bytes[6]
      /\ packet.seq_number = bytes[7] /\ packet.ack_number = bytes[8]
      /\ packet.extensions = X /\ packet.data = parsed.bytes
  <2> HIDE DEF packet, parsed
  <2> QED BY <1>2, Zenon DEF PacketOf, NewPacket
<1>9. HeaderOf(packet) = h
  <2>1. TypeNumber(packet.packet_type) = k
    BY <1>5, <1>8, TypeNumbers, Zenon
  <2>2. TypeByte(packet.extensions, 1) = bytes[2]
    BY <1>6, <1>7, <1>8, ExtensionBytes, Zenon
  <2>3. TypeNumber(packet.packet_type) * 16 + packet.version = bytes[1]
    BY <1>5, <1>8, <2>1, Zenon
  <2> HIDE DEF packet
  <2> QED BY <1>8, <2>2, <2>3, Zenon DEF HeaderOf
<1>10. h \in Seq(Nat)
  BY <1>4
<1> HIDE DEF packet, h, X, parsed, body
<1>11. /\ packet.extensions \in Seq(Extensions) /\ packet.data \in Seq(Bytes)
       /\ HeaderOf(packet) \in Seq(Nat)
  BY <1>7, <1>8, <1>9, <1>10, Zenon
<1>12. Encode(packet) = Joined(HeaderOf(packet),
                               Joined(Chain(packet.extensions, 0), packet.data))
  BY <1>11, EncodeForm, Zenon
<1>13. Encode(packet) = bytes
  BY <1>4, <1>6, <1>8, <1>9, <1>12, Zenon
<1> QED BY <1>13, Zenon DEF packet

\* What From<Packet> makes of a packet of version 1, with extensions that the length byte can
\* describe, try_from takes for that packet and for no other and never for an error.
THEOREM DecodeEncode ==
  ASSUME NEW packet \in WellFormed
  PROVE  Encode(packet) \in ByteStrings /\ Decode(Encode(packet)) = packet
<1> DEFINE bytes == Encode(packet)
           h == HeaderOf(packet)
           X == packet.extensions
           data == packet.data
           body == Joined(Chain(X, 0), data)
           first == TypeByte(X, 1)
           k == TypeNumber(packet.packet_type)
<1>1. /\ packet.packet_type \in Range(PacketTypes) /\ packet.version = 1
      /\ packet.connection_id \in Nat /\ packet.timestamp_micros \in Nat
      /\ packet.timestamp_delta_micros \in Nat /\ packet.window_size \in Nat
      /\ packet.seq_number \in Nat /\ packet.ack_number \in Nat
      /\ X \in Seq(Extensions) /\ data \in Seq(Bytes)
  BY Zenon DEF WellFormed
<1>2. k \in 0 .. 4 /\ PacketTypes[k + 1] = packet.packet_type
  BY <1>1, TypeNumbers, Zenon
<1>3. first \in Bytes /\ first \in Nat
  <2>1. first \in Bytes
    BY <1>1, TypeBytes
  <2> QED BY <2>1, ByteAssumption DEF Bytes
<1>4. /\ h \in Seq(Nat) /\ Len(h) = 8
      /\ h[1] = k * 16 + 1 /\ h[2] = first
      /\ h[3] = packet.connection_id /\ h[4] = packet.timestamp_micros
      /\ h[5] = packet.timestamp_delta_micros /\ h[6] = packet.window_size
      /\ h[7] = packet.seq_number /\ h[8] = packet.ack_number
  BY <1>1, <1>2, <1>3 DEF HeaderOf
<1>5. bytes = Joined(h, body) /\ body \in Seq(Bytes)
  BY <1>1, <1>4, EncodeForm, Zenon
<1> HIDE DEF bytes, h, body
<1>6. /\ ~ (Len(bytes) < HeaderLen) /\ Body(bytes) = body
      /\ \A i \in 1 .. 8 : bytes[i] = h[i]
  BY <1>4, <1>5, FieldsAndBody, Zenon DEF Body, HeaderLen
<1>7. bytes[1] = k * 16 + 1 /\ bytes[2] = first
  BY <1>4, <1>6
<1>8. bytes[1] \div 16 = k /\ bytes[1] % 16 = 1
  <2> HIDE DEF k
  <2>1. (k * 16 + 1) \div 16 = k /\ (k * 16 + 1) % 16 = 1
    BY <1>2
  <2> QED BY <1>7, <2>1, Zenon
<1>9. first = 0 \/ body # << >>
  <2> SUFFICES ASSUME first # 0, body = << >> PROVE FALSE
    BY Zenon
  <2>1. Len(X) \in Nat /\ ~ (1 > Len(X))
    BY <1>1, TypeBytes, LenProperties
  <2>2. 0 \in Nat /\ 0 < Len(X)
    BY <2>1
  <2>3. body = Joined(Begun(X, 0), body)
    BY <1>5, NoneBegun, JoinedBytes, Zenon
  <2>4. PICK rest \in Seq(Bytes) : body = Joined(Piece(TypeByte(X, 0 + 2), X[0 + 1]), rest)
    BY <1>1, <1>5, <2>2, <2>3, FindsNext DEF body
  <2>5. TypeByte(X, 0 + 2) \in Bytes /\ X[0 + 1] \in Extensions
    BY <1>1, <2>2, BegunNext, Zenon
  <2> QED BY <2>4, <2>5, PieceNotEmpty, Zenon
<1> DEFINE s == Started(first, body)
           parsed == Parsed(bytes)
<1>10. parsed = DecodeExtensions(s)
  BY <1>6, <1>7, Zenon DEF Parsed
<1>11. HasFound(X, body, 0, s)
  <2>1. /\ s \in Loops /\ s.error = "" /\ s.found = << >> /\ s.type = first
        /\ Left(s) = body
    BY <1>3, <1>5, <1>9, LoopStarts, Zenon
  <2>2. SubSeq(X, 1, 0) = << >> /\ 0 + 1 = 1
    BY SubSeqEmpty
  <2>3. body = Joined(Begun(X, 0), body)
    BY <1>5, NoneBegun, JoinedBytes, Zenon
  <2> HIDE DEF s
  <2> QED BY <2>1, <2>2, <2>3, Zenon DEF HasFound
<1> HIDE DEF s, parsed
<1>12. parsed.error = "" /\ parsed.found = X /\ parsed.bytes = data
  <2> HIDE DEF X, data
  <2>1. HasFound(X, Joined(Chain(X, 0), data), 0, s)
    BY <1>11, Zenon DEF body
  <2>2. X \in Seq(Extensions) /\ data \in Seq(Bytes)
    BY <1>1, Zenon
  <2>3. LET r == DecodeExtensions(s) IN r.error = "" /\ r.found = X /\ r.bytes = data
    BY ONLY <2>1, <2>2, LoopFinds, Zenon
  <2> QED BY <1>10, <2>3, Zenon
<1>14. Decode(bytes) = PacketOf(bytes, parsed)
  <2>1. ~ (bytes[1] \div 16 > 4) /\ ~ (bytes[1] % 16 # 1)
    BY <1>2, <1>8
  <2>2. ~ (bytes[2] # 0 /\ Body(bytes) = << >>)
    BY <1>6, <1>7, <1>9, Zenon
  <2> QED BY <1>6, <1>12, <2>1, <2>2, DecodeForm, Zenon DEF parsed
<1>15. PacketOf(bytes, parsed) = NewPacket(packet.packet_type, 1, h[3], h[4], h[5], h[6], h[7],
                                           h[8], X, data)
  <2>1. PacketTypes[bytes[1] \div 16 + 1] = packet.packet_type
    BY <1>2, <1>8, Zenon
  <2>2. /\ bytes[3] = h[3] /\ bytes[4] = h[4] /\ bytes[5] = h[5] /\ bytes[6] = h[6]
        /\ bytes[7] = h[7] /\ bytes[8] = h[8]
    BY <1>6
  <2> QED BY <1>12, <2>1, <2>2, Zenon DEF PacketOf
<1>16. NewPacket(packet.packet_type, 1, h[3], h[4], h[5], h[6], h[7], h[8], X, data) = packet
  BY <1>1, <1>4, Zenon DEF NewPacket, WellFormed
<1>17. bytes \in ByteStrings
  <2>3. /\ bytes \in Seq(Nat) /\ Len(bytes) = 8 + Len(body) /\ Len(body) \in Nat
        /\ \A i \in 1 .. 8 + Len(body) : i > 8 => bytes[i] = body[i - 8]
    BY <1>4, <1>5, FieldsAndBody, Zenon DEF HeaderLen
  <2>4. ASSUME NEW i \in DOMAIN bytes, i = 2 \/ i > HeaderLen PROVE bytes[i] \in Bytes
    <3>1. i \in 1 .. 8 + Len(body)
      BY <2>3
    <3>2. CASE i = 2
      BY <1>3, <1>7, <3>2, Zenon
    <3>3. CASE i > 8
      <4>1. i - 8 \in 1 .. Len(body)
        BY <2>3, <3>1, <3>3
      <4>2. body[i - 8] \in Bytes
        BY <1>5, <4>1, ElementOfSeq, Zenon
      <4> QED BY <2>3, <3>1, <3>3, <4>2, Zenon
    <3> QED BY <2>4, <3>2, <3>3, Zenon DEF HeaderLen
  <2> QED BY <2>3, <2>4, Zenon DEF ByteStrings
<1>18. Decode(bytes) = packet
  BY <1>14, <1>15, <1>16, Zenon
<1> QED BY <1>17, <1>18, Zenon DEF bytes

=============================================================================
