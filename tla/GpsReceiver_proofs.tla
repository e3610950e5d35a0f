------------------------- MODULE GpsReceiver_proofs -------------------------
(***************************************************************************)
(* Theorems about GpsReceiver, for all headers, numbers and widths of      *)
(* fields, sizes of the queue and numbers of faults: types                 *)
(* (TypeCorrect), a GGA sentence received whole is parsed                  *)
(* (WholeSentencesParsed), and only faults harm (OnlyFaultsEverHarm).      *)
(*                                                                         *)
(* The parser is a recursive function, so it is a choice of some           *)
(* function that satisfies the equation.  LoopEnds shows that a loop has   *)
(* a solution when every turn decreases a number; each turn of the         *)
(* parser that goes on moves its index towards the end of the message or   *)
(* runs past it, so the parser ends on whatever is in the queue            *)
(* (LoopTurns, ParseType).                                                 *)
(*                                                                         *)
(* What the loop computes for a whole sentence is an induction over its    *)
(* parts.  FlattenPlaces says where each part of a flattened sequence      *)
(* is, PartParsed that the parser goes from the beginning of one part to   *)
(* that of the next and has copied its field by then.                      *)
(*                                                                         *)
(* OnlyFaultsHarm needs to know that nothing of an earlier sentence is     *)
(* left when one begins: FaultInv says that without a fault the queue      *)
(* and what is still to come make up one sentence.                         *)
(***************************************************************************)
EXTENDS GpsReceiver, SequenceTheorems, WellFoundedInduction, TLAPS

-----------------------------------------------------------------------------
(* Loops                                                                   *)

LEMMA Least ==
  ASSUME NEW S, S \subseteq Nat, S # {}
  PROVE  \E m \in S : \A k \in S : m <= k
<1> DEFINE Less == OpToRel(<, Nat)
<1>1. \A x, y \in Nat : <<x, y>> \in Less <=> x < y
  BY DEF OpToRel
<1>2. IsWellFoundedOn(Less, Nat)
  BY NatLessThanWellFounded
<1> HIDE DEF Less
<1>3. PICK m \in S : \A k \in S : ~(<<k, m>> \in Less)
  BY <1>2, WFMin
<1>4. \A k \in S : ~(k < m)
  BY <1>1, <1>3
<1> QED
  BY <1>4

\* A loop over S that stops on Stop, with a measure that every turn decreases.
IsLoop(S, Stop, turn, left) ==
    /\ turn \in [S -> S] /\ left \in [S -> Nat]
    /\ \A s \in S : s \notin Stop => left[turn[s]] < left[s]

\* f is where the loop ends.
EndsAt(f, S, Stop, turn) == f = [s \in S |-> IF s \in Stop THEN s ELSE f[turn[s]]]

LEMMA LoopEnds ==
  ASSUME NEW S, NEW Stop, NEW turn, NEW left, IsLoop(S, Stop, turn, left),
         NEW n \in Nat, \A s \in S : left[s] < n
  PROVE  \E f : EndsAt(f, S, Stop, turn)
<1> DEFINE Right(f, k) == \A s \in S : left[s] < k =>
                             f[s] = (IF s \in Stop THEN s ELSE f[turn[s]])
           B == {k \in Nat : ~ \E f : Right(f, k)}
<1>1. B = {}
  <2> SUFFICES ASSUME B # {} PROVE FALSE
    OBVIOUS
  <2>1. PICK k \in B : \A j \in B : k <= j
    <3>1. B \subseteq Nat
      OBVIOUS
    <3> HIDE DEF B
    <3> QED
      BY <3>1, Least
  <2>2. k \in Nat /\ ~ \E f : Right(f, k)
    OBVIOUS
  <2>3. k # 0
    <3>1. \A s \in S : ~(left[s] < 0)
      BY DEF IsLoop
    <3>2. ASSUME k = 0 PROVE Right(left, k)
      BY <3>1, <3>2
    <3> HIDE DEF Right
    <3> QED
      BY <2>2, <3>2
  <2>4. k - 1 \in Nat /\ ~(k <= k - 1)
    BY <2>2, <2>3
  <2>5. k - 1 \notin B
    BY <2>1, <2>4
  <2>6. PICK f : Right(f, k - 1)
    BY <2>4, <2>5
  <2> DEFINE g == [s \in S |-> IF s \in Stop THEN s ELSE f[turn[s]]]
  <2>7. Right(g, k)
    <3> SUFFICES ASSUME NEW s \in S, left[s] < k, s \notin Stop
                 PROVE  g[s] = g[turn[s]]
      BY DEF IsLoop
    <3>1. turn[s] \in S /\ left[turn[s]] < left[s]
      BY DEF IsLoop
    <3>2. left[turn[s]] \in Nat /\ left[s] \in Nat
      BY <3>1 DEF IsLoop
    <3>3. left[turn[s]] < k - 1
      BY <2>2, <3>1, <3>2
    <3>4. f[turn[s]] = (IF turn[s] \in Stop THEN turn[s] ELSE f[turn[turn[s]]])
      BY <2>6, <3>1, <3>3
    <3> QED
      BY <3>1, <3>4
  <2> HIDE DEF g, Right
  <2> QED
    BY <2>2, <2>7
<1>2. PICK f : Right(f, n)
  BY <1>1
<1> DEFINE g == [s \in S |-> IF s \in Stop THEN s ELSE f[turn[s]]]
<1>3. \A s \in S : g[s] = f[s]
  BY <1>2
<1>4. g = [s \in S |-> IF s \in Stop THEN s ELSE g[turn[s]]]
  BY <1>3 DEF IsLoop
<1> QED
  BY <1>4 DEF EndsAt

LEMMA LoopStays ==
  ASSUME NEW S, NEW Stop, NEW turn, NEW left, IsLoop(S, Stop, turn, left),
         NEW f, EndsAt(f, S, Stop, turn)
  PROVE  f \in [S -> S]
<1>1. \A s \in S : f[s] = IF s \in Stop THEN s ELSE f[turn[s]]
  BY DEF EndsAt
<1> DEFINE B == {left[s] : s \in {r \in S : f[r] \notin S}}
<1>2. B = {}
  <2> SUFFICES ASSUME B # {} PROVE FALSE
    OBVIOUS
  <2>1. B \subseteq Nat
    BY DEF IsLoop
  <2>2. PICK k \in B : \A j \in B : k <= j
    <3> HIDE DEF B
    <3> QED
      BY <2>1, Least
  <2>3. PICK s \in S : f[s] \notin S /\ k = left[s]
    OBVIOUS
  <2>4. s \notin Stop /\ f[s] = f[turn[s]]
    BY <1>1, <2>3
  <2>5. turn[s] \in S /\ left[turn[s]] < left[s]
    BY <2>4 DEF IsLoop
  <2>6. left[turn[s]] \in B
    BY <2>3, <2>4, <2>5
  <2>7. left[turn[s]] \in Nat /\ left[s] \in Nat
    BY <2>5 DEF IsLoop
  <2>8. k <= left[turn[s]]
    BY <2>2, <2>6
  <2> QED
    BY <2>3, <2>5, <2>7, <2>8
<1>3. \A s \in S : f[s] \in S
  BY <1>2
<1> QED
  BY <1>3 DEF EndsAt

-----------------------------------------------------------------------------
(* Where the parts of a flattened sequence are                             *)

\* p[i] is what the first i parts make.
Flattening(l, p, S) ==
    /\ p \in [1 .. Len(l) -> Seq(S)]
    /\ p[1] = l[1]
    /\ \A i \in 2 .. Len(l) : p[i] = p[i - 1] \o l[i]

LEMMA FlattenIsLast ==
  ASSUME NEW S, NEW l \in Seq(Seq(S)), Len(l) # 0,
         NEW p, Flattening(l, p, S)
  PROVE  FlattenSeq(l) = p[Len(l)]
<1> USE DEF Flattening
<1> DEFINE Q(f) == f = [i \in 1 .. Len(l) |->
                          IF i = 1 THEN l[i] ELSE f[i - 1] \o l[i]]
           g == CHOOSE f : Q(f)
<1>1. FlattenSeq(l) = g[Len(l)]
  BY DEF FlattenSeq
<1>2. Len(l) \in Nat /\ Len(l) >= 1
  BY LenProperties
<1>3. Q(p)
  <2> DEFINE r == [i \in 1 .. Len(l) |->
                     IF i = 1 THEN l[i] ELSE p[i - 1] \o l[i]]
  <2>1. ASSUME NEW i \in 1 .. Len(l)
        PROVE  p[i] = r[i]
    <3>1. CASE i = 1
      BY <3>1
    <3>2. CASE i # 1
      <4>1. i \in 2 .. Len(l)
        BY <1>2, <3>2
      <4> QED
        BY <3>2, <4>1
    <3> QED
      BY <3>1, <3>2
  <2>2. r = [i \in 1 .. Len(l) |-> r[i]] /\ p = [i \in 1 .. Len(l) |-> p[i]]
    OBVIOUS
  <2> HIDE DEF r
  <2>3. p = r
    BY <2>1, <2>2
  <2> QED
    BY <2>3 DEF r
<1>4. Q(g)
  <2> HIDE DEF Q
  <2> QED
    BY <1>3
<1> HIDE DEF g
<1>5. \A i \in 1 .. Len(l) : g[i] = IF i = 1 THEN l[i] ELSE g[i - 1] \o l[i]
  BY <1>4
<1> HIDE DEF Q
<1> DEFINE B == {i \in 1 .. Len(l) : g[i] # p[i]}
<1>6. B = {}
  <2>1. SUFFICES ASSUME B # {} PROVE FALSE
    OBVIOUS
  <2>2. B \subseteq Nat
    BY <1>2
  <2>3. PICK i \in B : \A j \in B : i <= j
    <3> HIDE DEF B
    <3> QED
      BY <2>1, <2>2, Least
  <2>4. i \in 1 .. Len(l) /\ g[i] # p[i]
    OBVIOUS
  <2>5. i # 1
    BY <1>5, <2>4
  <2>6. i - 1 \in 1 .. Len(l) /\ i \in 2 .. Len(l) /\ ~(i <= i - 1)
    BY <1>2, <2>4, <2>5
  <2>7. g[i - 1] = p[i - 1]
    BY <2>3, <2>6
  <2> QED
    BY <1>5, <2>4, <2>5, <2>6, <2>7
<1> QED
  BY <1>1, <1>2, <1>6

LEMMA FlattensTo ==
  ASSUME NEW S, NEW l \in Seq(Seq(S)), Len(l) # 0
  PROVE  \E p : Flattening(l, p, S)
<1> DEFINE n == Len(l)
           Upto(p, k) == /\ p \in [1 .. k -> Seq(S)]
                         /\ p[1] = l[1]
                         /\ \A i \in 2 .. k : p[i] = p[i - 1] \o l[i]
           B == {k \in 1 .. n : ~ \E p : Upto(p, k)}
<1>1. n \in Nat /\ n >= 1
  BY LenProperties
<1>2. \A i \in 1 .. n : l[i] \in Seq(S)
  BY LenProperties
<1> HIDE DEF n
<1>3. B = {}
  <2> SUFFICES ASSUME B # {} PROVE FALSE
    OBVIOUS
  <2>1. PICK k \in B : \A j \in B : k <= j
    <3> HIDE DEF Upto
    <3>1. B \subseteq Nat
      BY <1>1
    <3> HIDE DEF B
    <3> QED
      BY <3>1, Least
  <2>2. k \in 1 .. n /\ ~ \E p : Upto(p, k)
    OBVIOUS
  <2>3. k # 1
    <3>1. Upto([i \in 1 .. 1 |-> l[1]], 1)
      BY <1>1, <1>2
    <3> HIDE DEF Upto
    <3> QED
      BY <2>2, <3>1
  <2>4. k - 1 \in 1 .. n /\ ~(k <= k - 1)
    BY <1>1, <2>2, <2>3
  <2>5. k - 1 \notin B
    BY <2>1, <2>4
  <2>6. PICK p : Upto(p, k - 1)
    BY <2>4, <2>5
  <2> DEFINE q == [i \in 1 .. k |-> IF i < k THEN p[i] ELSE p[k - 1] \o l[k]]
  <2>7. Upto(q, k)
    <3>1. p[k - 1] \in Seq(S) /\ l[k] \in Seq(S)
      BY <1>2, <2>2, <2>4, <2>6
    <3>2. p[k - 1] \o l[k] \in Seq(S)
      BY <3>1, ConcatProperties
    <3>3. ASSUME NEW i \in 1 .. k PROVE q[i] \in Seq(S)
      <4>1. CASE i < k
        <5>1. i \in 1 .. k - 1
          BY <1>1, <2>2, <4>1
        <5> QED
          BY <2>6, <4>1, <5>1
      <4> QED
        BY <3>2, <4>1
    <3>4. q \in [1 .. k -> Seq(S)]
      BY <3>3
    <3>5. q[1] = l[1]
      <4>1. 1 \in 1 .. k /\ 1 < k
        BY <1>1, <2>2, <2>3
      <4> QED
        BY <2>6, <4>1
    <3>6. ASSUME NEW i \in 2 .. k PROVE q[i] = q[i - 1] \o l[i]
      <4>1. i \in 1 .. k /\ i - 1 \in 1 .. k /\ i - 1 < k
        BY <1>1, <2>2
      <4>2. q[i - 1] = p[i - 1]
        BY <4>1
      <4>3. CASE i < k
        <5>1. i \in 2 .. k - 1
          BY <1>1, <2>2, <4>3
        <5> QED
          BY <2>6, <4>1, <4>2, <4>3, <5>1
      <4>4. CASE i = k
        <5>1. q[k] = p[k - 1] \o l[k]
          <6>1. k \in 1 .. k /\ ~(k < k)
            BY <1>1, <2>2
          <6> QED
            BY <6>1
        <5>2. q[k - 1] = p[k - 1]
          BY <4>2, <4>4
        <5> HIDE DEF q
        <5> QED
          BY <4>4, <5>1, <5>2
      <4>5. i < k \/ i = k
        BY <1>1, <2>2
      <4> QED
        BY <4>3, <4>4, <4>5
    <3> HIDE DEF q
    <3> QED
      BY <3>4, <3>5, <3>6
  <2> HIDE DEF q, Upto
  <2> QED
    BY <2>2, <2>7
<1>4. n \in 1 .. n
  BY <1>1
<1>5. PICK p : Upto(p, n)
  <2> HIDE DEF Upto
  <2> QED
    BY <1>3, <1>4
<1> QED
  BY <1>5 DEF Flattening, n

\* Each part begins where those before it end.
PartsOf(l, p, n) ==
    \A k \in 1 .. n :
      /\ Len(p[k]) <= Len(p[n])
      /\ Len(p[k]) = (IF k = 1 THEN 0 ELSE Len(p[k - 1])) + Len(l[k])
      /\ \A x \in 1 .. Len(l[k]) :
            p[n][(IF k = 1 THEN 0 ELSE Len(p[k - 1])) + x] = l[k][x]

LEMMA FlattenPlaces ==
  ASSUME NEW S, NEW l \in Seq(Seq(S)), Len(l) # 0,
         NEW p, Flattening(l, p, S), NEW n \in 1 .. Len(l)
  PROVE  PartsOf(l, p, n)
<1> DEFINE from(k) == IF k = 1 THEN 0 ELSE Len(p[k - 1])
           Placed(k, m) == /\ Len(p[k]) <= Len(p[m])
                           /\ Len(p[k]) = from(k) + Len(l[k])
                           /\ \A x \in 1 .. Len(l[k]) : p[m][from(k) + x] = l[k][x]
           B == {m \in 1 .. Len(l) : ~ \A k \in 1 .. m : Placed(k, m)}
<1>1. Len(l) \in Nat /\ Len(l) >= 1
  BY LenProperties
<1>2. \A i \in 1 .. Len(l) : l[i] \in Seq(S) /\ Len(l[i]) \in Nat
  BY LenProperties
<1>3. \A i \in 1 .. Len(l) : p[i] \in Seq(S) /\ Len(p[i]) \in Nat
  BY LenProperties DEF Flattening
<1>4. \A k \in 1 .. Len(l) : from(k) \in Nat
  <2> SUFFICES ASSUME NEW k \in 1 .. Len(l), k # 1 PROVE Len(p[k - 1]) \in Nat
    OBVIOUS
  <2>1. k - 1 \in 1 .. Len(l)
    BY <1>1
  <2> QED
    BY <1>3, <2>1
<1>5. Placed(1, 1)
  <2>1. 1 \in 1 .. Len(l) /\ p[1] = l[1]
    BY <1>1 DEF Flattening
  <2>2. Len(p[1]) \in Nat
    BY <1>3, <2>1
  <2>3. \A x \in 1 .. Len(l[1]) : 0 + x = x
    BY <1>2, <2>1
  <2> QED
    BY <2>1, <2>2, <2>3
<1>6. ASSUME NEW m \in 2 .. Len(l), NEW k \in 1 .. m, k < m => Placed(k, m - 1)
      PROVE  Placed(k, m)
  <2>1. m \in 1 .. Len(l) /\ m - 1 \in 1 .. Len(l) /\ k \in 1 .. Len(l)
    BY <1>1
  <2>2. p[m] = p[m - 1] \o l[m]
    BY DEF Flattening
  <2> DEFINE a == p[m - 1]
             b == l[m]
  <2>3. a \in Seq(S) /\ b \in Seq(S) /\ Len(a) \in Nat /\ Len(b) \in Nat
    BY <1>2, <1>3, <2>1
  <2>4. /\ Len(p[m]) = Len(a) + Len(b)
        /\ \A i \in 1 .. Len(a) + Len(b) : p[m][i] = IF i <= Len(a) THEN a[i] ELSE b[i - Len(a)]
    <3> HIDE DEF a, b
    <3>1. p[m] = a \o b
      BY <2>2 DEF a, b
    <3> QED
      BY <2>3, <3>1, ConcatProperties
  <2>5. CASE k = m
    <3>1. from(k) = Len(a)
      BY <2>5
    <3>2. ASSUME NEW x \in 1 .. Len(b) PROVE p[m][Len(a) + x] = b[x]
      <4> HIDE DEF a, b
      <4>1. Len(a) + x \in 1 .. Len(a) + Len(b) /\ ~(Len(a) + x <= Len(a))
            /\ Len(a) + x - Len(a) = x
        BY <2>3
      <4> QED
        BY <2>4, <4>1
    <3>3. Len(p[m]) <= Len(p[m])
      BY <1>3, <2>1
    <3> HIDE DEF a
    <3> QED
      BY <2>4, <2>5, <3>1, <3>2, <3>3
  <2>6. CASE k < m
    <3>1. Placed(k, m - 1)
      BY <1>6, <2>6
    <3>2. from(k) \in Nat /\ Len(l[k]) \in Nat /\ Len(p[k]) \in Nat
      BY <1>2, <1>3, <1>4, <2>1
    <3> DEFINE d == from(k)
               e == Len(l[k])
               c == Len(p[k])
    <3>3. c <= Len(a) /\ c = d + e
      BY <3>1
    <3>4. ASSUME NEW x \in 1 .. e PROVE p[m][d + x] = l[k][x]
      <4>1. a[d + x] = l[k][x]
        BY <3>1
      <4> HIDE DEF a, b, c, d, e
      <4>2. d \in Nat /\ e \in Nat /\ c \in Nat
        BY <3>2 DEF c, d, e
      <4>3. d + x \in 1 .. Len(a) + Len(b) /\ d + x <= Len(a)
        BY <2>3, <3>3, <4>2
      <4> QED
        BY <2>4, <4>1, <4>3
    <3>5. c <= Len(p[m])
      <4> HIDE DEF a, b, c, d, e
      <4>1. c \in Nat
        BY <3>2 DEF c
      <4> QED
        BY <2>3, <2>4, <3>3, <4>1
    <3> QED
      BY <3>3, <3>4, <3>5
  <2>7. k = m \/ k < m
    BY <1>1
  <2> QED
    BY <2>5, <2>6, <2>7
<1>7. B = {}
  <2> SUFFICES ASSUME B # {} PROVE FALSE
    OBVIOUS
  <2> HIDE DEF Placed
  <2>1. PICK m \in B : \A j \in B : m <= j
    <3>1. B \subseteq Nat
      BY <1>1
    <3> HIDE DEF B
    <3> QED
      BY <3>1, Least
  <2>2. m \in 1 .. Len(l) /\ ~ \A k \in 1 .. m : Placed(k, m)
    OBVIOUS
  <2>3. m # 1
    <3>1. \A k \in 1 .. 1 : k = 1
      OBVIOUS
    <3> QED
      BY <1>5, <2>2, <3>1
  <2>4. m \in 2 .. Len(l) /\ m - 1 \in 1 .. Len(l) /\ ~(m <= m - 1)
    BY <1>1, <2>2, <2>3
  <2>5. \A k \in 1 .. m - 1 : Placed(k, m - 1)
    BY <2>1, <2>4
  <2>6. ASSUME NEW k \in 1 .. m, k < m PROVE k \in 1 .. m - 1
    BY <1>1, <2>4, <2>6
  <2> QED
    BY <1>6, <2>2, <2>4, <2>5, <2>6
<1>8. \A k \in 1 .. n : Placed(k, n)
  <2> HIDE DEF Placed
  <2> QED
    BY <1>7
<1> QED
  BY <1>8 DEF PartsOf

-----------------------------------------------------------------------------
(* What the sentences are made of                                          *)

LEMMA Sizes ==
    /\ HeaderSize \in Nat /\ HeaderSize >= 2
    /\ AckHeaderSize \in Nat /\ IndexRange \in Nat /\ MaxFaults \in Nat
    /\ FifoSize \in Nat /\ FifoSize < IndexRange
    /\ Len(Widths) \in Nat /\ Len(Widths) >= 1 /\ Fields = 1 .. Len(Widths)
    /\ \A f \in Fields : Widths[f] \in Nat
    /\ Widths[Len(Widths)] > 0
<1>1. Widths \in Seq(Nat) /\ Widths # <<>>
  BY SizesAssumption
<1>2. Len(Widths) \in Nat /\ DOMAIN Widths = 1 .. Len(Widths)
  BY <1>1, LenProperties
<1>3. Len(Widths) # 0
  BY <1>1, EmptySeq
<1>4. \A f \in Fields : Widths[f] \in Nat
  BY <1>1, <1>2, ElementOfSeq DEF Fields
<1>5. 1 \in Fields
  BY <1>2, <1>3 DEF Fields
<1>6. FifoSize + Widths[1] < IndexRange /\ Widths[1] \in Nat
  BY <1>4, <1>5, SizesAssumption
<1>7. FifoSize \in Nat /\ IndexRange \in Nat
  BY SizesAssumption
<1>8. FifoSize < IndexRange
  BY <1>6, <1>7
<1>9. Len(Widths) >= 1
  BY <1>2, <1>3
<1> QED
  BY <1>2, <1>4, <1>7, <1>8, <1>9, SizesAssumption DEF Fields

\* What is not the end of a line.
Plain == Chars \ {LF}

LEMMA Marks ==
    /\ Comma \in Plain /\ CR \in Plain /\ LF \in Chars
    /\ \A f \in Fields : \A i \in Nat : /\ Char("data", f, i) \in Plain
                                        /\ Char("data", f, i) # Comma
    /\ \A type \in {"gga", "ack", "other"} : \A i \in Nat : Char(type, 0, i) \in Plain
    /\ Char("dollar", 0, 0) \in Plain
BY DEF Plain, Chars, Char, Comma, CR, LF

LEMMA IsSeq ==
  ASSUME NEW S, NEW n \in Nat, NEW s, s = [i \in 1 .. n |-> s[i]],
         \A i \in 1 .. n : s[i] \in S
  PROVE  s \in Seq(S) /\ Len(s) = n
<1>1. s \in [1 .. n -> S]
  OBVIOUS
<1>2. s \in Seq(S)
  BY <1>1, SeqDef
<1>3. Len(s) \in Nat /\ DOMAIN s = 1 .. Len(s) /\ DOMAIN s = 1 .. n
  BY <1>1, <1>2, LenProperties
<1>4. \A m \in Nat : 1 .. m = 1 .. n => m = n
  <2> SUFFICES ASSUME NEW m \in Nat, 1 .. m = 1 .. n PROVE m = n
    OBVIOUS
  <2>1. m > n => m \in 1 .. m /\ m \notin 1 .. n
    OBVIOUS
  <2>2. n > m => n \in 1 .. n /\ n \notin 1 .. m
    OBVIOUS
  <2> QED
    BY <2>1, <2>2
<1> QED
  BY <1>2, <1>3, <1>4

LEMMA HeaderIs ==
  ASSUME NEW type \in {"gga", "ack", "other"}
  PROVE  /\ Header(type) \in Seq(Plain) /\ Len(Header(type)) = HeaderSize
         /\ Header(type)[2] = Char(type, 0, 2)
<1> DEFINE h == Header(type)
<1>1. h = [i \in 1 .. HeaderSize |-> h[i]]
  BY DEF Header
<1>2. \A i \in 1 .. HeaderSize : h[i] \in Plain
  BY Marks, Sizes DEF Header
<1>3. h[2] = Char(type, 0, 2)
  <2>1. 2 \in 1 .. HeaderSize
    BY Sizes
  <2> QED
    BY <2>1 DEF Header
<1> HIDE DEF h
<1>4. h \in Seq(Plain) /\ Len(h) = HeaderSize
  BY <1>1, <1>2, Sizes, IsSeq
<1> QED
  BY <1>3, <1>4 DEF h

TextLength(f) == IF Widths[f] = 0 THEN 1 ELSE Widths[f]

LEMMA TextIs ==
  ASSUME NEW f \in Fields
  PROVE  /\ Text(f) \in Seq(Plain) /\ Len(Text(f)) = TextLength(f)
         /\ TextLength(f) \in Nat /\ TextLength(f) >= 1
         /\ \A i \in 1 .. TextLength(f) : Text(f)[i] # Comma
<1> DEFINE t == Text(f)
           n == TextLength(f)
<1>1. n \in Nat /\ n >= 1
  BY Sizes DEF TextLength
<1>2. t = [i \in 1 .. n |-> Char("data", f, i)]
  BY DEF Text, TextLength
<1> HIDE DEF t, n
<1>3. \A i \in 1 .. n : t[i] \in Plain /\ t[i] # Comma
  BY <1>1, <1>2, Marks
<1>4. t = [i \in 1 .. n |-> t[i]]
  BY <1>2
<1>5. t \in Seq(Plain) /\ Len(t) = n
  BY <1>1, <1>3, <1>4, IsSeq
<1> QED
  BY <1>1, <1>3, <1>5 DEF t, n

LEMMA PartIs ==
  ASSUME NEW f \in Fields, NEW present
  PROVE  /\ Part(f, present) \in Seq(Plain)
         /\ Len(Part(f, present)) = IF f \in present THEN 1 + TextLength(f) ELSE 1
         /\ Part(f, present)[1] = Comma
         /\ f \in present => \A i \in 1 .. TextLength(f) :
                                Part(f, present)[1 + i] = Text(f)[i]
<1>1. <<Comma>> \in Seq(Plain) /\ Len(<<Comma>>) = 1 /\ <<Comma>>[1] = Comma
  BY Marks
<1>2. <<>> \in Seq(Plain) /\ Len(<<>>) = 0
  BY EmptySeq
<1> DEFINE c == <<Comma>>
           t == Text(f)
           n == TextLength(f)
<1>3. t \in Seq(Plain) /\ Len(t) = n /\ n \in Nat
  BY TextIs
<1> HIDE DEF c, t, n
<1>4. /\ c \o <<>> = c
      /\ c \o t \in Seq(Plain) /\ Len(c \o t) = 1 + n
      /\ \A i \in 1 .. 1 + n : (c \o t)[i] = IF i <= 1 THEN c[i] ELSE t[i - 1]
  BY <1>1, <1>3, ConcatProperties, ConcatEmptySeq DEF c
<1>5. \A i \in 1 .. n : (c \o t)[1 + i] = t[i]
  BY <1>3, <1>4
<1>6. (c \o t)[1] = Comma
  <2>1. 1 \in 1 .. 1 + n /\ 1 <= 1
    BY <1>3
  <2> QED
    BY <1>1, <1>4, <2>1 DEF c
<1>7. Part(f, present) = IF f \in present THEN c \o t ELSE c \o <<>>
  BY DEF Part, c, t
<1> QED
  BY <1>1, <1>4, <1>5, <1>6, <1>7 DEF c, t, n

\* at[k]: how many characters there are before part k.
Places(present, at) ==
    /\ at \in [1 .. Len(Widths) + 1 -> Nat]
    /\ at[1] = HeaderSize
    /\ Len(Gga(present)) = at[Len(Widths) + 1] + 2
    /\ \A k \in Fields :
         /\ at[k + 1] = at[k] + Len(Part(k, present))
         /\ at[k + 1] <= at[Len(Widths) + 1]
         /\ \A x \in 1 .. Len(Part(k, present)) :
               Gga(present)[at[k] + x] = Part(k, present)[x]

Body(present) == FlattenSeq([f \in Fields |-> Part(f, present)])

LEMMA BodyPlaces ==
  ASSUME NEW present
  PROVE  /\ Body(present) \in Seq(Plain)
         /\ \E to \in [0 .. Len(Widths) -> Nat] :
              /\ to[0] = 0 /\ Len(Body(present)) = to[Len(Widths)]
              /\ \A k \in Fields :
                   /\ to[k] = to[k - 1] + Len(Part(k, present))
                   /\ to[k] <= to[Len(Widths)]
                   /\ \A x \in 1 .. Len(Part(k, present)) :
                         Body(present)[to[k - 1] + x] = Part(k, present)[x]
<1> DEFINE l == [f \in Fields |-> Part(f, present)]
           N == Len(Widths)
<1>1. N \in Nat /\ N >= 1 /\ Fields = 1 .. N
  BY Sizes
<1>2. l \in Seq(Seq(Plain)) /\ Len(l) = N
  <2>1. \A i \in 1 .. N : l[i] \in Seq(Plain)
    BY <1>1, PartIs
  <2>2. l = [i \in 1 .. N |-> l[i]]
    BY <1>1
  <2> HIDE DEF l, N
  <2> QED
    BY <1>1, <2>1, <2>2, IsSeq
<1>3. \A k \in Fields : l[k] = Part(k, present)
  OBVIOUS
<1>4. Body(present) = FlattenSeq(l)
  BY DEF Body
<1> HIDE DEF l, N
<1>5. Len(l) # 0
  BY <1>1, <1>2
<1>6. PICK p : Flattening(l, p, Plain)
  BY <1>2, <1>5, FlattensTo
<1>7. Body(present) = p[N]
  BY <1>2, <1>4, <1>5, <1>6, FlattenIsLast
<1>8. \A k \in 1 .. N : p[k] \in Seq(Plain) /\ Len(p[k]) \in Nat
  BY <1>2, <1>6, LenProperties DEF Flattening
<1>9. N \in 1 .. N
  BY <1>1
<1> DEFINE to == [k \in 0 .. N |-> IF k = 0 THEN 0 ELSE Len(p[k])]
<1>10. to \in [0 .. N -> Nat]
  <2>1. \A k \in 0 .. N : k # 0 => k \in 1 .. N
    BY <1>1
  <2> QED
    BY <1>8, <2>1
<1>11. to[0] = 0 /\ to[N] = Len(Body(present))
  BY <1>1, <1>7
<1>12. ASSUME NEW k \in Fields
       PROVE  to[k] = Len(p[k]) /\ to[k - 1] = IF k = 1 THEN 0 ELSE Len(p[k - 1])
  BY <1>1
<1>13. ASSUME NEW k \in Fields
       PROVE  /\ to[k] = to[k - 1] + Len(Part(k, present))
              /\ to[k] <= to[N]
              /\ \A x \in 1 .. Len(Part(k, present)) :
                    Body(present)[to[k - 1] + x] = Part(k, present)[x]
  <2>1. k \in 1 .. N
    BY <1>1
  <2>2. /\ Len(p[k]) <= Len(p[N])
        /\ Len(p[k]) = (IF k = 1 THEN 0 ELSE Len(p[k - 1])) + Len(l[k])
        /\ \A x \in 1 .. Len(l[k]) :
              p[N][(IF k = 1 THEN 0 ELSE Len(p[k - 1])) + x] = l[k][x]
    <3>1. N \in 1 .. Len(l)
      BY <1>2, <1>9
    <3>2. PartsOf(l, p, N)
      BY <1>2, <1>5, <1>6, <3>1, FlattenPlaces
    <3> QED
      BY <2>1, <3>2 DEF PartsOf
  <2> HIDE DEF to
  <2> QED
    BY <1>3, <1>7, <1>11, <1>12, <2>2
<1> HIDE DEF to
<1>14. Body(present) \in Seq(Plain)
  BY <1>7, <1>8, <1>9
<1> QED
  BY <1>10, <1>11, <1>13, <1>14 DEF N

LEMMA Ended ==
  ASSUME NEW h \in Seq(Plain), NEW t \in {<<CR, LF>>, <<Comma, CR, LF>>}
  PROVE  /\ h \o t \in Seq(Chars) /\ Len(h \o t) = Len(h) + Len(t)
         /\ Len(h) \in Nat /\ Len(t) \in {2, 3}
         /\ \A i \in 1 .. Len(h) : (h \o t)[i] = h[i] /\ h[i] # LF
         /\ \A i \in Len(h) + 1 .. Len(h) + Len(t) : (h \o t)[i] = t[i - Len(h)]
         /\ \A i \in 1 .. Len(h \o t) : (h \o t)[i] = LF <=> i = Len(h \o t)
<1>1. h \in Seq(Chars) /\ Len(h) \in Nat
  BY LenProperties, SeqMonotonic DEF Plain
<1>2. t \in Seq(Chars) /\ Len(t) \in {2, 3}
  <2>1. Comma \in Chars /\ CR \in Chars /\ LF \in Chars
    BY Marks DEF Plain
  <2>2. CASE t = <<CR, LF>>
    BY <2>1, <2>2
  <2>3. CASE t = <<Comma, CR, LF>>
    BY <2>1, <2>3
  <2> QED
    BY <2>2, <2>3
<1>3. /\ h \o t \in Seq(Chars)
      /\ Len(h \o t) = Len(h) + Len(t)
      /\ \A i \in 1 .. Len(h) + Len(t) :
            (h \o t)[i] = IF i <= Len(h) THEN h[i] ELSE t[i - Len(h)]
  BY <1>1, <1>2, ConcatProperties
<1>4. \A i \in 1 .. Len(h) : h[i] # LF
  BY ElementOfSeq DEF Plain
<1>5. \A i \in 1 .. Len(t) : t[i] = LF <=> i = Len(t)
  <2>1. Comma # LF /\ CR # LF
    BY Marks DEF Plain
  <2>2. CASE t = <<CR, LF>>
    <3>1. Len(t) = 2 /\ t[1] = CR /\ t[2] = LF
      BY <2>2
    <3>2. \A i \in 1 .. 2 : i = 1 \/ i = 2
      OBVIOUS
    <3> QED
      BY <2>1, <3>1, <3>2
  <2>3. CASE t = <<Comma, CR, LF>>
    <3>1. Len(t) = 3 /\ t[1] = Comma /\ t[2] = CR /\ t[3] = LF
      BY <2>3
    <3>2. \A i \in 1 .. 3 : i = 1 \/ i = 2 \/ i = 3
      OBVIOUS
    <3> QED
      BY <2>1, <3>1, <3>2
  <2> QED
    BY <2>2, <2>3
<1> DEFINE a == Len(h)
           b == Len(t)
           s == h \o t
<1> HIDE DEF a, b, s
<1>6. a \in Nat /\ b \in {2, 3} /\ Len(s) = a + b
  BY <1>1, <1>2, <1>3 DEF a, b, s
<1>7. \A i \in 1 .. a + b : s[i] = IF i <= a THEN h[i] ELSE t[i - a]
  BY <1>3 DEF a, b, s
<1>8. \A i \in 1 .. a : s[i] = h[i] /\ h[i] # LF
  BY <1>4, <1>6, <1>7 DEF a
<1>9. \A i \in a + 1 .. a + b : s[i] = t[i - a] /\ i - a \in 1 .. b
  BY <1>6, <1>7
<1>10. ASSUME NEW i \in 1 .. a + b PROVE s[i] = LF <=> i = a + b
  <2>1. CASE i <= a
    <3>1. i \in 1 .. a /\ i # a + b
      BY <1>6, <2>1
    <3> QED
      BY <1>8, <3>1
  <2>2. CASE ~(i <= a)
    <3>1. i \in a + 1 .. a + b /\ (i = a + b <=> i - a = b)
      BY <1>6, <2>2
    <3>2. t[i - a] = LF <=> i - a = b
      BY <1>5, <1>9, <3>1 DEF b
    <3> QED
      BY <1>9, <3>1, <3>2
  <2> QED
    BY <2>1, <2>2
<1> QED
  BY <1>1, <1>2, <1>3, <1>6, <1>8, <1>9, <1>10 DEF a, b, s

LEMMA GgaPlaces ==
  ASSUME NEW present
  PROVE  \E at : Places(present, at)
<1> DEFINE h == Header("gga")
           b == Body(present)
           e == <<CR, LF>>
           N == Len(Widths)
<1>1. N \in Nat /\ N >= 1 /\ Fields = 1 .. N /\ HeaderSize \in Nat
  BY Sizes
<1>2. h \in Seq(Plain) /\ Len(h) = HeaderSize
  BY HeaderIs
<1>3. b \in Seq(Plain) /\ Len(b) \in Nat
  BY BodyPlaces, LenProperties
<1>4. Gga(present) = (h \o b) \o e
  BY DEF Gga, Body
<1>5. PICK to \in [0 .. N -> Nat] :
              /\ to[0] = 0 /\ Len(b) = to[N]
              /\ \A k \in Fields :
                   /\ to[k] = to[k - 1] + Len(Part(k, present))
                   /\ to[k] <= to[N]
                   /\ \A x \in 1 .. Len(Part(k, present)) :
                         b[to[k - 1] + x] = Part(k, present)[x]
  BY BodyPlaces
<1> HIDE DEF h, b
<1>6. /\ h \o b \in Seq(Plain)
      /\ Len(h \o b) = HeaderSize + Len(b)
      /\ \A i \in 1 .. HeaderSize + Len(b) :
            (h \o b)[i] = IF i <= HeaderSize THEN h[i] ELSE b[i - HeaderSize]
  BY <1>2, <1>3, ConcatProperties
<1>7. /\ Len(Gga(present)) = HeaderSize + Len(b) + 2
      /\ \A i \in 1 .. HeaderSize + Len(b) : Gga(present)[i] = (h \o b)[i]
  <2>1. Len(e) = 2 /\ e \in {<<CR, LF>>, <<Comma, CR, LF>>}
    OBVIOUS
  <2> DEFINE g == h \o b
  <2> HIDE DEF e, g
  <2>2. g \in Seq(Plain) /\ Len(g) = HeaderSize + Len(b) /\ Gga(present) = g \o e
    BY <1>4, <1>6 DEF g
  <2>3. /\ Len(g \o e) = Len(g) + Len(e)
        /\ \A i \in 1 .. Len(g) : (g \o e)[i] = g[i]
    BY <2>1, <2>2, Ended
  <2> QED
    BY <2>1, <2>2, <2>3 DEF g
<1> DEFINE at == [k \in 1 .. N + 1 |-> HeaderSize + to[k - 1]]
<1>8. \A k \in 1 .. N + 1 : k - 1 \in 0 .. N
  BY <1>1
<1>9. at \in [1 .. N + 1 -> Nat]
  BY <1>1, <1>5, <1>8
<1>10. 1 \in 1 .. N + 1 /\ N + 1 \in 1 .. N + 1 /\ N + 1 - 1 = N /\ 1 - 1 = 0
  BY <1>1
<1>11. at[1] = HeaderSize /\ at[N + 1] = HeaderSize + to[N]
  BY <1>1, <1>5, <1>10
<1>12. ASSUME NEW k \in Fields
       PROVE  /\ at[k + 1] = at[k] + Len(Part(k, present))
              /\ at[k + 1] <= at[N + 1]
              /\ \A x \in 1 .. Len(Part(k, present)) :
                    Gga(present)[at[k] + x] = Part(k, present)[x]
  <2>1. k \in 1 .. N + 1 /\ k + 1 \in 1 .. N + 1 /\ k + 1 - 1 = k
        /\ k \in 0 .. N /\ k - 1 \in 0 .. N /\ N \in 0 .. N
    BY <1>1
  <2>2. at[k] = HeaderSize + to[k - 1] /\ at[k + 1] = HeaderSize + to[k]
    BY <2>1
  <2> DEFINE n == Len(Part(k, present))
  <2>3. n \in Nat
    BY PartIs, LenProperties
  <2>4. to[k] = to[k - 1] + n /\ to[k] <= to[N] /\ to[N] = Len(b)
        /\ \A x \in 1 .. n : b[to[k - 1] + x] = Part(k, present)[x]
    BY <1>5
  <2>5. to[k] \in Nat /\ to[k - 1] \in Nat /\ to[N] \in Nat
    BY <1>5, <2>1
  <2> HIDE DEF n, at
  <2>6. at[k + 1] = at[k] + n /\ at[k + 1] <= at[N + 1]
    BY <1>1, <1>11, <2>2, <2>3, <2>4, <2>5
  <2>7. ASSUME NEW x \in 1 .. n
        PROVE  Gga(present)[at[k] + x] = Part(k, present)[x]
    <3> DEFINE i == at[k] + x
    <3>1. /\ i \in 1 .. HeaderSize + Len(b)
          /\ ~(i <= HeaderSize) /\ i - HeaderSize = to[k - 1] + x
      BY <1>1, <2>2, <2>3, <2>4, <2>5
    <3> HIDE DEF i
    <3>2. Gga(present)[i] = b[i - HeaderSize]
      BY <1>6, <1>7, <3>1
    <3>3. Gga(present)[i] = Part(k, present)[x]
      BY <2>4, <3>1, <3>2
    <3> QED
      BY <3>3 DEF i
  <2> QED
    BY <2>6, <2>7 DEF n
<1>13. Len(Gga(present)) = at[N + 1] + 2
  BY <1>5, <1>7, <1>11
<1> HIDE DEF at
<1> QED
  BY <1>9, <1>11, <1>12, <1>13 DEF Places, N

\* Every sentence begins with a header and ends with the only LF in it.
IsSentence(s, type, x, t) ==
    /\ type \in {"gga", "ack", "other"} /\ x \in Seq(Plain)
    /\ t \in {<<CR, LF>>, <<Comma, CR, LF>>}
    /\ s = (Header(type) \o x) \o t

LEMMA GgaIsSentence ==
  ASSUME NEW present
  PROVE  IsSentence(Gga(present), "gga", Body(present), <<CR, LF>>)
BY BodyPlaces DEF IsSentence, Gga, Body

LEMMA SentenceForm ==
  ASSUME NEW s \in Sentences
  PROVE  \/ \E present \in Present : s = Gga(present)
         \/ \E type \in {"ack", "other"} : IsSentence(s, type, <<>>, <<Comma, CR, LF>>)
<1>1. CASE s \in {Gga(present) : present \in Present}
  BY <1>1
<1>2. CASE s \in {Header(type) \o <<Comma, CR, LF>> : type \in {"ack", "other"}}
  <2>1. PICK type \in {"ack", "other"} : s = Header(type) \o <<Comma, CR, LF>>
    BY <1>2
  <2>2. Header(type) \in Seq(Plain)
    BY <2>1, HeaderIs
  <2>3. Header(type) \o <<>> = Header(type) /\ <<>> \in Seq(Plain)
    BY <2>2, ConcatEmptySeq, EmptySeq
  <2> QED
    BY <2>1, <2>3 DEF IsSentence
<1> QED
  BY <1>1, <1>2 DEF Sentences

LEMMA SentenceFacts ==
  ASSUME NEW s, NEW type, NEW x, NEW t, IsSentence(s, type, x, t)
  PROVE  /\ s \in Seq(Chars) /\ Len(s) \in Nat /\ Len(s) >= HeaderSize + 2
         /\ \A i \in 1 .. Len(s) : s[i] = LF <=> i = Len(s)
         /\ \A i \in 1 .. HeaderSize : s[i] = Header(type)[i]
<1> DEFINE h == Header(type)
           g == h \o x
<1>1. h \in Seq(Plain) /\ Len(h) = HeaderSize
  BY HeaderIs DEF IsSentence
<1>2. x \in Seq(Plain) /\ Len(x) \in Nat /\ t \in {<<CR, LF>>, <<Comma, CR, LF>>}
  BY LenProperties DEF IsSentence
<1> HIDE DEF h
<1>3. /\ g \in Seq(Plain) /\ Len(g) = HeaderSize + Len(x)
      /\ \A i \in 1 .. HeaderSize + Len(x) :
            g[i] = IF i <= HeaderSize THEN h[i] ELSE x[i - HeaderSize]
  BY <1>1, <1>2, ConcatProperties
<1>4. s = g \o t
  BY DEF IsSentence, h
<1> HIDE DEF g
<1>5. /\ s \in Seq(Chars) /\ Len(s) = Len(g) + Len(t)
      /\ Len(g) \in Nat /\ Len(t) \in {2, 3}
      /\ \A i \in 1 .. Len(g) : s[i] = g[i]
      /\ \A i \in 1 .. Len(s) : s[i] = LF <=> i = Len(s)
  <2>1. /\ g \o t \in Seq(Chars) /\ Len(g \o t) = Len(g) + Len(t)
        /\ Len(g) \in Nat /\ Len(t) \in {2, 3}
        /\ \A i \in 1 .. Len(g) : (g \o t)[i] = g[i]
        /\ \A i \in 1 .. Len(g \o t) : (g \o t)[i] = LF <=> i = Len(g \o t)
    BY <1>2, <1>3, Ended
  <2> QED
    BY <1>4, <2>1
<1>6. Len(s) \in Nat /\ Len(s) >= HeaderSize + 2
  <2> DEFINE a == Len(s)
             b == Len(g)
             c == Len(x)
             d == Len(t)
  <2>1. a = b + d /\ b = HeaderSize + c /\ c \in Nat /\ d \in {2, 3} /\ HeaderSize \in Nat
    BY <1>2, <1>3, <1>5, Sizes
  <2> HIDE DEF a, b, c, d
  <2>2. a \in Nat /\ a >= HeaderSize + 2
    BY <2>1
  <2> QED
    BY <2>2 DEF a
<1>7. ASSUME NEW i \in 1 .. HeaderSize PROVE s[i] = h[i]
  <2>1. i \in 1 .. Len(g) /\ i \in 1 .. HeaderSize + Len(x) /\ i <= HeaderSize
    BY <1>2, <1>3, Sizes
  <2> QED
    BY <1>3, <1>5, <2>1
<1> QED
  BY <1>5, <1>6, <1>7 DEF h

LEMMA Sentence ==
  ASSUME NEW s \in Sentences
  PROVE  /\ s \in Seq(Chars) /\ Len(s) \in Nat /\ s # <<>>
         /\ Len(s) >= HeaderSize + 2 /\ Len(s) <= FifoSize
         /\ \A i \in 1 .. Len(s) : s[i] = LF <=> i = Len(s)
<1>1. \E type, x, t : IsSentence(s, type, x, t)
  BY SentenceForm, GgaIsSentence
<1>2. /\ s \in Seq(Chars) /\ Len(s) \in Nat
      /\ Len(s) >= HeaderSize + 2 
      /\ \A i \in 1 .. Len(s) : s[i] = LF <=> i = Len(s)
  BY <1>1, SentenceFacts
<1>3. Len(s) # 0
  BY <1>2, Sizes
<1>4. s # <<>>
  BY <1>3, EmptySeq
<1> QED
  BY <1>2, <1>4, FitsAssumption

\* Such a message is taken for what its header says.
LEMMA TypeOfSentence ==
  ASSUME NEW s, NEW type, NEW x, NEW t, IsSentence(s, type, x, t)
  PROVE  MessageTypes(s) = {type}
<1>1. type \in {"gga", "ack", "other"}
  BY DEF IsSentence
<1>2. /\ s \in Seq(Chars) /\ Len(s) \in Nat /\ Len(s) >= HeaderSize + 2
      /\ \A i \in 1 .. HeaderSize : s[i] = Header(type)[i]
  BY SentenceFacts
<1>3. HeaderSize \in Nat /\ HeaderSize >= 2 /\ 2 \in 1 .. HeaderSize
  BY Sizes
<1>4. SubSeq(s, 1, HeaderSize)[2] = Char(type, 0, 2)
  <2>1. \A i \in 1 .. HeaderSize : s[i] \in Chars
    <3>1. \A i \in 1 .. HeaderSize : i \in 1 .. Len(s)
      BY <1>2, <1>3
    <3> QED
      BY <1>2, <3>1, ElementOfSeq
  <2>2. SubSeq(s, 1, HeaderSize)[2] = s[1 + 2 - 1]
    BY <1>3, <2>1, SubSeqProperties
  <2>3. s[2] = Header(type)[2]
    BY <1>2, <1>3
  <2>4. 1 + 2 - 1 = 2
    OBVIOUS
  <2> QED
    BY <1>1, <2>2, <2>3, <2>4, HeaderIs
<1>5. SubSeq(s, 1, HeaderSize) = Header(type)
  <2> DEFINE a == SubSeq(s, 1, HeaderSize)
  <2>1. \A i \in 1 .. HeaderSize : s[i] \in Chars
    <3>1. \A i \in 1 .. HeaderSize : i \in 1 .. Len(s)
      BY <1>2, <1>3
    <3> QED
      BY <1>2, <3>1, ElementOfSeq
  <2>2. /\ a \in Seq(Chars) /\ Len(a) = HeaderSize
        /\ \A i \in 1 .. HeaderSize : a[i] = s[i]
    <3>1. /\ a \in Seq(Chars)
          /\ Len(a) = IF 1 <= HeaderSize THEN HeaderSize - 1 + 1 ELSE 0
          /\ \A i \in 1 .. HeaderSize - 1 + 1 : a[i] = s[1 + i - 1]
      BY <1>3, <2>1, SubSeqProperties
    <3> HIDE DEF a
    <3>2. HeaderSize - 1 + 1 = HeaderSize /\ \A i \in 1 .. HeaderSize : 1 + i - 1 = i
      BY <1>3
    <3> QED
      BY <1>3, <3>1, <3>2
  <2>3. Header(type) \in Seq(Chars) /\ Len(Header(type)) = HeaderSize
    BY <1>1, HeaderIs, SeqMonotonic DEF Plain
  <2> HIDE DEF a
  <2>4. a = Header(type)
    BY <1>2, <2>2, <2>3, SeqEqual
  <2> QED
    BY <2>4 DEF a
<1>6. ASSUME NEW u \in {"gga", "ack"}
      PROVE  /\ IsPrefix(Header(u), s) <=> u = type
             /\ ~IsStrictPrefix(s, Header(u))
  <2>1. /\ Header(u) \in Seq(Plain) /\ Len(Header(u)) = HeaderSize
        /\ Header(u)[2] = Char(u, 0, 2)
    BY HeaderIs
  <2>2. SubSeq(Header(u), 1, Len(Header(u))) = Header(u)
    BY <2>1, SubSeqFull
  <2>3. HeaderSize <= Len(s) /\ ~(Len(s) <= HeaderSize)
    BY <1>2, <1>3
  <2>4. IsPrefix(Header(u), s) <=> Header(u) = Header(type)
    BY <1>5, <2>1, <2>2, <2>3 DEF IsPrefix
  <2>5. Header(type)[2] = Char(type, 0, 2)
    BY <1>1, HeaderIs
  <2>6. Char(u, 0, 2) = Char(type, 0, 2) => u = type
    BY DEF Char
  <2>7. IsPrefix(Header(u), s) <=> u = type
    BY <2>1, <2>4, <2>5, <2>6
  <2>8. ~IsStrictPrefix(s, Header(u))
    BY <2>1, <2>3 DEF IsStrictPrefix, IsPrefix
  <2> QED
    BY <2>7, <2>8
<1> DEFINE known == {u \in {"gga", "ack"} : IsPrefix(Header(u), s)}
           short == {u \in {"gga", "ack"} : IsStrictPrefix(s, Header(u))}
<1>7. MessageTypes(s) = IF known # {} THEN known ELSE {"other"} \cup short
  BY DEF MessageTypes
<1>8. short = {} /\ known = {u \in {"gga", "ack"} : u = type}
  BY <1>6
<1> HIDE DEF known, short
<1> QED
  BY <1>1, <1>7, <1>8

-----------------------------------------------------------------------------
(* The parser: its loop ends, whatever the message                         *)

Start(fix) == [index |-> HeaderSize, field |-> FirstField, fix |-> fix,
               outcome |-> "running"]

Loop(msg, size) ==
    CHOOSE f : f = [s \in Parser |->
                      IF s.outcome = "running" THEN f[Turn(msg, size, s)] ELSE s]

LEMMA ParseLoop ==
  ASSUME NEW msg, NEW size, NEW fix
  PROVE  Parse(msg, size, fix) = Loop(msg, size)[Start(fix)]
BY DEF Parse, Loop, Start

\* Where the next comma is.
LEMMA WidthIs ==
  ASSUME NEW msg \in Seq(Chars), NEW index \in Nat, index < Len(msg),
         msg[index + 1] # Comma, NEW f \in Fields
  PROVE  /\ WidthAt(msg, index, f) \in Int
         /\ WidthAt(msg, index, f) < 0 \/ WidthAt(msg, index, f) >= 1
         /\ \/ Widths[f] > 0 /\ WidthAt(msg, index, f) = Widths[f]
            \/ /\ Widths[f] = 0
               /\ index + 2 \in 1 .. Len(msg) /\ msg[index + 2] = Comma =>
                     WidthAt(msg, index, f) = 1
<1> DEFINE I == {i \in index + 1 .. Len(msg) : msg[i] = Comma}
           w == WidthAt(msg, index, f)
<1>1. w = IF Widths[f] > 0 THEN Widths[f]
          ELSE (IF I # {} THEN Min(I) ELSE 0) - index - 1
  BY DEF WidthAt, SelectInSubSeq
<1>2. Len(msg) \in Nat /\ Widths[f] \in Nat
  BY Sizes, LenProperties
<1>3. \A i \in I : i \in Nat /\ i >= index + 2
  BY <1>2
<1>4. I # {} => Min(I) \in I /\ \A i \in I : Min(I) <= i
  <2> SUFFICES ASSUME I # {} PROVE Min(I) \in I /\ \A i \in I : Min(I) <= i
    OBVIOUS
  <2>1. \E m \in I : \A i \in I : m <= i
    <3>1. I \subseteq Nat
      BY <1>3
    <3> HIDE DEF I
    <3> QED
      BY <3>1, Least
  <2> HIDE DEF I
  <2> QED
    BY <2>1 DEF Min
<1>5. index + 2 \in 1 .. Len(msg) /\ msg[index + 2] = Comma => index + 2 \in I
  BY <1>2
<1> HIDE DEF I, w
<1>6. CASE Widths[f] > 0
  BY <1>1, <1>2, <1>6 DEF w
<1>7. CASE Widths[f] = 0 /\ I = {}
  BY <1>1, <1>2, <1>5, <1>7 DEF w
<1>8. CASE Widths[f] = 0 /\ I # {}
  <2>1. Min(I) \in Nat /\ Min(I) >= index + 2 /\ (index + 2 \in I => Min(I) <= index + 2)
    BY <1>3, <1>4, <1>8
  <2>2. w = Min(I) - index - 1
    BY <1>1, <1>8
  <2> DEFINE m == Min(I)
  <2> HIDE DEF m
  <2>3. w \in Int /\ w >= 1 /\ (index + 2 \in I => w = 1)
    BY <2>1, <2>2 DEF m
  <2> QED
    BY <1>5, <1>8, <2>3 DEF w
<1> QED
  BY <1>2, <1>6, <1>7, <1>8

LEMMA TurnType ==
  ASSUME NEW msg \in Seq(Chars), NEW size, NEW s \in Parser
  PROVE  /\ Turn(msg, size, s) \in Parser
         /\ Turn(msg, size, s).outcome = "running" /\ s.outcome = "running" =>
              s.index < Len(msg) /\ s.index < Turn(msg, size, s).index
<1> DEFINE f == s.field + 1
           width == WidthAt(msg, s.index, f)
           text == SubSeq(msg, s.index + 1, s.index + width)
           value == IF s.index + width <= Len(msg) /\ text = Text(f) THEN "right" ELSE "wrong"
           moved(index, field, fix) ==
             [index |-> index, field |-> field, fix |-> fix,
              outcome |-> IF index < MessageLength(size) THEN "running" ELSE "returned"]
           t == Turn(msg, size, s)
<1>1. /\ s.index \in Nat /\ s.field \in Int /\ s.fix \in Fixes
      /\ s = [index |-> s.index, field |-> s.field, fix |-> s.fix, outcome |-> s.outcome]
  BY DEF Parser
<1>2. Len(msg) \in Nat
  BY LenProperties
<1>3. t = IF s.index >= Len(msg)
            THEN [s EXCEPT !.outcome = "undefined"]
          ELSE IF msg[s.index + 1] = Comma
            THEN moved(s.index + 1, s.field + 1, s.fix)
          ELSE IF f \notin Fields
            THEN [s EXCEPT !.outcome = "hung"]
          ELSE IF width < 0
            THEN [s EXCEPT !.outcome = "undefined"]
          ELSE moved(s.index + width, s.field, [s.fix EXCEPT ![f] = value])
  BY DEF Turn
<1>4. ASSUME NEW o \in {"hung", "undefined"}
      PROVE  [s EXCEPT !.outcome = o] \in Parser /\ [s EXCEPT !.outcome = o].outcome = o
  BY DEF Parser
<1>5. ASSUME NEW index \in Nat, NEW field \in Int, NEW fix \in Fixes
      PROVE  moved(index, field, fix) \in Parser /\ moved(index, field, fix).index = index
  BY DEF Parser
<1>6. ASSUME s.index < Len(msg), msg[s.index + 1] # Comma, f \in Fields, ~(width < 0)
      PROVE  width \in Int /\ width >= 1
  BY <1>1, <1>6, WidthIs
<1>7. [s.fix EXCEPT ![f] = value] \in Fixes
  <2>1. value \in {"empty", "right", "wrong"}
    OBVIOUS
  <2> HIDE DEF value, f
  <2> QED
    BY <1>1, <2>1 DEF Fixes
<1> HIDE DEF t, f, width, value, moved
<1>8. CASE s.index >= Len(msg)
  BY <1>3, <1>4, <1>8 DEF t
<1>9. CASE s.index < Len(msg) /\ msg[s.index + 1] = Comma
  <2>1. t = moved(s.index + 1, s.field + 1, s.fix)
    BY <1>1, <1>2, <1>3, <1>9
  <2>2. s.index + 1 \in Nat /\ s.field + 1 \in Int /\ s.index < s.index + 1
    BY <1>1
  <2>3. t \in Parser /\ t.index = s.index + 1
    BY <1>1, <1>5, <2>1, <2>2
  <2> QED
    BY <1>9, <2>2, <2>3 DEF t
<1>10. CASE s.index < Len(msg) /\ msg[s.index + 1] # Comma /\ f \notin Fields
  BY <1>1, <1>2, <1>3, <1>4, <1>10 DEF t
<1>11. CASE s.index < Len(msg) /\ msg[s.index + 1] # Comma /\ f \in Fields /\ width < 0
  BY <1>1, <1>2, <1>3, <1>4, <1>11 DEF t
<1>12. CASE s.index < Len(msg) /\ msg[s.index + 1] # Comma /\ f \in Fields /\ ~(width < 0)
  <2>1. t = moved(s.index + width, s.field, [s.fix EXCEPT ![f] = value])
    BY <1>1, <1>2, <1>3, <1>12
  <2>2. s.index + width \in Nat /\ s.index < s.index + width
    BY <1>1, <1>6, <1>12
  <2>3. t \in Parser /\ t.index = s.index + width
    BY <1>1, <1>5, <1>7, <2>1, <2>2
  <2> QED
    BY <1>12, <2>2, <2>3 DEF t
<1>13. s.index >= Len(msg) \/ s.index < Len(msg)
  BY <1>1, <1>2
<1> QED
  BY <1>8, <1>9, <1>10, <1>11, <1>12, <1>13 DEF t

LEMMA LoopTurns ==
  ASSUME NEW msg \in Seq(Chars), NEW size
  PROVE  /\ Loop(msg, size) \in [Parser -> Parser]
         /\ \A s \in Parser :
              Loop(msg, size)[s] = IF s.outcome = "running"
                                     THEN Loop(msg, size)[Turn(msg, size, s)] ELSE s
<1> DEFINE Stop == {s \in Parser : s.outcome # "running"}
           turn == [s \in Parser |-> IF s \in Stop THEN s ELSE Turn(msg, size, s)]
           left == [s \in Parser |-> IF s \in Stop THEN 0
                                      ELSE IF s.index < Len(msg) THEN Len(msg) - s.index + 1
                                      ELSE 1]
           n == Len(msg) + 2
           Is(f) == f = [s \in Parser |->
                           IF s.outcome = "running" THEN f[Turn(msg, size, s)] ELSE s]
<1>1. Len(msg) \in Nat /\ n \in Nat
  BY LenProperties
<1>2. \A s \in Parser : s.index \in Nat
  BY DEF Parser
<1>3. IsLoop(Parser, Stop, turn, left)
  <2>1. turn \in [Parser -> Parser]
    BY TurnType
  <2>2. left \in [Parser -> Nat]
    BY <1>1, <1>2
  <2>3. ASSUME NEW s \in Parser, s \notin Stop
        PROVE  left[turn[s]] < left[s]
    <3> DEFINE t == Turn(msg, size, s)
    <3>1. t \in Parser /\ (t.outcome = "running" => s.index < Len(msg) /\ s.index < t.index)
      BY <2>3, TurnType
    <3>2. turn[s] = t
      BY <2>3
    <3>3. left[s] = IF s.index < Len(msg) THEN Len(msg) - s.index + 1 ELSE 1
      BY <2>3
    <3> HIDE DEF t
    <3>4. left[t] = IF t \in Stop THEN 0
                    ELSE IF t.index < Len(msg) THEN Len(msg) - t.index + 1
                    ELSE 1
      BY <3>1
    <3>5. t \in Stop <=> t.outcome # "running"
      BY <3>1
    <3> HIDE DEF turn, left, Stop
    <3>6. s.index \in Nat /\ t.index \in Nat
      BY <1>2, <3>1
    <3> QED
      BY <1>1, <3>1, <3>2, <3>3, <3>4, <3>5, <3>6
  <2> HIDE DEF turn, left, Stop
  <2> QED
    BY <2>1, <2>2, <2>3 DEF IsLoop
<1>4. \A s \in Parser : left[s] < n
  BY <1>1, <1>2
<1>5. ASSUME NEW f PROVE EndsAt(f, Parser, Stop, turn) <=> Is(f)
  <2>1. [s \in Parser |-> IF s \in Stop THEN s ELSE f[turn[s]]]
          = [s \in Parser |-> IF s.outcome = "running" THEN f[Turn(msg, size, s)] ELSE s]
    OBVIOUS
  <2> QED
    BY <2>1 DEF EndsAt
<1> HIDE DEF turn, left, Stop, n
<1>6. \E f : EndsAt(f, Parser, Stop, turn)
  BY <1>1, <1>3, <1>4, LoopEnds
<1> DEFINE g == Loop(msg, size)
<1>7. g = CHOOSE f : Is(f)
  BY DEF Loop
<1>8. Is(g)
  <2> HIDE DEF Is, g
  <2> QED
    BY <1>5, <1>6, <1>7
<1>9. g \in [Parser -> Parser]
  <2> HIDE DEF Is, g
  <2> QED
    BY <1>3, <1>5, <1>8, LoopStays
<1> HIDE DEF g
<1>10. \A s \in Parser : g[s] = IF s.outcome = "running" THEN g[Turn(msg, size, s)] ELSE s
  BY <1>8
<1> QED
  BY <1>9, <1>10 DEF g

LEMMA ParseType ==
  ASSUME NEW msg \in Seq(Chars), NEW size, NEW fix \in Fixes
  PROVE  Parse(msg, size, fix) \in Parser
<1>1. Start(fix) \in Parser
  BY Sizes DEF Start, Parser, FirstField
<1> QED
  BY <1>1, ParseLoop, LoopTurns

-----------------------------------------------------------------------------
(* Types                                                                   *)

LEMMA WithoutType ==
  ASSUME NEW q \in Seq(Chars), NEW n \in Nat
  PROVE  /\ Without(q, n) \in Seq(Chars)
         /\ Len(Without(q, n)) = IF n <= Len(q) THEN Len(q) - n ELSE 0
<1> DEFINE m == Len(q)
           k == n + 1
<1>1. m \in Nat /\ k \in Nat /\ \A i \in k .. m : q[i] \in Chars
  <2>1. m \in Nat /\ k \in Nat
    BY LenProperties
  <2>2. \A i \in k .. m : i \in 1 .. m
    BY <2>1
  <2> QED
    BY <2>1, <2>2, ElementOfSeq
<1>2. Without(q, n) = SubSeq(q, k, m)
  BY DEF Without
<1>3. k = n + 1
  OBVIOUS
<1> HIDE DEF k, m
<1>4. /\ SubSeq(q, k, m) \in Seq(Chars)
      /\ Len(SubSeq(q, k, m)) = IF k <= m THEN m - k + 1 ELSE 0
  BY <1>1, SubSeqProperties
<1> DEFINE x == Len(Without(q, n))
<1>5. x = IF k <= m THEN m - k + 1 ELSE 0
  BY <1>2, <1>4
<1> HIDE DEF x
<1>6. x = IF n <= m THEN m - n ELSE 0
  BY <1>1, <1>3, <1>5
<1> QED
  BY <1>2, <1>4, <1>6 DEF x, m

\* The queue.
Queues == {q \in Seq(Chars) : Len(q) <= FifoSize}

LEMMA WithoutQueue ==
  ASSUME NEW q \in Queues, NEW n \in Nat
  PROVE  Without(q, n) \in Queues
<1>1. q \in Seq(Chars) /\ Len(q) \in Nat /\ Len(q) <= FifoSize
  BY LenProperties DEF Queues
<1> DEFINE x == Len(Without(q, n))
           m == Len(q)
<1>2. Without(q, n) \in Seq(Chars) /\ x = IF n <= m THEN m - n ELSE 0
  BY <1>1, WithoutType
<1> HIDE DEF x, m
<1>3. x <= FifoSize
  BY <1>1, <1>2, Sizes DEF m
<1> QED
  BY <1>2, <1>3 DEF x, Queues

LEMMA PutQueue ==
  ASSUME uart_rx_fifo \in Queues, NEW c \in Chars
  PROVE  Put(c) \in Queues
<1>1. uart_rx_fifo \in Seq(Chars) /\ Len(uart_rx_fifo) \in Nat
  BY LenProperties DEF Queues
<1>2. /\ Append(uart_rx_fifo, c) \in Seq(Chars)
      /\ Len(Append(uart_rx_fifo, c)) = Len(uart_rx_fifo) + 1
  BY <1>1, AppendProperties
<1>3. Len(uart_rx_fifo) < FifoSize => Len(uart_rx_fifo) + 1 <= FifoSize
  BY <1>1, Sizes
<1> QED
  BY <1>2, <1>3 DEF Put, Queues

LEMMA ComingType ==
  ASSUME line \in Seq(Chars), NEW s \in Coming
  PROVE  /\ s \in Seq(Chars) /\ s # <<>>
         /\ Head(s) \in Chars /\ Tail(s) \in Seq(Chars)
<1>1. s \in Seq(Chars) /\ s # <<>>
  BY Sentence DEF Coming
<1> QED
  BY <1>1, HeadTailProperties

LEMMA IndexType ==
  ASSUME gps_msg_byte_index \in 0 .. IndexRange - 1
  PROVE  /\ (gps_msg_byte_index + 1) % IndexRange \in 0 .. IndexRange - 1
         /\ (gps_msg_byte_index + 1) % IndexRange \in Nat
<1> DEFINE i == gps_msg_byte_index + 1
<1>1. IndexRange \in Nat \ {0} /\ i \in Nat
  BY Sizes
<1> HIDE DEF i
<1>2. i % IndexRange \in 0 .. IndexRange - 1
  BY <1>1
<1>3. i % IndexRange \in Nat
  BY <1>1, <1>2
<1> QED
  BY <1>2, <1>3 DEF i

LEMMA ParseMessageType ==
  ASSUME gga_message \in Fixes, hung \in BOOLEAN,
         NEW fifo \in Queues, NEW size \in Nat, ParseMessage(fifo, size)
  PROVE  uart_rx_fifo' \in Queues /\ gga_message' \in Fixes /\ hung' \in BOOLEAN
<1> DEFINE msg == SubSeq(fifo, 1, IF size < Len(fifo) THEN size ELSE Len(fifo))
           rest == Without(fifo, size)
           parsed == Parse(msg, size, gga_message)
           some == {fix \in Fixes : \A f \in Fields : fix[f] \in {parsed.fix[f], "wrong"}}
<1>1. msg \in Seq(Chars)
  <2> DEFINE n == IF size < Len(fifo) THEN size ELSE Len(fifo)
  <2>1. fifo \in Seq(Chars) /\ Len(fifo) \in Nat
    BY LenProperties DEF Queues
  <2>2. n \in Nat /\ \A i \in 1 .. n : i \in 1 .. Len(fifo)
    BY <2>1
  <2>3. \A i \in 1 .. n : fifo[i] \in Chars
    BY <2>1, <2>2, ElementOfSeq
  <2> HIDE DEF n
  <2>4. SubSeq(fifo, 1, n) \in Seq(Chars)
    BY <2>2, <2>3, SubSeqProperties
  <2> QED
    BY <2>4 DEF n
<1> HIDE DEF msg
<1>2. parsed.fix \in Fixes
  <2>1. parsed \in Parser
    BY <1>1, ParseType
  <2> HIDE DEF parsed
  <2> QED
    BY <2>1 DEF Parser
<1>3. rest \in Queues /\ Without(rest, size) \in Queues
  BY WithoutQueue
<1>4. (size - AckHeaderSize) % IndexRange \in Nat
  <2> DEFINE d == size - AckHeaderSize
  <2>1. d \in Int /\ IndexRange \in Nat \ {0}
    BY Sizes
  <2> HIDE DEF d
  <2>2. d % IndexRange \in 0 .. IndexRange - 1
    BY <2>1
  <2>3. d % IndexRange \in Nat
    BY <2>1, <2>2
  <2> QED
    BY <2>3 DEF d
<1>5. /\ Without(rest, (size - AckHeaderSize) % IndexRange) \in Queues
      /\ Without(Without(rest, (size - AckHeaderSize) % IndexRange), size) \in Queues
  BY <1>3, <1>4, WithoutQueue
<1>6. \/ Returns(rest, size, parsed.fix)
      \/ Hangs(rest, parsed.fix)
      \/ \E fix \in some : Returns(rest, size, fix) \/ Hangs(rest, fix)
      \/ Returns(Without(rest, (size - AckHeaderSize) % IndexRange), size, gga_message)
      \/ Returns(rest, size, gga_message)
  BY DEF ParseMessage, msg
<1>7. \A fix \in some : fix \in Fixes
  OBVIOUS
<1> HIDE DEF rest, parsed, some
<1>8. ASSUME NEW q, NEW fix \in Fixes, q \in Queues, Without(q, size) \in Queues,
             Returns(q, size, fix) \/ Hangs(q, fix)
      PROVE  uart_rx_fifo' \in Queues /\ gga_message' \in Fixes /\ hung' \in BOOLEAN
  BY <1>8 DEF Returns, Hangs, Drained
<1> QED
  BY <1>2, <1>3, <1>5, <1>6, <1>7, <1>8

LEMMA TypeQueue == TypeOK <=> /\ line \in Seq(Chars)
                              /\ gps_is_powered_on \in BOOLEAN
                              /\ uart_rx_fifo \in Queues
                              /\ gps_msg_byte_index \in 0 .. IndexRange - 1
                              /\ gga_message \in Fixes
                              /\ hung \in BOOLEAN
                              /\ faults \in 0 .. MaxFaults
BY DEF TypeOK, Queues

LEMMA TypeInit == Init => TypeOK
<1> SUFFICES ASSUME Init PROVE TypeOK
  OBVIOUS
<1>1. <<>> \in Seq(Chars) /\ Len(<<>>) = 0
  BY EmptySeq
<1>2. 0 \in 0 .. IndexRange - 1 /\ 0 \in 0 .. MaxFaults /\ 0 <= FifoSize
  BY Sizes
<1>3. Empty \in Fixes
  BY DEF Empty, Fixes
<1> QED
  BY <1>1, <1>2, <1>3 DEF Init, TypeOK

LEMMA TypeNext == TypeOK /\ [Next]_vars => TypeOK'
<1> SUFFICES ASSUME TypeOK, [Next]_vars PROVE TypeOK'
  OBVIOUS
<1>1. /\ line \in Seq(Chars) /\ gps_is_powered_on \in BOOLEAN
      /\ uart_rx_fifo \in Queues /\ gps_msg_byte_index \in 0 .. IndexRange - 1
      /\ gga_message \in Fixes /\ hung \in BOOLEAN /\ faults \in 0 .. MaxFaults
  BY TypeQueue
<1>2. SUFFICES /\ line' \in Seq(Chars) /\ gps_is_powered_on' \in BOOLEAN
               /\ uart_rx_fifo' \in Queues /\ gps_msg_byte_index' \in 0 .. IndexRange - 1
               /\ gga_message' \in Fixes /\ hung' \in BOOLEAN /\ faults' \in 0 .. MaxFaults
  BY DEF TypeOK, Queues
<1>3. CASE ReceiveByte
  <2>1. PICK s \in Coming :
          /\ line' = Tail(s)
          /\ \/ /\ Head(s) # LF
                /\ uart_rx_fifo' = Put(Head(s))
                /\ gps_msg_byte_index' = (gps_msg_byte_index + 1) % IndexRange
                /\ UNCHANGED <<gga_message, hung>>
             \/ /\ Head(s) = LF
                /\ gps_msg_byte_index' = 0
                /\ ParseMessage(Put(LF), (gps_msg_byte_index + 1) % IndexRange)
    BY <1>3 DEF ReceiveByte
  <2>2. Head(s) \in Chars /\ Tail(s) \in Seq(Chars) /\ LF \in Chars
    BY <1>1, ComingType, Marks
  <2>3. line' \in Seq(Chars)
    BY <2>1, <2>2
  <2>4. /\ (gps_msg_byte_index + 1) % IndexRange \in 0 .. IndexRange - 1
        /\ (gps_msg_byte_index + 1) % IndexRange \in Nat
        /\ 0 \in 0 .. IndexRange - 1
    BY <1>1, IndexType, Sizes
  <2>5. gps_msg_byte_index' \in 0 .. IndexRange - 1
    BY <2>1, <2>4
  <2>6. uart_rx_fifo' \in Queues /\ gga_message' \in Fixes /\ hung' \in BOOLEAN
    <3>1. CASE uart_rx_fifo' = Put(Head(s)) /\ UNCHANGED <<gga_message, hung>>
      BY <1>1, <2>2, <3>1, PutQueue
    <3>2. CASE ParseMessage(Put(LF), (gps_msg_byte_index + 1) % IndexRange)
      <4>1. Put(LF) \in Queues
        BY <1>1, <2>2, PutQueue
      <4> QED
        BY <1>1, <2>4, <3>2, <4>1, ParseMessageType
    <3> QED
      BY <2>1, <3>1, <3>2
  <2> QED
    BY <1>1, <1>3, <2>3, <2>5, <2>6 DEF ReceiveByte
<1>4. CASE LoseBytes
  <2>1. PICK s \in Coming : \E n \in DOMAIN s : line' = Without(s, n)
    BY <1>4 DEF LoseBytes
  <2>2. s \in Seq(Chars)
    BY <1>1, ComingType
  <2>3. DOMAIN s \subseteq Nat
    BY <2>2, LenProperties
  <2>4. line' \in Seq(Chars)
    BY <2>1, <2>2, <2>3, WithoutType
  <2>5. faults' \in 0 .. MaxFaults
    BY <1>1, <1>4, Sizes DEF LoseBytes
  <2> QED
    BY <1>1, <1>4, <2>4, <2>5 DEF LoseBytes
<1>5. CASE TurnOn
  BY <1>1, <1>5 DEF TurnOn
<1>6. CASE TurnOff
  <2>1. faults' \in 0 .. MaxFaults
    BY <1>1, <1>6, Sizes DEF TurnOff
  <2>2. <<>> \in Seq(Chars) /\ Empty \in Fixes
    BY EmptySeq DEF Empty, Fixes
  <2> QED
    BY <1>1, <1>6, <2>1, <2>2 DEF TurnOff
<1>7. CASE UNCHANGED vars
  BY <1>1, <1>7 DEF vars
<1> QED
  BY <1>3, <1>4, <1>5, <1>6, <1>7 DEF Next

\* Every variable keeps its type: the queue never holds more than its size, the
\* parser sets fields only, and its loop ends on whatever is in the queue.
THEOREM TypeCorrect == Spec => []TypeOK
BY TypeInit, TypeNext, PTL DEF Spec

-----------------------------------------------------------------------------
(* A whole GGA sentence is parsed                                          *)

\* The fields before the k-th are set, as far as they are there.
Copied(present, fix, k) ==
    [f \in Fields |-> IF f < k /\ f \in present THEN "right" ELSE fix[f]]

\* The parser before part k of the sentence.
Before(present, fix, at, k) ==
    [index |-> at[k], field |-> k - 2, fix |-> Copied(present, fix, k),
     outcome |-> IF k <= Len(Widths) THEN "running" ELSE "returned"]

\* What is known of the message and its size.
WholeGga(msg, size, present, at) ==
    /\ msg = Gga(present) /\ msg \in Seq(Chars)
    /\ size = Len(msg) /\ Places(present, at)
    /\ present \subseteq Fields /\ Len(Widths) \in present

LEMMA GgaLength ==
  ASSUME NEW msg, NEW size, NEW present, NEW at, WholeGga(msg, size, present, at),
         Len(msg) <= FifoSize
  PROVE  MessageLength(size) = at[Len(Widths) + 1]
<1> DEFINE x == at[Len(Widths) + 1]
<1>1. size = x + 2
  BY DEF WholeGga, Places
<1>2. x \in Nat
  <2>1. Len(Widths) + 1 \in 1 .. Len(Widths) + 1
    BY Sizes
  <2> QED
    BY <2>1 DEF WholeGga, Places
<1>3. size <= FifoSize
  BY DEF WholeGga
<1> HIDE DEF x
<1>4. size - 2 = x /\ x < IndexRange /\ IndexRange \in Nat
  BY <1>1, <1>2, <1>3, Sizes
<1>5. x % IndexRange = x
  BY <1>2, <1>4
<1> QED
  BY <1>4, <1>5 DEF MessageLength, x

\* Where a part is: the first character is a comma, and the next one belongs to
\* the field or to the next part.
LEMMA PartPlace ==
  ASSUME NEW msg, NEW size, NEW present, NEW at, WholeGga(msg, size, present, at),
         NEW k \in Fields
  PROVE  /\ at[k] \in Nat /\ at[k + 1] \in Nat
         /\ at[Len(Widths) + 1] \in Nat /\ Len(msg) = at[Len(Widths) + 1] + 2
         /\ at[k + 1] <= at[Len(Widths) + 1]
         /\ at[k + 1] = IF k \in present THEN at[k] + 1 + TextLength(k) ELSE at[k] + 1
         /\ msg[at[k] + 1] = Comma
         /\ k \in present => \A i \in 1 .. TextLength(k) : msg[at[k] + 1 + i] = Text(k)[i]
<1>1. /\ Len(Widths) \in Nat /\ Fields = 1 .. Len(Widths)
  BY Sizes
<1>2. k \in 1 .. Len(Widths) + 1 /\ k + 1 \in 1 .. Len(Widths) + 1
      /\ Len(Widths) + 1 \in 1 .. Len(Widths) + 1
  BY <1>1
<1>3. at[k] \in Nat /\ at[k + 1] \in Nat /\ at[Len(Widths) + 1] \in Nat
  BY <1>2 DEF WholeGga, Places
<1>4. /\ Len(msg) = at[Len(Widths) + 1] + 2
      /\ at[k + 1] = at[k] + Len(Part(k, present))
      /\ at[k + 1] <= at[Len(Widths) + 1]
      /\ \A x \in 1 .. Len(Part(k, present)) : msg[at[k] + x] = Part(k, present)[x]
  BY DEF WholeGga, Places
<1> DEFINE n == TextLength(k)
           m == Len(Part(k, present))
           a == at[k]
<1>5. n \in Nat /\ n >= 1
  BY TextIs
<1>6. /\ m = IF k \in present THEN 1 + n ELSE 1
      /\ Part(k, present)[1] = Comma
      /\ k \in present => \A i \in 1 .. n : Part(k, present)[1 + i] = Text(k)[i]
  BY PartIs
<1>7. a \in Nat /\ at[k + 1] = a + m /\ \A x \in 1 .. m : msg[a + x] = Part(k, present)[x]
  BY <1>3, <1>4
<1> HIDE DEF n, m, a
<1>8. 1 \in 1 .. m
  BY <1>5, <1>6
<1>9. msg[a + 1] = Comma
  BY <1>6, <1>7, <1>8
<1>10. at[k + 1] = IF k \in present THEN a + 1 + n ELSE a + 1
  BY <1>5, <1>6, <1>7
<1>11. ASSUME k \in present, NEW i \in 1 .. n PROVE msg[a + 1 + i] = Text(k)[i]
  <2>1. 1 + i \in 1 .. m /\ a + (1 + i) = a + 1 + i
    BY <1>5, <1>6, <1>7, <1>11
  <2>2. msg[a + (1 + i)] = Part(k, present)[1 + i]
    BY <1>7, <2>1
  <2> QED
    BY <1>6, <1>11, <2>1, <2>2
<1> QED
  BY <1>3, <1>4, <1>9, <1>10, <1>11 DEF a, n

\* Only the last part ends where the message does.
LEMMA PartEnds ==
  ASSUME NEW msg, NEW size, NEW present, NEW at, WholeGga(msg, size, present, at),
         NEW k \in Fields
  PROVE  at[k + 1] < at[Len(Widths) + 1] <=> k + 1 <= Len(Widths)
<1>1. /\ Len(Widths) \in Nat /\ Fields = 1 .. Len(Widths)
  BY Sizes
<1>2. at[k + 1] \in Nat
  BY PartPlace
<1>3. CASE k + 1 <= Len(Widths)
  <2>1. k + 1 \in Fields
    BY <1>1, <1>3
  <2>2. /\ at[k + 1 + 1] <= at[Len(Widths) + 1]
        /\ at[k + 1 + 1] = IF k + 1 \in present THEN at[k + 1] + 1 + TextLength(k + 1)
                                                ELSE at[k + 1] + 1
        /\ at[k + 1 + 1] \in Nat /\ at[Len(Widths) + 1] \in Nat
    BY <2>1, PartPlace
  <2>3. TextLength(k + 1) \in Nat
    BY <2>1, TextIs
  <2>4. at[k + 1] < at[k + 1 + 1]
    BY <1>2, <2>2, <2>3
  <2>5. at[k + 1] < at[Len(Widths) + 1]
    BY <1>2, <2>2, <2>4
  <2> QED
    BY <1>3, <2>5
<1>4. CASE ~(k + 1 <= Len(Widths))
  <2>1. k = Len(Widths)
    BY <1>1, <1>4
  <2> QED
    BY <1>2, <1>4, <2>1
<1> QED
  BY <1>3, <1>4

LEMMA CopiedType ==
  ASSUME NEW present, NEW fix \in Fixes, NEW k \in Int
  PROVE  Copied(present, fix, k) \in Fixes
BY DEF Copied, Fixes

LEMMA BeforeType ==
  ASSUME NEW msg, NEW size, NEW present, NEW at, WholeGga(msg, size, present, at),
         NEW fix \in Fixes, NEW k \in 1 .. Len(Widths) + 1
  PROVE  Before(present, fix, at, k) \in Parser
<1>1. at[k] \in Nat
  BY DEF WholeGga, Places
<1>2. k \in Int /\ k - 2 \in Int
  BY Sizes
<1>3. Copied(present, fix, k) \in Fixes
  BY <1>2, CopiedType
<1> QED
  BY <1>1, <1>2, <1>3 DEF Before, Parser

\* A turn that finds a comma.
LEMMA CommaTurn ==
  ASSUME NEW msg, NEW size, NEW s \in Parser,
         s.index < Len(msg), Len(msg) \in Nat, msg[s.index + 1] = Comma
  PROVE  Turn(msg, size, s) =
           [index |-> s.index + 1, field |-> s.field + 1, fix |-> s.fix,
            outcome |-> IF s.index + 1 < MessageLength(size) THEN "running" ELSE "returned"]
<1>1. s.index \in Nat
  BY DEF Parser
<1>2. ~(s.index >= Len(msg))
  BY <1>1
<1> QED
  BY <1>2 DEF Turn

\* A turn that finds a field.
LEMMA FieldTurn ==
  ASSUME NEW msg, NEW size, NEW s \in Parser, NEW f \in Fields, NEW w \in Nat,
         s.field + 1 = f, w = WidthAt(msg, s.index, f),
         s.index + w <= Len(msg), w >= 1, Len(msg) \in Nat, msg[s.index + 1] # Comma,
         SubSeq(msg, s.index + 1, s.index + w) = Text(f)
  PROVE  Turn(msg, size, s) =
           [index |-> s.index + w, field |-> s.field,
            fix |-> [s.fix EXCEPT ![f] = "right"],
            outcome |-> IF s.index + w < MessageLength(size) THEN "running" ELSE "returned"]
<1>1. s.index \in Nat
  BY DEF Parser
<1>2. ~(s.index >= Len(msg)) /\ ~(w < 0)
  BY <1>1
<1> QED
  BY <1>2 DEF Turn

\* The text of a field, as the parser cuts it out of the message.
LEMMA TextPlace ==
  ASSUME NEW msg, NEW size, NEW present, NEW at, WholeGga(msg, size, present, at),
         NEW k \in Fields, k \in present
  PROVE  /\ at[k] + 1 < Len(msg) /\ msg[at[k] + 1 + 1] # Comma
         /\ WidthAt(msg, at[k] + 1, k) = TextLength(k)
         /\ SubSeq(msg, at[k] + 1 + 1, at[k] + 1 + TextLength(k)) = Text(k)
<1> DEFINE n == TextLength(k)
           a == at[k] + 1
           e == at[k + 1]
           z == at[Len(Widths) + 1]
<1>1. /\ n \in Nat /\ n >= 1 /\ Text(k) \in Seq(Plain) /\ Len(Text(k)) = n
      /\ \A i \in 1 .. n : Text(k)[i] # Comma
  BY TextIs
<1>2. /\ a \in Nat /\ e \in Nat /\ z \in Nat /\ Len(msg) = z + 2 /\ e <= z /\ e = a + n
      /\ \A i \in 1 .. n : msg[a + i] = Text(k)[i]
  BY PartPlace
<1>3. msg \in Seq(Chars)
  BY DEF WholeGga
<1>4. e < z <=> k + 1 <= Len(Widths)
  BY PartEnds
<1>5. k + 1 <= Len(Widths) => msg[e + 1] = Comma
  <2> SUFFICES ASSUME k + 1 <= Len(Widths) PROVE msg[at[k + 1] + 1] = Comma
    OBVIOUS
  <2>1. k + 1 \in Fields
    BY Sizes
  <2> QED
    BY <2>1, PartPlace
<1> HIDE DEF n, a, e, z
<1>6. a < Len(msg) /\ Len(msg) \in Nat
  BY <1>1, <1>2
<1>7. 1 \in 1 .. n
  BY <1>1
<1>8. msg[a + 1] # Comma
  BY <1>1, <1>2, <1>7
<1>9. WidthAt(msg, a, k) = n
  <2>1. CASE Widths[k] > 0
    <3>1. WidthAt(msg, a, k) = Widths[k]
      BY <1>2, <1>3, <1>6, <1>8, <2>1, WidthIs
    <3> QED
      BY <2>1, <3>1, Sizes DEF n, TextLength
  <2>2. CASE Widths[k] = 0
    <3>1. n = 1
      BY <2>2 DEF n, TextLength
    <3>2. k # Len(Widths) /\ k + 1 <= Len(Widths)
      <4>1. k # Len(Widths)
        BY <2>2, Sizes
      <4> QED
        BY <4>1, Sizes
    <3>3. e + 1 = a + 2 /\ a + 2 \in 1 .. Len(msg)
      BY <1>2, <1>6, <3>1
    <3>4. msg[a + 2] = Comma
      BY <1>5, <3>2, <3>3
    <3>5. WidthAt(msg, a, k) = 1
      BY <1>2, <1>3, <1>6, <1>8, <2>2, <3>3, <3>4, WidthIs
    <3> QED
      BY <3>1, <3>5
  <2> QED
    BY <2>1, <2>2, Sizes
<1>10. SubSeq(msg, a + 1, a + n) = Text(k)
  <2> DEFINE b == a + 1
             s == SubSeq(msg, b, e)
  <2>1. b \in Int /\ e \in Int /\ b <= e /\ e - b + 1 = n
    BY <1>1, <1>2
  <2>2. \A i \in b .. e : msg[i] \in Chars
    <3>1. \A i \in b .. e : i \in 1 .. Len(msg)
      BY <1>2
    <3> QED
      BY <1>3, <3>1, ElementOfSeq
  <2>3. \A i \in 1 .. n : b + i - 1 = a + i
    BY <1>1, <1>2
  <2> HIDE DEF b
  <2>4. /\ s \in Seq(Chars) /\ Len(s) = (IF b <= e THEN e - b + 1 ELSE 0)
        /\ \A i \in 1 .. e - b + 1 : s[i] = msg[b + i - 1]
    BY <2>1, <2>2, SubSeqProperties
  <2> HIDE DEF s
  <2>5. Len(s) = n /\ \A i \in 1 .. n : s[i] = Text(k)[i]
    BY <1>2, <2>1, <2>3, <2>4
  <2>6. Text(k) \in Seq(Chars)
    BY <1>1, SeqMonotonic DEF Plain
  <2>7. s = Text(k)
    BY <1>1, <2>4, <2>5, <2>6, SeqEqual
  <2> QED
    BY <1>2, <2>7 DEF s, b
<1> QED
  BY <1>6, <1>8, <1>9, <1>10 DEF n, a

\* From the beginning of a part the parser comes to that of the next.
LEMMA PartParsed ==
  ASSUME NEW msg, NEW size, NEW present, NEW at, WholeGga(msg, size, present, at),
         Len(msg) <= FifoSize, NEW fix \in Fixes, NEW k \in Fields
  PROVE  Loop(msg, size)[Before(present, fix, at, k)]
           = Loop(msg, size)[Before(present, fix, at, k + 1)]
<1> DEFINE L == Loop(msg, size)
           A == Before(present, fix, at, k)
           B == Before(present, fix, at, k + 1)
           z == at[Len(Widths) + 1]
           N == Len(Widths)
           n == TextLength(k)
           a == at[k]
           e == at[k + 1]
           F == Copied(present, fix, k)
           G == Copied(present, fix, k + 1)
<1>1. msg \in Seq(Chars)
  BY DEF WholeGga
<1>2. N \in Nat /\ k \in 1 .. N /\ k + 1 \in 1 .. N + 1 /\ k \in 1 .. N + 1
  BY Sizes
<1>3. A \in Parser /\ B \in Parser
  BY <1>2, BeforeType
<1>4. \A s \in Parser : s.outcome = "running" => L[s] = L[Turn(msg, size, s)]
  BY <1>1, LoopTurns
<1>5. /\ a \in Nat /\ e \in Nat /\ z \in Nat /\ Len(msg) = z + 2 /\ e <= z
      /\ e = IF k \in present THEN a + 1 + n ELSE a + 1
      /\ msg[a + 1] = Comma
  BY PartPlace
<1>6. e < z <=> k + 1 <= N
  BY PartEnds
<1>7. MessageLength(size) = z
  BY GgaLength
<1>8. n \in Nat /\ n >= 1
  BY TextIs
<1>9. /\ A.index = a /\ A.field = k - 2 /\ A.fix = F /\ A.outcome = "running"
      /\ B = [index |-> e, field |-> k + 1 - 2, fix |-> G,
              outcome |-> IF k + 1 <= N THEN "running" ELSE "returned"]
  BY <1>2 DEF Before
<1>10. F \in Fixes /\ G \in Fixes
  BY <1>2, CopiedType
<1>11. k \in present \/ k + 1 <= N
  <2>1. N \in present
    BY DEF WholeGga
  <2> QED
    BY <1>2, <2>1
<1> DEFINE M == [index |-> a + 1, field |-> k - 1, fix |-> F,
                 outcome |-> IF a + 1 < z THEN "running" ELSE "returned"]
<1>12. k - 2 + 1 = k - 1 /\ k + 1 - 2 = k - 1 /\ k - 1 \in Int /\ k - 1 + 1 = k
  BY <1>2
<1>13. Turn(msg, size, A) = M
  <2>1. a < Len(msg) /\ Len(msg) \in Nat
    BY <1>5, <1>8
  <2> HIDE DEF A, z, a, e, F, G, n, N
  <2> QED
    BY <1>3, <1>5, <1>7, <1>9, <1>12, <2>1, CommaTurn
<1>14. L[A] = L[M]
  <2> HIDE DEF L, A, M
  <2> QED
    BY <1>3, <1>4, <1>9, <1>13
<1>15. CASE k \notin present
  <2>1. e = a + 1
    BY <1>5, <1>15
  <2>2. F = G
    <3>1. \A f \in Fields : (f < k /\ f \in present) <=> (f < k + 1 /\ f \in present)
      BY <1>15, Sizes
    <3> QED
      BY <3>1 DEF Copied
  <2>3. M = B
    <3> HIDE DEF A, B, z, a, e, F, G, n, N
    <3> QED
      BY <1>6, <1>9, <1>12, <2>1, <2>2
  <2> QED
    BY <1>14, <2>3
<1>16. CASE k \in present
  <2>1. e = a + 1 + n
    BY <1>5, <1>16
  <2>2. a + 1 < z
    <3> HIDE DEF a, e, z, n
    <3> QED
      BY <1>5, <1>8, <2>1
  <2>3. M \in Parser /\ M.outcome = "running" /\ M.index = a + 1 /\ M.field = k - 1 /\ M.fix = F
    <3>1. a + 1 \in Nat
      BY <1>5
    <3> HIDE DEF a, z, F
    <3> QED
      BY <1>10, <1>12, <2>2, <3>1 DEF Parser
  <2>4. /\ a + 1 < Len(msg) /\ msg[a + 1 + 1] # Comma
        /\ WidthAt(msg, a + 1, k) = n
        /\ SubSeq(msg, a + 1 + 1, a + 1 + n) = Text(k)
    BY <1>16, TextPlace
  <2>5. a + 1 + n <= Len(msg) /\ Len(msg) \in Nat
    <3> HIDE DEF a, e, z, n
    <3> QED
      BY <1>5, <1>8, <2>1
  <2>6. [F EXCEPT ![k] = "right"] = G
    <3>1. \A f \in Fields : f # k => (f < k /\ f \in present <=> f < k + 1 /\ f \in present)
      BY Sizes
    <3>2. k < k + 1
      BY <1>2
    <3>3. F = [f \in Fields |-> F[f]] /\ G = [f \in Fields |-> G[f]]
      BY DEF Copied
    <3>4. G[k] = "right"
      BY <1>16, <3>2 DEF Copied
    <3>5. \A f \in Fields : f # k => G[f] = F[f]
      BY <3>1 DEF Copied
    <3> HIDE DEF F, G
    <3> QED
      BY <3>3, <3>4, <3>5
  <2> DEFINE R == [index |-> a + 1 + n, field |-> k - 1, fix |-> [F EXCEPT ![k] = "right"],
                   outcome |-> IF a + 1 + n < z THEN "running" ELSE "returned"]
  <2>7. Turn(msg, size, M) = R
    <3> HIDE DEF M, A, B, z, a, e, F, G, n, N
    <3>1. /\ M.field + 1 = k /\ n = WidthAt(msg, M.index, k)
          /\ M.index + n <= Len(msg) /\ msg[M.index + 1] # Comma
          /\ SubSeq(msg, M.index + 1, M.index + n) = Text(k)
          /\ M.index < Len(msg)
      BY <1>12, <2>3, <2>4, <2>5
    <3>2. Turn(msg, size, M) =
           [index |-> M.index + n, field |-> M.field,
            fix |-> [M.fix EXCEPT ![k] = "right"],
            outcome |-> IF M.index + n < MessageLength(size) THEN "running" ELSE "returned"]
      BY <1>8, <2>3, <2>5, <3>1, FieldTurn
    <3> QED
      BY <1>7, <2>3, <3>2
  <2>8. R = B
    <3> HIDE DEF A, B, z, a, e, F, G, n, N
    <3> QED
      BY <1>6, <1>9, <1>12, <2>1, <2>6
  <2>9. L[M] = L[B]
    <3> HIDE DEF L, M, B, R
    <3> QED
      BY <1>4, <2>3, <2>7, <2>8
  <2> QED
    BY <1>14, <2>9
<1> QED
  BY <1>15, <1>16

\* The parser returns, with the fields that are there.
Parsed(s, present, fix) ==
    /\ s.outcome = "returned"
    /\ s.fix = [f \in Fields |-> IF f \in present THEN "right" ELSE fix[f]]

LEMMA GgaParsed ==
  ASSUME NEW msg, NEW size, NEW present, NEW at, WholeGga(msg, size, present, at),
         Len(msg) <= FifoSize, NEW fix \in Fixes
  PROVE  Parsed(Parse(msg, size, fix), present, fix)
<1> DEFINE L == Loop(msg, size)
           N == Len(Widths)
           A(k) == Before(present, fix, at, k)
           D == {k \in 1 .. N + 1 : L[A(k)] # L[A(1)]}
<1>1. N \in Nat /\ N >= 1 /\ Fields = 1 .. N
  BY Sizes
<1>2. \A k \in Fields : L[A(k)] = L[A(k + 1)]
  BY PartParsed
<1>3. \A k \in 1 .. N + 1 : A(k) \in Parser
  BY BeforeType
<1> HIDE DEF L, A, N
<1>4. D = {}
  <2> SUFFICES ASSUME D # {} PROVE FALSE
    OBVIOUS
  <2>1. PICK k \in D : \A j \in D : k <= j
    <3>1. D \subseteq Nat
      BY <1>1
    <3> HIDE DEF D
    <3> QED
      BY <3>1, Least
  <2>2. k \in 1 .. N + 1 /\ L[A(k)] # L[A(1)]
    OBVIOUS
  <2>3. k # 1
    BY <2>2
  <2>4. k - 1 \in 1 .. N + 1 /\ k - 1 \in Fields /\ k - 1 + 1 = k /\ ~(k <= k - 1)
    BY <1>1, <2>2, <2>3
  <2>5. L[A(k - 1)] = L[A(1)]
    BY <2>1, <2>4
  <2>6. L[A(k - 1)] = L[A(k)]
    BY <1>2, <2>4
  <2> QED
    BY <2>2, <2>5, <2>6
<1>5. N + 1 \in 1 .. N + 1 /\ 1 \in 1 .. N + 1
  BY <1>1
<1>6. L[A(N + 1)] = L[A(1)]
  BY <1>4, <1>5
<1>7. A(1) = Start(fix)
  <2>1. at[1] = HeaderSize
    BY DEF WholeGga, Places
  <2>2. Copied(present, fix, 1) = fix
    <3>1. \A f \in Fields : ~(f < 1)
      BY <1>1
    <3>2. fix = [f \in Fields |-> fix[f]]
      BY DEF Fixes
    <3> QED
      BY <3>1, <3>2 DEF Copied
  <2>3. 1 <= N /\ 1 - 2 = -1
    BY <1>1
  <2> QED
    BY <2>1, <2>2, <2>3 DEF A, N, Before, Start, FirstField
<1>8. /\ A(N + 1).outcome = "returned"
      /\ A(N + 1).fix = [f \in Fields |-> IF f \in present THEN "right" ELSE fix[f]]
  <2>1. ~(N + 1 <= N) /\ \A f \in Fields : f < N + 1
    BY <1>1
  <2> QED
    BY <2>1 DEF A, N, Before, Copied
<1>9. L[A(N + 1)] = A(N + 1)
  <2>1. msg \in Seq(Chars)
    BY DEF WholeGga
  <2>2. A(N + 1) \in Parser /\ A(N + 1).outcome # "running"
    BY <1>3, <1>5, <1>8
  <2> QED
    BY <2>1, <2>2, LoopTurns DEF L
<1>10. Parse(msg, size, fix) = L[Start(fix)]
  BY ParseLoop DEF L
<1> QED
  BY <1>6, <1>7, <1>8, <1>9, <1>10 DEF Parsed

-----------------------------------------------------------------------------
(* The end of a line received whole                                        *)

LEMMA GgaIsWhole ==
  ASSUME NEW present \in Present
  PROVE  /\ Gga(present) \in Sentences
         /\ \E at : WholeGga(Gga(present), Len(Gga(present)), present, at)
<1>1. Len(Widths) \in Fields
  BY Sizes
<1>2. present \subseteq Fields /\ Len(Widths) \in present
  BY <1>1 DEF Present, Optional
<1>3. Gga(present) \in Sentences
  BY DEF Sentences
<1>4. Gga(present) \in Seq(Chars)
  BY <1>3, Sentence
<1>5. \E at : Places(present, at)
  BY GgaPlaces
<1> QED
  BY <1>2, <1>3, <1>4, <1>5 DEF WholeGga

LEMMA WholeQueued ==
  ASSUME TypeOK, Append(uart_rx_fifo, LF) \in Sentences
  PROVE  /\ Put(LF) = Append(uart_rx_fifo, LF)
         /\ Len(Put(LF)) = Len(uart_rx_fifo) + 1
         /\ (Len(uart_rx_fifo) + 1) % IndexRange = Len(uart_rx_fifo) + 1
<1> DEFINE n == Len(uart_rx_fifo)
           s == Append(uart_rx_fifo, LF)
<1>1. uart_rx_fifo \in Seq(Chars) /\ n \in Nat
  BY LenProperties DEF TypeOK
<1>2. Len(s) = n + 1
  BY <1>1, Marks, AppendProperties
<1>3. Len(s) <= FifoSize
  <2> HIDE DEF s
  <2> QED
    BY Sentence DEF s
<1> HIDE DEF n, s
<1>4. n < FifoSize /\ n + 1 \in Nat /\ n + 1 < IndexRange /\ IndexRange \in Nat
  BY <1>1, <1>2, <1>3, Sizes
<1>5. (n + 1) % IndexRange = n + 1
  <2> DEFINE m == n + 1
  <2> HIDE DEF m
  <2>1. m % IndexRange = m
    BY <1>4 DEF m
  <2> QED
    BY <2>1 DEF m
<1>6. Put(LF) = s
  BY <1>4 DEF Put, n, s
<1> QED
  BY <1>2, <1>5, <1>6 DEF n, s

LEMMA AllTaken ==
  ASSUME NEW s \in Seq(Chars)
  PROVE  /\ SubSeq(s, 1, IF Len(s) < Len(s) THEN Len(s) ELSE Len(s)) = s
         /\ Without(s, Len(s)) = <<>>
         /\ \A n \in Nat : Without(<<>>, n) = <<>>
<1>1. Len(s) \in Nat
  BY LenProperties
<1>2. SubSeq(s, 1, Len(s)) = s
  BY SubSeqFull
<1>3. Without(s, Len(s)) = <<>>
  <2>1. Len(s) + 1 \in Int /\ Len(s) \in Int /\ Len(s) < Len(s) + 1
    BY <1>1
  <2> QED
    BY <2>1, SubSeqEmpty DEF Without
<1>4. ASSUME NEW n \in Nat PROVE Without(<<>>, n) = <<>>
  <2>1. n + 1 \in Int /\ 0 \in Int /\ 0 < n + 1 /\ Len(<<>>) = 0
    BY EmptySeq
  <2> QED
    BY <2>1, SubSeqEmpty DEF Without
<1> QED
  BY <1>2, <1>3, <1>4

\* The handler takes all of the message and leaves an empty queue; it copies what
\* a GGA sentence has, and nothing of another one.
LEMMA WholeLine ==
  ASSUME TypeOK, NEW s \in Sentences, s = Append(uart_rx_fifo, LF),
         gps_msg_byte_index = Len(uart_rx_fifo),
         ParseMessage(Put(LF), (gps_msg_byte_index + 1) % IndexRange)
  PROVE  /\ uart_rx_fifo' = <<>> /\ hung' = hung
         /\ \A present \in Present : s = Gga(present) =>
              gga_message' = [f \in Fields |-> IF f \in present THEN "right"
                                               ELSE gga_message[f]]
         /\ \/ \E present \in Present : s = Gga(present)
            \/ gga_message' = gga_message
<1> DEFINE parsed == Parse(s, Len(s), gga_message)
           skipped == (Len(s) - AckHeaderSize) % IndexRange
<1>1. s \in Seq(Chars) /\ Len(s) \in Nat /\ Len(s) <= FifoSize
  BY Sentence
<1>2. ParseMessage(s, Len(s))
  BY WholeQueued
<1>3. gga_message \in Fixes
  BY DEF TypeOK
<1>4. skipped \in Nat
  <2> DEFINE d == Len(s) - AckHeaderSize
  <2>1. d \in Int /\ IndexRange \in Nat \ {0}
    BY <1>1, Sizes
  <2> HIDE DEF d
  <2>2. d % IndexRange \in 0 .. IndexRange - 1
    BY <2>1
  <2>3. d % IndexRange \in Nat
    BY <2>1, <2>2
  <2> QED
    BY <2>3 DEF d
<1>5. /\ SubSeq(s, 1, IF Len(s) < Len(s) THEN Len(s) ELSE Len(s)) = s
      /\ Without(s, Len(s)) = <<>>
      /\ \A n \in Nat : Without(<<>>, n) = <<>>
  BY <1>1, AllTaken
<1>6. \E type \in MessageTypes(s) :
        \/ /\ type = "gga" /\ parsed.outcome = "returned"
           /\ Returns(<<>>, Len(s), parsed.fix)
        \/ type = "gga" /\ parsed.outcome # "returned"
        \/ /\ type = "ack"
           /\ Returns(Without(<<>>, skipped), Len(s), gga_message)
        \/ /\ type = "other"
           /\ Returns(<<>>, Len(s), gga_message)
  BY <1>2, <1>5 DEF ParseMessage
<1>7. ASSUME NEW fix, Returns(<<>>, Len(s), fix)
      PROVE  uart_rx_fifo' = <<>> /\ hung' = hung /\ gga_message' = fix
  BY <1>1, <1>5, <1>7 DEF Returns, Drained
<1> HIDE DEF parsed, skipped
<1>8. ASSUME NEW present \in Present, s = Gga(present)
      PROVE  /\ uart_rx_fifo' = <<>> /\ hung' = hung
             /\ gga_message' = [f \in Fields |-> IF f \in present THEN "right"
                                                 ELSE gga_message[f]]
  <2>1. PICK at : WholeGga(s, Len(s), present, at)
    BY <1>8, GgaIsWhole
  <2>2. /\ parsed.outcome = "returned"
        /\ parsed.fix = [f \in Fields |-> IF f \in present THEN "right"
                                          ELSE gga_message[f]]
    <3>1. Parsed(Parse(s, Len(s), gga_message), present, gga_message)
      BY <1>1, <1>3, <2>1, GgaParsed
    <3> QED
      BY <3>1 DEF Parsed, parsed
  <2>3. MessageTypes(s) = {"gga"}
    BY <1>8, GgaIsSentence, TypeOfSentence
  <2> QED
    BY <1>6, <1>7, <2>2, <2>3
<1>9. ASSUME NEW type \in {"ack", "other"}, IsSentence(s, type, <<>>, <<Comma, CR, LF>>)
      PROVE  uart_rx_fifo' = <<>> /\ hung' = hung /\ gga_message' = gga_message
  <2>1. MessageTypes(s) = {type}
    BY <1>9, TypeOfSentence
  <2> QED
    BY <1>4, <1>5, <1>6, <1>7, <1>9, <2>1
<1>10. \/ \E present \in Present : s = Gga(present)
       \/ \E type \in {"ack", "other"} : IsSentence(s, type, <<>>, <<Comma, CR, LF>>)
  BY SentenceForm
<1> QED
  BY <1>8, <1>9, <1>10

WholeStep ==
    (/\ line = <<LF>> /\ line' = <<>> /\ gps_is_powered_on' /\ faults' = faults
     /\ gps_msg_byte_index = Len(uart_rx_fifo))
    =>
    \A present \in Present :
        Append(uart_rx_fifo, LF) = Gga(present) =>
          /\ ~hung'
          /\ uart_rx_fifo' = <<>>
          /\ gga_message' = [f \in Fields |-> IF f \in present THEN "right"
                                              ELSE gga_message[f]]

LEMMA WholeNext == TypeOK /\ [Next]_vars => WholeStep
<1> SUFFICES ASSUME TypeOK, [Next]_vars,
                    line = <<LF>>, line' = <<>>, gps_is_powered_on', faults' = faults,
                    gps_msg_byte_index = Len(uart_rx_fifo),
                    NEW present \in Present, Append(uart_rx_fifo, LF) = Gga(present)
             PROVE  /\ ~hung'
                    /\ uart_rx_fifo' = <<>>
                    /\ gga_message' = [f \in Fields |-> IF f \in present THEN "right"
                                                        ELSE gga_message[f]]
  BY DEF WholeStep
<1>1. <<LF>> # <<>>
  OBVIOUS
<1>2. faults \in Nat
  BY Sizes DEF TypeOK
<1>3. ReceiveByte
  <2>1. ~LoseBytes
    <3>1. LoseBytes => faults' = faults + 1
      BY DEF LoseBytes
    <3>2. faults' # faults + 1
      BY <1>2
    <3> QED
      BY <3>1, <3>2
  <2>2. ~TurnOn /\ ~TurnOff /\ ~UNCHANGED vars
    BY <1>1 DEF TurnOn, TurnOff, vars
  <2> QED
    BY <2>1, <2>2 DEF Next
<1>4. Coming = {<<LF>>} /\ Head(<<LF>>) = LF
  BY <1>1 DEF Coming
<1>5. ParseMessage(Put(LF), (gps_msg_byte_index + 1) % IndexRange) /\ ~hung
  BY <1>3, <1>4 DEF ReceiveByte, Receiving
<1>6. Gga(present) \in Sentences
  BY GgaIsWhole
<1>7. /\ uart_rx_fifo' = <<>> /\ hung' = hung
      /\ gga_message' = [f \in Fields |-> IF f \in present THEN "right"
                                          ELSE gga_message[f]]
  BY <1>5, <1>6, WholeLine
<1> QED
  BY <1>5, <1>7

\* A GGA sentence that was received whole is parsed, whatever its fields and
\* whatever was lost before: the handler returns, with its fields and an empty queue.
THEOREM WholeSentencesParsed == Spec => WholeSentenceParsed
<1>1. TypeOK /\ [Next]_vars => [WholeStep]_vars
  BY WholeNext
<1>2. Spec => [][WholeStep]_vars
  BY <1>1, TypeInit, TypeNext, PTL DEF Spec
<1>3. [][WholeStep]_vars => WholeSentenceParsed
  BY DEF WholeSentenceParsed, WholeStep
<1> QED
  BY <1>2, <1>3

-----------------------------------------------------------------------------
(* Without a fault                                                         *)

\* Between two bytes of a sentence, the queue has what the line has not.
Undisturbed ==
    /\ ~hung
    /\ \A f \in Fields : gga_message[f] # "wrong"
    /\ gps_msg_byte_index = Len(uart_rx_fifo)
    /\ \/ line = <<>> /\ uart_rx_fifo = <<>>
       \/ /\ gps_is_powered_on
          /\ line # <<>> /\ uart_rx_fifo # <<>>
          /\ uart_rx_fifo \o line \in Sentences

FaultInv == faults = 0 => Undisturbed

LEMMA ByteMoved ==
  ASSUME NEW q \in Seq(Chars), NEW s \in Seq(Chars), s # <<>>
  PROVE  /\ Append(q, Head(s)) \o Tail(s) = q \o s
         /\ Len(q \o s) = Len(q) + Len(s)
         /\ (q \o s)[Len(q) + 1] = Head(s)
         /\ Tail(s) = <<>> <=> Len(q \o s) = Len(q) + 1
         /\ Tail(s) = <<>> => Append(q, Head(s)) = q \o s
         /\ Len(q \o s) > Len(q)
<1> DEFINE h == Head(s)
           t == Tail(s)
<1>1. h \in Chars /\ t \in Seq(Chars) /\ Len(t) = Len(s) - 1
  BY HeadTailProperties
<1>2. Len(s) \in Nat \ {0} /\ Len(q) \in Nat
  BY LenProperties, EmptySeq
<1>3. s = <<h>> \o t
  <2>1. 1 \in 1 .. Len(s) /\ Len(s) \in 1 .. Len(s)
    BY <1>2
  <2>2. SubSeq(s, 1, Len(s)) = <<s[1]>> \o SubSeq(s, 1 + 1, Len(s))
    BY <2>1, SubSeqRecursiveFirst
  <2>3. SubSeq(s, 1, Len(s)) = s /\ t = SubSeq(s, 2, Len(s)) /\ h = s[1] /\ 1 + 1 = 2
    BY SubSeqFull, TailIsSubSeq
  <2> QED
    BY <2>2, <2>3
<1> HIDE DEF h, t
<1>4. <<h>> \in Seq(Chars) /\ Append(q, h) = q \o <<h>>
  BY <1>1, AppendIsConcat
<1>5. (q \o <<h>>) \o t = q \o (<<h>> \o t)
  BY <1>1, <1>4, ConcatAssociative
<1>6. Append(q, h) \o t = q \o s
  BY <1>3, <1>4, <1>5
<1>7. /\ Len(q \o s) = Len(q) + Len(s)
      /\ \A i \in 1 .. Len(q) + Len(s) :
            (q \o s)[i] = IF i <= Len(q) THEN q[i] ELSE s[i - Len(q)]
  BY ConcatProperties
<1>8. Len(q) + 1 \in 1 .. Len(q) + Len(s) /\ ~(Len(q) + 1 <= Len(q))
      /\ Len(q) + 1 - Len(q) = 1
  <2>1. \A a \in Nat, b \in Nat \ {0} : a + 1 \in 1 .. a + b /\ ~(a + 1 <= a) /\ a + 1 - a = 1
    OBVIOUS
  <2> QED
    BY <1>2, <2>1
<1>9. (q \o s)[Len(q) + 1] = h
  BY <1>7, <1>8 DEF h
<1>10. t = <<>> <=> Len(t) = 0
  BY <1>1, EmptySeq
<1>11. Len(q) + Len(s) = Len(q) + 1 <=> Len(s) - 1 = 0
  <2>1. \A a \in Nat, b \in Nat \ {0} : a + b = a + 1 <=> b - 1 = 0
    OBVIOUS
  <2> QED
    BY <1>2, <2>1
<1>12. t = <<>> <=> Len(q \o s) = Len(q) + 1
  BY <1>1, <1>7, <1>10, <1>11
<1>13. t = <<>> => Append(q, h) = q \o s
  <2> SUFFICES ASSUME t = <<>> PROVE Append(q, h) = q \o s
    OBVIOUS
  <2>1. Append(q, h) \in Seq(Chars)
    BY <1>1, AppendProperties
  <2>2. Append(q, h) \o <<>> = Append(q, h)
    BY <2>1, ConcatEmptySeq
  <2> QED
    BY <1>6, <2>2
<1>14. Len(q \o s) > Len(q)
  BY <1>2, <1>7
<1> QED
  BY <1>6, <1>7, <1>9, <1>12, <1>13, <1>14 DEF h, t

LEMMA FaultInit == Init => FaultInv
<1> SUFFICES ASSUME Init PROVE Undisturbed
  BY DEF FaultInv
<1>1. Len(<<>>) = 0
  BY EmptySeq
<1> QED
  BY <1>1 DEF Init, Undisturbed, Empty

LEMMA ReceiveUndisturbed ==
  ASSUME TypeOK, Undisturbed, ReceiveByte
  PROVE  Undisturbed'
<1>1. PICK s \in Coming :
        /\ line' = Tail(s)
        /\ \/ /\ Head(s) # LF
              /\ uart_rx_fifo' = Put(Head(s))
              /\ gps_msg_byte_index' = (gps_msg_byte_index + 1) % IndexRange
              /\ UNCHANGED <<gga_message, hung>>
           \/ /\ Head(s) = LF
              /\ gps_msg_byte_index' = 0
              /\ ParseMessage(Put(LF), (gps_msg_byte_index + 1) % IndexRange)
  BY DEF ReceiveByte
<1> DEFINE q == uart_rx_fifo
           w == q \o s
           n == Len(q)
<1>2. q \in Seq(Chars) /\ n \in Nat /\ gps_msg_byte_index = n
  BY LenProperties DEF TypeOK, Undisturbed
<1>3. s \in Seq(Chars) /\ s # <<>> /\ Head(s) \in Chars
  BY ComingType DEF TypeOK
<1>4. w \in Sentences
  <2>1. CASE line = <<>> /\ q = <<>>
    <3>1. s \in Sentences
      BY <2>1 DEF Coming
    <3>2. <<>> \o s = s
      BY <1>3, ConcatEmptySeq
    <3> QED
      BY <2>1, <3>1, <3>2
  <2>2. CASE line # <<>> /\ q \o line \in Sentences
    BY <2>2 DEF Coming
  <2> QED
    BY <2>1, <2>2 DEF Undisturbed
<1>5. gps_is_powered_on' = gps_is_powered_on /\ gps_is_powered_on /\ ~hung
  BY DEF ReceiveByte, Receiving
<1>6. /\ Append(q, Head(s)) \o Tail(s) = w
      /\ w[n + 1] = Head(s)
      /\ Tail(s) = <<>> <=> Len(w) = n + 1
      /\ Tail(s) = <<>> => Append(q, Head(s)) = w
      /\ Len(w) > n
  BY <1>2, <1>3, ByteMoved
<1> HIDE DEF w, n
<1>7. /\ w \in Seq(Chars) /\ Len(w) \in Nat /\ Len(w) <= FifoSize
      /\ \A i \in 1 .. Len(w) : w[i] = LF <=> i = Len(w)
  BY <1>4, Sentence
<1>8. n + 1 \in 1 .. Len(w)
  BY <1>2, <1>6, <1>7
<1>9. Head(s) = LF <=> Tail(s) = <<>>
  BY <1>6, <1>7, <1>8
<1>10. CASE Head(s) # LF
  <2>1. n < FifoSize /\ n + 1 < IndexRange /\ IndexRange \in Nat
    BY <1>2, <1>6, <1>7, <1>8, Sizes
  <2>2. uart_rx_fifo' = Append(q, Head(s))
    BY <1>1, <1>10, <2>1 DEF Put, n
  <2>3. Len(uart_rx_fifo') = n + 1
    BY <1>2, <1>3, <2>2, AppendProperties DEF n
  <2>4. gps_msg_byte_index' = n + 1
    <3> DEFINE m == n + 1
    <3>1. m \in Nat /\ m < IndexRange
      BY <1>2, <2>1
    <3> HIDE DEF m
    <3>2. m % IndexRange = m
      BY <2>1, <3>1
    <3> QED
      BY <1>1, <1>2, <1>10, <3>2 DEF m
  <2>5. line' # <<>>
    BY <1>1, <1>9, <1>10
  <2>6. uart_rx_fifo' # <<>>
    <3>1. n + 1 # 0
      BY <1>2
    <3> QED
      BY <2>3, <3>1, EmptySeq
  <2>7. uart_rx_fifo' \o line' \in Sentences
    BY <1>1, <1>4, <1>6, <2>2
  <2>8. gga_message' = gga_message /\ hung' = hung
    BY <1>1, <1>10
  <2> QED
    BY <1>5, <2>3, <2>4, <2>5, <2>6, <2>7, <2>8 DEF Undisturbed
<1>11. CASE Head(s) = LF
  <2>1. w = Append(q, LF) /\ line' = <<>>
    BY <1>1, <1>6, <1>9, <1>11
  <2>2. gps_msg_byte_index = Len(uart_rx_fifo)
    BY DEF Undisturbed
  <2>3. ParseMessage(Put(LF), (gps_msg_byte_index + 1) % IndexRange)
    BY <1>1, <1>11
  <2>4. /\ uart_rx_fifo' = <<>> /\ hung' = hung
        /\ \A present \in Present : w = Gga(present) =>
             gga_message' = [f \in Fields |-> IF f \in present THEN "right"
                                              ELSE gga_message[f]]
        /\ \/ \E present \in Present : w = Gga(present)
           \/ gga_message' = gga_message
    BY <1>4, <2>1, <2>2, <2>3, WholeLine
  <2>5. \A f \in Fields : gga_message'[f] # "wrong"
    <3>1. \A f \in Fields : gga_message[f] # "wrong"
      BY DEF Undisturbed
    <3> QED
      BY <2>4, <3>1
  <2>6. gps_msg_byte_index' = 0 /\ Len(uart_rx_fifo') = 0
    BY <1>1, <1>11, <2>4, EmptySeq
  <2> QED
    BY <1>5, <2>1, <2>4, <2>5, <2>6 DEF Undisturbed
<1> QED
  BY <1>10, <1>11

LEMMA FaultNext == TypeOK /\ FaultInv /\ [Next]_vars => FaultInv'
<1> SUFFICES ASSUME TypeOK, FaultInv, [Next]_vars, faults' = 0 PROVE Undisturbed'
  BY DEF FaultInv
<1>1. faults \in Nat
  BY Sizes DEF TypeOK
<1>2. CASE ReceiveByte
  <2>1. faults = 0
    BY <1>2 DEF ReceiveByte
  <2> QED
    BY <1>2, <2>1, ReceiveUndisturbed DEF FaultInv
<1>3. CASE LoseBytes
  BY <1>1, <1>3 DEF LoseBytes
<1>4. CASE TurnOn
  BY <1>4 DEF TurnOn, FaultInv, Undisturbed
<1>5. CASE TurnOff
  <2>1. faults = 0 /\ ~(gps_is_powered_on /\ gps_msg_byte_index # 0)
    BY <1>1, <1>5 DEF TurnOff
  <2>2. Undisturbed
    BY <2>1 DEF FaultInv
  <2>3. uart_rx_fifo \in Seq(Chars)
    BY DEF TypeOK
  <2>4. uart_rx_fifo = <<>>
    <3>1. Len(uart_rx_fifo) = 0 => uart_rx_fifo = <<>>
      BY <2>3, EmptySeq
    <3> QED
      BY <2>1, <2>2, <3>1 DEF Undisturbed
  <2>5. /\ line' = <<>> /\ uart_rx_fifo' = uart_rx_fifo /\ hung' = hung
        /\ gps_msg_byte_index' = gps_msg_byte_index /\ gga_message' = Empty
    BY <1>5 DEF TurnOff
  <2>6. \A f \in Fields : Empty[f] # "wrong"
    BY DEF Empty
  <2> QED
    BY <2>2, <2>4, <2>5, <2>6 DEF Undisturbed
<1>6. CASE UNCHANGED vars
  BY <1>6 DEF vars, FaultInv, Undisturbed
<1> QED
  BY <1>2, <1>3, <1>4, <1>5, <1>6 DEF Next

\* Only lost bytes or a sentence cut off harm the parser.
THEOREM OnlyFaultsEverHarm == Spec => []OnlyFaultsHarm
<1>1. FaultInv => OnlyFaultsHarm
  BY DEF FaultInv, Undisturbed, OnlyFaultsHarm
<1> QED
  BY <1>1, TypeInit, TypeNext, FaultInit, FaultNext, PTL DEF Spec


=============================================================================
