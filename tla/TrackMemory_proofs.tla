------------------------ MODULE TrackMemory_proofs ------------------------
(***************************************************************************)
(* Theorems about TrackMemory, for every layout of the flash, every number *)
(* of tracks, samples and faults, and whatever key a word that holds none  *)
(* is taken for: types, that no sample is programmed over, that no         *)
(* acknowledged key is lost, that the list of tracks is complete and in    *)
(* order, and that the flash implements TrackStore.                        *)
(*                                                                         *)
(* The arguments are about where the next programming goes.  From the data *)
(* pointer on, only headers of pages have been programmed, and the pointer *)
(* leaves room for a sample on its page.  Behind the key pointer nothing   *)
(* has been programmed, before it (until a failure) no searched slot is    *)
(* free, and the slot itself is free or holds the key being stored.        *)
(*                                                                         *)
(* That a track is sent as it was recorded is an argument of its own, in   *)
(* the last sections: while nothing fails, the reader that follows a       *)
(* track's pages finds each sample of the log where the writer has put it, *)
(* the key of every track is found, and the header of every finished one   *)
(* has the size of its samples.  A restart counts the keys there are.      *)
(*                                                                         *)
(* The module's recursive functions are the bit operations and the search  *)
(* for a key.  The first sections show that such functions exist, so that  *)
(* they are what their equations say; induction is the least number that   *)
(* is not as it should be.                                                 *)
(***************************************************************************)
EXTENDS TrackMemory, TLAPS, FiniteSetTheorems

-----------------------------------------------------------------------------
(* Recursion on smaller numbers                                            *)

Less == OpToRel(<, Nat)

\* Every nonempty set of numbers has a least one.
LEMMA Least ==
    ASSUME NEW S, S \subseteq Nat, S # {}
    PROVE  \E m \in S : \A k \in S : m <= k
<1>0. \A x, y \in Nat : <<x, y>> \in Less <=> x < y
  BY DEF Less, OpToRel
<1>1. IsWellFoundedOn(Less, Nat)
  BY NatLessThanWellFounded DEF Less
<1>2. PICK m \in S : \A k \in S : ~(<<k, m>> \in Less)
  BY <1>1, WFMin
<1>3. \A k \in S : ~(k < m)
  BY <1>0, <1>2
<1>. QED
  BY <1>3

\* A function f on the numbers with f[n] = step[n][f[next[n]]], its values in V
\* and e in the place of what f[0] would be made of.
Recursion(V, e, next, step) ==
    /\ e \in V
    /\ \A n \in Nat \ {0} : next[n] \in Nat /\ next[n] < n
    /\ \A n \in Nat, v \in V : step[n][v] \in V

Value(g, m, e, next, step) == step[m][IF m = 0 THEN e ELSE g[next[m]]]

\* Such a function up to n.
Partial(g, n, V, e, next, step) ==
    /\ g \in [0 .. n -> V]
    /\ \A m \in 0 .. n : g[m] = Value(g, m, e, next, step)

LEMMA PartialAgree ==
    ASSUME NEW V, NEW e, NEW next, NEW step, Recursion(V, e, next, step),
           NEW n \in Nat, NEW k \in Nat, NEW m \in Nat, m <= n, m <= k,
           NEW g, Partial(g, n, V, e, next, step),
           NEW h, Partial(h, k, V, e, next, step)
    PROVE  g[m] = h[m]
<1>. DEFINE B == {x \in Nat : x <= n /\ x <= k /\ g[x] # h[x]}
<1>1. SUFFICES ASSUME B # {} PROVE FALSE
  OBVIOUS
<1>2. PICK x \in B : \A y \in B : x <= y
  <2>1. B \subseteq Nat
    OBVIOUS
  <2>. HIDE DEF B
  <2>. QED
    BY <1>1, <2>1, Least
<1>3. x \in Nat /\ x \in 0 .. n /\ x \in 0 .. k /\ g[x] # h[x]
  OBVIOUS
<1>4. x # 0 => next[x] \in Nat /\ next[x] < x
  BY <1>3 DEF Recursion
<1>5. x # 0 => g[next[x]] = h[next[x]]
  BY <1>2, <1>3, <1>4
<1>6. g[x] = Value(g, x, e, next, step) /\ h[x] = Value(h, x, e, next, step)
  BY <1>3 DEF Partial
<1>. QED
  BY <1>3, <1>5, <1>6 DEF Value

LEMMA PartialExtends ==
    ASSUME NEW V, NEW e, NEW next, NEW step, Recursion(V, e, next, step),
           NEW n \in Nat,
           NEW G, \A m \in 0 .. n - 1 : Partial(G[m], m, V, e, next, step)
    PROVE  \E g : Partial(g, n, V, e, next, step)
<1>. DEFINE prev == IF n = 0 THEN e ELSE G[next[n]][next[n]]
            g == [m \in 0 .. n |-> IF m < n THEN G[m][m] ELSE step[n][prev]]
<1>1. \A m \in 0 .. n - 1 : m \in Nat /\ m < n /\ m \in 0 .. n /\ G[m][m] \in V
  BY DEF Partial
<1>2. n # 0 => next[n] \in 0 .. n - 1
  BY DEF Recursion
<1>3. prev \in V /\ step[n][prev] \in V
  <2>1. prev \in V
    BY <1>1, <1>2 DEF Recursion
  <2>. HIDE DEF prev
  <2>. QED
    BY <2>1 DEF Recursion
<1>4. /\ g \in [0 .. n -> V]
      /\ \A m \in 0 .. n - 1 : g[m] = G[m][m]
      /\ n \in 0 .. n
      /\ g[n] = step[n][prev]
  BY <1>1, <1>3
<1>. HIDE DEF g
<1>5. g[n] = Value(g, n, e, next, step)
  BY <1>2, <1>4 DEF Value
<1>6. ASSUME NEW m \in 0 .. n - 1
      PROVE  g[m] = Value(g, m, e, next, step)
  <2>1. G[m][m] = Value(G[m], m, e, next, step)
    BY <1>1 DEF Partial
  <2>2. CASE m = 0
    BY <1>4, <2>1, <2>2 DEF Value
  <2>3. CASE m # 0
    <3>1. m \in Nat /\ next[m] \in Nat /\ next[m] < m
      BY <2>3 DEF Recursion
    <3>2. next[m] \in 0 .. n - 1 /\ next[m] <= m /\ next[m] <= next[m]
      BY <3>1
    <3>3. Partial(G[m], m, V, e, next, step)
      OBVIOUS
    <3>4. Partial(G[next[m]], next[m], V, e, next, step)
      BY <3>2
    <3>5. G[m][next[m]] = G[next[m]][next[m]]
      BY <3>1, <3>2, <3>3, <3>4, PartialAgree
    <3>6. g[m] = G[m][m] /\ g[next[m]] = G[next[m]][next[m]]
      BY <1>4, <3>2
    <3>. QED
      BY <2>1, <2>3, <3>5, <3>6 DEF Value
  <2>. QED
    BY <2>2, <2>3
<1>7. \A m \in 0 .. n : m = n \/ m \in 0 .. n - 1
  OBVIOUS
<1>. QED
  BY <1>4, <1>5, <1>6, <1>7 DEF Partial

\* A recursion on smaller numbers has a solution.
LEMMA RecursionExists ==
    ASSUME NEW V, NEW e, NEW next, NEW step, Recursion(V, e, next, step)
    PROVE  \E f \in [Nat -> V] : \A n \in Nat : f[n] = Value(f, n, e, next, step)
<1>. DEFINE Sol(g, n) == Partial(g, n, V, e, next, step)
            G == [n \in Nat |-> CHOOSE g : Sol(g, n)]
            B == {n \in Nat : ~ \E g : Sol(g, n)}
<1>1. B = {}
  <2>1. SUFFICES ASSUME B # {} PROVE FALSE
    OBVIOUS
  <2>2. B \subseteq Nat
    OBVIOUS
  <2>3. PICK n \in B : \A m \in B : n <= m
    <3>. HIDE DEF B
    <3>. QED
      BY <2>1, <2>2, Least
  <2>. HIDE DEF Sol
  <2>4. ASSUME NEW m \in 0 .. n - 1
        PROVE  Sol(G[m], m)
    <3>1. n \in Nat /\ m \in Nat /\ m < n
      OBVIOUS
    <3>2. m \notin B
      <4>. HIDE DEF B
      <4>. QED
        BY <2>3, <3>1
    <3>. QED
      BY <3>1, <3>2
  <2>. HIDE DEF G
  <2>5. \E g : Partial(g, n, V, e, next, step)
    <3>1. \A m \in 0 .. n - 1 : Partial(G[m], m, V, e, next, step)
      BY <2>4 DEF Sol
    <3>. QED
      BY <3>1, PartialExtends
  <2>. QED
    BY <2>5 DEF Sol
<1>2. \A n \in Nat : Partial(G[n], n, V, e, next, step)
  <2>1. \A n \in Nat : \E g : Sol(g, n)
    BY <1>1
  <2>. HIDE DEF Sol
  <2>2. \A n \in Nat : Sol(G[n], n)
    BY <2>1
  <2>. HIDE DEF G
  <2>. QED
    BY <2>2 DEF Sol
<1>. HIDE DEF G
<1>. DEFINE f == [n \in Nat |-> G[n][n]]
<1>3. \A n \in Nat : n \in 0 .. n /\ f[n] = G[n][n]
  OBVIOUS
<1>4. f \in [Nat -> V]
  BY <1>2, <1>3 DEF Partial
<1>. HIDE DEF f
<1>5. ASSUME NEW n \in Nat
      PROVE  f[n] = Value(f, n, e, next, step)
  <2>1. G[n][n] = Value(G[n], n, e, next, step)
    BY <1>2, <1>3 DEF Partial
  <2>2. CASE n = 0
    BY <1>3, <2>1, <2>2 DEF Value
  <2>3. CASE n # 0
    <3>1. next[n] \in Nat /\ next[n] <= n /\ next[n] <= next[n]
      BY <2>3 DEF Recursion
    <3>2. Partial(G[n], n, V, e, next, step)
      BY <1>2
    <3>3. Partial(G[next[n]], next[n], V, e, next, step)
      BY <1>2, <3>1
    <3>4. G[n][next[n]] = G[next[n]][next[n]]
      BY <3>1, <3>2, <3>3, PartialAgree
    <3>. QED
      BY <1>3, <2>1, <2>3, <3>1, <3>4 DEF Value
  <2>. QED
    BY <2>2, <2>3
<1>. QED
  BY <1>4, <1>5

-----------------------------------------------------------------------------
(* Bit operations                                                          *)

\* The two operations on bits are of one kind.
OnBits(f, none, bit) ==
    /\ f \in [Nat -> [Nat -> Nat]]
    /\ \A a, b \in Nat :
          f[a][b] = IF a = 0 \/ b = 0 THEN none[a][b]
                    ELSE 2 * f[a \div 2][b \div 2] + bit[a][b]

Numbers(f) == \A a, b \in Nat : f[a][b] \in Nat

LEMMA BitsExist ==
    ASSUME NEW none, NEW bit, Numbers(none), Numbers(bit)
    PROVE  \E f : OnBits(f, none, bit)
<1>. DEFINE V == [Nat -> Nat]
            e == [b \in Nat |-> 0]
            next == [n \in Nat |-> n \div 2]
            step == [n \in Nat |-> [v \in V |-> [b \in Nat |->
                       IF n = 0 \/ b = 0 THEN none[n][b]
                       ELSE 2 * v[b \div 2] + bit[n][b]]]]
<1>1. Recursion(V, e, next, step)
  <2>1. e \in V
    OBVIOUS
  <2>2. \A n \in Nat \ {0} : next[n] \in Nat /\ next[n] < n
    OBVIOUS
  <2>3. ASSUME NEW n \in Nat, NEW v \in V
        PROVE  step[n][v] \in V
    <3>1. \A b \in Nat : b \div 2 \in Nat
      OBVIOUS
    <3>2. \A b \in Nat : v[b \div 2] \in Nat
      BY <3>1
    <3>3. \A b \in Nat : none[n][b] \in Nat /\ 2 * v[b \div 2] + bit[n][b] \in Nat
      BY <3>2 DEF Numbers
    <3>. QED
      BY <3>3
  <2>. QED
    BY <2>1, <2>2, <2>3 DEF Recursion
<1>2. PICK f \in [Nat -> V] : \A n \in Nat : f[n] = Value(f, n, e, next, step)
  <2>. HIDE DEF V, e, next, step
  <2>. QED
    BY <1>1, RecursionExists
<1>3. ASSUME NEW a \in Nat
      PROVE  f[a] = [b \in Nat |->
                       IF a = 0 \/ b = 0 THEN none[a][b]
                       ELSE 2 * f[a \div 2][b \div 2] + bit[a][b]]
  <2>1. a \div 2 \in Nat
    OBVIOUS
  <2>2. f[a \div 2] \in V
    <3>. HIDE DEF V
    <3>. QED
      BY <2>1
  <2>3. f[a] = step[a][IF a = 0 THEN e ELSE f[a \div 2]]
    BY <1>2 DEF Value
  <2>4. CASE a = 0
    BY <2>3, <2>4
  <2>5. CASE a # 0
    BY <2>1, <2>2, <2>3, <2>5
  <2>. QED
    BY <2>4, <2>5
<1>4. ASSUME NEW a \in Nat, NEW b \in Nat
      PROVE  f[a][b] = IF a = 0 \/ b = 0 THEN none[a][b]
                       ELSE 2 * f[a \div 2][b \div 2] + bit[a][b]
  BY <1>3
<1>. QED
  BY <1>4 DEF OnBits

LEMMA AndEquation ==
    \A a, b \in Nat :
        AndBits[a][b] = IF a = 0 \/ b = 0 THEN 0
                        ELSE 2 * AndBits[a \div 2][b \div 2] + (a % 2) * (b % 2)
<1>. DEFINE P(f) == f = [a \in Nat |-> [b \in Nat |->
                           IF a = 0 \/ b = 0 THEN 0
                           ELSE 2 * f[a \div 2][b \div 2] + (a % 2) * (b % 2)]]
            none == [a \in Nat |-> [b \in Nat |-> 0]]
            bit == [a \in Nat |-> [b \in Nat |-> (a % 2) * (b % 2)]]
<1>1. \A a, b \in Nat : none[a][b] = 0 /\ bit[a][b] = (a % 2) * (b % 2)
  OBVIOUS
<1>2. Numbers(none) /\ Numbers(bit)
  <2>1. \A b \in Nat : b % 2 \in {0, 1}
    OBVIOUS
  <2>2. \A x, y \in {0, 1} : x * y \in Nat
    OBVIOUS
  <2>. QED
    BY <1>1, <2>1, <2>2 DEF Numbers
<1>. HIDE DEF none, bit
<1>3. PICK f : OnBits(f, none, bit)
  BY <1>2, BitsExist
<1>4. P(f)
  <2>1. ASSUME NEW a \in Nat
        PROVE  f[a] = [b \in Nat |->
                         IF a = 0 \/ b = 0 THEN 0
                         ELSE 2 * f[a \div 2][b \div 2] + (a % 2) * (b % 2)]
    <3>1. f[a] \in [Nat -> Nat]
      BY <1>3 DEF OnBits
    <3>2. \A b \in Nat : f[a][b] = IF a = 0 \/ b = 0 THEN none[a][b]
                                   ELSE 2 * f[a \div 2][b \div 2] + bit[a][b]
      BY <1>3 DEF OnBits
    <3>. DEFINE r == [b \in Nat |->
                       IF a = 0 \/ b = 0 THEN 0
                         ELSE 2 * f[a \div 2][b \div 2] + (a % 2) * (b % 2)]
    <3>3. \A b \in Nat : f[a][b] = r[b]
      BY <1>1, <3>2
    <3>4. r = [b \in Nat |-> r[b]]
      OBVIOUS
    <3>. HIDE DEF r
    <3>5. f[a] = r
      BY <3>1, <3>3, <3>4
    <3>. QED
      BY <3>5 DEF r
  <2>. QED
    BY <1>3, <2>1 DEF OnBits
<1>5. AndBits = CHOOSE g : P(g)
  BY DEF AndBits
<1>. HIDE DEF P
<1>6. P(AndBits)
  BY <1>4, <1>5
<1>7. ASSUME NEW a \in Nat
      PROVE  AndBits[a] = [b \in Nat |->
                IF a = 0 \/ b = 0 THEN 0
                ELSE 2 * AndBits[a \div 2][b \div 2] + (a % 2) * (b % 2)]
  BY <1>6 DEF P
<1>. QED
  BY <1>7

LEMMA OrEquation ==
    \A a, b \in Nat :
        OrBits[a][b] = IF a = 0 \/ b = 0 THEN a + b
                       ELSE 2 * OrBits[a \div 2][b \div 2]
                              + (IF a % 2 = 1 THEN 1 ELSE b % 2)
<1>. DEFINE P(f) == f = [a \in Nat |-> [b \in Nat |->
                           IF a = 0 \/ b = 0 THEN a + b
                           ELSE 2 * f[a \div 2][b \div 2]
                                  + (IF a % 2 = 1 THEN 1 ELSE b % 2)]]
            none == [a \in Nat |-> [b \in Nat |-> a + b]]
            bit == [a \in Nat |-> [b \in Nat |-> IF a % 2 = 1 THEN 1 ELSE b % 2]]
<1>1. \A a, b \in Nat : /\ none[a][b] = a + b
                        /\ bit[a][b] = IF a % 2 = 1 THEN 1 ELSE b % 2
  OBVIOUS
<1>2. Numbers(none) /\ Numbers(bit)
  BY <1>1 DEF Numbers
<1>. HIDE DEF none, bit
<1>3. PICK f : OnBits(f, none, bit)
  BY <1>2, BitsExist
<1>4. P(f)
  <2>1. ASSUME NEW a \in Nat
        PROVE  f[a] = [b \in Nat |->
                         IF a = 0 \/ b = 0 THEN a + b
                         ELSE 2 * f[a \div 2][b \div 2]
                                + (IF a % 2 = 1 THEN 1 ELSE b % 2)]
    <3>1. f[a] \in [Nat -> Nat]
      BY <1>3 DEF OnBits
    <3>2. \A b \in Nat : f[a][b] = IF a = 0 \/ b = 0 THEN none[a][b]
                                   ELSE 2 * f[a \div 2][b \div 2] + bit[a][b]
      BY <1>3 DEF OnBits
    <3>. DEFINE r == [b \in Nat |->
                       IF a = 0 \/ b = 0 THEN a + b
                         ELSE 2 * f[a \div 2][b \div 2]
                                + (IF a % 2 = 1 THEN 1 ELSE b % 2)]
    <3>3. \A b \in Nat : f[a][b] = r[b]
      BY <1>1, <3>2
    <3>4. r = [b \in Nat |-> r[b]]
      OBVIOUS
    <3>. HIDE DEF r
    <3>5. f[a] = r
      BY <3>1, <3>3, <3>4
    <3>. QED
      BY <3>5 DEF r
  <2>. QED
    BY <1>3, <2>1 DEF OnBits
<1>5. OrBits = CHOOSE g : P(g)
  BY DEF OrBits
<1>. HIDE DEF P
<1>6. P(OrBits)
  BY <1>4, <1>5
<1>7. ASSUME NEW a \in Nat
      PROVE  OrBits[a] = [b \in Nat |->
                IF a = 0 \/ b = 0 THEN a + b
                ELSE 2 * OrBits[a \div 2][b \div 2]
                       + (IF a % 2 = 1 THEN 1 ELSE b % 2)]
  BY <1>6 DEF P
<1>. QED
  BY <1>7

\* A programming clears bits and sets none.
LEMMA AndClears ==
    \A a, b \in Nat : AndBits[a][b] \in 0 .. a
<1>. DEFINE B == {a \in Nat : \E b \in Nat : AndBits[a][b] \notin 0 .. a}
<1>1. SUFFICES ASSUME B # {} PROVE FALSE
  OBVIOUS
<1>2. PICK a \in B : \A x \in B : a <= x
  <2>1. B \subseteq Nat
    OBVIOUS
  <2>. HIDE DEF B
  <2>. QED
    BY <1>1, <2>1, Least
<1>3. PICK b \in Nat : AndBits[a][b] \notin 0 .. a
  OBVIOUS
<1>4. a \in Nat /\ a # 0 /\ b # 0
  BY <1>3, AndEquation
<1>5. a \div 2 \in Nat /\ a \div 2 < a /\ b \div 2 \in Nat
  BY <1>4
<1>6. AndBits[a \div 2][b \div 2] \in 0 .. (a \div 2)
  BY <1>2, <1>4, <1>5
<1>7. (a % 2) * (b % 2) \in 0 .. (a % 2)
  <2>1. a % 2 \in {0, 1} /\ b % 2 \in {0, 1}
    BY <1>4
  <2>2. \A x, y \in {0, 1} : x * y \in 0 .. x
    OBVIOUS
  <2>. QED
    BY <2>1, <2>2
<1>8. AndBits[a][b] = 2 * AndBits[a \div 2][b \div 2] + (a % 2) * (b % 2)
  BY <1>4, AndEquation
<1>9. \A x, y \in Int : x \in 0 .. (a \div 2) /\ y \in 0 .. (a % 2) =>
                            2 * x + y \in 0 .. a
  BY <1>4
<1>. QED
  BY <1>3, <1>6, <1>7, <1>8, <1>9

\* What is programmed again stays.
LEMMA AndSame ==
    \A a \in Nat : AndBits[a][a] = a
<1>. DEFINE B == {a \in Nat : AndBits[a][a] # a}
<1>1. SUFFICES ASSUME B # {} PROVE FALSE
  OBVIOUS
<1>2. PICK a \in B : \A x \in B : a <= x
  <2>1. B \subseteq Nat
    OBVIOUS
  <2>. HIDE DEF B
  <2>. QED
    BY <1>1, <2>1, Least
<1>3. a \in Nat /\ a # 0
  BY AndEquation
<1>4. a \div 2 \in Nat /\ a \div 2 < a
  BY <1>3
<1>5. AndBits[a \div 2][a \div 2] = a \div 2
  BY <1>2, <1>3, <1>4
<1>6. (a % 2) * (a % 2) = a % 2
  <2>1. a % 2 \in {0, 1}
    BY <1>3
  <2>. QED
    BY <2>1
<1>7. AndBits[a][a] = 2 * AndBits[a \div 2][a \div 2] + (a % 2) * (a % 2)
  BY <1>3, AndEquation
<1>8. 2 * (a \div 2) + (a % 2) = a
  BY <1>3
<1>. QED
  BY <1>5, <1>6, <1>7, <1>8

LEMMA OrNat ==
    \A a, b \in Nat : OrBits[a][b] \in Nat
<1>. DEFINE B == {a \in Nat : \E b \in Nat : OrBits[a][b] \notin Nat}
<1>1. SUFFICES ASSUME B # {} PROVE FALSE
  OBVIOUS
<1>2. PICK a \in B : \A x \in B : a <= x
  <2>1. B \subseteq Nat
    OBVIOUS
  <2>. HIDE DEF B
  <2>. QED
    BY <1>1, <2>1, Least
<1>3. PICK b \in Nat : OrBits[a][b] \notin Nat
  OBVIOUS
<1>4. a \in Nat /\ a # 0 /\ b # 0
  BY <1>3, OrEquation
<1>5. a \div 2 \in Nat /\ a \div 2 < a /\ b \div 2 \in Nat
  BY <1>4
<1>6. OrBits[a \div 2][b \div 2] \in Nat
  BY <1>2, <1>4, <1>5
<1>7. (IF a % 2 = 1 THEN 1 ELSE b % 2) \in Nat
  OBVIOUS
<1>8. \A x, y \in Nat : 2 * x + y \in Nat
  OBVIOUS
<1>9. OrBits[a][b] = 2 * OrBits[a \div 2][b \div 2]
                       + (IF a % 2 = 1 THEN 1 ELSE b % 2)
  BY <1>4, OrEquation
<1>10. 2 * OrBits[a \div 2][b \div 2] + (IF a % 2 = 1 THEN 1 ELSE b % 2) \in Nat
  BY <1>6, <1>7, <1>8
<1>. QED
  BY <1>3, <1>9, <1>10

LEMMA OrNothing ==
    \A a \in Nat : OrBits[a][0] = a
<1>1. \A a \in Nat, b \in Nat : b = 0 => OrBits[a][b] = a + b
  BY OrEquation
<1>2. \A a \in Nat : OrBits[a][0] = a + 0
  BY <1>1
<1>. QED
  BY <1>2

-----------------------------------------------------------------------------
(* The layout and the search for a key                                     *)

Slots == 0 .. SlotRange - 1
Answers == {NotFound, TimedOut} \cup {Found(p) : p \in Nat}

\* What Mem_Org_Find_Key makes of the word it reads, if there are reads left;
\* more[k] is what it finds from slot k on.
Answer(fl, t, page, k, more) ==
    IF fl[page * PageSize + 1 + k] = Erased THEN NotFound
    ELSE LET found == AsKey(fl[page * PageSize + 1 + k])
         IN  IF found.track = t /\ ~found.open THEN Found(found.page)
             ELSE IF found.track > t THEN more[(k + SlotRange - 1) % SlotRange]
             ELSE more[(k + 1) % SlotRange]

SearchPage(t) == IF t = 0 THEN 0
                 ELSE (((t - 1) \div KeyBytesOnPage) \div 4) % PageNumbers
FirstSlot(t) == IF t = 0 THEN 0
                ELSE (((t - 1) % KeyBytesOnPage) \div 4) % SlotRange

LEMMA Layout ==
    /\ PageSize \in Nat /\ PageSize > 2
    /\ SampleSize \in Nat \ {0}
    /\ KeyPages \in Nat \ {0}
    /\ DataPages \in Nat \ {0}
    /\ SlotRange \in Nat \ {0}
    /\ PageNumbers \in Nat \ {0}
    /\ KeyAddressPages \in Nat \ {0}
    /\ SizeRange \in Nat \ {0}
    /\ MAX_FLASH_OPERATION_ERROR_COUNTER \in Nat \ {0}
    /\ MaxSamples \in Nat \ {0}
    /\ MaxFaults \in Nat
    /\ SampleSize + 1 < PageSize
BY LayoutAssumption

LEMMA LayoutWords ==
    /\ DataStart \in Nat /\ DataEnd \in Nat
    /\ PageSize <= DataStart /\ DataStart < DataEnd
    /\ KeysOnPage \in Nat \ {0} /\ KeyBytesOnPage \in Nat \ {0}
<1>1. \A x, y \in Nat \ {0} : x * y \in Nat /\ y <= x * y
  OBVIOUS
<1>2. KeyPages * PageSize \in Nat /\ PageSize <= KeyPages * PageSize
  BY <1>1, Layout
<1>3. DataPages * PageSize \in Nat /\ PageSize <= DataPages * PageSize
  BY <1>1, Layout
<1>. QED
  BY <1>2, <1>3, Layout DEF DataStart, DataEnd, KeysOnPage, KeyBytesOnPage

LEMMA KeyRead ==
    ASSUME NEW word \in Word
    PROVE  AsKey(word) \in Keys
<1>1. CASE word \in Keys
  BY <1>1 DEF AsKey, Keys
<1>2. CASE word \in OtherWords
  <2>1. word.kind # "key"
    BY <1>2 DEF OtherWords, Erased, Corrupt
  <2>. QED
    BY <1>2, <2>1, MisreadAssumption DEF AsKey
<1>. QED
  BY <1>1, <1>2 DEF Word

LEMMA SearchPlace ==
    ASSUME NEW t \in Nat
    PROVE  /\ SearchPage(t) \in 0 .. PageNumbers - 1
           /\ FirstSlot(t) \in Slots
           /\ \A k \in Slots : SearchPage(t) * PageSize + 1 + k \in Words
<1>1. \A x \in Nat, m \in Nat \ {0} : x \div m \in Nat /\ x % m \in 0 .. m - 1
  OBVIOUS
<1>2. SearchPage(t) \in 0 .. PageNumbers - 1
  <2>1. CASE t = 0
    BY <2>1, Layout DEF SearchPage
  <2>2. CASE t # 0
    <3>1. t - 1 \in Nat
      BY <2>2
    <3>2. (t - 1) \div KeyBytesOnPage \in Nat
      BY <1>1, <3>1, LayoutWords
    <3>3. ((t - 1) \div KeyBytesOnPage) \div 4 \in Nat
      BY <1>1, <3>2
    <3>. QED
      BY <1>1, <2>2, <3>3, Layout DEF SearchPage
  <2>. QED
    BY <2>1, <2>2
<1>3. FirstSlot(t) \in Slots
  <2>1. CASE t = 0
    BY <2>1, Layout DEF FirstSlot, Slots
  <2>2. CASE t # 0
    <3>1. t - 1 \in Nat
      BY <2>2
    <3>2. (t - 1) % KeyBytesOnPage \in Nat
      BY <1>1, <3>1, LayoutWords
    <3>3. ((t - 1) % KeyBytesOnPage) \div 4 \in Nat
      BY <1>1, <3>2
    <3>. QED
      BY <1>1, <2>2, <3>3, Layout DEF FirstSlot, Slots
  <2>. QED
    BY <2>1, <2>2
<1>4. SearchPage(t) * PageSize \in 0 .. (PageNumbers - 1) * PageSize
  <2>1. \A x, y \in Nat, m \in Nat : x <= y => x * m \in 0 .. y * m
    OBVIOUS
  <2>. QED
    BY <1>2, <2>1, Layout
<1>5. \A k \in Slots : SearchPage(t) * PageSize + 1 + k \in Words
  <2>1. (PageNumbers - 1) * PageSize + SlotRange < DataEnd
    BY LayoutAssumption
  <2>2. (PageNumbers - 1) * PageSize \in Nat
    BY Layout
  <2>. QED
    BY <1>4, <2>1, <2>2, Layout, LayoutWords DEF Slots, Words
<1>. QED
  BY <1>2, <1>3, <1>5

LEMMA AnswerType ==
    ASSUME NEW fl \in [Words -> Word], NEW t \in Nat, NEW k \in Slots,
           NEW more \in [Slots -> Answers]
    PROVE  Answer(fl, t, SearchPage(t), k, more) \in Answers
<1>. DEFINE word == fl[SearchPage(t) * PageSize + 1 + k]
<1>1. word \in Word
  BY SearchPlace
<1>2. AsKey(word) \in Keys
  BY <1>1, KeyRead
<1>3. (k + SlotRange - 1) % SlotRange \in Slots /\ (k + 1) % SlotRange \in Slots
  <2>1. \A x \in Nat, m \in Nat \ {0} : x % m \in 0 .. m - 1
    OBVIOUS
  <2>2. k + SlotRange - 1 \in Nat /\ k + 1 \in Nat
    BY Layout DEF Slots
  <2>. QED
    BY <2>1, <2>2, Layout DEF Slots
<1>4. /\ more[(k + SlotRange - 1) % SlotRange] \in Answers
      /\ more[(k + 1) % SlotRange] \in Answers
  BY <1>3
<1>5. AsKey(word).page \in Nat
  BY <1>2 DEF Keys
<1>6. Found(AsKey(word).page) \in Answers /\ NotFound \in Answers
  BY <1>5 DEF Answers
<1>. QED
  BY <1>4, <1>6 DEF Answer

\* The search of Mem_Org_Find_Key, read by read.
Search(f, fl, t) ==
    f = [reads \in 0 .. SlotRange |-> [k \in Slots |->
            IF reads = 0 THEN TimedOut
            ELSE Answer(fl, t, SearchPage(t), k, f[reads - 1])]]

LEMMA SearchExists ==
    ASSUME NEW fl \in [Words -> Word], NEW t \in Nat
    PROVE  \E f : /\ f \in [0 .. SlotRange -> [Slots -> Answers]]
                  /\ Search(f, fl, t)
<1>. DEFINE V == [Slots -> Answers]
            e == [k \in Slots |-> TimedOut]
            next == [n \in Nat |-> n - 1]
            row(n, v) == [k \in Slots |->
                            IF n = 0 THEN TimedOut
                            ELSE Answer(fl, t, SearchPage(t), k, v)]
            step == [n \in Nat |-> [v \in V |-> row(n, v)]]
<1>1. TimedOut \in Answers
  BY DEF Answers
<1>2. \A n \in Nat, v \in V : row(n, v) \in V
  BY <1>1, AnswerType
<1>. HIDE DEF row
<1>3. \A n \in Nat, v \in V : step[n][v] = row(n, v)
  OBVIOUS
<1>4. e \in V
  BY <1>1
<1>. HIDE DEF V
<1>5. Recursion(V, e, next, step)
  BY <1>2, <1>3, <1>4 DEF Recursion
<1>6. PICK F \in [Nat -> V] : \A n \in Nat : F[n] = Value(F, n, e, next, step)
  <2>. HIDE DEF e, next, step
  <2>. QED
    BY <1>5, RecursionExists
<1>7. \A n \in Nat : n # 0 => n - 1 \in Nat /\ F[n - 1] \in V /\ next[n] = n - 1
  OBVIOUS
<1>8. \A n \in Nat : n # 0 => F[n] = row(n, F[n - 1])
  <2>. HIDE DEF e, next, step
  <2>. QED
    BY <1>3, <1>6, <1>7 DEF Value
<1>9. F[0] = row(0, e)
  <2>. HIDE DEF e, next, step
  <2>. QED
    BY <1>3, <1>4, <1>6 DEF Value
<1>. DEFINE f == [reads \in 0 .. SlotRange |-> F[reads]]
<1>10. f \in [0 .. SlotRange -> V]
  BY Layout
<1>11. ASSUME NEW reads \in 0 .. SlotRange
       PROVE  f[reads] = [k \in Slots |->
                            IF reads = 0 THEN TimedOut
                            ELSE Answer(fl, t, SearchPage(t), k, f[reads - 1])]
  <2>1. CASE reads = 0
    BY <1>9, <2>1, Layout DEF row
  <2>2. CASE reads # 0
    <3>1. reads - 1 \in 0 .. SlotRange /\ reads \in Nat
      BY <2>2, Layout
    <3>2. f[reads] = row(reads, f[reads - 1])
      BY <1>8, <2>2, <3>1
    <3>. HIDE DEF f
    <3>. QED
      BY <2>2, <3>2 DEF row
  <2>. QED
    BY <2>1, <2>2
<1>. HIDE DEF f
<1>12. f = [reads \in 0 .. SlotRange |-> [k \in Slots |->
              IF reads = 0 THEN TimedOut
              ELSE Answer(fl, t, SearchPage(t), k, f[reads - 1])]]
  BY <1>10, <1>11
<1>. QED
  BY <1>10, <1>12 DEF Search, V

\* Mem_Org_Find_Key returns what this search returns.
LEMMA FindKeySearch ==
    ASSUME NEW fl \in [Words -> Word], NEW t \in Nat
    PROVE  \E f : /\ Search(f, fl, t)
                  /\ FindKey(fl, t) = f[SlotRange][FirstSlot(t)]
<1>. DEFINE P(f) == f = [reads \in 0 .. SlotRange |-> [k \in 0 .. SlotRange - 1 |->
            IF reads = 0 THEN TimedOut
            ELSE IF fl[SearchPage(t) * PageSize + 1 + k] = Erased THEN NotFound
            ELSE LET found == AsKey(fl[SearchPage(t) * PageSize + 1 + k])
                 IN  IF found.track = t /\ ~found.open THEN Found(found.page)
                     ELSE IF found.track > t
                       THEN f[reads - 1][(k + SlotRange - 1) % SlotRange]
                     ELSE f[reads - 1][(k + 1) % SlotRange]]]
<1>1. FindKey(fl, t) = (CHOOSE f : P(f))[SlotRange][FirstSlot(t)]
  BY DEF FindKey, SearchPage, FirstSlot
<1>2. \A f : P(f) <=> Search(f, fl, t)
  BY DEF Search, Answer, Slots
<1>3. \E f : P(f)
  BY <1>2, SearchExists
<1>. HIDE DEF P
<1>. QED
  BY <1>1, <1>2, <1>3

LEMMA FindKeyType ==
    ASSUME NEW fl \in [Words -> Word], NEW t \in Nat
    PROVE  FindKey(fl, t) \in Answers
<1>1. PICK f : Search(f, fl, t) /\ FindKey(fl, t) = f[SlotRange][FirstSlot(t)]
  BY FindKeySearch
<1>2. f \in [0 .. SlotRange -> [Slots -> Answers]]
  <2>1. TimedOut \in Answers
    BY DEF Answers
  <2>. DEFINE B == {n \in 0 .. SlotRange : f[n] \notin [Slots -> Answers]}
  <2>2. \A n \in 0 .. SlotRange :
            f[n] = [k \in Slots |->
                      IF n = 0 THEN TimedOut
                      ELSE Answer(fl, t, SearchPage(t), k, f[n - 1])]
    BY <1>1 DEF Search
  <2>3. B = {}
    <3>1. SUFFICES ASSUME B # {} PROVE FALSE
      OBVIOUS
    <3>2. B \subseteq Nat
      BY Layout
    <3>3. PICK n \in B : \A m \in B : n <= m
      <4>. HIDE DEF B
      <4>. QED
        BY <3>1, <3>2, Least
    <3>4. n \in 0 .. SlotRange /\ n \in Nat /\ f[n] \notin [Slots -> Answers]
      BY <3>2
    <3>5. n # 0
      BY <2>1, <2>2, <3>4
    <3>6. n - 1 \in 0 .. SlotRange /\ n - 1 < n
      BY <3>4, <3>5, Layout
    <3>7. f[n - 1] \in [Slots -> Answers]
      BY <3>3, <3>6
    <3>8. \A k \in Slots : Answer(fl, t, SearchPage(t), k, f[n - 1]) \in Answers
      BY <3>7, AnswerType
    <3>. QED
      BY <2>2, <3>4, <3>5, <3>8
  <2>4. \A n \in 0 .. SlotRange : f[n] \in [Slots -> Answers]
    BY <2>3
  <2>5. f = [n \in 0 .. SlotRange |-> f[n]]
    BY <1>1 DEF Search
  <2>. QED
    BY <2>4, <2>5
<1>3. SlotRange \in 0 .. SlotRange /\ FirstSlot(t) \in Slots
  BY Layout, SearchPlace
<1>. QED
  BY <1>1, <1>2, <1>3

\* After an erasure the search ends at its first read.
LEMMA FindKeyErased ==
    FindKey([w \in Words |-> Erased], 0) = NotFound
<1>. DEFINE fl == [w \in Words |-> Erased]
<1>1. fl \in [Words -> Word]
  BY DEF Word, OtherWords
<1>2. \A k \in Slots : fl[SearchPage(0) * PageSize + 1 + k] = Erased
  BY SearchPlace
<1>. HIDE DEF fl
<1>3. PICK f : Search(f, fl, 0) /\ FindKey(fl, 0) = f[SlotRange][FirstSlot(0)]
  BY <1>1, FindKeySearch
<1>4. SlotRange \in 0 .. SlotRange /\ SlotRange # 0 /\ FirstSlot(0) \in Slots
  BY Layout, SearchPlace
<1>5. f[SlotRange][FirstSlot(0)]
        = Answer(fl, 0, SearchPage(0), FirstSlot(0), f[SlotRange - 1])
  BY <1>3, <1>4 DEF Search
<1>6. Answer(fl, 0, SearchPage(0), FirstSlot(0), f[SlotRange - 1]) = NotFound
  BY <1>2, <1>4 DEF Answer
<1>. QED
  BY <1>3, <1>5, <1>6 DEF fl

LEMMA MinType ==
    ASSUME NEW S, S \subseteq Nat, S # {}
    PROVE  Min(S) \in S /\ \A x \in S : Min(S) <= x
BY Least DEF Min

LEMMA MaxType ==
    ASSUME NEW n \in Nat, NEW S, S \subseteq 0 .. n, S # {}
    PROVE  Max(S) \in S /\ \A x \in S : Max(S) >= x
<1>. DEFINE R == {n - x : x \in S}
<1>1. R \subseteq Nat /\ R # {}
  OBVIOUS
<1>2. PICK r \in R : \A y \in R : r <= y
  <2>. HIDE DEF R
  <2>. QED
    BY <1>1, Least
<1>3. PICK m \in S : r = n - m
  OBVIOUS
<1>4. \A x \in S : m >= x
  <2>1. ASSUME NEW x \in S
        PROVE  m >= x
    <3>1. n - x \in R
      OBVIOUS
    <3>2. n - m <= n - x
      BY <1>2, <1>3, <3>1
    <3>3. m \in Int /\ x \in Int /\ n \in Int
      OBVIOUS
    <3>. QED
      BY <3>2, <3>3
  <2>. QED
    BY <2>1
<1>. QED
  BY <1>4 DEF Max

-----------------------------------------------------------------------------
(* Types                                                                   *)

LEMMA ProgrammedType ==
    ASSUME NEW old \in Word, NEW new \in Word
    PROVE  Programmed(old, new) \in Word
<1>1. Corrupt \in Word
  BY DEF Word, OtherWords
<1>2. CASE old.kind = "key" /\ new.kind = "key"
  <2>1. old \in Keys /\ new \in Keys
    BY <1>2 DEF Word, OtherWords, Erased, Corrupt
  <2>2. /\ AndBits[old.track][new.track] \in Nat
        /\ AndBits[old.page][new.page] \in Nat
    BY <2>1, AndClears DEF Keys
  <2>3. (old.open /\ new.open) \in BOOLEAN
    BY <2>1 DEF Keys
  <2>4. Key(AndBits[old.track][new.track], AndBits[old.page][new.page],
            old.open /\ new.open) \in Keys
    BY <2>2, <2>3 DEF Key, Keys
  <2>5. old # Erased
    BY <1>2 DEF Erased
  <2>. QED
    BY <1>2, <2>4, <2>5 DEF Programmed, Word
<1>3. CASE old.kind = "header" /\ new.kind = "header"
  <2>1. /\ old \in [kind : {"header"}, size : 0 .. SizeRange - 1]
        /\ new \in [kind : {"header"}, size : 0 .. SizeRange - 1]
    BY <1>3 DEF Word, Keys, OtherWords, Erased, Corrupt
  <2>2. AndBits[old.size][new.size] \in 0 .. old.size
    BY <2>1, AndClears, Layout
  <2>3. Header(AndBits[old.size][new.size]) \in Word
    BY <2>1, <2>2, Layout DEF Header, Word, OtherWords
  <2>4. old # Erased
    BY <1>3 DEF Erased
  <2>. QED
    BY <1>3, <2>3, <2>4 DEF Programmed
<1>4. CASE /\ ~(old.kind = "key" /\ new.kind = "key")
           /\ ~(old.kind = "header" /\ new.kind = "header")
  BY <1>1, <1>4 DEF Programmed
<1>. QED
  BY <1>2, <1>3, <1>4

LEMMA Addresses ==
    ASSUME NEW a \in Nat
    PROVE  /\ a % PageSize \in 0 .. PageSize - 1
           /\ PageStart(a) \in Nat /\ PageStart(a) <= a
           /\ NextPage(a) \in Nat /\ NextPage(a) > a
           /\ NextPage(a) <= a + PageSize
           /\ AfterHeader(a) \in {a, a + 1}
           /\ AddressAfter(a) \in Nat
           /\ AddressAfter(a) >= a + SampleSize
<1>1. \A x \in Nat : /\ x % PageSize \in 0 .. PageSize - 1
                     /\ x % PageSize <= x
  BY Layout
<1>2. \A x \in Nat : /\ PageStart(x) \in Nat /\ PageStart(x) <= x
                     /\ NextPage(x) \in Nat /\ NextPage(x) > x
                     /\ NextPage(x) <= x + PageSize
  BY <1>1, Layout DEF PageStart, NextPage
<1>3. AfterHeader(a) \in {a, a + 1}
  BY DEF AfterHeader
<1>4. AddressAfter(a) \in Nat /\ AddressAfter(a) >= a + SampleSize
  <2>. DEFINE next == a + SampleSize
  <2>1. next \in Nat
    BY Layout
  <2>2. NextPage(next) \in Nat /\ NextPage(next) > next
    BY <1>2, <2>1
  <2>. QED
    BY <2>1, <2>2, Layout DEF AddressAfter
<1>. QED
  BY <1>1, <1>2, <1>3, <1>4

LEMMA AddressType ==
    ASSUME NEW page \in Nat
    PROVE  Address(page) \in Nat /\ Address(page) >= DataStart
<1>1. page * PageSize \in Nat
  BY Layout
<1>. QED
  BY <1>1, LayoutWords DEF Address

LEMMA FirstFreeType ==
    ASSUME NEW fl \in [Words -> Word], NEW t \in Nat,
           NEW before \in Nat, before >= DataStart,
           NEW a \in FirstFreeTrackAddresses(fl, t, before)
    PROVE  a \in Nat /\ a >= DataStart
<1>. DEFINE k == FindKey(fl, t)
            pages == IF k.result = "found" THEN {k.page}
                     ELSE 0 .. KeyAddressPages - 1
            used(size) == (size \div (SamplesOnPage * SampleSize)) % 256
<1>1. k \in Answers
  BY FindKeyType
<1>2. pages \subseteq Nat
  BY <1>1, Layout DEF Answers, Found, NotFound, TimedOut
<1>3. \A size \in 0 .. SizeRange - 1 : (used(size) + 1) * PageSize \in Nat
  <2>1. \A size \in 0 .. SizeRange - 1 : used(size) \in Nat
    <3>1. \A x, y \in Nat \ {0} : x * y \in Nat \ {0}
      OBVIOUS
    <3>2. SamplesOnPage * SampleSize \in Nat \ {0}
      BY <3>1, LayoutAssumption
    <3>3. \A x \in Nat, y \in Nat \ {0} : x \div y \in Nat
      OBVIOUS
    <3>4. \A size \in 0 .. SizeRange - 1 :
              size \div (SamplesOnPage * SampleSize) \in Nat
      BY <3>2, <3>3, Layout
    <3>. QED
      BY <3>4
  <2>. HIDE DEF used
  <2>. QED
    BY <2>1, Layout
<1>. HIDE DEF used
<1>4. a \in {DataStart, before} \cup UNION
              {{Address(p)} \cup {Address(p) + (used(size) + 1) * PageSize :
                                    size \in 0 .. SizeRange - 1} : p \in pages}
  BY DEF FirstFreeTrackAddresses, used
<1>. HIDE DEF pages
<1>5. CASE a \in {DataStart, before}
  BY <1>5, LayoutWords
<1>6. CASE \E p \in pages : a = Address(p)
  BY <1>2, <1>6, AddressType
<1>7. CASE \E p \in pages, size \in 0 .. SizeRange - 1 :
              a = Address(p) + (used(size) + 1) * PageSize
  <2>1. PICK p \in pages, size \in 0 .. SizeRange - 1 :
            a = Address(p) + (used(size) + 1) * PageSize
    BY <1>7
  <2>2. Address(p) \in Nat /\ Address(p) >= DataStart
    BY <1>2, AddressType
  <2>3. (used(size) + 1) * PageSize \in Nat
    BY <1>3
  <2>. QED
    BY <2>1, <2>2, <2>3, LayoutWords
<1>. QED
  BY <1>4, <1>5, <1>6, <1>7

LEMMA SearchedType ==
    ASSUME NEW fl \in [Words -> Word]
    PROVE  /\ SearchedWords \subseteq Words
           /\ SearchedWords \subseteq 0 .. DataStart
           /\ SearchedWords \subseteq Nat
BY LayoutWords DEF SearchedWords, Words

LEMMA MemOrgInitType ==
    ASSUME NEW fl \in [Words -> Word],
           NEW before \in Nat, before >= DataStart,
           MemOrgInit(fl, before)
    PROVE  /\ tracks_stored' \in Nat
           /\ next_free_key_address' \in Nat
           /\ next_free_data_sample_address' \in Nat
           /\ next_free_data_sample_address' >= DataStart
<1>. DEFINE free == {w \in SearchedWords : fl[w] = Erased}
            passed == {w \in SearchedWords : \A f \in free : w < f}
            t == IF passed = {} THEN 0 ELSE AsKey(fl[Max(passed)]).track
<1>1. t \in Nat
  <2>1. CASE passed = {}
    BY <2>1
  <2>2. CASE passed # {}
    <3>1. passed \subseteq 0 .. DataStart /\ passed \subseteq Words
      BY SearchedType
    <3>2. Max(passed) \in Words
      <4>. HIDE DEF passed
      <4>. QED
        BY <2>2, <3>1, MaxType, LayoutWords
    <3>. HIDE DEF passed
    <3>3. AsKey(fl[Max(passed)]) \in Keys
      BY <3>2, KeyRead
    <3>4. AsKey(fl[Max(passed)]).track \in Nat
      BY <3>3 DEF Keys
    <3>. QED
      BY <2>2, <3>4
  <2>. QED
    BY <2>1, <2>2
<1>2. /\ tracks_stored' = t
      /\ IF free = {}
           THEN /\ next_free_key_address' = 0
                /\ next_free_data_sample_address' = before
           ELSE /\ next_free_key_address' = Min(free)
                /\ next_free_data_sample_address'
                       \in FirstFreeTrackAddresses(fl, t, before)
  BY DEF MemOrgInit
<1>. HIDE DEF t
<1>3. free \subseteq Nat
  BY SearchedType
<1>. HIDE DEF free
<1>4. CASE free = {}
  BY <1>1, <1>2, <1>4
<1>5. CASE free # {}
  <2>1. Min(free) \in Nat
    BY <1>3, <1>5, MinType
  <2>2. PICK a \in FirstFreeTrackAddresses(fl, t, before) :
            a = next_free_data_sample_address'
    BY <1>2, <1>5
  <2>3. a \in Nat /\ a >= DataStart
    BY <1>1, FirstFreeType
  <2>. QED
    BY <1>1, <1>2, <1>5, <2>1, <2>2, <2>3
<1>. QED
  BY <1>4, <1>5

\* TypeOK in parts, with what makes it inductive: the page in a key is a
\* natural number because no sample is ever stored below the data area, and
\* only a key is acknowledged.
FlashType == flash \in [Words -> Word]

PointersType ==
    /\ next_free_key_address \in Nat
    /\ next_free_data_sample_address \in Nat
    /\ next_free_data_sample_address >= DataStart

TrackType ==
    /\ tracks_stored \in Nat
    /\ storage_enabled \in BOOLEAN
    /\ track_size \in 0 .. SizeRange - 1

CallType ==
    /\ pc \in {"idle", "store key", "acknowledge"}
    /\ key \in Word
    /\ pc # "idle" => key \in Keys
    /\ safety_counter \in 0 .. MAX_FLASH_OPERATION_ERROR_COUNTER - 1

LogType == log \in Seq([track : Nat, at : Words])

GhostType ==
    /\ breached \subseteq {"key page", "address", "key area", "failure",
                           "no key", "restart", "reused"}
    /\ faults \in 0 .. MaxFaults

TypeInv ==
    FlashType /\ PointersType /\ TrackType /\ CallType /\ LogType /\ GhostType

LEMMA TypeParts == TypeInv => TypeOK
BY DEF TypeInv, TypeOK, FlashType, PointersType, TrackType, CallType, LogType,
       GhostType

LEMMA Ranges ==
    /\ 0 \in 0 .. SizeRange - 1
    /\ 0 \in 0 .. MAX_FLASH_OPERATION_ERROR_COUNTER - 1
    /\ 0 \in 0 .. MaxFaults
    /\ \A n \in 0 .. MAX_FLASH_OPERATION_ERROR_COUNTER - 1 :
          n + 1 < MAX_FLASH_OPERATION_ERROR_COUNTER =>
              n + 1 \in 0 .. MAX_FLASH_OPERATION_ERROR_COUNTER - 1
    /\ \A n \in 0 .. MaxFaults : n < MaxFaults => n + 1 \in 0 .. MaxFaults
BY Layout

LEMMA TypeInit == Init => TypeInv
<1>. SUFFICES ASSUME Init PROVE TypeInv
  OBVIOUS
<1>1. Erased \in Word
  BY DEF Word, OtherWords
<1>2. FlashType
  BY <1>1 DEF Init, FlashType
<1>3. PointersType
  BY LayoutWords DEF Init, PointersType
<1>4. TrackType
  BY Ranges DEF Init, TrackType
<1>5. CallType
  BY <1>1, Ranges DEF Init, CallType
<1>6. LogType
  BY DEF Init, LogType
<1>7. GhostType
  BY Ranges DEF Init, GhostType
<1>. QED
  BY <1>2, <1>3, <1>4, <1>5, <1>6, <1>7 DEF TypeInv

LEMMA EncodedType ==
    ASSUME NEW a \in Nat, a >= DataStart, NEW t \in Nat
    PROVE  Encoded(a, t) \in Keys
<1>. DEFINE page == (a - DataStart) \div PageSize
<1>0. \A x \in Nat, y \in Nat \ {0} : x \div y \in Nat /\ x % y \in Nat
  OBVIOUS
<1>1. page \in Nat
  BY <1>0, Layout, LayoutWords
<1>. HIDE DEF page
<1>2. page \div KeyAddressPages \in Nat /\ page % KeyAddressPages \in Nat
  BY <1>0, <1>1, Layout
<1>3. OrBits[t][page \div KeyAddressPages] \in Nat
  BY <1>2, OrNat
<1>. QED
  BY <1>2, <1>3 DEF Encoded, page, Key, Keys

LEMMA FailType ==
    ASSUME Fail, FlashType, faults \in 0 .. MaxFaults
    PROVE  FlashType' /\ faults' \in 0 .. MaxFaults
BY Ranges DEF Fail, FlashType

LEMMA StopStoragePage ==
    ASSUME FlashType, TrackType
    PROVE  \E start \in Nat :
              /\ start >= DataStart
              /\ start % PageSize = 0
              /\ StopStorage => flash' \in {flash, [flash EXCEPT ![start] =
                                     Programmed(@, Header(track_size))]}
<1>. DEFINE k == FindKey(flash, tracks_stored)
            page == IF k.result = "found" THEN k.page ELSE 0
<1>1. k \in Answers
  BY FindKeyType DEF FlashType, TrackType
<1>. HIDE DEF k
<1>2. page \in Nat
  BY <1>1 DEF Answers, Found, NotFound, TimedOut
<1>3. StopStorage =>
        flash' \in {flash, [flash EXCEPT ![Address(page)] =
                              Programmed(@, Header(track_size))]}
  BY DEF StopStorage, FailUnseen, Fail, k
<1>. HIDE DEF page
<1>4. Address(page) \in Nat /\ Address(page) >= DataStart
  BY <1>2, AddressType
<1>5. Address(page) % PageSize = 0
  <2>1. Address(page) = (KeyPages + page) * PageSize
    BY <1>2, Layout DEF Address, DataStart
  <2>2. \A x \in Nat, m \in Nat \ {0} : (x * m) % m = 0
    OBVIOUS
  <2>3. KeyPages + page \in Nat
    BY <1>2, Layout
  <2>. QED
    BY <2>1, <2>2, <2>3, Layout
<1>. QED
  BY <1>3, <1>4, <1>5

LEMMA StopStorageType ==
    ASSUME TypeInv, StopStorage, pc = "idle"
    PROVE  TypeInv'
<1>1. FlashType'
  <2>1. PICK start \in Nat :
            flash' \in {flash, [flash EXCEPT ![start] =
                                  Programmed(@, Header(track_size))]}
    BY StopStoragePage DEF TypeInv
  <2>2. Header(track_size) \in Word
    BY DEF TypeInv, TrackType, Header, Word, OtherWords
  <2>3. start \in Words => Programmed(flash[start], Header(track_size)) \in Word
    BY <2>2, ProgrammedType DEF TypeInv, FlashType
  <2>. QED
    BY <2>1, <2>3 DEF TypeInv, FlashType
<1>2. PointersType'
  BY Addresses, LayoutWords DEF StopStorage, TypeInv, PointersType
<1>3. TrackType'
  BY Ranges DEF StopStorage, TypeInv, TrackType
<1>4. CallType'
  BY DEF StopStorage, TypeInv, CallType, call
<1>5. LogType'
  BY DEF StopStorage, TypeInv, LogType
<1>6. GhostType'
  BY FailType DEF StopStorage, FailUnseen, TypeInv, GhostType
<1>. QED
  BY <1>1, <1>2, <1>3, <1>4, <1>5, <1>6 DEF TypeInv

LEMMA RetryType ==
    ASSUME TrackType, CallType, GhostType, Retry, Fail, pc # "idle",
           UNCHANGED <<tracks_stored, track_size>>
    PROVE  TrackType' /\ CallType' /\ GhostType'
<1>1. Erased \in Word
  BY DEF Word, OtherWords
<1>2. faults' \in 0 .. MaxFaults
  BY Ranges DEF GhostType, Fail
<1>3. CASE safety_counter + 1 < MAX_FLASH_OPERATION_ERROR_COUNTER
  <2>1. safety_counter' \in 0 .. MAX_FLASH_OPERATION_ERROR_COUNTER - 1
    BY <1>3, Ranges DEF Retry, CallType
  <2>. QED
    BY <1>2, <1>3, <2>1
       DEF Retry, KeyAreaBreach, TrackType, CallType, GhostType
<1>4. CASE ~(safety_counter + 1 < MAX_FLASH_OPERATION_ERROR_COUNTER)
  <2>1. safety_counter' \in 0 .. MAX_FLASH_OPERATION_ERROR_COUNTER - 1
    BY <1>4, Ranges DEF Retry, Return
  <2>. QED
    BY <1>1, <1>2, <1>4, <2>1 DEF Retry, Return, TrackType, CallType, GhostType
<1>. QED
  BY <1>3, <1>4

\* Where a sample goes.
LEMMA SamplePlace ==
    ASSUME PointersType, ~MemoryFull,
           NEW at, at = AfterHeader(next_free_data_sample_address)
    PROVE  /\ at \in Nat /\ at >= DataStart
           /\ next_free_data_sample_address <= at
           /\ at <= next_free_data_sample_address + 1
           /\ at + SampleSize <= DataEnd
           /\ at \in Words
<1>1. next_free_data_sample_address + SampleSize < DataEnd
  BY Layout, LayoutWords DEF PointersType, MemoryFull
<1>2. at \in {next_free_data_sample_address, next_free_data_sample_address + 1}
  BY DEF AfterHeader
<1>. QED
  BY <1>1, <1>2, Layout, LayoutWords DEF Words, PointersType

LEMMA StoreSampleType ==
    ASSUME TypeInv, StoreSample
    PROVE  TypeInv'
<1>. DEFINE at == AfterHeader(next_free_data_sample_address)
            nr == Len(log) + 1
<1>1. at \in Nat /\ at >= DataStart /\ at \in Words
  BY SamplePlace DEF StoreSample, TypeInv
<1>2. nr \in 1 .. MaxSamples
  <2>1. Len(log) \in Nat
    BY DEF TypeInv, LogType
  <2>. QED
    BY <2>1, Layout DEF StoreSample
<1>3. \/ /\ flash' = [w \in Words |->
                        IF w \in at .. at + SampleSize - 1
                          THEN Programmed(flash[w], Sample(nr, w - at))
                          ELSE flash[w]]
         /\ log' = Append(log, [track |-> tracks_stored, at |-> at])
         /\ UNCHANGED <<breached, faults>>
      \/ /\ FailUnseen
         /\ UNCHANGED log
  BY DEF StoreSample
<1>4. next_free_data_sample_address' = AddressAfter(at)
  BY DEF StoreSample
<1>. HIDE DEF at, nr
<1>5. FlashType'
  <2>1. \A w \in Words : w \in at .. at + SampleSize - 1 =>
                             Sample(nr, w - at) \in Word
    <3>1. \A w \in Words : w \in at .. at + SampleSize - 1 =>
                             w - at \in 0 .. SampleSize - 1
      BY <1>1, Layout, LayoutWords DEF Words
    <3>. QED
      BY <1>2, <3>1 DEF Sample, Word, OtherWords
  <2>2. CASE FailUnseen
    BY <2>2 DEF FailUnseen, Fail, TypeInv, FlashType
  <2>3. CASE flash' = [w \in Words |->
                        IF w \in at .. at + SampleSize - 1
                          THEN Programmed(flash[w], Sample(nr, w - at))
                          ELSE flash[w]]
    BY <2>1, <2>3, ProgrammedType DEF TypeInv, FlashType
  <2>. QED
    BY <1>3, <2>2, <2>3
<1>6. PointersType'
  <2>1. /\ AddressAfter(at) \in Nat
        /\ AddressAfter(at) >= at + SampleSize
    BY <1>1, Addresses
  <2>2. AddressAfter(at) >= DataStart
    BY <1>1, <2>1, Layout, LayoutWords
  <2>3. UNCHANGED next_free_key_address
    BY DEF StoreSample
  <2>. QED
    BY <1>4, <2>1, <2>2, <2>3 DEF TypeInv, PointersType
<1>7. TrackType'
  <2>1. track_size' = (track_size + SampleSize) % SizeRange
    BY DEF StoreSample, Grown
  <2>2. track_size + SampleSize \in Nat
    BY Layout DEF TypeInv, TrackType
  <2>3. track_size' \in 0 .. SizeRange - 1
    BY <2>1, <2>2, Layout
  <2>. QED
    BY <2>3 DEF StoreSample, TypeInv, TrackType
<1>8. CallType'
  BY DEF StoreSample, TypeInv, CallType, call
<1>9. LogType'
  <2>1. tracks_stored \in Nat
    BY DEF TypeInv, TrackType
  <2>2. [track |-> tracks_stored, at |-> at] \in [track : Nat, at : Words]
    BY <1>1, <2>1
  <2>3. log \in Seq([track : Nat, at : Words])
    BY DEF TypeInv, LogType
  <2>4. Append(log, [track |-> tracks_stored, at |-> at])
            \in Seq([track : Nat, at : Words])
    BY <2>2, <2>3
  <2>. QED
    BY <1>3, <2>3, <2>4 DEF LogType
<1>10. GhostType'
  BY <1>3, FailType DEF FailUnseen, TypeInv, GhostType
<1>. QED
  BY <1>5, <1>6, <1>7, <1>8, <1>9, <1>10 DEF TypeInv

LEMMA TypeNext == TypeInv /\ [Next]_vars => TypeInv'
<1>. SUFFICES ASSUME TypeInv, [Next]_vars PROVE TypeInv'
  OBVIOUS
<1>0. Erased \in Word
  BY DEF Word, OtherWords
<1>1. CASE TrackStart
  <2>1. key' \in Keys
    <3>1. /\ next_free_data_sample_address \in Nat
          /\ next_free_data_sample_address >= DataStart
          /\ tracks_stored + 1 \in Nat
      BY DEF TypeInv, PointersType, TrackType
    <3>2. Encoded(next_free_data_sample_address, tracks_stored + 1) \in Keys
      BY <3>1, EncodedType
    <3>. QED
      BY <1>1, <3>2 DEF TrackStart
  <2>2. CallType'
    BY <1>1, <2>1, Ranges DEF TrackStart, CallType, Word
  <2>3. GhostType'
    BY <1>1 DEF TrackStart, StartBreaches, KeyAreaBreach, TypeInv, GhostType
  <2>4. FlashType' /\ PointersType' /\ TrackType' /\ LogType'
    <3>1. tracks_stored' = tracks_stored + 1
      BY <1>1 DEF TrackStart
    <3>2. UNCHANGED <<flash, next_free_key_address, storage_enabled, log,
                      next_free_data_sample_address, track_size>>
      BY <1>1 DEF TrackStart
    <3>. QED
      BY <3>1, <3>2 DEF TypeInv, FlashType, PointersType, TrackType, LogType
  <2>. QED
    BY <2>2, <2>3, <2>4 DEF TypeInv
<1>2. CASE StoreKey
  <2>1. key \in Keys /\ key \in Word
    BY <1>2 DEF StoreKey, TypeInv, CallType
  <2>2. key' \in Keys
    BY <1>2, <2>1 DEF StoreKey, Keys
  <2>3. FlashType'
    BY <1>2, <2>1, ProgrammedType DEF StoreKey, ProgramKey, TypeInv, FlashType
  <2>4. CallType'
    BY <1>2, <2>2 DEF StoreKey, TypeInv, CallType, Word
  <2>5. PointersType' /\ TrackType' /\ LogType' /\ GhostType'
    BY <1>2 DEF StoreKey, ram, TypeInv, PointersType, TrackType, LogType,
                GhostType
  <2>. QED
    BY <2>3, <2>4, <2>5 DEF TypeInv
<1>3. CASE StoreKeyFails
  <2>1. TrackType' /\ CallType' /\ GhostType'
    BY <1>3, RetryType DEF StoreKeyFails, TypeInv
  <2>2. PointersType'
    <3>1. /\ next_free_key_address' = next_free_key_address + 1
          /\ UNCHANGED next_free_data_sample_address
      BY <1>3 DEF StoreKeyFails
    <3>2. next_free_key_address + 1 \in Nat
      BY DEF TypeInv, PointersType
    <3>. QED
      BY <3>1, <3>2 DEF TypeInv, PointersType
  <2>3. FlashType' /\ LogType'
    BY <1>3 DEF StoreKeyFails, Fail, TypeInv, FlashType, LogType
  <2>. QED
    BY <2>1, <2>2, <2>3 DEF TypeInv
<1>4. CASE AcknowledgeKey
  <2>1. FlashType'
    BY <1>4, ProgrammedType
       DEF AcknowledgeKey, ProgramKey, TypeInv, FlashType, CallType
  <2>2. PointersType'
    <3>1. next_free_key_address' = SlotAfter(next_free_key_address)
      BY <1>4 DEF AcknowledgeKey
    <3>2. UNCHANGED next_free_data_sample_address
      BY <1>4 DEF AcknowledgeKey
    <3>3. SlotAfter(next_free_key_address) \in Nat
      BY DEF SlotAfter, TypeInv, PointersType
    <3>. QED
      BY <3>1, <3>2, <3>3 DEF TypeInv, PointersType
  <2>3. CallType'
    BY <1>0, <1>4, Ranges DEF AcknowledgeKey, Return, CallType
  <2>4. TrackType' /\ LogType' /\ GhostType'
    BY <1>4 DEF AcknowledgeKey, Return, TypeInv, TrackType, LogType, GhostType
  <2>. QED
    BY <2>1, <2>2, <2>3, <2>4 DEF TypeInv
<1>5. CASE AcknowledgeKeyFails
  <2>1. TrackType' /\ CallType' /\ GhostType'
    BY <1>5, RetryType DEF AcknowledgeKeyFails, TypeInv
  <2>2. PointersType' /\ FlashType' /\ LogType'
    BY <1>5 DEF AcknowledgeKeyFails, Fail, TypeInv, PointersType, FlashType,
                LogType
  <2>. QED
    BY <2>1, <2>2 DEF TypeInv
<1>6. CASE TrackStop
  BY <1>6, StopStorageType DEF TrackStop
<1>7. CASE StoreSample
  BY <1>7, StoreSampleType
<1>8. CASE StoreSampleWhenFull
  BY <1>8, StopStorageType DEF StoreSampleWhenFull
<1>9. CASE ClearTracks
  <2>1. FlashType'
    BY <1>0, <1>9 DEF ClearTracks, FlashType
  <2>2. MemOrgInit(flash', next_free_data_sample_address)
    BY <1>9 DEF ClearTracks
  <2>3. PointersType' /\ tracks_stored' \in Nat
    BY <2>1, <2>2, MemOrgInitType DEF TypeInv, PointersType, FlashType
  <2>4. TrackType'
    BY <1>9, <2>3 DEF ClearTracks, TypeInv, TrackType
  <2>5. CallType'
    BY <1>9 DEF ClearTracks, call, TypeInv, CallType
  <2>6. LogType'
    BY <1>9 DEF ClearTracks, LogType
  <2>7. GhostType'
    BY <1>9 DEF ClearTracks, TypeInv, GhostType
  <2>. QED
    BY <2>1, <2>3, <2>4, <2>5, <2>6, <2>7 DEF TypeInv
<1>10. CASE Restart
  <2>1. MemOrgInit(flash, DataStart)
    BY <1>10 DEF Restart
  <2>2. PointersType' /\ tracks_stored' \in Nat
    BY <2>1, MemOrgInitType, LayoutWords DEF TypeInv, PointersType, FlashType
  <2>3. TrackType'
    BY <1>10, <2>2, Ranges DEF Restart, TrackType
  <2>4. CallType'
    BY <1>0, <1>10, Ranges DEF Restart, CallType
  <2>5. GhostType'
    BY <1>10, Ranges DEF Restart, TypeInv, GhostType
  <2>6. FlashType' /\ LogType'
    BY <1>10 DEF Restart, TypeInv, FlashType, LogType
  <2>. QED
    BY <2>2, <2>3, <2>4, <2>5, <2>6 DEF TypeInv
<1>11. CASE UNCHANGED vars
  BY <1>11 DEF vars, ram, call, TypeInv, FlashType, PointersType, TrackType,
               CallType, LogType, GhostType
<1>. QED
  BY <1>1, <1>2, <1>3, <1>4, <1>5, <1>6, <1>7, <1>8, <1>9, <1>10, <1>11 DEF Next

LEMMA TypeInvariant == Spec => []TypeInv
BY TypeInit, TypeNext, PTL DEF Spec

\* The variables keep their types, whatever a search is misled to and whichever
\* programming fails: no pointer leaves the numbers, no sample's address the flash.
THEOREM TypeCorrect == Spec => []TypeOK
BY TypeInvariant, TypeParts, PTL

-----------------------------------------------------------------------------
(* Pages                                                                   *)

LEMMA InPage ==
    ASSUME NEW a \in Nat, NEW j \in Nat, (a % PageSize) + j < PageSize
    PROVE  (a + j) % PageSize = (a % PageSize) + j
<1>1. \A m \in Nat \ {0}, q, r \in Nat : r < m => (q * m + r) % m = r
  OBVIOUS
<1>2. \A m \in Nat \ {0} : /\ a = (a \div m) * m + (a % m)
                           /\ a \div m \in Nat
                           /\ a % m \in Nat
                           /\ (a \div m) * m \in Nat
  OBVIOUS
<1>3. PageSize \in Nat \ {0}
  BY Layout
<1>. DEFINE q == a \div PageSize
            r == (a % PageSize) + j
<1>4. q \in Nat /\ r \in Nat /\ r < PageSize
  BY <1>2, <1>3
<1>5. a + j = q * PageSize + r
  BY <1>2, <1>3
<1>. HIDE DEF q, r
<1>6. (q * PageSize + r) % PageSize = r
  BY <1>1, <1>3, <1>4
<1>. QED
  BY <1>5, <1>6 DEF r

LEMMA PageEnds ==
    ASSUME NEW a \in Nat
    PROVE  NextPage(a) % PageSize = 0
<1>1. \A m \in Nat \ {0} : (a - (a % m) + m) % m = 0
  OBVIOUS
<1>2. PageSize \in Nat \ {0}
  BY Layout
<1>. QED
  BY <1>1, <1>2 DEF NextPage, PageStart

LEMMA DataStartsPage == DataStart % PageSize = 0
<1>1. \A x \in Nat, m \in Nat \ {0} : (x * m) % m = 0
  OBVIOUS
<1>. QED
  BY <1>1, Layout DEF DataStart

\* A pointer to the next sample is at a page's header or leaves room for the
\* sample on its page.
Ready(a) == a % PageSize = 0 \/ (a % PageSize) + SampleSize < PageSize

\* A sample is on one page and not in its header.
Fits(a) == a % PageSize >= 1 /\ (a % PageSize) + SampleSize < PageSize

LEMMA ReadyFits ==
    ASSUME NEW a \in Nat, Ready(a)
    PROVE  Fits(AfterHeader(a))
<1>1. CASE a % PageSize = 0
  <2>1. (a + 1) % PageSize = 1
    <3>1. (a % PageSize) + 1 < PageSize
      BY <1>1, Layout
    <3>2. (a + 1) % PageSize = (a % PageSize) + 1
      BY <3>1, InPage
    <3>. QED
      BY <1>1, <3>2
  <2>. QED
    BY <1>1, <2>1, Layout DEF AfterHeader, Fits
<1>2. CASE a % PageSize # 0
  <2>1. a % PageSize \in 0 .. PageSize - 1
    BY Addresses
  <2>. QED
    BY <1>2, <2>1 DEF AfterHeader, Fits, Ready
<1>. QED
  BY <1>1, <1>2

LEMMA FitsReady ==
    ASSUME NEW a \in Nat, Fits(a)
    PROVE  Ready(AddressAfter(a))
<1>. DEFINE next == a + SampleSize
<1>1. next \in Nat /\ next % PageSize = (a % PageSize) + SampleSize
  <2>1. SampleSize \in Nat /\ (a % PageSize) + SampleSize < PageSize
    BY Layout DEF Fits
  <2>. QED
    BY <2>1, InPage
<1>2. NextPage(next) \in Nat /\ NextPage(next) % PageSize = 0
  BY <1>1, PageEnds, Addresses
<1>3. (NextPage(next) + 1) % PageSize = 1
  <2>1. (NextPage(next) % PageSize) + 1 < PageSize
    BY <1>2, Layout
  <2>. HIDE DEF next
  <2>2. (NextPage(next) + 1) % PageSize = (NextPage(next) % PageSize) + 1
    BY <1>2, <2>1, InPage
  <2>. QED
    BY <1>2, <2>2
<1>4. CASE next + SampleSize >= NextPage(next)
  <2>1. AddressAfter(a) = NextPage(next) + 1
    BY <1>4 DEF AddressAfter
  <2>. QED
    BY <1>3, <2>1, Layout DEF Ready
<1>5. CASE ~(next + SampleSize >= NextPage(next))
  <2>1. AddressAfter(a) = next
    BY <1>5 DEF AddressAfter
  <2>2. NextPage(next) = next - (next % PageSize) + PageSize
    BY DEF NextPage, PageStart
  <2>3. next % PageSize \in Nat
    BY <1>1, Addresses
  <2>. QED
    BY <1>1, <1>5, <2>1, <2>2, <2>3, Layout DEF Ready
<1>. QED
  BY <1>4, <1>5

-----------------------------------------------------------------------------
(* Stored samples                                                          *)

Calm == breached \cap {"restart", "key area"} = {}

\* What makes SamplesIntact inductive: the pointers are where a key and a
\* sample may be stored, and from the pointer on nothing but page headers has
\* been programmed.
KeyPlace == pc # "idle" => next_free_key_address \in 1 .. DataStart - 1

RestErased ==
    \A w \in Words :
        w >= next_free_data_sample_address /\ w % PageSize # 0 =>
            flash[w] = Erased

SamplesStored ==
    \A i \in DOMAIN log :
        /\ Fits(log[i].at)
        /\ log[i].at >= DataStart
        /\ log[i].at + SampleSize <= DataEnd
        /\ \A part \in 0 .. SampleSize - 1 :
              flash[log[i].at + part] = Sample(i, part)

SamplesInv ==
    Calm => /\ KeyPlace
            /\ Ready(next_free_data_sample_address)
            /\ RestErased
            /\ SamplesStored

LEMMA SamplesInvIntact == SamplesInv => SamplesIntact
BY DEF SamplesInv, Calm, SamplesStored, SamplesIntact

LEMMA SamplesInit == Init => SamplesInv
<1>. SUFFICES ASSUME Init PROVE SamplesInv
  OBVIOUS
<1>1. KeyPlace
  BY DEF Init, KeyPlace
<1>2. Ready(next_free_data_sample_address)
  BY DataStartsPage DEF Init, Ready
<1>3. RestErased
  BY DEF Init, RestErased
<1>4. SamplesStored
  BY DEF Init, SamplesStored
<1>. QED
  BY <1>1, <1>2, <1>3, <1>4 DEF SamplesInv

\* The words of a sample in the log.
LEMMA SampleWords ==
    ASSUME LogType, SamplesStored, NEW i \in DOMAIN log,
           NEW part \in 0 .. SampleSize - 1
    PROVE  /\ log[i].at + part \in Words
           /\ log[i].at + part >= DataStart
           /\ (log[i].at + part) % PageSize # 0
           /\ flash[log[i].at + part] # Erased
<1>1. log[i].at \in Nat
  <2>1. log[i] \in [track : Nat, at : Words]
    <3>. DEFINE S == [track : Nat, at : Words]
    <3>1. log \in Seq(S)
      BY DEF LogType
    <3>. HIDE DEF S
    <3>2. log[i] \in S
      BY <3>1
    <3>. QED
      BY <3>2 DEF S
  <2>. QED
    BY <2>1, LayoutWords DEF Words
<1>2. /\ Fits(log[i].at)
      /\ log[i].at >= DataStart
      /\ log[i].at + SampleSize <= DataEnd
      /\ flash[log[i].at + part] = Sample(i, part)
  BY DEF SamplesStored
<1>3. (log[i].at + part) % PageSize = (log[i].at % PageSize) + part
  BY <1>1, <1>2, InPage, Layout DEF Fits
<1>4. log[i].at % PageSize \in Nat
  BY <1>1, Addresses
<1>. QED
  BY <1>1, <1>2, <1>3, <1>4, Layout, LayoutWords
     DEF Fits, Words, Sample, Erased

\* Programming a word that holds no sample keeps them all.
LEMMA SamplesKept ==
    ASSUME LogType, SamplesStored, UNCHANGED log,
           \A w \in Words : w >= DataStart /\ w % PageSize # 0 /\ flash[w] # Erased
                                => flash'[w] = flash[w]
    PROVE  SamplesStored'
<1>1. ASSUME NEW i \in DOMAIN log, NEW part \in 0 .. SampleSize - 1
      PROVE  flash'[log[i].at + part] = Sample(i, part)
  <2>1. flash'[log[i].at + part] = flash[log[i].at + part]
    BY SampleWords
  <2>. QED
    BY <2>1 DEF SamplesStored
<1>. QED
  BY <1>1 DEF SamplesStored

LEMMA StopStorageSamples ==
    ASSUME TypeInv, SamplesInv, Calm, StopStorage, pc = "idle"
    PROVE  SamplesInv'
<1>1. PICK start \in Nat :
          /\ start >= DataStart
          /\ start % PageSize = 0
          /\ flash' \in {flash, [flash EXCEPT ![start] =
                                   Programmed(@, Header(track_size))]}
  BY StopStoragePage DEF TypeInv
<1>2. \A w \in Words : w % PageSize # 0 => flash'[w] = flash[w]
  BY <1>1 DEF TypeInv, FlashType
<1>3. /\ next_free_data_sample_address \in Nat
      /\ next_free_data_sample_address' = NextPage(next_free_data_sample_address)
      /\ UNCHANGED <<pc, next_free_key_address, log>>
  BY DEF TypeInv, PointersType, StopStorage, call
<1>4. KeyPlace'
  BY <1>3 DEF KeyPlace
<1>5. Ready(next_free_data_sample_address)'
  BY <1>3, PageEnds DEF Ready
<1>6. RestErased'
  <2>1. /\ next_free_data_sample_address' \in Nat
        /\ next_free_data_sample_address' > next_free_data_sample_address
    BY <1>3, Addresses
  <2>2. \A w \in Words : w >= next_free_data_sample_address'
                             => w >= next_free_data_sample_address
    BY <1>3, <2>1, LayoutWords DEF Words
  <2>. QED
    BY <1>2, <2>2 DEF RestErased, SamplesInv
<1>7. SamplesStored'
  BY <1>2, <1>3, SamplesKept DEF SamplesInv, TypeInv
<1>. QED
  BY <1>4, <1>5, <1>6, <1>7 DEF SamplesInv

\* A sample goes where nothing is, on one page after the last one stored.
LEMMA StoreSampleSamples ==
    ASSUME TypeInv, SamplesInv, Calm, StoreSample
    PROVE  SamplesInv'
<1>. DEFINE at == AfterHeader(next_free_data_sample_address)
            nr == Len(log) + 1
<1>1. /\ at \in Nat /\ at >= DataStart
      /\ next_free_data_sample_address <= at
      /\ next_free_data_sample_address \in Nat
      /\ at + SampleSize <= DataEnd
  BY SamplePlace DEF StoreSample, TypeInv, PointersType
<1>2. Fits(at)
  BY <1>1, ReadyFits DEF SamplesInv
<1>3. \/ /\ flash' = [w \in Words |->
                        IF w \in at .. at + SampleSize - 1
                          THEN Programmed(flash[w], Sample(nr, w - at))
                          ELSE flash[w]]
         /\ log' = Append(log, [track |-> tracks_stored, at |-> at])
      \/ UNCHANGED <<flash, log>>
  BY DEF StoreSample, FailUnseen, Fail
<1>4. /\ next_free_data_sample_address' = AddressAfter(at)
      /\ UNCHANGED <<pc, next_free_key_address>>
  BY DEF StoreSample, call
<1>5. KeyPlace'
  BY <1>4 DEF KeyPlace, StoreSample
<1>6. Ready(next_free_data_sample_address)'
  <2>1. Ready(AddressAfter(at))
    BY <1>1, <1>2, FitsReady
  <2>. QED
    BY <1>4, <2>1 DEF Ready
<1>7. nr \in Nat /\ Len(log) \in Nat
  BY DEF TypeInv, LogType
<1>. HIDE DEF at, nr
<1>8. /\ next_free_data_sample_address' \in Nat
      /\ next_free_data_sample_address' >= at + SampleSize
  BY <1>1, <1>4, Addresses
<1>9. \A w \in Words : ~(w \in at .. at + SampleSize - 1)
                           => flash'[w] = flash[w]
  BY <1>3
<1>10. RestErased'
  <2>1. \A w \in Words : w >= next_free_data_sample_address' =>
            /\ w >= next_free_data_sample_address
            /\ ~(w \in at .. at + SampleSize - 1)
    BY <1>1, <1>8, Layout, LayoutWords DEF Words
  <2>. QED
    BY <1>9, <2>1 DEF RestErased, SamplesInv
<1>11. \A part \in 0 .. SampleSize - 1 :
           /\ at + part \in Words
           /\ at + part >= next_free_data_sample_address
           /\ (at + part) % PageSize # 0
  <2>1. ASSUME NEW part \in 0 .. SampleSize - 1
        PROVE  (at + part) % PageSize # 0
    <3>1. at % PageSize \in Nat
      BY <1>1, Addresses
    <3>2. part \in Nat /\ (at % PageSize) + part < PageSize
      BY <1>2, <3>1, Layout DEF Fits
    <3>3. (at + part) % PageSize = (at % PageSize) + part
      BY <1>1, <3>2, InPage
    <3>. QED
      BY <1>2, <3>1, <3>2, <3>3, Layout DEF Fits
  <2>. QED
    BY <1>1, <2>1, Layout, LayoutWords DEF Words
<1>12. \A w \in Words : w >= DataStart /\ w % PageSize # 0 /\ flash[w] # Erased
                            => flash'[w] = flash[w]
  <2>1. ASSUME NEW w \in Words, w \in at .. at + SampleSize - 1,
               w % PageSize # 0
        PROVE  flash[w] = Erased
    <3>1. w >= next_free_data_sample_address
      BY <1>1, <2>1, Layout
    <3>. QED
      BY <2>1, <3>1 DEF RestErased, SamplesInv
  <2>. QED
    BY <1>9, <2>1
<1>13. SamplesStored'
  <2>1. CASE UNCHANGED <<flash, log>>
    BY <2>1 DEF SamplesInv, SamplesStored
  <2>2. CASE /\ flash' = [w \in Words |->
                            IF w \in at .. at + SampleSize - 1
                              THEN Programmed(flash[w], Sample(nr, w - at))
                              ELSE flash[w]]
             /\ log' = Append(log, [track |-> tracks_stored, at |-> at])
    <3>. DEFINE e == [track |-> tracks_stored, at |-> at]
    <3>1. log \in Seq([track : Nat, at : Words])
      BY DEF TypeInv, LogType
    <3>2. /\ DOMAIN log' = 1 .. nr
          /\ log'[nr].at = at
          /\ \A i \in 1 .. Len(log) : log'[i] = log[i]
          /\ DOMAIN log = 1 .. Len(log)
      <4>1. log' = Append(log, e)
        BY <2>2
      <4>2. e.at = at
        OBVIOUS
      <4>. HIDE DEF e
      <4>. QED
        BY <3>1, <4>1, <4>2 DEF nr
    <3>3. ASSUME NEW i \in 1 .. Len(log)
          PROVE  /\ Fits(log'[i].at)
                 /\ log'[i].at >= DataStart
                 /\ log'[i].at + SampleSize <= DataEnd
                 /\ \A part \in 0 .. SampleSize - 1 :
                       flash'[log'[i].at + part] = Sample(i, part)
      <4>1. ASSUME NEW part \in 0 .. SampleSize - 1
            PROVE  flash'[log[i].at + part] = Sample(i, part)
        <5>1. flash'[log[i].at + part] = flash[log[i].at + part]
          BY <1>12, <3>2, SampleWords DEF TypeInv, SamplesInv
        <5>. QED
          BY <3>2, <5>1 DEF SamplesInv, SamplesStored
      <4>2. /\ Fits(log[i].at)
            /\ log[i].at >= DataStart
            /\ log[i].at + SampleSize <= DataEnd
        BY <3>2 DEF SamplesInv, SamplesStored
      <4>. QED
        BY <3>2, <4>1, <4>2
    <3>4. ASSUME NEW part \in 0 .. SampleSize - 1
          PROVE  flash'[at + part] = Sample(nr, part)
      <4>1. flash[at + part] = Erased
        BY <1>11 DEF SamplesInv, RestErased
      <4>a. Programmed(flash[at + part], Sample(nr, part)) = Sample(nr, part)
        BY <4>1 DEF Programmed, Erased
      <4>2. /\ at + part \in at .. at + SampleSize - 1
            /\ (at + part) - at = part
        BY <1>1, Layout
      <4>3. flash'[at + part] = Programmed(flash[at + part], Sample(nr, part))
        BY <1>11, <2>2, <4>2
      <4>. QED
        BY <4>a, <4>3
    <3>5. ASSUME NEW i \in DOMAIN log'
          PROVE  /\ Fits(log'[i].at)
                 /\ log'[i].at >= DataStart
                 /\ log'[i].at + SampleSize <= DataEnd
                 /\ \A part \in 0 .. SampleSize - 1 :
                       flash'[log'[i].at + part] = Sample(i, part)
      <4>1. i = nr \/ i \in 1 .. Len(log)
        BY <1>7, <3>2 DEF nr
      <4>. QED
        BY <1>1, <1>2, <3>2, <3>3, <3>4, <4>1
    <3>. QED
      BY <3>5 DEF SamplesStored, Fits
  <2>. QED
    BY <1>3, <2>1, <2>2
<1>. QED
  BY <1>5, <1>6, <1>10, <1>13 DEF SamplesInv

\* A key is programmed in the key area, before all samples.
LEMMA ProgramKeySamples ==
    ASSUME TypeInv, SamplesInv, Calm, ProgramKey, pc # "idle",
           UNCHANGED <<next_free_data_sample_address, log>>
    PROVE  Ready(next_free_data_sample_address)' /\ RestErased' /\ SamplesStored'
<1>1. next_free_key_address < DataStart
  BY LayoutWords DEF SamplesInv, KeyPlace
<1>2. \A w \in Words : w >= DataStart => flash'[w] = flash[w]
  BY <1>1, LayoutWords DEF ProgramKey, TypeInv, FlashType, PointersType, Words
<1>3. RestErased'
  <2>1. \A w \in Words : w >= next_free_data_sample_address => w >= DataStart
    BY LayoutWords DEF TypeInv, PointersType, Words
  <2>. QED
    BY <1>2, <2>1 DEF SamplesInv, RestErased
<1>4. SamplesStored'
  BY <1>2, SamplesKept DEF SamplesInv, TypeInv
<1>. QED
  BY <1>3, <1>4 DEF SamplesInv, Ready

\* A limit once met is met until the next erasure.
LEMMA CalmBefore ==
    ASSUME [Next]_vars, ~ClearTracks, Calm'
    PROVE  Calm
BY DEF Next, vars, Calm, TrackStart, StoreKey, StoreKeyFails, AcknowledgeKey,
       AcknowledgeKeyFails, TrackStop, StoreSample, StoreSampleWhenFull,
       StopStorage, FailUnseen, Restart, Retry

LEMMA FirstSearched == 1 \in SearchedWords
<1>1. \A m \in Nat \ {0, 1} : 1 % m = 1 /\ 1 \div m = 0
  OBVIOUS
<1>2. PageSize \in Nat \ {0, 1}
  BY Layout
<1>3. \A m \in Nat \ {0} : 0 % m = 0
  OBVIOUS
<1>4. 1 \in 0 .. DataStart - 1
  BY <1>2, LayoutWords
<1>5. (1 \div PageSize) % ScanStride = 0 /\ 1 % PageSize # 0
  <2>1. 1 \div PageSize = 0 /\ 1 % PageSize = 1
    BY <1>1, <1>2
  <2>2. 0 % ScanStride = 0
    BY <1>3, LayoutAssumption
  <2>. QED
    BY <2>1, <2>2
<1>. QED
  BY <1>4, <1>5 DEF SearchedWords

\* After an erasure the first sample goes to the first page.
LEMMA ErasedStart ==
    ASSUME TypeInv, ClearTracks
    PROVE  next_free_data_sample_address' = DataStart
<1>. DEFINE free == {w \in SearchedWords : flash'[w] = Erased}
            passed == {w \in SearchedWords : \A f \in free : w < f}
            t == IF passed = {} THEN 0 ELSE AsKey(flash'[Max(passed)]).track
<1>1. flash' = [w \in Words |-> Erased]
  BY DEF ClearTracks
<1>2. SearchedWords \subseteq Words /\ SearchedWords \subseteq Nat
  BY <1>1, SearchedType DEF TypeInv, FlashType
<1>3. free = SearchedWords
  BY <1>1, <1>2
<1>4. 1 \in SearchedWords
  BY FirstSearched
<1>5. passed = {}
  <2>1. \A w \in Nat : ~(w < w)
    OBVIOUS
  <2>. QED
    BY <1>2, <1>3, <2>1
<1>6. t = 0 /\ free # {}
  BY <1>3, <1>4, <1>5
<1>7. IF free = {}
        THEN /\ next_free_key_address' = 0
             /\ next_free_data_sample_address' = next_free_data_sample_address
        ELSE /\ next_free_key_address' = Min(free)
             /\ next_free_data_sample_address'
                    \in FirstFreeTrackAddresses(flash', t,
                                                next_free_data_sample_address)
  BY DEF ClearTracks, MemOrgInit
<1>. HIDE DEF free, passed, t
<1>8. next_free_data_sample_address'
          \in FirstFreeTrackAddresses(flash', 0, next_free_data_sample_address)
  BY <1>6, <1>7
<1>9. FindKey(flash', 0) = NotFound
  BY <1>1, FindKeyErased
<1>. QED
  BY <1>8, <1>9 DEF FirstFreeTrackAddresses, NotFound

LEMMA SamplesNext ==
    TypeInv /\ SamplesInv /\ [Next]_vars => SamplesInv'
<1>. SUFFICES ASSUME TypeInv, SamplesInv, [Next]_vars, Calm'
              PROVE  SamplesInv'
  BY DEF SamplesInv
<1>1. CASE ClearTracks
  <2>1. KeyPlace'
    BY <1>1 DEF ClearTracks, call, KeyPlace
  <2>2. Ready(next_free_data_sample_address)'
    BY <1>1, ErasedStart, DataStartsPage DEF Ready
  <2>3. RestErased'
    BY <1>1 DEF ClearTracks, RestErased
  <2>4. SamplesStored'
    BY <1>1 DEF ClearTracks, SamplesStored
  <2>. QED
    BY <2>1, <2>2, <2>3, <2>4 DEF SamplesInv
<1>2. CASE ~ClearTracks
  <2>0. Calm
    BY <1>2, CalmBefore
  <2>1. CASE TrackStart
    <3>1. KeyPlace'
      BY <2>1 DEF TrackStart, StartBreaches, KeyAreaBreach, Calm, KeyPlace
    <3>. QED
      BY <2>0, <2>1, <3>1
         DEF TrackStart, SamplesInv, Ready, RestErased, SamplesStored
  <2>2. CASE StoreKey
    <3>1. KeyPlace'
      BY <2>0, <2>2 DEF StoreKey, ram, SamplesInv, KeyPlace
    <3>. QED
      BY <2>0, <2>2, <3>1, ProgramKeySamples DEF StoreKey, ram, SamplesInv
  <2>3. CASE StoreKeyFails
    <3>1. KeyPlace'
      BY <2>3 DEF StoreKeyFails, Retry, Return, KeyAreaBreach, Calm, KeyPlace
    <3>. QED
      BY <2>0, <2>3, <3>1 DEF StoreKeyFails, Fail, SamplesInv, Ready,
                              RestErased, SamplesStored
  <2>4. CASE AcknowledgeKey
    <3>1. KeyPlace'
      BY <2>4 DEF AcknowledgeKey, Return, KeyPlace
    <3>. QED
      BY <2>0, <2>4, <3>1, ProgramKeySamples DEF AcknowledgeKey, SamplesInv
  <2>5. CASE AcknowledgeKeyFails
    <3>1. KeyPlace'
      BY <2>5
         DEF AcknowledgeKeyFails, Retry, Return, KeyAreaBreach, Calm, KeyPlace
    <3>. QED
      BY <2>0, <2>5, <3>1 DEF AcknowledgeKeyFails, Fail, SamplesInv, Ready,
                              RestErased, SamplesStored
  <2>6. CASE TrackStop
    BY <2>0, <2>6, StopStorageSamples DEF TrackStop
  <2>7. CASE StoreSample
    BY <2>0, <2>7, StoreSampleSamples
  <2>8. CASE StoreSampleWhenFull
    BY <2>0, <2>8, StopStorageSamples DEF StoreSampleWhenFull
  <2>9. CASE Restart
    BY <2>9 DEF Restart, Calm
  <2>10. CASE UNCHANGED vars
    BY <2>0, <2>10 DEF vars, ram, call, SamplesInv, KeyPlace, Ready, RestErased,
                       SamplesStored
  <2>. QED
    BY <1>2, <2>1, <2>2, <2>3, <2>4, <2>5, <2>6, <2>7, <2>8, <2>9, <2>10
       DEF Next
<1>. QED
  BY <1>1, <1>2

\* Until a restart, and while the keys stay in their area, every sample stored
\* since the last erasure is in the flash as it was stored, for every layout and
\* through every failed programming: no header, key or sample goes over it.
THEOREM SamplesSafe == Spec => []SamplesIntact
<1>1. SamplesInv => SamplesIntact
  BY SamplesInvIntact
<1>. QED
  BY <1>1, TypeInvariant, SamplesInit, SamplesNext, PTL DEF Spec

-----------------------------------------------------------------------------
(* Acknowledged keys                                                       *)

Limits ==
    /\ breached \cap {"key area", "no key"} = {}
    /\ ~({"failure", "restart"} \subseteq breached)

InKeyArea(a) == a \in 1 .. DataStart - 1

\* Programming new over old clears no bit of its number and its address.
SameKey(old, new) ==
    /\ old \in Keys
    /\ old.track = new.track
    /\ old.page = new.page
    /\ ~new.open

\* The slot at the pointer is free, or holds the key that is being stored.
SlotKept ==
    \/ flash[next_free_key_address] = Erased
    \/ pc # "idle" /\ SameKey(flash[next_free_key_address], key)

SlotsBehindErased ==
    \A w \in next_free_key_address + 1 .. DataStart - 1 : flash[w] = Erased

\* Without a failure there is no hole before the pointer, and after a restart
\* that found no free slot there is none at all.
Filled ==
    \A w \in SearchedWords :
        next_free_key_address = 0 \/ w < next_free_key_address =>
            flash[w] # Erased

KeysInv ==
    Limits =>
        /\ KeyPlace
        /\ InKeyArea(next_free_key_address) => SlotKept /\ SlotsBehindErased
        /\ pc = "acknowledge" => ~key.open
        /\ "failure" \notin breached => Filled

LEMMA Searched ==
    /\ 1 \in SearchedWords
    /\ \A w \in SearchedWords :
          w \in Nat /\ w \in Words /\ InKeyArea(w) /\ w % PageSize # 0
<1>1. 1 \in SearchedWords
  BY FirstSearched
<1>2. 0 % PageSize = 0
  <2>1. \A m \in Nat \ {0} : 0 % m = 0
    OBVIOUS
  <2>. QED
    BY <2>1, Layout
<1>. QED
  BY <1>1, <1>2, LayoutWords DEF SearchedWords, InKeyArea, Words

\* Nothing that is programmed is erased by it.
LEMMA ProgrammedStays ==
    ASSUME NEW old \in Word, NEW new \in Word, new # Erased
    PROVE  Programmed(old, new) # Erased
<1>1. CASE old = Erased
  BY <1>1 DEF Programmed, Erased
<1>2. CASE old # Erased /\ old.kind = "key" /\ new.kind = "key"
  BY <1>2 DEF Programmed, Erased, Key
<1>3. CASE old # Erased /\ old.kind = "header" /\ new.kind = "header"
  BY <1>3 DEF Programmed, Erased, Header
<1>4. CASE /\ old # Erased
           /\ ~(old.kind = "key" /\ new.kind = "key")
           /\ ~(old.kind = "header" /\ new.kind = "header")
  BY <1>4 DEF Programmed, Erased, Corrupt
<1>. QED
  BY <1>1, <1>2, <1>3, <1>4

\* A key programmed over itself stays, and is closed if one of them is.
LEMMA ProgrammedSame ==
    ASSUME NEW old \in Keys, NEW new \in Keys, SameKey(old, new)
    PROVE  /\ Programmed(old, new) = Key(old.track, old.page, FALSE)
           /\ SameKey(Programmed(old, new), new)
           /\ ~old.open => Programmed(old, new) = old
<1>1. old.kind = "key" /\ new.kind = "key" /\ old # Erased
  BY DEF Keys, Erased
<1>2. /\ AndBits[old.track][new.track] = old.track
      /\ AndBits[old.page][new.page] = old.page
  BY AndSame DEF SameKey, Keys
<1>3. Programmed(old, new) = Key(old.track, old.page, FALSE)
  BY <1>1, <1>2 DEF Programmed, SameKey
<1>4. SameKey(Key(old.track, old.page, FALSE), new)
  BY DEF SameKey, Key, Keys
<1>5. ~old.open => Key(old.track, old.page, FALSE) = old
  <2>1. old.open \in BOOLEAN /\ old = [kind |-> "key", track |-> old.track,
                                       page |-> old.page, open |-> old.open]
    BY DEF Keys
  <2>. QED
    BY <2>1 DEF Key
<1>. QED
  BY <1>3, <1>4, <1>5

\* Only Mem_Org_Store_Key and an erasure write to the key area.
LEMMA KeyAreaKept ==
    ASSUME TypeInv, TrackStop \/ StoreSample \/ StoreSampleWhenFull
    PROVE  /\ \A w \in 0 .. DataStart - 1 : flash'[w] = flash[w]
           /\ UNCHANGED <<next_free_key_address, pc, key>>
<1>1. CASE StopStorage
  <2>1. PICK start \in Nat :
            /\ start >= DataStart
            /\ flash' \in {flash, [flash EXCEPT ![start] =
                                     Programmed(@, Header(track_size))]}
    BY <1>1, StopStoragePage DEF TypeInv
  <2>2. \A w \in 0 .. DataStart - 1 : w # start
    BY <2>1, LayoutWords
  <2>3. \A w \in 0 .. DataStart - 1 : flash'[w] = flash[w]
    BY <2>1, <2>2, LayoutWords DEF TypeInv, FlashType, Words
  <2>. QED
    BY <1>1, <2>3 DEF StopStorage, call
<1>2. CASE StoreSample
  <2>. DEFINE at == AfterHeader(next_free_data_sample_address)
  <2>1. at \in Nat /\ at >= DataStart
    BY <1>2, SamplePlace DEF StoreSample, TypeInv
  <2>2. \/ flash' = [w \in Words |->
                       IF w \in at .. at + SampleSize - 1
                         THEN Programmed(flash[w], Sample(Len(log) + 1, w - at))
                         ELSE flash[w]]
        \/ UNCHANGED flash
    BY <1>2 DEF StoreSample, FailUnseen, Fail
  <2>. HIDE DEF at
  <2>3. \A w \in 0 .. DataStart - 1 :
            w \in Words /\ ~(w \in at .. at + SampleSize - 1)
    BY <2>1, Layout, LayoutWords DEF Words
  <2>. QED
    BY <1>2, <2>2, <2>3 DEF StoreSample, call
<1>. QED
  BY <1>1, <1>2 DEF TrackStop, StoreSampleWhenFull

\* A limit once met is met until the next erasure.
LEMMA LimitsBefore ==
    ASSUME [Next]_vars, ~ClearTracks, Limits'
    PROVE  Limits /\ ("failure" \notin breached' => "failure" \notin breached)
BY DEF Next, vars, Limits, TrackStart, StoreKey, StoreKeyFails, AcknowledgeKey,
       AcknowledgeKeyFails, TrackStop, StoreSample, StoreSampleWhenFull,
       StopStorage, FailUnseen, Restart, Retry

LEMMA KeysInit == Init => KeysInv
<1>. SUFFICES ASSUME Init PROVE KeysInv
  OBVIOUS
<1>1. pc = "idle" /\ KeyPlace
  BY DEF Init, KeyPlace
<1>2. SlotKept /\ SlotsBehindErased
  BY LayoutWords DEF Init, SlotKept, SlotsBehindErased, Words
<1>3. Filled
  BY Searched DEF Init, Filled, InKeyArea
<1>. QED
  BY <1>1, <1>2, <1>3 DEF KeysInv

\* After an erasure the first of the searched slots is free.
LEMMA ClearTracksKeys ==
    ASSUME TypeInv, ClearTracks
    PROVE  KeysInv'
<1>. DEFINE free == {w \in SearchedWords : flash'[w] = Erased}
<1>1. flash' = [w \in Words |-> Erased]
  BY DEF ClearTracks
<1>2. free # {} /\ free \subseteq Nat /\ free = SearchedWords
  BY <1>1, Searched
<1>3. free # {} => next_free_key_address' = Min(free)
  BY DEF ClearTracks, MemOrgInit
<1>4. /\ next_free_key_address' \in free
      /\ \A w \in free : next_free_key_address' <= w
  <2>. HIDE DEF free
  <2>. QED
    BY <1>2, <1>3, MinType
<1>5. InKeyArea(next_free_key_address')
  BY <1>4, Searched
<1>6. pc' = "idle"
  BY DEF ClearTracks, call
<1>7. SlotKept' /\ SlotsBehindErased'
  <2>1. \A w \in next_free_key_address' + 1 .. DataStart - 1 : w \in Words
    <3>1. /\ next_free_key_address' \in Nat
          /\ DataStart \in Nat /\ DataEnd \in Nat /\ DataStart < DataEnd
      BY <1>2, <1>4, LayoutWords
    <3>2. \A a, d, e \in Nat :
              d < e => \A w \in a + 1 .. d - 1 : w \in 0 .. e - 1
      OBVIOUS
    <3>. QED
      BY <3>1, <3>2 DEF Words
  <2>. QED
    BY <1>1, <1>4, <2>1, Searched DEF SlotKept, SlotsBehindErased
<1>8. Filled'
  <2>1. \A w \in SearchedWords :
            ~(next_free_key_address' = 0 \/ w < next_free_key_address')
    BY <1>2, <1>4, <1>5, Searched DEF InKeyArea
  <2>. QED
    BY <2>1 DEF Filled
<1>. QED
  BY <1>6, <1>7, <1>8 DEF KeysInv, KeyPlace

\* After a restart the pointer is where it was or further on, at a free slot.
LEMMA RestartKeys ==
    ASSUME TypeInv, KeysInv, Restart, Limits, Limits'
    PROVE  KeysInv'
<1>. DEFINE free == {w \in SearchedWords : flash[w] = Erased}
<1>1. /\ UNCHANGED flash
      /\ pc' = "idle"
      /\ "failure" \notin breached
  BY DEF Restart, Limits
<1>2. free \subseteq Nat /\ free \subseteq SearchedWords
  BY Searched
<1>3. IF free = {} THEN next_free_key_address' = 0
                   ELSE next_free_key_address' = Min(free)
  BY DEF Restart, MemOrgInit
<1>4. KeyPlace'
  BY <1>1 DEF KeyPlace
<1>5. CASE free = {}
  <2>1. Filled'
    BY <1>1, <1>5 DEF Filled
  <2>2. ~InKeyArea(next_free_key_address')
    BY <1>3, <1>5 DEF InKeyArea
  <2>. QED
    BY <1>1, <1>4, <2>1, <2>2 DEF KeysInv
<1>6. CASE free # {}
  <2>1. /\ next_free_key_address' \in free
        /\ \A w \in free : next_free_key_address' <= w
    <3>. HIDE DEF free
    <3>. QED
      BY <1>2, <1>3, <1>6, MinType
  <2>. DEFINE f == next_free_key_address'
  <2>2. f \in Nat /\ InKeyArea(f) /\ flash[f] = Erased /\ f \in SearchedWords
    BY <2>1, Searched
  <2>3. next_free_key_address # 0 /\ ~(f < next_free_key_address)
    BY <1>1, <2>2 DEF KeysInv, Filled
  <2>. HIDE DEF f
  <2>4. InKeyArea(next_free_key_address) /\ next_free_key_address <= f
    <3>1. next_free_key_address \in Nat /\ DataStart \in Nat
      BY LayoutWords DEF TypeInv, PointersType
    <3>2. f \in Nat /\ f <= DataStart - 1
      BY <2>2, <3>1 DEF InKeyArea
    <3>. QED
      BY <2>3, <3>1, <3>2 DEF InKeyArea
  <2>5. SlotsBehindErased
    BY <2>4 DEF KeysInv
  <2>6. SlotsBehindErased'
    <3>1. \A w \in f + 1 .. DataStart - 1 :
              w \in next_free_key_address + 1 .. DataStart - 1
      <4>1. /\ next_free_key_address \in Nat /\ DataStart \in Nat
            /\ f \in Nat
        BY <2>2, LayoutWords DEF TypeInv, PointersType
      <4>. QED
        BY <2>4, <4>1
    <3>. QED
      BY <1>1, <2>5, <3>1 DEF SlotsBehindErased, f
  <2>7. SlotKept'
    BY <1>1, <2>2 DEF SlotKept, f
  <2>8. Filled'
    <3>1. \A w \in SearchedWords : w < f => w \notin free
      BY <2>1, <2>2, Searched DEF f
    <3>2. f # 0
      BY <2>2 DEF InKeyArea
    <3>. QED
      BY <1>1, <3>1, <3>2 DEF Filled, f
  <2>. QED
    BY <1>1, <1>4, <2>6, <2>7, <2>8 DEF KeysInv
<1>. QED
  BY <1>5, <1>6

\* What Mem_Org_Store_Key programs.
LEMMA ProgramKeyKept ==
    ASSUME TypeInv, KeysInv, Limits, ProgramKey, pc # "idle"
    PROVE  /\ InKeyArea(next_free_key_address)
           /\ next_free_key_address \in Nat
           /\ \A w \in Words : w # next_free_key_address => flash'[w] = flash[w]
           /\ SlotsBehindErased
           /\ flash'[next_free_key_address] # Erased
           /\ flash'[next_free_key_address] \in Keys
           /\ flash'[next_free_key_address].track = key.track
           /\ flash'[next_free_key_address].page = key.page
           /\ Acknowledged(next_free_key_address) =>
                 flash'[next_free_key_address] = flash[next_free_key_address]
<1>. DEFINE a == next_free_key_address
<1>1. InKeyArea(a) /\ a \in Nat /\ a \in Words
  BY LayoutWords DEF KeysInv, KeyPlace, InKeyArea, Words
<1>2. SlotKept /\ SlotsBehindErased
  BY <1>1 DEF KeysInv
<1>3. /\ flash'[a] = Programmed(flash[a], key)
      /\ \A w \in Words : w # a => flash'[w] = flash[w]
  BY <1>1 DEF ProgramKey, TypeInv, FlashType
<1>4. key \in Keys /\ flash[a] \in Word
  BY <1>1 DEF TypeInv, CallType, FlashType
<1>5. key # Erased
  BY <1>4 DEF Keys, Erased
<1>6. CASE flash[a] = Erased
  <2>1. flash'[a] = key
    BY <1>3, <1>6 DEF Programmed, Erased
  <2>2. ~Acknowledged(a)
    BY <1>6 DEF Acknowledged, Erased
  <2>. QED
    BY <1>1, <1>2, <1>3, <1>4, <1>5, <2>1, <2>2
<1>7. CASE SameKey(flash[a], key)
  <2>1. flash[a] \in Keys
    BY <1>7 DEF SameKey
  <2>2. /\ SameKey(Programmed(flash[a], key), key)
        /\ ~flash[a].open => Programmed(flash[a], key) = flash[a]
    BY <1>4, <1>7, <2>1, ProgrammedSame
  <2>3. flash'[a] \in Keys /\ flash'[a].track = key.track
            /\ flash'[a].page = key.page
    BY <1>3, <2>2 DEF SameKey
  <2>4. flash'[a] # Erased
    BY <2>3 DEF Keys, Erased
  <2>5. Acknowledged(a) => flash'[a] = flash[a]
    BY <1>3, <2>2 DEF Acknowledged
  <2>. QED
    BY <1>1, <1>2, <1>3, <2>3, <2>4, <2>5
<1>. QED
  BY <1>2, <1>6, <1>7 DEF SlotKept

LEMMA KeysNext ==
    TypeInv /\ TypeInv' /\ KeysInv /\ [Next]_vars => KeysInv'
<1>. SUFFICES ASSUME TypeInv, TypeInv', KeysInv, [Next]_vars, Limits'
              PROVE  KeysInv'
  BY DEF KeysInv
<1>1. CASE ClearTracks
  BY <1>1, ClearTracksKeys
<1>2. CASE ~ClearTracks
  <2>0. Limits /\ ("failure" \notin breached' => "failure" \notin breached)
    BY <1>2, LimitsBefore
  <2>a. next_free_key_address \in Nat
    BY DEF TypeInv, PointersType
  <2>1. CASE TrackStart
    <3>1. KeyPlace'
      BY <2>1 DEF TrackStart, StartBreaches, KeyAreaBreach, Limits, KeyPlace
    <3>2. InKeyArea(next_free_key_address) => SlotKept' /\ SlotsBehindErased'
      BY <2>0, <2>1 DEF TrackStart, KeysInv, SlotKept, SlotsBehindErased
    <3>3. /\ UNCHANGED next_free_key_address
          /\ pc' # "acknowledge"
          /\ "failure" \notin breached' => Filled'
      BY <2>0, <2>1 DEF TrackStart, KeysInv, Filled
    <3>. QED
      BY <3>1, <3>2, <3>3 DEF KeysInv
  <2>2. CASE StoreKey
    <3>0. ProgramKey /\ pc # "idle" /\ key \in Keys
      BY <2>2 DEF StoreKey, TypeInv, CallType
    <3>1. /\ pc' = "acknowledge"
          /\ key' = [key EXCEPT !.open = FALSE]
          /\ UNCHANGED <<next_free_key_address, breached>>
      BY <2>2 DEF StoreKey, ram
    <3>2. KeyPlace'
      BY <2>0, <2>2, <3>1 DEF StoreKey, KeysInv, KeyPlace
    <3>3. key'.track = key.track /\ key'.page = key.page /\ ~key'.open
      BY <3>0, <3>1 DEF Keys
    <3>4. SlotKept'
      <4>1. SameKey(flash'[next_free_key_address], key')
        BY <2>0, <3>0, <3>3, ProgramKeyKept DEF SameKey
      <4>. QED
        BY <3>1, <4>1 DEF SlotKept
    <3>5. SlotsBehindErased'
      <4>1. \A w \in next_free_key_address + 1 .. DataStart - 1 :
                w \in Words /\ w # next_free_key_address
        BY <2>a, LayoutWords DEF Words
      <4>. QED
        BY <2>0, <3>0, <3>1, <4>1, ProgramKeyKept DEF SlotsBehindErased
    <3>6. "failure" \notin breached' => Filled'
      <4>1. \A w \in SearchedWords : flash[w] # Erased => flash'[w] # Erased
        BY <2>0, <3>0, ProgramKeyKept, Searched
      <4>. QED
        BY <2>0, <3>1, <4>1 DEF KeysInv, Filled
    <3>. QED
      BY <3>2, <3>3, <3>4, <3>5, <3>6 DEF KeysInv
  <2>3. CASE StoreKeyFails
    <3>1. /\ next_free_key_address' = next_free_key_address + 1
          /\ UNCHANGED flash
          /\ "failure" \in breached'
      BY <2>3 DEF StoreKeyFails, Fail, Retry
    <3>2. pc' = "store key" /\ KeyPlace'
      BY <2>3 DEF StoreKeyFails, Retry, KeyAreaBreach, Limits, KeyPlace
    <3>3. SlotsBehindErased
      BY <2>0, <2>3 DEF StoreKeyFails, KeysInv, KeyPlace, InKeyArea
    <3>4. SlotKept' /\ SlotsBehindErased'
      <4>1. InKeyArea(next_free_key_address + 1)
        BY <3>1, <3>2 DEF KeyPlace, InKeyArea
      <4>2. next_free_key_address + 1
                \in next_free_key_address + 1 .. DataStart - 1
        BY <2>a, <4>1, LayoutWords DEF InKeyArea
      <4>3. \A w \in (next_free_key_address + 1) + 1 .. DataStart - 1 :
                w \in next_free_key_address + 1 .. DataStart - 1
        BY <2>a, LayoutWords
      <4>. QED
        BY <3>1, <3>3, <4>2, <4>3 DEF SlotKept, SlotsBehindErased
    <3>. QED
      BY <3>1, <3>2, <3>4 DEF KeysInv
  <2>4. CASE AcknowledgeKey
    <3>0. ProgramKey /\ pc # "idle"
      BY <2>4 DEF AcknowledgeKey
    <3>1. /\ pc' = "idle"
          /\ next_free_key_address' = SlotAfter(next_free_key_address)
          /\ UNCHANGED breached
      BY <2>4 DEF AcknowledgeKey, Return
    <3>2. /\ InKeyArea(next_free_key_address)
          /\ SlotsBehindErased
          /\ flash'[next_free_key_address] # Erased
          /\ \A w \in Words : w # next_free_key_address => flash'[w] = flash[w]
      BY <2>0, <3>0, ProgramKeyKept
    <3>3. \/ next_free_key_address' = next_free_key_address + 1
          \/ /\ next_free_key_address' = next_free_key_address + 2
             /\ (next_free_key_address + 1) % PageSize = 0
      BY <3>1 DEF SlotAfter
    <3>4. InKeyArea(next_free_key_address') => SlotKept' /\ SlotsBehindErased'
      <4>1. \A w \in next_free_key_address' .. DataStart - 1 :
                /\ w \in next_free_key_address + 1 .. DataStart - 1
                /\ w \in Words /\ w # next_free_key_address
        BY <2>a, <3>3, LayoutWords DEF Words
      <4>2. \A w \in next_free_key_address' .. DataStart - 1 :
                flash'[w] = Erased
        BY <3>2, <4>1 DEF SlotsBehindErased
      <4>3. \A w \in next_free_key_address' + 1 .. DataStart - 1 :
                w \in next_free_key_address' .. DataStart - 1
        BY <2>a, <3>3, LayoutWords
      <4>4. InKeyArea(next_free_key_address') =>
                next_free_key_address' \in next_free_key_address' .. DataStart - 1
        BY LayoutWords DEF InKeyArea
      <4>. QED
        BY <4>2, <4>3, <4>4 DEF SlotKept, SlotsBehindErased
    <3>5. "failure" \notin breached' => Filled'
      <4>1. \A w \in SearchedWords : flash[w] # Erased => flash'[w] # Erased
        BY <3>2, Searched
      <4>2. next_free_key_address' # 0
        BY <2>a, <3>3
      <4>3. \A w \in SearchedWords : w < next_free_key_address' =>
                w < next_free_key_address \/ w = next_free_key_address
        BY <2>a, <3>3, Searched
      <4>. QED
        BY <2>0, <3>2, <4>1, <4>2, <4>3 DEF KeysInv, Filled
    <3>. QED
      BY <3>1, <3>4, <3>5 DEF KeysInv, KeyPlace
  <2>5. CASE AcknowledgeKeyFails
    <3>1. /\ UNCHANGED <<flash, next_free_key_address>>
          /\ "failure" \in breached'
      BY <2>5 DEF AcknowledgeKeyFails, Fail, Retry
    <3>2. pc' = "store key" /\ KeyPlace' /\ UNCHANGED key
      BY <2>5 DEF AcknowledgeKeyFails, Retry, KeyAreaBreach, Limits, KeyPlace
    <3>3. InKeyArea(next_free_key_address) => SlotKept' /\ SlotsBehindErased'
      BY <2>0, <3>1, <3>2 DEF KeysInv, SlotKept, SlotsBehindErased
    <3>. QED
      BY <3>1, <3>2, <3>3 DEF KeysInv
  <2>6. CASE TrackStop \/ StoreSample \/ StoreSampleWhenFull
    <3>1. /\ \A w \in 0 .. DataStart - 1 : flash'[w] = flash[w]
          /\ UNCHANGED <<next_free_key_address, pc, key>>
      BY <2>6, KeyAreaKept
    <3>2. KeyPlace'
      BY <2>0, <3>1 DEF KeysInv, KeyPlace
    <3>3. InKeyArea(next_free_key_address) => SlotKept' /\ SlotsBehindErased'
      <4>1. \A w \in next_free_key_address + 1 .. DataStart - 1 :
                w \in 0 .. DataStart - 1
        BY <2>a, LayoutWords
      <4>2. InKeyArea(next_free_key_address) =>
                next_free_key_address \in 0 .. DataStart - 1
        BY LayoutWords DEF InKeyArea
      <4>. QED
        BY <2>0, <3>1, <4>1, <4>2 DEF KeysInv, SlotKept, SlotsBehindErased
    <3>4. "failure" \notin breached' => Filled'
      <4>1. \A w \in SearchedWords : flash'[w] = flash[w]
        BY <3>1, LayoutWords, Searched DEF InKeyArea
      <4>. QED
        BY <2>0, <3>1, <4>1 DEF KeysInv, Filled
    <3>. QED
      BY <2>0, <3>1, <3>2, <3>3, <3>4 DEF KeysInv
  <2>7. CASE Restart
    BY <2>0, <2>7, RestartKeys
  <2>8. CASE UNCHANGED vars
    BY <2>0, <2>8 DEF vars, ram, call, KeysInv, KeyPlace, SlotKept,
                      SlotsBehindErased, Filled
  <2>. QED
    BY <1>2, <2>1, <2>2, <2>3, <2>4, <2>5, <2>6, <2>7, <2>8 DEF Next
<1>. QED
  BY <1>1, <1>2

\* The action of KeysKept.
KeysKeptStep ==
    \/ \A w \in Words : flash'[w] = Erased
    \/ breached' \cap {"key area", "no key"} # {}
    \/ {"failure", "restart"} \subseteq breached'
    \/ \A w \in 0 .. DataStart - 1 : Acknowledged(w) => flash'[w] = flash[w]

LEMMA KeysStep ==
    TypeInv /\ KeysInv /\ [Next]_vars => KeysKeptStep
<1>. SUFFICES ASSUME TypeInv, KeysInv, [Next]_vars, Limits'
              PROVE  KeysKeptStep
  BY DEF KeysKeptStep, Limits
<1>1. CASE ClearTracks
  BY <1>1 DEF ClearTracks, KeysKeptStep
<1>2. CASE StoreKey \/ AcknowledgeKey
  <2>1. Limits
    BY <1>2 DEF StoreKey, AcknowledgeKey, Limits
  <2>2. ProgramKey /\ pc # "idle"
    BY <1>2 DEF StoreKey, AcknowledgeKey
  <2>3. \A w \in 0 .. DataStart - 1 : w \in Words
    BY LayoutWords DEF Words
  <2>. QED
    BY <2>1, <2>2, <2>3, ProgramKeyKept DEF KeysKeptStep
<1>3. CASE TrackStop \/ StoreSample \/ StoreSampleWhenFull
  BY <1>3, KeyAreaKept DEF KeysKeptStep
<1>4. CASE \/ TrackStart \/ StoreKeyFails \/ AcknowledgeKeyFails \/ Restart
           \/ UNCHANGED vars
  BY <1>4 DEF TrackStart, StoreKeyFails, AcknowledgeKeyFails, Restart, Fail, vars,
              KeysKeptStep
<1>. QED
  BY <1>1, <1>2, <1>3, <1>4 DEF Next

\* A key that was acknowledged is only lost to an erasure: power losses alone, or
\* failed programmings alone that end within the retries and the key area, never
\* make Mem_Org_Store_Key use its slot again.
THEOREM KeysSafe == Spec => KeysKept
<1>1. TypeInv /\ KeysInv /\ [Next]_vars =>
          [\/ \A w \in Words : flash'[w] = Erased
           \/ breached' \cap {"key area", "no key"} # {}
           \/ {"failure", "restart"} \subseteq breached'
           \/ \A w \in 0 .. DataStart - 1 :
                 Acknowledged(w) => flash'[w] = flash[w] ]_vars
  BY KeysStep DEF KeysKeptStep
<1>. QED
  BY <1>1, TypeInvariant, KeysInit, KeysNext, PTL DEF Spec, KeysKept

-----------------------------------------------------------------------------
(* The list of tracks                                                      *)

SlotCount == KeyPages * KeysOnPage

LEMMA Division ==
    ASSUME NEW x \in Nat, NEW m \in Nat \ {0}
    PROVE  /\ x \div m \in Nat /\ x % m \in 0 .. m - 1
           /\ x = (x \div m) * m + (x % m)
OBVIOUS

LEMMA DivisionUnique ==
    ASSUME NEW m \in Nat \ {0}, NEW q \in Nat, NEW r \in 0 .. m - 1
    PROVE  (q * m + r) \div m = q /\ (q * m + r) % m = r
OBVIOUS

LEMMA KeySlotEquation ==
    ASSUME NEW i \in Nat \ {0}
    PROVE  /\ KeySlot(i) = i + ((i - 1) \div KeysOnPage)
           /\ KeySlot(i) \in Nat \ {0}
<1>. DEFINE q == (i - 1) \div KeysOnPage
            r == (i - 1) % KeysOnPage
<1>1. i - 1 \in Nat
  OBVIOUS
<1>2. q \in Nat /\ r \in Nat /\ i - 1 = q * KeysOnPage + r
  <2>1. q \in Nat /\ r \in 0 .. KeysOnPage - 1 /\ i - 1 = q * KeysOnPage + r
    BY <1>1, Division, LayoutWords
  <2>. QED
    BY <2>1, LayoutWords
<1>3. KeySlot(i) = q * PageSize + 1 + r
  BY DEF KeySlot
<1>. HIDE DEF q, r
<1>4. q * PageSize = q * KeysOnPage + q
  BY <1>2, Layout DEF KeysOnPage
<1>5. q * KeysOnPage \in Nat
  BY <1>2, LayoutWords
<1>. QED
  BY <1>2, <1>3, <1>4, <1>5 DEF q

LEMMA KeySlotGrows ==
    ASSUME NEW i \in Nat \ {0}, NEW j \in Nat \ {0}, i < j
    PROVE  KeySlot(i) < KeySlot(j)
<1>1. \A x, y \in Nat, m \in Nat \ {0} : x <= y => x \div m <= y \div m
  OBVIOUS
<1>2. (i - 1) \div KeysOnPage <= (j - 1) \div KeysOnPage
  BY <1>1, LayoutWords
<1>3. /\ (i - 1) \div KeysOnPage \in Nat
      /\ (j - 1) \div KeysOnPage \in Nat
  <2>1. i - 1 \in Nat /\ j - 1 \in Nat
    OBVIOUS
  <2>. QED
    BY <2>1, Division, LayoutWords
<1>. QED
  BY <1>2, <1>3, KeySlotEquation

\* The slots of the key area, page headers left out.
LEMMA KeySlotPlace ==
    ASSUME NEW i \in Nat \ {0}
    PROVE  InKeyArea(KeySlot(i)) <=> i <= SlotCount
<1>1. SlotCount \in Nat \ {0}
  BY Layout, LayoutWords DEF SlotCount
<1>2. DataStart = SlotCount + KeyPages
  BY Layout, LayoutWords DEF SlotCount, DataStart, KeysOnPage
<1>3. (i - 1) \div KeysOnPage \in Nat
  <2>1. i - 1 \in Nat
    OBVIOUS
  <2>. QED
    BY <2>1, Division, LayoutWords
<1>4. CASE i <= SlotCount
  <2>1. i - 1 < KeyPages * KeysOnPage
    BY <1>1, <1>4 DEF SlotCount
  <2>2. \A x \in Nat, n, m \in Nat \ {0} : x < n * m => x \div m < n
    OBVIOUS
  <2>3. (i - 1) \div KeysOnPage < KeyPages
    BY <2>1, <2>2, Layout, LayoutWords
  <2>. QED
    BY <1>1, <1>2, <1>3, <1>4, <2>3, KeySlotEquation, Layout DEF InKeyArea
<1>5. CASE ~(i <= SlotCount)
  <2>1. i - 1 >= KeyPages * KeysOnPage
    BY <1>1, <1>5 DEF SlotCount
  <2>2. \A x \in Nat, n, m \in Nat \ {0} : x >= n * m => x \div m >= n
    OBVIOUS
  <2>3. (i - 1) \div KeysOnPage >= KeyPages
    BY <2>1, <2>2, Layout, LayoutWords
  <2>4. KeySlot(i) >= DataStart
    BY <1>1, <1>2, <1>3, <1>5, <2>3, KeySlotEquation, Layout
  <2>. QED
    BY <1>5, <2>4, KeySlotEquation, LayoutWords DEF InKeyArea
<1>. QED
  BY <1>4, <1>5

\* Mem_Org_Store_Key goes from slot to slot, over the page headers.
LEMMA SlotAfterSlot ==
    ASSUME NEW i \in Nat \ {0}
    PROVE  SlotAfter(KeySlot(i)) = KeySlot(i + 1)
<1>. DEFINE q == (i - 1) \div KeysOnPage
            r == (i - 1) % KeysOnPage
<1>1. /\ q \in Nat /\ r \in 0 .. KeysOnPage - 1
      /\ i - 1 = q * KeysOnPage + r
      /\ q * KeysOnPage \in Nat
  <2>1. i - 1 \in Nat
    OBVIOUS
  <2>2. q \in Nat /\ r \in 0 .. KeysOnPage - 1 /\ i - 1 = q * KeysOnPage + r
    BY <2>1, Division, LayoutWords
  <2>. HIDE DEF q, r
  <2>. QED
    BY <2>2, LayoutWords
<1>2. KeySlot(i) = i + q /\ KeySlot(i + 1) = i + 1 + (i \div KeysOnPage)
  BY KeySlotEquation
<1>. HIDE DEF q, r
<1>3. /\ PageSize = KeysOnPage + 1 /\ KeysOnPage \in Nat \ {0}
      /\ q * PageSize = q * KeysOnPage + q
      /\ (q + 1) * PageSize = q * KeysOnPage + q + PageSize
      /\ (q + 1) * KeysOnPage = q * KeysOnPage + KeysOnPage
  BY <1>1, Layout, LayoutWords DEF KeysOnPage
<1>4. CASE r = KeysOnPage - 1
  <2>1. i = (q + 1) * KeysOnPage + 0
    BY <1>1, <1>3, <1>4
  <2>2. i \div KeysOnPage = q + 1
    BY <1>1, <1>3, <2>1, DivisionUnique
  <2>3. i + q + 1 = (q + 1) * PageSize + 0
    BY <1>1, <1>3, <1>4
  <2>4. (i + q + 1) % PageSize = 0
    <3>1. q + 1 \in Nat /\ PageSize \in Nat \ {0} /\ 0 \in 0 .. PageSize - 1
      BY <1>1, Layout
    <3>2. ((q + 1) * PageSize + 0) % PageSize = 0
      BY <3>1, DivisionUnique
    <3>. QED
      BY <2>3, <3>2
  <2>. QED
    BY <1>1, <1>2, <2>2, <2>4 DEF SlotAfter
<1>5. CASE r # KeysOnPage - 1
  <2>1. i = q * KeysOnPage + (r + 1) /\ r + 1 \in 0 .. KeysOnPage - 1
    BY <1>1, <1>3, <1>5
  <2>2. i \div KeysOnPage = q
    BY <1>1, <1>3, <2>1, DivisionUnique
  <2>3. i + q + 1 = q * PageSize + (r + 2)
    BY <1>1, <1>3
  <2>4. (i + q + 1) % PageSize # 0
    <3>1. PageSize \in Nat \ {0} /\ r + 2 \in 0 .. PageSize - 1 /\ r + 2 # 0
      BY <1>1, <1>3, <1>5
    <3>2. (q * PageSize + (r + 2)) % PageSize = r + 2
      BY <1>1, <3>1, DivisionUnique
    <3>. QED
      BY <2>3, <3>1, <3>2
  <2>. QED
    BY <1>1, <1>2, <2>2, <2>4 DEF SlotAfter
<1>. QED
  BY <1>4, <1>5

Clean == breached \subseteq {"key page"}

\* The tracks whose keys are stored.
Keyed == IF pc = "idle" THEN tracks_stored ELSE tracks_stored - 1

\* The key of each track is in the slot of its number, and the pointer at the
\* slot after them.
ListInv ==
    Clean =>
        /\ Keyed \in Nat /\ (Keyed # 0 => Keyed <= SlotCount)
        /\ pc # "idle" => key.track = tracks_stored
        /\ next_free_key_address = KeySlot(Keyed + 1)
        /\ \A i \in 1 .. Keyed : /\ flash[KeySlot(i)].kind = "key"
                                 /\ flash[KeySlot(i)].track = i

LEMMA CleanLimits == Clean => Limits /\ "failure" \notin breached
BY DEF Clean, Limits

LEMMA ListedWhenIdle ==
    ASSUME TypeInv, KeysInv, ListInv, Clean, pc = "idle"
    PROVE  Listed = [i \in 1 .. tracks_stored |-> i % NumberRange]
<1>. DEFINE n == tracks_stored
            slots == 1 .. KeyPages * KeysOnPage
            listed == {i \in slots : \A j \in 1 .. i :
                          /\ flash[KeySlot(j)].kind = "key"
                          /\ flash[KeySlot(j)].track <= n}
<1>1. /\ n \in Nat /\ (n # 0 => n <= SlotCount)
      /\ next_free_key_address = KeySlot(n + 1)
      /\ \A i \in 1 .. n : /\ flash[KeySlot(i)].kind = "key"
                           /\ flash[KeySlot(i)].track = i
  BY DEF ListInv, Keyed
<1>2. SlotCount \in Nat /\ slots = 1 .. SlotCount
  BY Layout, LayoutWords DEF SlotCount
<1>3. Listed = [i \in 1 .. Cardinality(listed) |->
                   flash[KeySlot(i)].track % NumberRange]
  BY DEF Listed
<1>4. n + 1 <= SlotCount => flash[KeySlot(n + 1)].kind # "key"
  <2>1. SUFFICES ASSUME n + 1 <= SlotCount PROVE flash[KeySlot(n + 1)].kind # "key"
    OBVIOUS
  <2>2. InKeyArea(KeySlot(n + 1))
    <3>1. n + 1 \in Nat \ {0}
      BY <1>1
    <3>. HIDE DEF n
    <3>. QED
      BY <2>1, <3>1, KeySlotPlace
  <2>3. SlotKept
    BY <1>1, <2>2, CleanLimits DEF KeysInv
  <2>. QED
    BY <1>1, <2>3 DEF SlotKept, Erased
<1>. HIDE DEF n, slots
<1>5. listed = 1 .. n
  <2>1. ASSUME NEW i \in 1 .. n
        PROVE  i \in listed
    <3>1. i \in slots /\ \A j \in 1 .. i : j \in 1 .. n /\ j <= n
      BY <1>1, <1>2
    <3>. QED
      BY <1>1, <3>1
  <2>2. ASSUME NEW i \in listed
        PROVE  i \in 1 .. n
    <3>1. i \in Nat /\ 1 <= i /\ i <= SlotCount
      BY <1>2
    <3>2. CASE i > n
      <4>1. n + 1 \in 1 .. i /\ n + 1 <= SlotCount
        BY <1>1, <1>2, <3>1, <3>2
      <4>. QED
        BY <1>4, <4>1
    <3>. QED
      BY <1>1, <3>1, <3>2
  <2>. HIDE DEF listed
  <2>. QED
    BY <2>1, <2>2
<1>6. Cardinality(1 .. n) = n
  <2>1. 1 \in Int /\ n \in Int /\ 1 > n => n = 0
    BY <1>1
  <2>2. Cardinality(1 .. n) = IF 1 > n THEN 0 ELSE n - 1 + 1
    BY <1>1, FS_Interval
  <2>. QED
    BY <1>1, <2>1, <2>2
<1>. HIDE DEF listed
<1>7. Listed = [i \in 1 .. n |-> flash[KeySlot(i)].track % NumberRange]
  BY <1>3, <1>5, <1>6
<1>. QED
  BY <1>1, <1>7 DEF n

LEMMA ListInvListed == TypeInv /\ KeysInv /\ ListInv => ListedInOrder
BY ListedWhenIdle DEF ListedInOrder, Clean

LEMMA FirstKeySlot == KeySlot(1) = 1
<1>1. \A m \in Nat \ {0} : 0 \div m = 0
  OBVIOUS
<1>2. (1 - 1) \div KeysOnPage = 0
  BY <1>1, LayoutWords
<1>. QED
  BY <1>2, KeySlotEquation

LEMMA ListInit == Init => ListInv
<1>. SUFFICES ASSUME Init PROVE ListInv
  OBVIOUS
<1>1. Keyed = 0 /\ pc = "idle" /\ next_free_key_address = 1
  BY DEF Init, Keyed
<1>. QED
  BY <1>1, FirstKeySlot DEF ListInv

\* While an address fits the 16 bits, a key has the number of its track.
LEMMA EncodedNumber ==
    ASSUME NEW a \in Nat, a >= DataStart,
           a < DataStart + KeyAddressPages * PageSize, NEW t \in Nat
    PROVE  Encoded(a, t).track = t
<1>. DEFINE page == (a - DataStart) \div PageSize
<1>1. a - DataStart \in Nat /\ a - DataStart < KeyAddressPages * PageSize
  <2>1. KeyAddressPages * PageSize \in Nat
    BY Layout
  <2>. QED
    BY <2>1, LayoutWords
<1>2. page \in Nat /\ page < KeyAddressPages
  <2>1. \A x \in Nat, n, m \in Nat \ {0} :
            x < n * m => x \div m \in Nat /\ x \div m < n
    OBVIOUS
  <2>2. PageSize \in Nat \ {0}
    BY Layout
  <2>. QED
    BY <1>1, <2>1, <2>2, Layout
<1>. HIDE DEF page
<1>3. page \div KeyAddressPages = 0
  <2>1. \A x \in Nat, m \in Nat \ {0} : x < m => x \div m = 0
    OBVIOUS
  <2>. QED
    BY <1>2, <2>1, Layout
<1>4. OrBits[t][page \div KeyAddressPages] = t
  BY <1>3, OrNothing
<1>. QED
  BY <1>4 DEF Encoded, Key, page

\* The slots of stored keys are before the pointer, in the key area.
LEMMA KeyedSlots ==
    ASSUME TypeInv, ListInv, Clean, NEW i \in 1 .. Keyed
    PROVE  /\ KeySlot(i) \in 0 .. DataStart - 1
           /\ KeySlot(i) \in Words
           /\ KeySlot(i) # next_free_key_address
<1>1. /\ i \in Nat \ {0} /\ Keyed + 1 \in Nat \ {0} /\ i < Keyed + 1
      /\ i <= SlotCount
      /\ next_free_key_address = KeySlot(Keyed + 1)
  <2>1. SlotCount \in Nat
    BY Layout, LayoutWords DEF SlotCount
  <2>. QED
    BY <2>1 DEF ListInv
<1>2. InKeyArea(KeySlot(i))
  BY <1>1, KeySlotPlace
<1>3. KeySlot(i) < KeySlot(Keyed + 1) /\ KeySlot(i) \in Nat
  BY <1>1, KeySlotGrows, KeySlotEquation
<1>. QED
  BY <1>1, <1>2, <1>3, LayoutWords DEF InKeyArea, Words

\* A step that leaves the keys, the pointer and the numbers alone.
LEMMA ListKept ==
    ASSUME TypeInv, ListInv, Clean,
           \A w \in 0 .. DataStart - 1 : flash'[w] = flash[w],
           UNCHANGED <<next_free_key_address, tracks_stored, pc, key>>
    PROVE  ListInv'
<1>1. Keyed' = Keyed
  BY DEF Keyed
<1>2. \A i \in 1 .. Keyed : flash'[KeySlot(i)] = flash[KeySlot(i)]
  BY KeyedSlots
<1>. QED
  BY <1>1, <1>2 DEF ListInv

LEMMA ListNext ==
    TypeInv /\ KeysInv /\ ListInv /\ [Next]_vars => ListInv'
<1>. SUFFICES ASSUME TypeInv, KeysInv, ListInv, [Next]_vars, Clean'
              PROVE  ListInv'
  BY DEF ListInv
<1>1. CASE ClearTracks
  <2>. DEFINE free == {w \in SearchedWords : flash'[w] = Erased}
              passed == {w \in SearchedWords : \A f \in free : w < f}
  <2>1. flash' = [w \in Words |-> Erased]
    BY <1>1 DEF ClearTracks
  <2>2. free = SearchedWords /\ free \subseteq Nat /\ 1 \in free
    BY <2>1, Searched
  <2>3. /\ tracks_stored' = IF passed = {} THEN 0
                            ELSE AsKey(flash'[Max(passed)]).track
        /\ free # {} => next_free_key_address' = Min(free)
    BY <1>1 DEF ClearTracks, MemOrgInit
  <2>4. passed = {}
    <3>1. \A w \in Nat : ~(w < w)
      OBVIOUS
    <3>. QED
      BY <2>2, <3>1
  <2>5. next_free_key_address' = 1
    <3>. HIDE DEF free
    <3>1. Min(free) \in free /\ Min(free) <= 1
      BY <2>2, MinType
    <3>2. Min(free) \in Nat \ {0}
      <4>1. InKeyArea(Min(free)) /\ Min(free) \in Nat
        BY <2>2, <3>1, Searched
      <4>. QED
        BY <4>1, LayoutWords DEF InKeyArea
    <3>. QED
      BY <2>2, <2>3, <3>1, <3>2
  <2>6. pc' = "idle" /\ tracks_stored' = 0
    BY <1>1, <2>3, <2>4 DEF ClearTracks, call
  <2>7. Keyed' = 0
    BY <2>6 DEF Keyed
  <2>. QED
    BY <2>5, <2>6, <2>7, FirstKeySlot DEF ListInv
<1>2. CASE ~ClearTracks
  <2>0. Clean
    BY <1>2 DEF Next, vars, Clean, TrackStart, StoreKey, StoreKeyFails,
                AcknowledgeKey, AcknowledgeKeyFails, TrackStop, StoreSample,
                StoreSampleWhenFull, StopStorage, FailUnseen, Restart, Retry
  <2>a. Limits
    BY <2>0, CleanLimits
  <2>b. tracks_stored \in Nat
    BY DEF TypeInv, TrackType
  <2>1. CASE TrackStart
    <3>1. Keyed = tracks_stored /\ Keyed' = Keyed /\ tracks_stored' = Keyed + 1
      <4>1. /\ pc = "idle" /\ pc' = "store key"
            /\ tracks_stored' = tracks_stored + 1
        BY <2>1 DEF TrackStart
      <4>2. Keyed = tracks_stored /\ Keyed' = tracks_stored' - 1
        BY <4>1 DEF Keyed
      <4>3. (tracks_stored + 1) - 1 = tracks_stored
        BY <2>b
      <4>. QED
        BY <4>1, <4>2, <4>3
    <3>2. key'.track = tracks_stored'
      <4>1. /\ next_free_data_sample_address \in Nat
            /\ next_free_data_sample_address >= DataStart
        BY DEF TypeInv, PointersType
      <4>2. next_free_data_sample_address
                < DataStart + KeyAddressPages * PageSize
        <5>1. ~(next_free_data_sample_address
                    >= DataStart + KeyAddressPages * PageSize)
          BY <2>1 DEF TrackStart, StartBreaches, Clean
        <5>2. KeyAddressPages * PageSize \in Nat
          BY Layout
        <5>. QED
          BY <4>1, <5>1, <5>2, LayoutWords
      <4>3. tracks_stored + 1 \in Nat
        BY <2>b
      <4>4. Encoded(next_free_data_sample_address, tracks_stored + 1).track
                = tracks_stored + 1
        BY <4>1, <4>2, <4>3, EncodedNumber
      <4>. QED
        BY <2>1, <4>4 DEF TrackStart
    <3>3. UNCHANGED <<flash, next_free_key_address>>
      BY <2>1 DEF TrackStart
    <3>. QED
      BY <2>0, <3>1, <3>2, <3>3 DEF ListInv
  <2>2. CASE StoreKey
    <3>1. /\ ProgramKey /\ pc # "idle" /\ pc' # "idle"
          /\ key' = [key EXCEPT !.open = FALSE]
          /\ UNCHANGED <<next_free_key_address, tracks_stored>>
      BY <2>2 DEF StoreKey, ram
    <3>2. Keyed' = Keyed
      BY <3>1 DEF Keyed
    <3>3. key'.track = key.track
      BY <3>1 DEF TypeInv, CallType, Keys
    <3>4. \A i \in 1 .. Keyed : flash'[KeySlot(i)] = flash[KeySlot(i)]
      BY <2>0, <2>a, <3>1, KeyedSlots, ProgramKeyKept
    <3>. QED
      BY <2>0, <3>1, <3>2, <3>3, <3>4 DEF ListInv
  <2>3. CASE StoreKeyFails \/ AcknowledgeKeyFails \/ Restart
    <3>1. "failure" \in breached' \/ "restart" \in breached'
      BY <2>3 DEF StoreKeyFails, AcknowledgeKeyFails, Retry, Restart
    <3>. QED
      BY <3>1 DEF Clean
  <2>4. CASE AcknowledgeKey
    <3>1. /\ ProgramKey /\ pc # "idle" /\ pc' = "idle"
          /\ next_free_key_address' = SlotAfter(next_free_key_address)
          /\ UNCHANGED tracks_stored
      BY <2>4 DEF AcknowledgeKey, Return
    <3>2. Keyed \in Nat /\ Keyed' = Keyed + 1 /\ tracks_stored = Keyed + 1
      BY <2>0, <2>b, <3>1 DEF Keyed, ListInv
    <3>3. /\ next_free_key_address = KeySlot(Keyed + 1)
          /\ key.track = Keyed + 1
      BY <2>0, <3>1, <3>2 DEF ListInv
    <3>4. next_free_key_address' = KeySlot(Keyed' + 1)
      BY <3>1, <3>2, <3>3, SlotAfterSlot
    <3>5. Keyed' <= SlotCount
      <4>1. InKeyArea(KeySlot(Keyed + 1))
        BY <2>a, <3>1, <3>3, ProgramKeyKept
      <4>. QED
        BY <3>2, <4>1, KeySlotPlace
    <3>6. ASSUME NEW i \in 1 .. Keyed'
          PROVE  flash'[KeySlot(i)].kind = "key" /\ flash'[KeySlot(i)].track = i
      <4>1. CASE i = Keyed + 1
        <5>1. /\ flash'[KeySlot(i)] \in Keys
              /\ flash'[KeySlot(i)].track = i
          BY <2>a, <3>1, <3>3, <4>1, ProgramKeyKept
        <5>. QED
          BY <5>1 DEF Keys
      <4>2. CASE i # Keyed + 1
        <5>1. i \in 1 .. Keyed
          BY <3>2, <4>2
        <5>2. flash'[KeySlot(i)] = flash[KeySlot(i)]
          BY <2>0, <2>a, <3>1, <5>1, KeyedSlots, ProgramKeyKept
        <5>. QED
          BY <2>0, <5>1, <5>2 DEF ListInv
      <4>. QED
        BY <4>1, <4>2
    <3>. QED
      BY <3>1, <3>2, <3>4, <3>5, <3>6 DEF ListInv
  <2>5. CASE TrackStop \/ StoreSample \/ StoreSampleWhenFull
    <3>1. UNCHANGED tracks_stored
      BY <2>5 DEF TrackStop, StoreSample, StoreSampleWhenFull, StopStorage
    <3>. QED
      BY <2>0, <2>5, <3>1, KeyAreaKept, ListKept
  <2>6. CASE UNCHANGED vars
    BY <2>0, <2>6, ListKept DEF vars, ram, call
  <2>. QED
    BY <1>2, <2>1, <2>2, <2>3, <2>4, <2>5, <2>6 DEF Next
<1>. QED
  BY <1>1, <1>2

\* Until a restart or a failure the list of available tracks is complete and in
\* order, for every number of tracks that the key area holds.
THEOREM ListCorrect == Spec => []ListedInOrder
<1>1. TypeInv /\ KeysInv /\ ListInv => ListedInOrder
  BY ListInvListed
<1>. QED
  BY <1>1, TypeInvariant, TypeNext, KeysInit, KeysNext, ListInit, ListNext, PTL
     DEF Spec

-----------------------------------------------------------------------------
(* The store of tracks                                                     *)

Faultless == breached = {}

Entries(t) == {i \in DOMAIN log : log[i].track = t}

\* The part of the last track's size that its header has.
SizeOf(t) == (Cardinality(Entries(t)) * SampleSize) % SizeRange

\* Where Mem_Org_Send_Track_Via_BLE has left off when it comes to the i-th sample.
Left(i) ==
    IF i > 1 /\ log[i - 1].track = log[i].track THEN log[i - 1].at + SampleSize
    ELSE Address(flash[log[i].track].page)

\* Where it will have when it comes to the next sample of the last track.
NextLeft ==
    IF log # <<>> /\ log[Len(log)].track = tracks_stored
      THEN log[Len(log)].at + SampleSize
      ELSE Address(flash[tracks_stored].page)

InOrder ==
    /\ \A i, j \in DOMAIN log : i <= j => log[i].track <= log[j].track
    /\ \A i \in DOMAIN log : log[i].track <= Keyed

\* The reader finds each sample where the writer has put it.
Chained ==
    \A i \in DOMAIN log : log[i].track # 0 =>
        log[i].at = ReadAddress(Left(i)) /\ Left(i) + SampleSize < DataEnd

\* The keys are all on the first page, closed, with the pages in order.
KeysInOrder ==
    /\ tracks_stored <= KeysOnPage
    /\ \A t \in 1 .. Keyed :
          /\ ~flash[t].open
          /\ flash[t].page < KeyAddressPages
          /\ Address(flash[t].page) <= next_free_data_sample_address
          /\ storage_enabled \/ Address(flash[t].page) < next_free_data_sample_address
    /\ \A t, u \in 1 .. Keyed : t < u => flash[t].page < flash[u].page

HeadersErased ==
    \A w \in Words :
        w >= next_free_data_sample_address /\ w % PageSize = 0 => flash[w] = Erased

HeadersRight ==
    \A t \in 1 .. Keyed : t < tracks_stored \/ ~storage_enabled =>
        flash[Address(flash[t].page)] = Header(SizeOf(t))

\* A track about to be keyed starts at the pointer.
Starting ==
    pc # "idle" =>
        /\ ~storage_enabled
        /\ key.page < KeyAddressPages
        /\ next_free_data_sample_address = Address(key.page)

\* The track being recorded.
Growing ==
    storage_enabled /\ tracks_stored # 0 =>
        /\ AfterHeader(next_free_data_sample_address) = ReadAddress(NextLeft)
        /\ NextLeft <= next_free_data_sample_address
        /\ track_size = SizeOf(tracks_stored)
        /\ flash[Address(flash[tracks_stored].page)] = Erased

Resting == ~storage_enabled => next_free_data_sample_address % PageSize = 0

\* What Mem_Org_Init counts.
Passed(fl) ==
    LET free == {w \in SearchedWords : fl[w] = Erased}
        passed == {w \in SearchedWords : \A f \in free : w < f}
    IN  IF passed = {} THEN 0 ELSE AsKey(fl[Max(passed)]).track

\* Until a fault, what is recorded is in the flash as a transfer reads it.
Written ==
    /\ InOrder /\ Chained
    /\ KeysInOrder /\ HeadersErased /\ HeadersRight
    /\ Starting /\ Growing /\ Resting

StoreInv ==
    /\ Faultless => Written
    /\ breached = {"restart"} =>
          pc = "idle" /\ ~storage_enabled /\ tracks_stored = Passed(flash)
    /\ ~storage_enabled => track_size = 0

Inv == TypeInv /\ SamplesInv /\ KeysInv /\ ListInv /\ StoreInv

-----------------------------------------------------------------------------
(* What is recorded of a track                                             *)

LogEntry == [track : Nat, at : Words]

LEMMA EntryType ==
    ASSUME NEW l \in Seq(LogEntry), NEW i \in DOMAIN l
    PROVE  /\ i \in Nat \ {0} /\ i <= Len(l) /\ Len(l) \in Nat
           /\ l[i].track \in Nat /\ l[i].at \in Nat /\ l[i].at \in Words
<1>1. l[i] \in LogEntry /\ DOMAIN l = 1 .. Len(l) /\ Len(l) \in Nat
  OBVIOUS
<1>. QED
  BY <1>1, LayoutWords DEF LogEntry, Words

\* In an ordered log, a track's samples follow each other.
LEMMA EntriesTogether ==
    ASSUME NEW l \in Seq(LogEntry),
           \A i, j \in DOMAIN l : i <= j => l[i].track <= l[j].track,
           NEW t \in Nat
    PROVE  \E a, n \in Nat : /\ a + n <= Len(l)
                             /\ {i \in DOMAIN l : l[i].track = t} = a + 1 .. a + n
<1>. DEFINE S == {i \in DOMAIN l : l[i].track = t}
<1>0. Len(l) \in Nat /\ DOMAIN l = 1 .. Len(l)
  OBVIOUS
<1>1. CASE S = {}
  <2>1. 0 + 1 .. 0 + 0 = {} /\ 0 + 0 <= Len(l)
    BY <1>0
  <2>. QED
    BY <1>1, <2>1
<1>2. CASE S # {}
  <2>1. S \subseteq 0 .. Len(l) /\ S \subseteq Nat
    BY <1>0
  <2>2. PICK first \in S : \A i \in S : first <= i
    <3>. HIDE DEF S
    <3>. QED
      BY <1>2, <2>1, Least
  <2>3. PICK last \in S : \A i \in S : last >= i
    <3>. HIDE DEF S
    <3>. QED
      BY <1>0, <1>2, <2>1, MaxType
  <2>4. /\ first \in Nat \ {0} /\ last \in Nat /\ first <= last /\ last <= Len(l)
        /\ l[first].track = t /\ l[last].track = t
        /\ first \in DOMAIN l /\ last \in DOMAIN l
    BY <1>0, <2>2, <2>3
  <2>5. ASSUME NEW i \in first .. last PROVE i \in S
    <3>1. i \in DOMAIN l /\ first <= i /\ i <= last
      BY <1>0, <2>4
    <3>2. t <= l[i].track /\ l[i].track <= t
      BY <2>4, <3>1
    <3>3. l[i].track \in Nat
      BY <3>1, EntryType
    <3>. QED
      BY <3>1, <3>2, <3>3
  <2>6. S = first .. last
    <3>1. ASSUME NEW i \in S PROVE i \in first .. last
      <4>1. i \in Nat /\ first <= i /\ i <= last
        BY <2>1, <2>2, <2>3
      <4>. QED
        BY <2>4, <4>1
    <3>. HIDE DEF S
    <3>. QED
      BY <2>5, <3>1
  <2>7. /\ first - 1 \in Nat /\ last - (first - 1) \in Nat
        /\ (first - 1) + 1 = first /\ (first - 1) + (last - (first - 1)) = last
    BY <2>4
  <2>. HIDE DEF S
  <2>. QED
    BY <2>4, <2>6, <2>7 DEF S
<1>. QED
  BY <1>1, <1>2

LEMMA CountInterval ==
    ASSUME NEW a \in Nat, NEW n \in Nat
    PROVE  Cardinality(a + 1 .. a + n) = n /\ IsFiniteSet(a + 1 .. a + n)
<1>1. a + 1 \in Int /\ a + n \in Int
  OBVIOUS
<1>2. Cardinality(a + 1 .. a + n)
        = IF a + 1 > a + n THEN 0 ELSE (a + n) - (a + 1) + 1
  BY <1>1, FS_Interval
<1>3. IsFiniteSet(a + 1 .. a + n)
  BY <1>1, FS_Interval
<1>. QED
  BY <1>2, <1>3

\* The n samples from the a-th on.
SamplesFrom(a, n) ==
    [k \in 1 .. n |-> [part \in 0 .. SampleSize - 1 |-> Sample(a + k, part)]]

RecordedOf(l, t) ==
    LET numbers == {i \in DOMAIN l : l[i].track = t}
    IN  [k \in 1 .. Cardinality(numbers) |->
            LET i == CHOOSE i \in numbers : Cardinality({j \in numbers : j <= i}) = k
            IN  [part \in 0 .. SampleSize - 1 |-> Sample(i, part)]]

LEMMA RecordedSamples ==
    ASSUME NEW l, NEW t, NEW a \in Nat, NEW n \in Nat,
           {i \in DOMAIN l : l[i].track = t} = a + 1 .. a + n
    PROVE  RecordedOf(l, t) = SamplesFrom(a, n)
<1>. DEFINE numbers == {i \in DOMAIN l : l[i].track = t}
            Nth(k, i) == Cardinality({j \in numbers : j <= i}) = k
            Pick(k) == CHOOSE i \in numbers : Nth(k, i)
<1>1. RecordedOf(l, t) = [k \in 1 .. Cardinality(numbers) |->
                            [part \in 0 .. SampleSize - 1 |-> Sample(Pick(k), part)]]
  BY DEF RecordedOf
<1>2. numbers = a + 1 .. a + n
  OBVIOUS
<1>. HIDE DEF numbers
<1>3. Cardinality(numbers) = n
  BY <1>2, CountInterval
<1>4. \A i \in numbers : Cardinality({j \in numbers : j <= i}) = i - a
  <2>1. ASSUME NEW i \in numbers
        PROVE  Cardinality({j \in numbers : j <= i}) = i - a
    <3>1. i \in Nat /\ a < i /\ i <= a + n
      BY <1>2
    <3>2. {j \in numbers : j <= i} = a + 1 .. a + (i - a)
      BY <1>2, <3>1
    <3>3. i - a \in Nat
      BY <3>1
    <3>. QED
      BY <3>2, <3>3, CountInterval
  <2>. QED
    BY <2>1
<1>5. ASSUME NEW k \in 1 .. n PROVE Pick(k) = a + k
  <2>1. a + k \in numbers
    BY <1>2
  <2>2. \A i \in numbers : Nth(k, i) <=> i = a + k
    <3>1. \A i \in numbers : i \in Nat
      BY <1>2
    <3>. QED
      BY <1>4, <3>1
  <2>. HIDE DEF Nth
  <2>. QED
    BY <2>1, <2>2
<1>. HIDE DEF Pick
<1>6. RecordedOf(l, t) = [k \in 1 .. n |->
                       [part \in 0 .. SampleSize - 1 |-> Sample(Pick(k), part)]]
  BY <1>1, <1>3
<1>. QED
  BY <1>5, <1>6 DEF SamplesFrom

\* The search from the slots' start comes up to the key of a track.
LEMMA FindStored ==
    ASSUME NEW fl \in [Words -> Word], NEW t \in 1 .. KeysOnPage,
           \A i \in 1 .. t : fl[i] \in Keys /\ fl[i].track = i,
           ~fl[t].open
    PROVE  FindKey(fl, t) = Found(fl[t].page)
<1>. DEFINE first == (t - 1) \div 4
<1>1. /\ t \in Nat \ {0} /\ t - 1 \in Nat /\ t <= SlotRange
      /\ SlotRange \in Nat \ {0} /\ PageNumbers \in Nat \ {0}
      /\ KeyBytesOnPage \in Nat \ {0} /\ t - 1 < KeyBytesOnPage
  BY SlotsAssumption, Layout, LayoutWords DEF KeyBytesOnPage
<1>2. first \in Nat /\ first <= t - 1
  <2>1. \A x \in Nat : x \div 4 \in Nat /\ x \div 4 <= x
    OBVIOUS
  <2>. QED
    BY <1>1, <2>1
<1>3. \A x \in Nat, m \in Nat \ {0} : x < m => x \div m = 0 /\ x % m = x
  OBVIOUS
<1>4. SearchPage(t) = 0 /\ FirstSlot(t) = first
  <2>1. (t - 1) \div KeyBytesOnPage = 0 /\ (t - 1) % KeyBytesOnPage = t - 1
    BY <1>1, <1>3
  <2>2. 0 \div 4 = 0
    BY <1>3
  <2>3. 0 % PageNumbers = 0
    BY <1>1, <1>3
  <2>4. first % SlotRange = first
    <3>. HIDE DEF first
    <3>. QED
      BY <1>1, <1>2, <1>3
  <2>5. t # 0
    BY <1>1
  <2>. QED
    BY <2>1, <2>2, <2>3, <2>4, <2>5 DEF SearchPage, FirstSlot
<1>5. PICK f : Search(f, fl, t) /\ FindKey(fl, t) = f[SlotRange][FirstSlot(t)]
  BY <1>1, FindKeySearch
<1>6. \A reads \in 1 .. SlotRange, k \in Slots :
          f[reads][k] = Answer(fl, t, 0, k, f[reads - 1])
  BY <1>1, <1>4, <1>5 DEF Search
\* From a slot before, the search goes up to the next one.
<1>7. ASSUME NEW k \in Nat, k <= t - 1, NEW more
      PROVE  Answer(fl, t, 0, k, more) = IF k = t - 1 THEN Found(fl[t].page)
                                         ELSE more[k + 1]
  <2>1. /\ 0 * PageSize + 1 + k = k + 1 /\ k + 1 \in 1 .. t
        /\ k # t - 1 => k + 1 < SlotRange /\ k + 1 # t /\ ~(k + 1 > t)
    BY <1>1, <1>7, Layout
  <2>2. fl[k + 1] \in Keys /\ fl[k + 1].track = k + 1
    BY <2>1
  <2>3. fl[k + 1] # Erased /\ AsKey(fl[k + 1]) = fl[k + 1]
    BY <2>2 DEF Keys, Erased, AsKey
  <2>4. CASE k = t - 1
    <3>1. k + 1 = t
      BY <1>1, <2>4
    <3>. QED
      BY <2>1, <2>2, <2>3, <2>4, <3>1 DEF Answer
  <2>5. CASE k # t - 1
    <3>1. (k + 1) % SlotRange = k + 1
      BY <1>1, <1>3, <2>1, <2>5
    <3>. QED
      BY <2>1, <2>2, <2>3, <2>5, <3>1 DEF Answer
  <2>. QED
    BY <2>4, <2>5
<1>. DEFINE B == {d \in 0 .. t - 1 :
                    \E reads \in d + 1 .. SlotRange :
                        f[reads][t - 1 - d] # Found(fl[t].page)}
<1>8. B = {}
  <2>1. SUFFICES ASSUME B # {} PROVE FALSE
    OBVIOUS
  <2>2. B \subseteq Nat
    BY <1>1
  <2>3. PICK d \in B : \A e \in B : d <= e
    <3>. HIDE DEF B
    <3>. QED
      BY <2>1, <2>2, Least
  <2>4. /\ d \in 0 .. t - 1 /\ d \in Nat
        /\ \E reads \in d + 1 .. SlotRange : f[reads][t - 1 - d] # Found(fl[t].page)
    BY <2>2, <2>3
  <2>5. PICK reads \in d + 1 .. SlotRange : f[reads][t - 1 - d] # Found(fl[t].page)
    BY <2>4
  <2>6. /\ reads \in 1 .. SlotRange /\ t - 1 - d \in Nat /\ t - 1 - d <= t - 1
        /\ t - 1 - d \in Slots
    BY <1>1, <2>4 DEF Slots
  <2>7. f[reads][t - 1 - d] = IF t - 1 - d = t - 1 THEN Found(fl[t].page)
                              ELSE f[reads - 1][(t - 1 - d) + 1]
    BY <1>6, <1>7, <2>6
  <2>8. d # 0
    BY <1>1, <2>5, <2>7
  <2>9. /\ d - 1 \in 0 .. t - 1 /\ reads - 1 \in (d - 1) + 1 .. SlotRange
        /\ (t - 1 - d) + 1 = t - 1 - (d - 1) /\ t - 1 - d # t - 1 /\ d - 1 < d
    BY <1>1, <2>4, <2>8
  <2>10. f[reads - 1][t - 1 - (d - 1)] # Found(fl[t].page)
    BY <2>5, <2>7, <2>9
  <2>11. d - 1 \in B
    BY <2>9, <2>10
  <2>. HIDE DEF B
  <2>. QED
    BY <2>3, <2>4, <2>9, <2>11
<1>9. f[SlotRange][first] = Found(fl[t].page)
  <2>. DEFINE d == t - 1 - first
  <2>1. /\ d \in 0 .. t - 1 /\ SlotRange \in d + 1 .. SlotRange
        /\ t - 1 - d = first
    <3>. HIDE DEF first
    <3>. QED
      BY <1>1, <1>2
  <2>2. d \notin B
    BY <1>8
  <2>. HIDE DEF d, first
  <2>. QED
    BY <2>1, <2>2
<1>. QED
  BY <1>4, <1>5, <1>9

-----------------------------------------------------------------------------
(* What is sent of a track                                                 *)

LEMMA ReadAddressType ==
    ASSUME NEW a \in Nat
    PROVE  ReadAddress(a) \in Nat /\ ReadAddress(a) >= a
<1>1. NextPage(a) \in Nat /\ NextPage(a) > a
  BY Addresses
<1>2. \A x \in Nat : AfterHeader(x) \in {x, x + 1}
  BY Addresses
<1>. QED
  BY <1>1, <1>2 DEF ReadAddress

\* Mem_Org_Store_Sample and Mem_Org_Send_Track_Via_BLE skip the same words.
LEMMA ReaderFollowsWriter ==
    ASSUME NEW a \in Nat
    PROVE  AfterHeader(AddressAfter(a)) = ReadAddress(a + SampleSize)
<1>. DEFINE next == a + SampleSize
<1>1. next \in Nat
  BY Layout
<1>2. NextPage(next) \in Nat /\ NextPage(next) % PageSize = 0
  BY <1>1, PageEnds, Addresses
<1>3. (NextPage(next) + 1) % PageSize = 1
  <2>1. (NextPage(next) % PageSize) + 1 < PageSize
    BY <1>2, Layout
  <2>. HIDE DEF next
  <2>2. (NextPage(next) + 1) % PageSize = (NextPage(next) % PageSize) + 1
    BY <1>2, <2>1, InPage
  <2>. QED
    BY <1>2, <2>2
<1>4. CASE next + SampleSize >= NextPage(next)
  <2>1. AddressAfter(a) = NextPage(next) + 1
    BY <1>4 DEF AddressAfter
  <2>2. ReadAddress(next) = NextPage(next) + 1
    BY <1>2, <1>4 DEF ReadAddress, AfterHeader
  <2>3. AfterHeader(NextPage(next) + 1) = NextPage(next) + 1
    BY <1>3 DEF AfterHeader
  <2>. QED
    BY <2>1, <2>2, <2>3
<1>5. CASE ~(next + SampleSize >= NextPage(next))
  BY <1>5 DEF AddressAfter, ReadAddress
<1>. QED
  BY <1>4, <1>5

LEMMA ReadFirst ==
    ASSUME NEW a \in Nat, a % PageSize = 0
    PROVE  ReadAddress(a) = a + 1 /\ AfterHeader(a) = a + 1
<1>1. NextPage(a) = a + PageSize
  BY DEF NextPage, PageStart
<1>2. ~(a + SampleSize >= NextPage(a))
  BY <1>1, Layout
<1>. QED
  BY <1>2 DEF ReadAddress, AfterHeader

\* Where the transfer of a track has left off after n samples.
Reader(start, left) ==
    left = [n \in Nat |-> IF n = 0 THEN start ELSE ReadAddress(left[n - 1]) + SampleSize]

LEMMA ReaderExists ==
    ASSUME NEW start \in Nat
    PROVE  \E left : Reader(start, left)
<1>. DEFINE next == [n \in Nat |-> n - 1]
            row(n, v) == IF n = 0 THEN start ELSE ReadAddress(v) + SampleSize
            step == [n \in Nat |-> [v \in Nat |-> row(n, v)]]
<1>1. \A n \in Nat, v \in Nat : row(n, v) \in Nat
  BY ReadAddressType, Layout
<1>2. \A n \in Nat, v \in Nat : step[n][v] = row(n, v)
  OBVIOUS
<1>. HIDE DEF row
<1>3. Recursion(Nat, start, next, step)
  BY <1>1, <1>2 DEF Recursion
<1>4. PICK F \in [Nat -> Nat] : \A n \in Nat : F[n] = Value(F, n, start, next, step)
  <2>. HIDE DEF next, step
  <2>. QED
    BY <1>3, RecursionExists
<1>5. \A n \in Nat : n # 0 => n - 1 \in Nat /\ F[n - 1] \in Nat /\ next[n] = n - 1
  OBVIOUS
<1>6. \A n \in Nat : F[n] = IF n = 0 THEN start ELSE ReadAddress(F[n - 1]) + SampleSize
  <2>. HIDE DEF next, step
  <2>. QED
    BY <1>2, <1>4, <1>5 DEF Value, row
<1>7. F = [n \in Nat |-> IF n = 0 THEN start ELSE ReadAddress(F[n - 1]) + SampleSize]
  BY <1>6
<1>. QED
  BY <1>7 DEF Reader

\* Mem_Org_Send_Track_Via_BLE sends what lies where its reader comes by.
LEMMA SentSamples ==
    ASSUME NEW page \in Nat, NEW n \in Nat \ {0},
           flash[Address(page)] = Header(n * SampleSize),
           NEW left, Reader(Address(page), left),
           \A m \in 0 .. n - 1 : left[m] + SampleSize < DataEnd
    PROVE  Sent(page) = [k \in 1 .. n |-> [part \in 0 .. SampleSize - 1 |->
                            flash[ReadAddress(left[k - 1]) + part]]]
<1>. DEFINE start == Address(page)
            size == n * SampleSize
            samples == {i \in 0 .. size : i = 0 \/ i * SampleSize < size}
            sent(f) == {i \in samples : \A m \in 0 .. i : f[m] + SampleSize < DataEnd}
            words(f) == [k \in 1 .. Cardinality(sent(f)) |->
                           [part \in 0 .. SampleSize - 1 |->
                              flash[ReadAddress(f[k - 1]) + part]]]
<1>1. HeaderSize(flash[start]) = size
  BY DEF HeaderSize, Header
<1>2. Sent(page) = words(CHOOSE f : Reader(start, f))
  BY <1>1 DEF Sent, Reader
<1>3. start \in Nat
  BY AddressType
<1>4. samples = 0 .. n - 1
  <2>1. size \in Nat /\ n <= size
    <3>1. \A x, y \in Nat \ {0} : x * y \in Nat /\ x <= x * y
      OBVIOUS
    <3>. QED
      BY <3>1, Layout
  <2>2. \A i \in Nat : i * SampleSize < size <=> i < n
    <3>1. \A x, y \in Nat, m \in Nat \ {0} : x * m < y * m <=> x < y
      OBVIOUS
    <3>. QED
      BY <3>1, Layout
  <2>. HIDE DEF size
  <2>. QED
    BY <2>1, <2>2
<1>. HIDE DEF start, samples, size
<1>5. \A f, g : Reader(start, f) /\ Reader(start, g) => f = g
  <2>1. SUFFICES ASSUME NEW f, NEW g, Reader(start, f), Reader(start, g)
                 PROVE  f = g
    OBVIOUS
  <2>2. \A h : Reader(start, h) =>
            \A m \in Nat : h[m] = IF m = 0 THEN start
                                  ELSE ReadAddress(h[m - 1]) + SampleSize
    BY DEF Reader
  <2>. DEFINE B == {m \in Nat : f[m] # g[m]}
  <2>3. B = {}
    <3>1. SUFFICES ASSUME B # {} PROVE FALSE
      OBVIOUS
    <3>2. PICK m \in B : \A j \in B : m <= j
      <4>1. B \subseteq Nat
        OBVIOUS
      <4>. HIDE DEF B
      <4>. QED
        BY <3>1, <4>1, Least
    <3>3. m \in Nat /\ f[m] # g[m]
      OBVIOUS
    <3>4. m # 0
      BY <2>1, <2>2, <3>3
    <3>5. m - 1 \in Nat /\ m - 1 < m
      BY <3>3, <3>4
    <3>6. f[m - 1] = g[m - 1]
      BY <3>2, <3>3, <3>5
    <3>. QED
      BY <2>1, <2>2, <3>3, <3>4, <3>6
  <2>4. \A m \in Nat : f[m] = g[m]
    BY <2>3
  <2>5. f = [m \in Nat |-> f[m]] /\ g = [m \in Nat |-> g[m]]
    BY <2>1 DEF Reader
  <2>. QED
    BY <2>4, <2>5
<1>6. (CHOOSE f : Reader(start, f)) = left
  BY <1>5 DEF start
<1>7. sent(left) = 0 .. n - 1
  BY <1>4
<1>8. Cardinality(0 .. n - 1) = n
  <2>1. Cardinality(0 .. n - 1) = IF 0 > n - 1 THEN 0 ELSE (n - 1) - 0 + 1
    BY FS_Interval
  <2>. QED
    BY <2>1
<1>. QED
  BY <1>2, <1>6, <1>7, <1>8

\* What a track is once it is finished, as far as a transfer can tell.
SentFrom(fl, page) ==
    LET start == Address(page)
        size == HeaderSize(fl[start])
        left[n \in Nat] == IF n = 0 THEN start ELSE ReadAddress(left[n - 1]) + SampleSize
        samples == {n \in 0 .. size : n = 0 \/ n * SampleSize < size}
        sent == {n \in samples : \A m \in 0 .. n : left[m] + SampleSize < DataEnd}
    IN  [n \in 1 .. Cardinality(sent) |->
            [part \in 0 .. SampleSize - 1 |-> fl[ReadAddress(left[n - 1]) + part]]]

KeptOf(fl, l, t) ==
    IF Len(RecordedOf(l, t)) * SampleSize \notin 1 .. SizeRange - 1
      THEN RecordedOf(l, t)
    ELSE IF FindKey(fl, t).result = "found" THEN SentFrom(fl, FindKey(fl, t).page)
    ELSE <<>>

LEMMA TrackIs ==
    /\ \A t : Track(t) = IF Finished(t) THEN KeptOf(flash, log, t) ELSE RecordedOf(log, t)
    /\ \A t : Track(t)' = IF Finished(t)' THEN KeptOf(flash', log', t)
                           ELSE RecordedOf(log', t)
<1>1. \A t : Recorded(t) = RecordedOf(log, t)
  BY DEF Recorded, RecordedOf
<1>2. \A page : Sent(page) = SentFrom(flash, page)
  BY DEF Sent, SentFrom
<1>3. \A t : Recorded(t)' = RecordedOf(log', t)
  BY DEF Recorded, RecordedOf
<1>4. \A page : Sent(page)' = SentFrom(flash', page)
  BY DEF Sent, SentFrom
<1>5. \A t : Track(t) = IF Finished(t) THEN KeptOf(flash, log, t) ELSE RecordedOf(log, t)
  BY <1>1, <1>2 DEF Track, KeptOf
<1>6. \A t : Track(t)' = IF Finished(t)' THEN KeptOf(flash', log', t)
                           ELSE RecordedOf(log', t)
  BY <1>3, <1>4 DEF Track, KeptOf
<1>. QED
  BY <1>5, <1>6

\* Of the keys on the first page, the slot is the number of the track.
LEMMA KeyOnFirstPage ==
    ASSUME TypeInv, ListInv, Faultless, KeysInOrder, NEW t \in 1 .. Keyed
    PROVE  /\ t \in Nat /\ t \in 0 .. DataStart - 1 /\ t \in Words
           /\ t \in 1 .. KeysOnPage /\ t <= tracks_stored
           /\ t # next_free_key_address
           /\ flash[t] \in Keys /\ flash[t].track = t
           /\ flash[t].page \in Nat /\ ~flash[t].open
<1>1. Clean
  BY DEF Faultless, Clean
<1>2. /\ Keyed \in Nat /\ Keyed <= tracks_stored /\ tracks_stored \in Nat
  BY <1>1 DEF ListInv, Keyed, TypeInv, TrackType
<1>3. /\ t \in Nat \ {0} /\ t <= tracks_stored /\ t <= KeysOnPage /\ t - 1 \in Nat
  BY <1>2, LayoutWords DEF KeysInOrder
<1>4. KeySlot(t) = t
  <2>1. \A x \in Nat, m \in Nat \ {0} : x < m => x \div m = 0
    OBVIOUS
  <2>2. (t - 1) \div KeysOnPage = 0
    BY <1>3, <2>1, LayoutWords
  <2>. QED
    BY <1>3, <2>2, KeySlotEquation
<1>5. /\ KeySlot(t) \in 0 .. DataStart - 1
      /\ KeySlot(t) \in Words
      /\ KeySlot(t) # next_free_key_address
  BY <1>1, KeyedSlots
<1>6. flash[t].kind = "key" /\ flash[t].track = t
  BY <1>1, <1>4 DEF ListInv
<1>7. flash[t] \in Keys
  <2>1. flash[t] \in Word
    BY <1>4, <1>5 DEF TypeInv, FlashType
  <2>2. \A word \in OtherWords : word.kind # "key"
    BY DEF OtherWords, Erased, Corrupt
  <2>. QED
    BY <1>6, <2>1, <2>2 DEF Word
<1>8. flash[t].page \in Nat
  BY <1>7 DEF Keys
<1>. QED
  BY <1>3, <1>4, <1>5, <1>6, <1>7, <1>8, LayoutWords DEF KeysInOrder

\* The first word of a track, its header's.
LEMMA FirstWord ==
    ASSUME NEW page \in Nat, page < KeyAddressPages
    PROVE  /\ Address(page) \in Words
           /\ Address(page) \in Nat
           /\ Address(page) >= DataStart
           /\ Address(page) % PageSize = 0
<1>1. Address(page) \in Nat /\ Address(page) >= DataStart
  BY AddressType
<1>2. Address(page) % PageSize = 0
  <2>1. Address(page) = (KeyPages + page) * PageSize
    BY Layout DEF Address, DataStart
  <2>2. \A x \in Nat, m \in Nat \ {0} : (x * m) % m = 0
    OBVIOUS
  <2>3. KeyPages + page \in Nat
    BY Layout
  <2>. QED
    BY <2>1, <2>2, <2>3, Layout
<1>3. Address(page) < DataEnd
  <2>1. \A x, y \in Nat, m \in Nat \ {0} : x < y => x * m < y * m
    OBVIOUS
  <2>2. page < DataPages /\ PageSize \in Nat \ {0} /\ DataPages \in Nat
    BY LayoutAssumption, Layout
  <2>3. page * PageSize < DataPages * PageSize
    BY <2>1, <2>2
  <2>4. page * PageSize \in Nat /\ DataPages * PageSize \in Nat
    BY Layout
  <2>. QED
    BY <2>3, <2>4, LayoutWords DEF Address, DataEnd
<1>. QED
  BY <1>1, <1>2, <1>3, LayoutWords DEF Words

\* Until a fault, the reader comes by the samples of a finished track.
LEMMA ReaderFindsSamples ==
    ASSUME Inv, Faultless, NEW t \in 1 .. Keyed,
           NEW a \in Nat, NEW n \in Nat, a + n <= Len(log),
           Entries(t) = a + 1 .. a + n,
           NEW left, Reader(Address(flash[t].page), left)
    PROVE  \A k \in 1 .. n : /\ left[k - 1] = Left(a + k)
                             /\ log[a + k].at = ReadAddress(left[k - 1])
                             /\ left[k - 1] + SampleSize < DataEnd
<1>1. t \in Nat \ {0} /\ InOrder /\ Chained /\ KeysInOrder
  BY DEF Inv, StoreInv, Written
<1>2. log \in Seq(LogEntry) /\ Len(log) \in Nat /\ DOMAIN log = 1 .. Len(log)
  BY DEF Inv, TypeInv, LogType, LogEntry
<1>3. \A k \in 1 .. n : /\ a + k \in DOMAIN log /\ log[a + k].track = t
                        /\ log[a + k].at = ReadAddress(Left(a + k))
                        /\ Left(a + k) + SampleSize < DataEnd
  <2>1. \A k \in 1 .. n : a + k \in Entries(t)
    OBVIOUS
  <2>2. \A k \in 1 .. n : a + k \in DOMAIN log /\ log[a + k].track = t
    BY <2>1 DEF Entries
  <2>. QED
    BY <1>1, <2>2 DEF Chained
<1>4. \A m \in Nat : left[m] = IF m = 0 THEN Address(flash[t].page)
                               ELSE ReadAddress(left[m - 1]) + SampleSize
  BY DEF Reader
<1>5. n # 0 => Left(a + 1) = Address(flash[t].page)
  <2>1. SUFFICES ASSUME n # 0, a + 1 > 1, log[a + 1 - 1].track = log[a + 1].track
                 PROVE  FALSE
    <3>1. n # 0 => log[a + 1].track = t
      BY <1>3
    <3>. QED
      BY <3>1 DEF Left
  <2>2. log[a].track = t /\ a \in DOMAIN log
    <3>1. 1 \in 1 .. n /\ a + 1 - 1 = a
      BY <2>1
    <3>2. log[a + 1].track = t
      BY <1>3, <3>1
    <3>. QED
      BY <1>2, <2>1, <3>1, <3>2
  <2>3. a \in Entries(t)
    BY <2>2 DEF Entries
  <2>. QED
    BY <2>3
<1>6. ASSUME NEW k \in 1 .. n, k # 1
      PROVE  Left(a + k) = log[a + (k - 1)].at + SampleSize
  <2>1. k - 1 \in 1 .. n /\ a + k > 1 /\ a + k - 1 = a + (k - 1)
    BY <1>6
  <2>2. log[a + (k - 1)].track = t /\ log[a + k].track = t
    BY <1>3, <2>1
  <2>. QED
    BY <2>1, <2>2 DEF Left
<1>. DEFINE B == {k \in 1 .. n : left[k - 1] # Left(a + k)}
<1>7. B = {}
  <2>1. SUFFICES ASSUME B # {} PROVE FALSE
    OBVIOUS
  <2>2. PICK k \in B : \A j \in B : k <= j
    <3>1. B \subseteq Nat
      OBVIOUS
    <3>. HIDE DEF B
    <3>. QED
      BY <2>1, <3>1, Least
  <2>3. k \in 1 .. n /\ left[k - 1] # Left(a + k)
    OBVIOUS
  <2>4. k # 1
    BY <1>4, <1>5, <2>3
  <2>5. k - 1 \in 1 .. n /\ k - 1 < k /\ k - 1 # 0 /\ k - 1 \in Nat
    BY <2>3, <2>4
  <2>6. left[(k - 1) - 1] = Left(a + (k - 1))
    <3>1. k - 1 \notin B
      <4>. HIDE DEF B
      <4>. QED
        BY <2>2, <2>3, <2>5
    <3>. QED
      BY <2>5, <3>1
  <2>7. left[k - 1] = ReadAddress(Left(a + (k - 1))) + SampleSize
    BY <1>4, <2>5, <2>6
  <2>8. ReadAddress(Left(a + (k - 1))) = log[a + (k - 1)].at
    BY <1>3, <2>5
  <2>. QED
    BY <1>6, <2>3, <2>4, <2>7, <2>8
<1>8. \A k \in 1 .. n : left[k - 1] = Left(a + k)
  BY <1>7
<1>. QED
  BY <1>3, <1>8

\* Until a fault, a finished track is sent as it was recorded.
LEMMA FinishedAsRecorded ==
    ASSUME Inv, Faultless, NEW t \in 1 .. Keyed, t < tracks_stored \/ ~storage_enabled
    PROVE  KeptOf(flash, log, t) = RecordedOf(log, t)
<1>1. /\ TypeInv /\ ListInv /\ t \in Nat
      /\ InOrder /\ Chained /\ KeysInOrder /\ HeadersRight
  BY DEF Inv, StoreInv, Written
<1>2. log \in Seq(LogEntry) /\ Len(log) \in Nat /\ DOMAIN log = 1 .. Len(log)
  BY <1>1 DEF TypeInv, LogType, LogEntry
<1>3. PICK a, n \in Nat : a + n <= Len(log) /\ Entries(t) = a + 1 .. a + n
  BY <1>1, <1>2, EntriesTogether DEF InOrder, Entries
<1>4. RecordedOf(log, t) = SamplesFrom(a, n)
  BY <1>3, RecordedSamples DEF Entries
<1>5. Len(RecordedOf(log, t)) = n
  BY <1>4 DEF SamplesFrom
<1>6. SUFFICES ASSUME n * SampleSize \in 1 .. SizeRange - 1
               PROVE  KeptOf(flash, log, t) = SamplesFrom(a, n)
  BY <1>4, <1>5 DEF KeptOf
<1>. DEFINE page == flash[t].page
<1>7. FindKey(flash, t) = Found(page)
  <2>1. \A i \in 1 .. t : i \in 1 .. Keyed
    <3>1. Keyed \in Nat
      BY <1>1 DEF ListInv, Faultless, Clean
    <3>. QED
      BY <3>1
  <2>2. \A i \in 1 .. t : flash[i] \in Keys /\ flash[i].track = i
    BY <1>1, <2>1, KeyOnFirstPage
  <2>3. t \in 1 .. KeysOnPage /\ ~flash[t].open
    BY <1>1, KeyOnFirstPage
  <2>4. flash \in [Words -> Word]
    BY <1>1 DEF TypeInv, FlashType
  <2>. QED
    BY <2>2, <2>3, <2>4, FindStored
<1>8. KeptOf(flash, log, t) = SentFrom(flash, page)
  <2>1. FindKey(flash, t).result = "found" /\ FindKey(flash, t).page = page
    BY <1>7 DEF Found
  <2>. QED
    BY <1>5, <1>6, <2>1 DEF KeptOf
<1>9. page \in Nat /\ page < KeyAddressPages
  BY <1>1, KeyOnFirstPage DEF KeysInOrder
<1>10. flash[Address(page)] = Header(n * SampleSize)
  <2>1. Cardinality(Entries(t)) = n
    BY <1>3, CountInterval
  <2>2. \A x \in Nat, m \in Nat \ {0} : x < m => x % m = x
    OBVIOUS
  <2>3. (n * SampleSize) % SizeRange = n * SampleSize
    BY <1>6, <2>2, Layout
  <2>. QED
    BY <1>1, <2>1, <2>3 DEF HeadersRight, SizeOf
<1>11. n # 0
  <2>1. 0 * SampleSize = 0
    BY Layout
  <2>. QED
    BY <1>6, <2>1
<1>12. Address(page) \in Nat
  BY <1>9, AddressType
<1>13. PICK left : Reader(Address(page), left)
  BY <1>12, ReaderExists
<1>14. \A k \in 1 .. n : /\ log[a + k].at = ReadAddress(left[k - 1])
                         /\ left[k - 1] + SampleSize < DataEnd
  <2>1. Reader(Address(flash[t].page), left)
    BY <1>13
  <2>2. /\ a + n <= Len(log)
        /\ Entries(t) = a + 1 .. a + n
    BY <1>3
  <2>3. \A k \in 1 .. n : /\ left[k - 1] = Left(a + k)
                          /\ log[a + k].at = ReadAddress(left[k - 1])
                          /\ left[k - 1] + SampleSize < DataEnd
    BY <2>1, <2>2, ReaderFindsSamples
  <2>. QED
    BY <2>3
<1>15. \A m \in 0 .. n - 1 : left[m] + SampleSize < DataEnd
  <2>1. ASSUME NEW m \in 0 .. n - 1 PROVE left[m] + SampleSize < DataEnd
    <3>1. m + 1 \in 1 .. n /\ (m + 1) - 1 = m
      OBVIOUS
    <3>. QED
      BY <1>14, <3>1
  <2>. QED
    BY <2>1
<1>16. Sent(page) = [k \in 1 .. n |-> [part \in 0 .. SampleSize - 1 |->
                        flash[ReadAddress(left[k - 1]) + part]]]
  <2>. HIDE DEF page
  <2>. QED
    BY <1>9, <1>10, <1>11, <1>13, <1>15, SentSamples
<1>17. ASSUME NEW k \in 1 .. n, NEW part \in 0 .. SampleSize - 1
       PROVE  flash[ReadAddress(left[k - 1]) + part] = Sample(a + k, part)
  <2>1. a + k \in DOMAIN log
    BY <1>2, <1>3
  <2>2. SamplesStored
    BY DEF Inv, SamplesInv, Faultless, Calm
  <2>. QED
    BY <1>14, <2>1, <2>2 DEF SamplesStored
<1>18. Sent(page) = SamplesFrom(a, n)
  BY <1>16, <1>17 DEF SamplesFrom
<1>19. Sent(page) = SentFrom(flash, page)
  BY DEF Sent, SentFrom
<1>. QED
  BY <1>8, <1>18, <1>19

-----------------------------------------------------------------------------
(* What is recorded stays as a transfer reads it                           *)

LEMMA Plain ==
    ASSUME Inv, Faultless
    PROVE  /\ TypeInv /\ Written /\ Clean /\ Limits /\ Calm
           /\ next_free_data_sample_address \in Nat
           /\ next_free_data_sample_address >= DataStart
           /\ tracks_stored \in Nat /\ Keyed \in Nat /\ Keyed <= tracks_stored
           /\ pc = "idle" => Keyed = tracks_stored
           /\ pc # "idle" => Keyed + 1 = tracks_stored
           /\ log \in Seq(LogEntry) /\ Len(log) \in Nat /\ DOMAIN log = 1 .. Len(log)
<1>1. TypeInv /\ Written /\ Clean /\ Limits /\ Calm
  BY DEF Inv, StoreInv, Faultless, Clean, Limits, Calm
<1>2. tracks_stored \in Nat /\ Keyed \in Nat
  BY <1>1 DEF Inv, ListInv, TypeInv, TrackType
<1>3. /\ pc = "idle" => Keyed = tracks_stored
      /\ pc # "idle" => Keyed + 1 = tracks_stored
  BY <1>2 DEF Keyed
<1>4. log \in Seq(LogEntry) /\ Len(log) \in Nat /\ DOMAIN log = 1 .. Len(log)
  BY <1>1 DEF TypeInv, LogType, LogEntry
<1>. QED
  BY <1>1, <1>2, <1>3, <1>4 DEF TypeInv, PointersType

\* The track of a sample has a key, unless it is none.
LEMMA EntryKeyed ==
    ASSUME Inv, Faultless, NEW i \in DOMAIN log, log[i].track # 0
    PROVE  log[i].track \in 1 .. Keyed
<1>1. log[i].track \in Nat /\ log[i].track <= Keyed /\ Keyed \in Nat
  BY Plain, EntryType DEF Written, InOrder
<1>. QED
  BY <1>1

LEMMA ChainKept ==
    ASSUME Inv, Faultless, UNCHANGED log, \A t \in 1 .. Keyed : flash'[t] = flash[t]
    PROVE  Chained'
<1>1. ASSUME NEW i \in DOMAIN log, log[i].track # 0
      PROVE  log[i].at = ReadAddress(Left(i)') /\ Left(i)' + SampleSize < DataEnd
  <2>1. flash'[log[i].track] = flash[log[i].track]
    BY <1>1, EntryKeyed
  <2>2. Left(i)' = Left(i)
    BY <2>1 DEF Left
  <2>. QED
    BY <1>1, <2>2, Plain DEF Written, Chained
<1>. QED
  BY <1>1 DEF Chained

LEMMA HeadersKept ==
    ASSUME Inv, Faultless, NEW t \in 1 .. Keyed
    PROVE  /\ flash[t].page \in Nat /\ flash[t].page < KeyAddressPages
           /\ Address(flash[t].page) \in Words
           /\ Address(flash[t].page) \in Nat
           /\ Address(flash[t].page) >= DataStart
           /\ Address(flash[t].page) % PageSize = 0
           /\ Address(flash[t].page) <= next_free_data_sample_address
           /\ t \in 0 .. DataStart - 1 /\ t \in Words /\ t \in Nat
           /\ t # next_free_key_address
<1>1. /\ flash[t].page < KeyAddressPages
      /\ Address(flash[t].page) <= next_free_data_sample_address
  BY Plain DEF Written, KeysInOrder
<1>2. /\ flash[t].page \in Nat /\ t \in Nat
      /\ t \in 0 .. DataStart - 1 /\ t \in Words
      /\ t # next_free_key_address
  BY Plain, KeyOnFirstPage DEF Inv, Written
<1>. QED
  BY <1>1, <1>2, FirstWord

LEMMA EncodedPage ==
    ASSUME NEW a \in Nat, a >= DataStart, a % PageSize = 0,
           a < DataStart + KeyAddressPages * PageSize, NEW t \in Nat
    PROVE  /\ Encoded(a, t).page \in Nat
           /\ Encoded(a, t).page < KeyAddressPages
           /\ Address(Encoded(a, t).page) = a
<1>. DEFINE page == (a - DataStart) \div PageSize
            q == a \div PageSize
<1>1. PageSize \in Nat \ {0} /\ KeyAddressPages \in Nat \ {0} /\ KeyPages \in Nat
  BY Layout
<1>2. q \in Nat /\ a = q * PageSize
  <2>1. a \div PageSize \in Nat /\ a = (a \div PageSize) * PageSize + (a % PageSize)
    BY <1>1, Division
  <2>2. q * PageSize \in Nat
    BY <1>1, <2>1
  <2>. HIDE DEF q
  <2>. QED
    BY <2>1, <2>2 DEF q
<1>. HIDE DEF q
<1>3. KeyPages <= q /\ q < KeyPages + KeyAddressPages
  <2>1. \A x, y \in Nat, m \in Nat \ {0} : (x * m <= y * m <=> x <= y)
                                        /\ (x * m < y * m <=> x < y)
    OBVIOUS
  <2>2. KeyPages * PageSize <= q * PageSize
    BY <1>2 DEF DataStart
  <2>3. q * PageSize < (KeyPages + KeyAddressPages) * PageSize
    BY <1>1, <1>2 DEF DataStart
  <2>4. KeyPages + KeyAddressPages \in Nat
    BY <1>1
  <2>. QED
    BY <1>1, <1>2, <2>1, <2>2, <2>3, <2>4
<1>4. q - KeyPages \in Nat /\ q - KeyPages < KeyAddressPages
  BY <1>1, <1>2, <1>3
<1>5. a - DataStart = (q - KeyPages) * PageSize + 0
  BY <1>1, <1>2 DEF DataStart
<1>6. page = q - KeyPages
  <2>1. 0 \in 0 .. PageSize - 1
    BY <1>1
  <2>. QED
    BY <1>1, <1>4, <1>5, <2>1, DivisionUnique
<1>. HIDE DEF page
<1>7. page % KeyAddressPages = page
  <2>1. \A x \in Nat, m \in Nat \ {0} : x < m => x % m = x
    OBVIOUS
  <2>. QED
    BY <1>1, <1>4, <1>6, <2>1
<1>8. Encoded(a, t).page = q - KeyPages
  BY <1>6, <1>7 DEF Encoded, Key, page
<1>9. Address(q - KeyPages) = a
  <2>1. (q - KeyPages) * PageSize = q * PageSize - KeyPages * PageSize
    BY <1>1, <1>2
  <2>2. q * PageSize \in Nat /\ KeyPages * PageSize \in Nat
    BY <1>1, <1>2
  <2>. QED
    BY <1>2, <2>1, <2>2 DEF Address, DataStart
<1>. QED
  BY <1>4, <1>8, <1>9

LEMMA TrackStartWritten ==
    ASSUME Inv, Faultless, TrackStart, Faultless'
    PROVE  Written'
<1>1. /\ TypeInv /\ tracks_stored \in Nat /\ Written
      /\ next_free_data_sample_address \in Nat
      /\ next_free_data_sample_address >= DataStart
      /\ Keyed = tracks_stored
  BY Plain DEF TrackStart
<1>2. /\ pc = "idle" /\ pc' = "store key" /\ ~storage_enabled /\ ~storage_enabled'
      /\ tracks_stored' = tracks_stored + 1
      /\ key' = Encoded(next_free_data_sample_address, tracks_stored + 1)
      /\ UNCHANGED <<flash, log, next_free_data_sample_address, track_size>>
  BY DEF TrackStart
<1>3. Keyed' = Keyed
  <2>1. Keyed' = (tracks_stored + 1) - 1
    BY <1>2 DEF Keyed
  <2>. QED
    BY <1>1, <2>1
<1>4. /\ ~(tracks_stored >= KeysOnPage)
      /\ ~(next_free_data_sample_address >= DataStart + KeyAddressPages * PageSize)
  BY DEF TrackStart, StartBreaches, Faultless
<1>5. next_free_data_sample_address < DataStart + KeyAddressPages * PageSize
  <2>1. KeyAddressPages * PageSize \in Nat
    BY Layout
  <2>. QED
    BY <1>1, <1>4, <2>1, LayoutWords
<1>6. InOrder'
  BY <1>1, <1>2, <1>3 DEF Written, InOrder
<1>7. Chained'
  BY <1>2, ChainKept
<1>8. KeysInOrder'
  <2>1. tracks_stored' <= KeysOnPage
    <3>1. \A x, y \in Nat : ~(x >= y) => x + 1 <= y
      OBVIOUS
    <3>2. KeysOnPage \in Nat
      BY LayoutWords
    <3>. QED
      BY <1>1, <1>2, <1>4, <3>1, <3>2
  <2>. QED
    BY <1>1, <1>2, <1>3, <2>1 DEF Written, KeysInOrder
<1>9. HeadersErased'
  BY <1>1, <1>2 DEF Written, HeadersErased
<1>10. HeadersRight'
  <2>1. \A t : SizeOf(t)' = SizeOf(t)
    BY <1>2 DEF SizeOf, Entries
  <2>. QED
    BY <1>1, <1>2, <1>3, <2>1 DEF Written, HeadersRight
<1>11. Starting'
  <2>1. next_free_data_sample_address % PageSize = 0
    BY <1>1, <1>2 DEF Written, Resting
  <2>2. tracks_stored + 1 \in Nat
    BY <1>1
  <2>. QED
    BY <1>1, <1>2, <1>5, <2>1, <2>2, EncodedPage DEF Starting
<1>12. Growing' /\ Resting'
  BY <1>1, <1>2 DEF Written, Growing, Resting
<1>. QED
  BY <1>6, <1>7, <1>8, <1>9, <1>10, <1>11, <1>12 DEF Written

\* A step of Mem_Org_Store_Key leaves all but the slot at the pointer alone.
LEMMA ProgramKeyWritten ==
    ASSUME Inv, Faultless, ProgramKey, pc # "idle",
           UNCHANGED <<log, next_free_data_sample_address, tracks_stored>>
    PROVE  /\ \A t \in 1 .. Keyed : flash'[t] = flash[t]
           /\ \A w \in Words : w >= DataStart => flash'[w] = flash[w]
           /\ \A t : SizeOf(t)' = SizeOf(t)
           /\ Chained' /\ HeadersErased'
           /\ \A t \in 1 .. Keyed :
                 flash'[Address(flash'[t].page)] = Header(SizeOf(t)')
<1>1. /\ next_free_key_address < DataStart
      /\ \A w \in Words : w # next_free_key_address => flash'[w] = flash[w]
  BY Plain, ProgramKeyKept, LayoutWords DEF Inv, InKeyArea
<1>2. \A t \in 1 .. Keyed : flash'[t] = flash[t]
  BY <1>1, HeadersKept
<1>3. \A w \in Words : w >= DataStart => flash'[w] = flash[w]
  <2>1. \A w \in Words : w >= DataStart => w # next_free_key_address
    BY <1>1, Plain, LayoutWords DEF Words, TypeInv, PointersType
  <2>. QED
    BY <1>1, <2>1
<1>4. \A t : SizeOf(t)' = SizeOf(t)
  BY DEF SizeOf, Entries
<1>5. Chained'
  BY <1>2, ChainKept
<1>6. HeadersErased'
  <2>1. \A w \in Words : w >= next_free_data_sample_address => w >= DataStart
    BY Plain, LayoutWords DEF Words
  <2>. QED
    BY <1>3, <2>1, Plain DEF Written, HeadersErased
<1>7. ASSUME NEW t \in 1 .. Keyed
      PROVE  flash'[Address(flash'[t].page)] = Header(SizeOf(t)')
  <2>1. flash'[Address(flash[t].page)] = flash[Address(flash[t].page)]
    BY <1>3, HeadersKept
  <2>2. t < tracks_stored
    BY Plain
  <2>. QED
    BY <1>2, <1>4, <2>1, <2>2, Plain DEF Written, HeadersRight
<1>. QED
  BY <1>2, <1>3, <1>4, <1>5, <1>6, <1>7

LEMMA StoreKeyWritten ==
    ASSUME Inv, Faultless, StoreKey
    PROVE  Written'
<1>1. /\ pc = "store key" /\ pc' = "acknowledge" /\ ProgramKey
      /\ key' = [key EXCEPT !.open = FALSE]
      /\ UNCHANGED <<log, next_free_data_sample_address, tracks_stored, track_size,
                     storage_enabled>>
  BY DEF StoreKey, ram
<1>2. key'.page = key.page
  BY <1>1, Plain DEF TypeInv, CallType, Keys
<1>3. Keyed' = Keyed
  BY <1>1 DEF Keyed
<1>4. /\ \A t \in 1 .. Keyed : flash'[t] = flash[t]
      /\ Chained' /\ HeadersErased'
      /\ \A t \in 1 .. Keyed : flash'[Address(flash'[t].page)] = Header(SizeOf(t)')
  BY <1>1, ProgramKeyWritten
<1>5. InOrder'
  BY <1>1, <1>3, Plain DEF Written, InOrder
<1>6. KeysInOrder'
  BY <1>1, <1>3, <1>4, Plain DEF Written, KeysInOrder
<1>7. HeadersRight'
  BY <1>3, <1>4 DEF HeadersRight
<1>8. Starting' /\ Growing' /\ Resting'
  BY <1>1, <1>2, Plain DEF Written, Starting, Growing, Resting
<1>. QED
  BY <1>4, <1>5, <1>6, <1>7, <1>8 DEF Written

\* The page in a key that is stored is closed.
LEMMA AcknowledgedKey ==
    ASSUME Inv, Faultless, AcknowledgeKey
    PROVE  /\ tracks_stored = next_free_key_address
           /\ ~flash'[tracks_stored].open
           /\ flash'[tracks_stored].page = key.page
<1>1. pc = "acknowledge" /\ ProgramKey /\ pc # "idle"
  BY DEF AcknowledgeKey
<1>2. /\ TypeInv /\ KeysInv /\ Limits /\ Clean /\ Written
      /\ tracks_stored \in Nat /\ Keyed \in Nat /\ Keyed + 1 = tracks_stored
  BY <1>1, Plain DEF Inv
<1>3. next_free_key_address = KeySlot(tracks_stored)
  BY <1>2 DEF Inv, ListInv
<1>4. KeySlot(tracks_stored) = tracks_stored
  <2>1. \A x \in Nat, m \in Nat \ {0} : x < m => x \div m = 0
    OBVIOUS
  <2>2. /\ tracks_stored \in Nat \ {0} /\ tracks_stored - 1 \in Nat
        /\ tracks_stored - 1 < KeysOnPage
    BY <1>2, LayoutWords DEF Written, KeysInOrder
  <2>3. (tracks_stored - 1) \div KeysOnPage = 0
    BY <2>1, <2>2, LayoutWords
  <2>. QED
    BY <2>2, <2>3, KeySlotEquation
<1>. DEFINE a == next_free_key_address
<1>5. a \in Words /\ InKeyArea(a) /\ flash'[a].page = key.page
  BY <1>1, <1>2, ProgramKeyKept, LayoutWords DEF InKeyArea, Words
<1>6. flash'[a] = Programmed(flash[a], key)
  BY <1>1, <1>2, <1>5 DEF ProgramKey, TypeInv, FlashType
<1>7. key \in Keys /\ ~key.open /\ SlotKept
  BY <1>1, <1>2, <1>5 DEF KeysInv, TypeInv, CallType
<1>8. ~flash'[a].open
  <2>1. CASE flash[a] = Erased
    <3>1. flash'[a] = key
      BY <1>6, <2>1 DEF Programmed, Erased
    <3>. QED
      BY <1>7, <3>1
  <2>2. CASE SameKey(flash[a], key)
    <3>1. flash[a] \in Keys
      BY <2>2 DEF SameKey
    <3>2. flash'[a] = Key(flash[a].track, flash[a].page, FALSE)
      BY <1>6, <1>7, <2>2, <3>1, ProgrammedSame
    <3>. QED
      BY <3>2 DEF Key
  <2>. QED
    BY <1>7, <2>1, <2>2 DEF SlotKept
<1>. QED
  BY <1>3, <1>4, <1>5, <1>8

LEMMA AcknowledgeKeyWritten ==
    ASSUME Inv, Faultless, AcknowledgeKey
    PROVE  Written'
<1>. DEFINE n == tracks_stored
<1>1. /\ pc # "idle" /\ pc' = "idle" /\ ProgramKey /\ storage_enabled' = TRUE
      /\ UNCHANGED <<log, next_free_data_sample_address, tracks_stored, track_size>>
  BY DEF AcknowledgeKey, Return
<1>2. /\ TypeInv /\ Written /\ n \in Nat /\ Keyed \in Nat /\ Keyed + 1 = n /\ Keyed' = n
      /\ next_free_data_sample_address \in Nat
      /\ next_free_data_sample_address >= DataStart
  BY <1>1, Plain DEF Keyed
<1>3. /\ \A t \in 1 .. Keyed : flash'[t] = flash[t]
      /\ \A w \in Words : w >= DataStart => flash'[w] = flash[w]
      /\ \A t : SizeOf(t)' = SizeOf(t)
      /\ Chained' /\ HeadersErased'
      /\ \A t \in 1 .. Keyed : flash'[Address(flash'[t].page)] = Header(SizeOf(t)')
  BY <1>1, ProgramKeyWritten
<1>4. ~flash'[n].open /\ flash'[n].page = key.page
  BY AcknowledgedKey
<1>5. /\ ~storage_enabled /\ key.page < KeyAddressPages
      /\ next_free_data_sample_address = Address(key.page)
      /\ next_free_data_sample_address % PageSize = 0
      /\ track_size = 0
  BY <1>1, <1>2 DEF Written, Starting, Resting, Inv, StoreInv
<1>6. key.page \in Nat
  BY <1>1, <1>2 DEF TypeInv, CallType, Keys
<1>7. Address(key.page) \in Words /\ Address(key.page) \in Nat
  BY <1>5, <1>6, FirstWord
<1>8. \A i \in DOMAIN log : log[i].track <= Keyed /\ log[i].track \in Nat
  BY <1>2, Plain, EntryType DEF Written, InOrder
<1>9. InOrder'
  <2>1. \A i \in DOMAIN log : log[i].track <= Keyed'
    BY <1>2, <1>8
  <2>. QED
    BY <1>1, <1>2, <2>1 DEF Written, InOrder
<1>10. KeysInOrder'
  <2>1. \A t \in 1 .. n : t = n \/ t \in 1 .. Keyed
    BY <1>2
  <2>2. \A t \in 1 .. Keyed :
            /\ ~flash'[t].open
            /\ flash'[t].page < KeyAddressPages
            /\ flash'[t].page < flash'[n].page
            /\ Address(flash'[t].page) <= next_free_data_sample_address
    <3>1. ASSUME NEW t \in 1 .. Keyed PROVE flash[t].page < key.page
      <4>1. Address(flash[t].page) < Address(key.page) /\ flash[t].page \in Nat
        BY <1>2, <1>5, HeadersKept DEF Written, KeysInOrder
      <4>2. flash[t].page * PageSize < key.page * PageSize
        <5>1. flash[t].page * PageSize \in Nat /\ key.page * PageSize \in Nat
          BY <1>6, <4>1, Layout
        <5>. QED
          BY <4>1, <5>1, LayoutWords DEF Address
      <4>3. \A x, y \in Nat, m \in Nat \ {0} : x * m < y * m => x < y
        OBVIOUS
      <4>. QED
        BY <1>6, <4>1, <4>2, <4>3, Layout
    <3>. QED
      BY <1>2, <1>3, <1>4, <3>1 DEF Written, KeysInOrder
  <2>3. \A t, u \in 1 .. n : t < u => t \in 1 .. Keyed
    BY <1>2
  <2>4. \A t, u \in 1 .. n : t < u => flash'[t].page < flash'[u].page
    <3>1. ASSUME NEW t \in 1 .. n, NEW u \in 1 .. n, t < u
          PROVE  flash'[t].page < flash'[u].page
      <4>1. CASE u = n
        BY <2>2, <2>3, <3>1, <4>1
      <4>2. CASE u # n
        <5>1. t \in 1 .. Keyed /\ u \in 1 .. Keyed
          BY <2>1, <2>3, <3>1, <4>2
        <5>. QED
          BY <1>2, <1>3, <3>1, <5>1 DEF Written, KeysInOrder
      <4>. QED
        BY <4>1, <4>2
    <3>. QED
      BY <3>1
  <2>5. tracks_stored' <= KeysOnPage
    BY <1>1, <1>2 DEF Written, KeysInOrder
  <2>6. \A t \in 1 .. n :
            /\ ~flash'[t].open
            /\ flash'[t].page < KeyAddressPages
            /\ Address(flash'[t].page) <= next_free_data_sample_address
    BY <1>2, <1>4, <1>5, <2>1, <2>2
  <2>. QED
    BY <1>1, <1>2, <2>4, <2>5, <2>6 DEF KeysInOrder
<1>11. HeadersRight'
  <2>1. \A t \in 1 .. n : t < n => t \in 1 .. Keyed
    BY <1>2
  <2>. QED
    BY <1>1, <1>2, <1>3, <2>1 DEF HeadersRight
<1>12. Starting' /\ Resting'
  BY <1>1 DEF Starting, Resting
<1>13. Growing'
  <2>1. ~(log # <<>> /\ log[Len(log)].track = n)
    <3>1. SUFFICES ASSUME log # <<>>, log[Len(log)].track = n PROVE FALSE
      OBVIOUS
    <3>2. Len(log) \in DOMAIN log
      BY <3>1, Plain
    <3>3. n <= Keyed
      BY <1>8, <3>1, <3>2
    <3>. QED
      BY <1>2, <3>3
  <2>2. NextLeft' = next_free_data_sample_address
    BY <1>1, <1>4, <1>5, <2>1 DEF NextLeft
  <2>3. AfterHeader(next_free_data_sample_address)
            = ReadAddress(next_free_data_sample_address)
    BY <1>2, <1>5, ReadFirst
  <2>4. SizeOf(n)' = 0
    <3>1. Entries(n) = {}
      <4>1. \A i \in DOMAIN log : log[i].track # n
        BY <1>2, <1>8
      <4>. QED
        BY <4>1 DEF Entries
    <3>2. Cardinality(Entries(n)) = 0
      BY <3>1, FS_EmptySet
    <3>3. \A m \in Nat \ {0} : 0 % m = 0
      OBVIOUS
    <3>4. SizeOf(n) = 0
      BY <3>2, <3>3, Layout DEF SizeOf
    <3>5. SizeOf(n)' = SizeOf(n)
      BY <1>1 DEF SizeOf, Entries
    <3>. QED
      BY <3>4, <3>5
  <2>5. flash'[Address(key.page)] = Erased
    BY <1>2, <1>3, <1>5, <1>7 DEF Written, HeadersErased
  <2>. QED
    BY <1>1, <1>2, <1>4, <1>5, <2>2, <2>3, <2>4, <2>5 DEF Growing
<1>. QED
  BY <1>3, <1>9, <1>10, <1>11, <1>12, <1>13 DEF Written

\* The last track's number is not looked for in a flash without keys.
LEMMA FindNoKey ==
    ASSUME NEW fl \in [Words -> Word], fl[1] = Erased
    PROVE  FindKey(fl, 0) = NotFound
<1>1. PICK f : Search(f, fl, 0) /\ FindKey(fl, 0) = f[SlotRange][FirstSlot(0)]
  BY FindKeySearch
<1>2. SlotRange \in 0 .. SlotRange /\ SlotRange # 0 /\ FirstSlot(0) \in Slots
  BY Layout, SearchPlace
<1>3. f[SlotRange][FirstSlot(0)]
        = Answer(fl, 0, SearchPage(0), FirstSlot(0), f[SlotRange - 1])
  BY <1>1, <1>2 DEF Search
<1>4. SearchPage(0) * PageSize + 1 + FirstSlot(0) = 1
  <2>1. SearchPage(0) = 0 /\ FirstSlot(0) = 0
    BY DEF SearchPage, FirstSlot
  <2>2. \A m \in Nat : 0 * m + 1 + 0 = 1
    OBVIOUS
  <2>. QED
    BY <2>1, <2>2, Layout
<1>5. Answer(fl, 0, SearchPage(0), FirstSlot(0), f[SlotRange - 1]) = NotFound
  BY <1>4 DEF Answer
<1>. QED
  BY <1>1, <1>3, <1>5

\* Where the track that is recorded has its key.
LEMMA LastKeyFound ==
    ASSUME Inv, Faultless, pc = "idle"
    PROVE  FindKey(flash, tracks_stored)
              = IF tracks_stored = 0 THEN NotFound ELSE Found(flash[tracks_stored].page)
<1>1. /\ TypeInv /\ KeysInv /\ ListInv /\ Clean /\ Limits /\ Written
      /\ tracks_stored \in Nat /\ Keyed = tracks_stored
      /\ flash \in [Words -> Word]
  BY Plain DEF Inv, TypeInv, FlashType
<1>2. CASE tracks_stored = 0
  <2>1. next_free_key_address = KeySlot(0 + 1)
    BY <1>1, <1>2 DEF ListInv
  <2>2. next_free_key_address = 1
    BY <2>1, FirstKeySlot
  <2>3. InKeyArea(1)
    BY Searched
  <2>4. flash[1] = Erased
    BY <1>1, <2>2, <2>3 DEF KeysInv, SlotKept
  <2>. QED
    BY <1>1, <1>2, <2>4, FindNoKey
<1>3. CASE tracks_stored # 0
  <2>1. tracks_stored \in 1 .. KeysOnPage /\ tracks_stored \in 1 .. Keyed
    BY <1>1, <1>3, LayoutWords DEF Written, KeysInOrder
  <2>2. \A i \in 1 .. tracks_stored : flash[i] \in Keys /\ flash[i].track = i
    BY <1>1, KeyOnFirstPage DEF Written
  <2>3. ~flash[tracks_stored].open
    BY <1>1, <2>1, KeyOnFirstPage DEF Written
  <2>. QED
    BY <1>1, <1>3, <2>1, <2>2, <2>3, FindStored
<1>. QED
  BY <1>2, <1>3

LEMMA StopStoragePlain ==
    ASSUME Inv, Faultless, pc = "idle", storage_enabled, StopStorage, Faultless'
    PROVE  \E start \in Words :
              /\ start >= DataStart /\ start <= next_free_data_sample_address
              /\ tracks_stored # 0 => start = Address(flash[tracks_stored].page)
              /\ flash' = [flash EXCEPT ![start] = Programmed(@, Header(track_size))]
<1>. DEFINE page == IF tracks_stored = 0 THEN 0 ELSE flash[tracks_stored].page
            start == Address(page)
<1>1. /\ TypeInv /\ Written /\ tracks_stored \in Nat /\ Keyed = tracks_stored
      /\ next_free_data_sample_address \in Nat
      /\ next_free_data_sample_address >= DataStart
  BY Plain
<1>2. FindKey(flash, tracks_stored)
        = IF tracks_stored = 0 THEN NotFound ELSE Found(flash[tracks_stored].page)
  BY LastKeyFound
<1>3. (IF FindKey(flash, tracks_stored).result = "found"
         THEN FindKey(flash, tracks_stored).page ELSE 0) = page
  BY <1>2 DEF NotFound, Found
<1>4. /\ start \in Words /\ start >= DataStart /\ start <= next_free_data_sample_address
      /\ tracks_stored # 0 => start = Address(flash[tracks_stored].page)
  <2>1. CASE tracks_stored = 0
    <3>1. Address(0) = DataStart
      <4>1. \A x, m \in Nat : x + 0 * m = x
        OBVIOUS
      <4>. QED
        BY <4>1, Layout, LayoutWords DEF Address
    <3>2. DataStart \in Words
      BY LayoutWords DEF Words
    <3>. QED
      BY <1>1, <2>1, <3>1, <3>2, LayoutWords
  <2>2. CASE tracks_stored # 0
    <3>1. tracks_stored \in 1 .. Keyed
      BY <1>1, <2>2
    <3>. QED
      BY <2>2, <3>1, HeadersKept
  <2>. QED
    BY <2>1, <2>2
<1>5. flash' = [flash EXCEPT ![start] = Programmed(@, Header(track_size))]
  <2>1. ~FailUnseen
    BY DEF FailUnseen, Faultless
  <2>. QED
    BY <1>3, <2>1 DEF StopStorage
<1>. HIDE DEF start
<1>. QED
  BY <1>4, <1>5

LEMMA StopStorageWritten ==
    ASSUME Inv, Faultless, pc = "idle", storage_enabled, StopStorage, Faultless'
    PROVE  Written'
<1>. DEFINE n == tracks_stored
            a == next_free_data_sample_address
<1>1. /\ TypeInv /\ Written /\ n \in Nat /\ Keyed = n
      /\ a \in Nat /\ a >= DataStart
  BY Plain
<1>2. /\ UNCHANGED <<tracks_stored, pc, log>>
      /\ storage_enabled' = FALSE
      /\ next_free_data_sample_address' = NextPage(a)
  BY DEF StopStorage, call
<1>3. NextPage(a) \in Nat /\ NextPage(a) > a /\ NextPage(a) % PageSize = 0
  BY <1>1, Addresses, PageEnds
<1>4. PICK start \in Words :
              /\ start >= DataStart /\ start <= a
              /\ n # 0 => start = Address(flash[n].page)
              /\ flash' = [flash EXCEPT ![start] = Programmed(@, Header(track_size))]
  BY StopStoragePlain
<1>5. \A w \in Words : w # start => flash'[w] = flash[w]
  BY <1>1, <1>4 DEF TypeInv, FlashType
<1>6. \A t \in 1 .. Keyed : flash'[t] = flash[t]
  <2>1. \A t \in 1 .. Keyed : t \in Words /\ t # start
    BY <1>4, HeadersKept, LayoutWords
  <2>. QED
    BY <1>5, <2>1
<1>7. \A t : SizeOf(t)' = SizeOf(t)
  BY <1>2 DEF SizeOf, Entries
<1>8. Keyed' = n
  BY <1>1, <1>2 DEF Keyed
<1>9. InOrder'
  BY <1>1, <1>2, <1>8 DEF Written, InOrder
<1>10. Chained'
  BY <1>2, <1>6, ChainKept
<1>11. KeysInOrder'
  <2>1. \A t \in 1 .. Keyed : /\ Address(flash[t].page) \in Nat
                              /\ Address(flash[t].page) <= a
    BY HeadersKept
  <2>2. \A t \in 1 .. Keyed : /\ Address(flash[t].page) <= NextPage(a)
                              /\ Address(flash[t].page) < NextPage(a)
    BY <1>1, <1>3, <2>1
  <2>. QED
    BY <1>1, <1>2, <1>6, <1>8, <2>2 DEF Written, KeysInOrder
<1>12. HeadersErased'
  <2>1. \A w \in Words : w >= NextPage(a) => w >= a /\ w # start
    BY <1>1, <1>3, <1>4, LayoutWords DEF Words
  <2>. QED
    BY <1>1, <1>2, <1>5, <2>1 DEF Written, HeadersErased
<1>13. HeadersRight'
  <2>1. ASSUME NEW t \in 1 .. Keyed
        PROVE  flash'[Address(flash[t].page)] = Header(SizeOf(t))
    <3>1. n # 0 /\ n \in 1 .. Keyed /\ start = Address(flash[n].page)
      BY <1>1, <1>4
    <3>2. CASE t = n
      <4>1. flash[start] = Erased /\ track_size = SizeOf(n)
        BY <1>1, <3>1 DEF Written, Growing
      <4>2. flash'[start] = Programmed(Erased, Header(SizeOf(n)))
        BY <1>1, <1>4, <4>1 DEF TypeInv, FlashType
      <4>3. flash'[start] = Header(SizeOf(n))
        BY <4>2 DEF Programmed, Erased
      <4>. QED
        BY <3>1, <3>2, <4>3
    <3>3. CASE t # n
      <4>1. t < n
        BY <1>1, <3>3
      <4>2. flash[t].page < flash[n].page
        BY <1>1, <3>1, <4>1 DEF Written, KeysInOrder
      <4>3. flash[t].page \in Nat /\ flash[n].page \in Nat
        BY <3>1, HeadersKept
      <4>4. Address(flash[t].page) # Address(flash[n].page)
        <5>1. \A x, y \in Nat, m \in Nat \ {0} : x < y => x * m # y * m /\ x * m \in Nat
                                                         /\ y * m \in Nat
          OBVIOUS
        <5>2. /\ flash[t].page * PageSize # flash[n].page * PageSize
              /\ flash[t].page * PageSize \in Nat /\ flash[n].page * PageSize \in Nat
          BY <4>2, <4>3, <5>1, Layout
        <5>. QED
          BY <5>2, LayoutWords DEF Address
      <4>5. flash[Address(flash[t].page)] = Header(SizeOf(t))
        BY <1>1, <4>1 DEF Written, HeadersRight
      <4>6. Address(flash[t].page) \in Words
        BY HeadersKept
      <4>. QED
        BY <1>5, <3>1, <4>4, <4>5, <4>6
    <3>. QED
      BY <3>2, <3>3
  <2>. QED
    BY <1>1, <1>6, <1>7, <1>8, <2>1 DEF HeadersRight
<1>14. Starting' /\ Growing'
  BY <1>2 DEF Starting, Growing
<1>15. Resting'
  BY <1>2, <1>3 DEF Resting
<1>. QED
  BY <1>9, <1>10, <1>11, <1>12, <1>13, <1>14, <1>15 DEF Written

LEMMA RemainderAdds ==
    ASSUME NEW x \in Nat, NEW y \in Nat, NEW m \in Nat \ {0}
    PROVE  ((x % m) + y) % m = (x + y) % m
<1>. DEFINE q == x \div m
            r == x % m
            p == (r + y) \div m
            s == (r + y) % m
<1>1. q \in Nat /\ r \in 0 .. m - 1 /\ x = q * m + r
  BY Division
<1>2. r + y \in Nat
  BY <1>1
<1>3. p \in Nat /\ s \in 0 .. m - 1 /\ r + y = p * m + s
  <2>. HIDE DEF r
  <2>. QED
    BY <1>2, Division
<1>. HIDE DEF q, r, p, s
<1>4. x + y = (q + p) * m + s
  <2>1. q * m \in Nat /\ p * m \in Nat
    BY <1>1, <1>3
  <2>2. (q + p) * m = q * m + p * m
    BY <1>1, <1>3
  <2>3. q * m + r + y = q * m + p * m + s
    BY <1>1, <1>3, <2>1
  <2>. QED
    BY <1>1, <2>2, <2>3
<1>5. q + p \in Nat
  BY <1>1, <1>3
<1>6. (x + y) % m = s
  BY <1>3, <1>4, <1>5, DivisionUnique
<1>. QED
  BY <1>6 DEF r, s

\* A sample more, a sample's size more.
LEMMA SizeGrows ==
    ASSUME NEW c \in Nat
    PROVE  ((c + 1) * SampleSize) % SizeRange = Grown((c * SampleSize) % SizeRange)
<1>1. (c + 1) * SampleSize = c * SampleSize + SampleSize /\ c * SampleSize \in Nat
  BY Layout
<1>2. \A x \in Nat :
          (x + SampleSize) % SizeRange = ((x % SizeRange) + SampleSize) % SizeRange
  <2>1. SampleSize \in Nat /\ SizeRange \in Nat \ {0}
    BY Layout
  <2>. QED
    BY <2>1, RemainderAdds
<1>. QED
  BY <1>1, <1>2 DEF Grown

\* What a sample stored does to the log and to the flash.
LEMMA StoreSamplePlain ==
    ASSUME Inv, Faultless, StoreSample, Faultless',
           NEW at, at = AfterHeader(next_free_data_sample_address)
    PROVE  /\ at \in Nat /\ at \in Words
           /\ next_free_data_sample_address <= at
           /\ next_free_data_sample_address' = AddressAfter(at)
           /\ AddressAfter(at) \in Nat /\ AddressAfter(at) >= at + SampleSize
           /\ Len(log') = Len(log) + 1 /\ DOMAIN log' = 1 .. Len(log) + 1
           /\ log' \in Seq(LogEntry) /\ log' # <<>>
           /\ \A i \in 1 .. Len(log) : log'[i] = log[i]
           /\ log'[Len(log) + 1] = [track |-> tracks_stored, at |-> at]
           /\ \A w \in Words : w % PageSize = 0 \/ w < at => flash'[w] = flash[w]
<1>1. /\ TypeInv /\ Calm /\ PointersType /\ tracks_stored \in Nat
      /\ log \in Seq(LogEntry) /\ Len(log) \in Nat
      /\ next_free_data_sample_address \in Nat
  BY Plain DEF TypeInv, Inv
<1>2. /\ at \in Nat /\ at \in Words /\ next_free_data_sample_address <= at
  BY <1>1, SamplePlace DEF StoreSample
<1>3. Fits(at)
  BY <1>1, ReadyFits DEF Inv, SamplesInv
<1>4. AddressAfter(at) \in Nat /\ AddressAfter(at) >= at + SampleSize
  BY <1>2, Addresses
<1>. DEFINE e == [track |-> tracks_stored, at |-> at]
            nr == Len(log) + 1
<1>5. /\ flash' = [w \in Words |-> IF w \in at .. at + SampleSize - 1
                                     THEN Programmed(flash[w], Sample(nr, w - at))
                                     ELSE flash[w]]
      /\ log' = Append(log, e)
      /\ next_free_data_sample_address' = AddressAfter(at)
  <2>1. ~FailUnseen
    BY DEF FailUnseen, Faultless
  <2>. QED
    BY <2>1 DEF StoreSample
<1>6. e \in LogEntry
  BY <1>1, <1>2 DEF LogEntry
<1>. HIDE DEF e
<1>7. /\ Len(log') = nr /\ DOMAIN log' = 1 .. nr /\ log' \in Seq(LogEntry)
      /\ \A i \in 1 .. Len(log) : log'[i] = log[i]
      /\ log'[nr] = e
  BY <1>1, <1>5, <1>6
<1>8. log' # <<>>
  BY <1>1, <1>7
<1>9. \A part \in Nat : part < SampleSize => (at + part) % PageSize # 0
  <2>1. ASSUME NEW part \in Nat, part < SampleSize
        PROVE  (at + part) % PageSize # 0
    <3>1. at % PageSize \in Nat
      BY <1>2, Addresses
    <3>2. (at % PageSize) + part < PageSize
      BY <1>3, <2>1, <3>1, Layout DEF Fits
    <3>3. (at + part) % PageSize = (at % PageSize) + part
      BY <1>2, <3>2, InPage
    <3>. QED
      BY <1>3, <3>1, <3>3 DEF Fits
  <2>. QED
    BY <2>1
<1>10. ASSUME NEW w \in Words, w % PageSize = 0 \/ w < at
       PROVE  ~(w \in at .. at + SampleSize - 1)
  <2>1. SUFFICES ASSUME w \in at .. at + SampleSize - 1 PROVE FALSE
    OBVIOUS
  <2>2. w - at \in Nat /\ w - at < SampleSize /\ at + (w - at) = w /\ ~(w < at)
    BY <1>2, <2>1, Layout
  <2>3. (at + (w - at)) % PageSize # 0
    BY <1>9, <2>2
  <2>. QED
    BY <1>10, <2>2, <2>3
<1>11. \A w \in Words : w % PageSize = 0 \/ w < at => flash'[w] = flash[w]
  BY <1>5, <1>10
<1>. QED
  BY <1>2, <1>4, <1>5, <1>7, <1>8, <1>11 DEF e

\* The sizes of the tracks after a sample has been stored.
LEMMA StoreSampleSizes ==
    ASSUME Inv, Faultless, StoreSample, Faultless'
    PROVE  /\ \A t : t # tracks_stored => SizeOf(t)' = SizeOf(t)
           /\ SizeOf(tracks_stored)' = Grown(SizeOf(tracks_stored))
<1>. DEFINE n == tracks_stored
            nr == Len(log) + 1
            at == AfterHeader(next_free_data_sample_address)
<1>1. /\ log \in Seq(LogEntry) /\ Len(log) \in Nat /\ DOMAIN log = 1 .. Len(log)
      /\ n' = n
  BY Plain DEF StoreSample
<1>2. /\ DOMAIN log' = 1 .. nr
      /\ \A i \in 1 .. Len(log) : log'[i] = log[i]
      /\ log'[nr] = [track |-> n, at |-> at]
  BY StoreSamplePlain
<1>3. \A i : i \in DOMAIN log' <=> i = nr \/ i \in DOMAIN log
  BY <1>1, <1>2
<1>4. nr \notin DOMAIN log /\ log'[nr].track = n
  BY <1>1, <1>2
<1>5. ASSUME NEW t
      PROVE  {i \in DOMAIN log' : log'[i].track = t}
                = IF t = n THEN {i \in DOMAIN log : log[i].track = t} \cup {nr}
                  ELSE {i \in DOMAIN log : log[i].track = t}
  <2>. HIDE DEF nr, at
  <2>. QED
    BY <1>1, <1>2, <1>3, <1>4
<1>6. \A t : t # n => SizeOf(t)' = SizeOf(t)
  BY <1>5 DEF SizeOf, Entries
<1>7. Cardinality(Entries(n)) \in Nat /\ Cardinality(Entries(n) \cup {nr})
                                           = Cardinality(Entries(n)) + 1
  <2>1. IsFiniteSet(Entries(n))
    <3>1. IsFiniteSet(1 .. Len(log))
      BY <1>1, FS_Interval
    <3>2. Entries(n) \subseteq 1 .. Len(log)
      BY <1>1 DEF Entries
    <3>. QED
      BY <3>1, <3>2, FS_Subset
  <2>2. nr \notin Entries(n)
    BY <1>4 DEF Entries
  <2>. QED
    BY <2>1, <2>2, FS_AddElement, FS_CardinalityType
<1>8. {i \in DOMAIN log' : log'[i].track = n} = Entries(n) \cup {nr}
  BY <1>5 DEF Entries
<1>9. SizeOf(n)' = (Cardinality(Entries(n) \cup {nr}) * SampleSize) % SizeRange
  BY <1>1, <1>8 DEF SizeOf, Entries
<1>10. SizeOf(n)' = Grown(SizeOf(n))
  <2>1. SizeOf(n)' = ((Cardinality(Entries(n)) + 1) * SampleSize) % SizeRange
    BY <1>7, <1>9
  <2>. QED
    BY <1>7, <2>1, SizeGrows DEF SizeOf
<1>. QED
  BY <1>6, <1>10

LEMMA StoreSampleWritten ==
    ASSUME Inv, Faultless, StoreSample, Faultless'
    PROVE  Written'
<1>. DEFINE n == tracks_stored
            a == next_free_data_sample_address
            at == AfterHeader(a)
<1>0. PICK nr \in Nat : nr = Len(log) + 1
  BY Plain
<1>1. /\ TypeInv /\ Written /\ n \in Nat /\ Keyed = n
      /\ a \in Nat /\ a >= DataStart
      /\ log \in Seq(LogEntry) /\ Len(log) \in Nat /\ DOMAIN log = 1 .. Len(log)
  BY Plain DEF StoreSample
<1>2. /\ pc = "idle" /\ storage_enabled /\ ~MemoryFull
      /\ UNCHANGED <<tracks_stored, pc, storage_enabled>>
      /\ track_size' = Grown(track_size)
  BY DEF StoreSample, call
<1>3. /\ at \in Nat /\ at \in Words /\ a <= at
      /\ next_free_data_sample_address' = AddressAfter(at)
      /\ AddressAfter(at) \in Nat /\ AddressAfter(at) >= at + SampleSize
      /\ Len(log') = nr /\ DOMAIN log' = 1 .. nr
      /\ log' \in Seq(LogEntry) /\ log' # <<>>
      /\ \A i \in 1 .. Len(log) : log'[i] = log[i]
      /\ log'[nr] = [track |-> n, at |-> at]
      /\ \A w \in Words : w % PageSize = 0 \/ w < at => flash'[w] = flash[w]
  BY <1>0, StoreSamplePlain
<1>4. \A t \in 1 .. Keyed : flash'[t] = flash[t]
  <2>1. \A t \in 1 .. Keyed : t \in Words /\ t \in 0 .. DataStart - 1
    BY HeadersKept
  <2>2. \A t \in 1 .. Keyed : t < at
    BY <1>1, <1>3, <2>1, LayoutWords
  <2>. QED
    BY <1>3, <2>1, <2>2
<1>5. \A t \in 1 .. Keyed : flash'[Address(flash[t].page)] = flash[Address(flash[t].page)]
  BY <1>3, HeadersKept
<1>6. Keyed' = n
  BY <1>1, <1>2 DEF Keyed
<1>7. \A i : i \in DOMAIN log' <=> i = nr \/ i \in DOMAIN log
  BY <1>0, <1>1, <1>3
<1>8. log'[nr].track = n /\ log'[nr].at = at /\ nr - 1 = Len(log) /\ nr \in Nat
  BY <1>0, <1>1, <1>3
<1>. HIDE DEF at, a, n
<1>9. InOrder'
  <2>1. \A i \in DOMAIN log : /\ log'[i].track = log[i].track
                              /\ log[i].track <= n /\ log[i].track \in Nat
    BY <1>1, <1>3, EntryType DEF Written, InOrder
  <2>2. \A i \in DOMAIN log' : log'[i].track <= n
    BY <1>1, <1>7, <1>8, <2>1
  <2>3. ASSUME NEW i \in DOMAIN log', NEW j \in DOMAIN log', i <= j
        PROVE  log'[i].track <= log'[j].track
    <3>1. CASE j = nr
      BY <1>8, <2>2, <3>1
    <3>2. CASE j # nr
      <4>1. j \in DOMAIN log /\ i \in DOMAIN log
        BY <1>1, <1>3, <1>7, <1>8, <2>3, <3>2
      <4>. QED
        BY <1>1, <2>1, <2>3, <4>1 DEF Written, InOrder
    <3>. QED
      BY <3>1, <3>2
  <2>. QED
    BY <1>6, <2>2, <2>3 DEF InOrder
<1>10. n # 0 => NextLeft \in Nat /\ NextLeft <= a
  <2>1. SUFFICES ASSUME n # 0 PROVE NextLeft \in Nat /\ NextLeft <= a
    OBVIOUS
  <2>2. n \in 1 .. Keyed
    BY <1>1, <2>1
  <2>3. Address(flash[n].page) \in Nat
    BY <2>2, HeadersKept
  <2>4. log # <<>> => log[Len(log)].at + SampleSize \in Nat
    <3>1. log # <<>> => Len(log) \in DOMAIN log
      BY <1>1
    <3>. QED
      BY <1>1, <3>1, EntryType, Layout
  <2>. QED
    BY <1>1, <1>2, <2>1, <2>3, <2>4 DEF NextLeft, Written, Growing, n, a
<1>11. Chained'
  <2>1. ASSUME NEW i \in DOMAIN log, log[i].track # 0
        PROVE  /\ log'[i].at = ReadAddress(Left(i)')
               /\ Left(i)' + SampleSize < DataEnd
    <3>1. log'[i] = log[i] /\ flash'[log[i].track] = flash[log[i].track]
      BY <1>1, <1>3, <1>4, <2>1, EntryKeyed
    <3>2. i > 1 => log'[i - 1] = log[i - 1]
      BY <1>1, <1>3
    <3>3. Left(i)' = Left(i)
      BY <3>1, <3>2 DEF Left
    <3>. QED
      BY <1>1, <2>1, <3>1, <3>3 DEF Written, Chained
  <2>2. ASSUME n # 0
        PROVE  /\ log'[nr].at = ReadAddress(Left(nr)')
               /\ Left(nr)' + SampleSize < DataEnd
    <3>1. nr > 1 <=> log # <<>>
      BY <1>1, <1>8
    <3>2. nr > 1 => log'[nr - 1] = log[Len(log)]
      BY <1>1, <1>3, <1>8
    <3>3. flash'[n] = flash[n]
      BY <1>1, <1>4, <2>2
    <3>4. Left(nr)' = IF nr > 1 /\ log'[nr - 1].track = log'[nr].track
                        THEN log'[nr - 1].at + SampleSize
                        ELSE Address(flash'[log'[nr].track].page)
      BY DEF Left
    <3>5. Left(nr)' = NextLeft
      BY <1>8, <3>1, <3>2, <3>3, <3>4 DEF NextLeft, n
    <3>6. at = ReadAddress(NextLeft)
      BY <1>1, <1>2, <2>2 DEF Written, Growing, at, a, n
    <3>7. a + SampleSize < DataEnd
      BY <1>1, <1>2, Layout, LayoutWords DEF MemoryFull, a
    <3>8. NextLeft + SampleSize < DataEnd
      BY <1>1, <1>10, <2>2, <3>7, Layout, LayoutWords
    <3>. QED
      BY <1>8, <3>5, <3>6, <3>8
  <2>3. \A i \in DOMAIN log : log'[i] = log[i]
    BY <1>1, <1>3
  <2>4. ASSUME NEW i \in DOMAIN log', log'[i].track # 0
        PROVE  /\ log'[i].at = ReadAddress(Left(i)')
               /\ Left(i)' + SampleSize < DataEnd
    BY <1>7, <1>8, <2>1, <2>2, <2>3, <2>4
  <2>. QED
    BY <2>4 DEF Chained
<1>12. KeysInOrder'
  <2>1. \A t \in 1 .. Keyed : /\ Address(flash[t].page) \in Nat
                              /\ Address(flash[t].page) <= a
    BY HeadersKept DEF a
  <2>2. \A t \in 1 .. Keyed : Address(flash[t].page) <= AddressAfter(at)
    BY <1>1, <1>3, <2>1, Layout
  <2>. QED
    BY <1>1, <1>2, <1>3, <1>4, <1>6, <2>2 DEF Written, KeysInOrder
<1>13. HeadersErased'
  <2>1. \A w \in Words : w >= AddressAfter(at) => w >= a
    BY <1>1, <1>3, Layout, LayoutWords DEF Words
  <2>. QED
    BY <1>1, <1>3, <2>1 DEF Written, HeadersErased, a
<1>14. HeadersRight'
  <2>1. \A t \in 1 .. Keyed : t < n => SizeOf(t)' = SizeOf(t)
    BY <1>1, StoreSampleSizes DEF n
  <2>2. tracks_stored' = n /\ storage_enabled' /\ 1 .. Keyed' = 1 .. Keyed
    BY <1>1, <1>2, <1>6 DEF n
  <2>3. ASSUME NEW t \in 1 .. Keyed, t < n
        PROVE  flash'[Address(flash'[t].page)] = Header(SizeOf(t)')
    BY <1>1, <1>4, <1>5, <2>1, <2>3 DEF Written, HeadersRight, n
  <2>. QED
    BY <2>2, <2>3 DEF HeadersRight
<1>15. Starting' /\ Resting'
  BY <1>2 DEF Starting, Resting
<1>16. Growing'
  <2>1. SUFFICES ASSUME n # 0
                 PROVE  /\ AfterHeader(AddressAfter(at)) = ReadAddress(NextLeft')
                        /\ NextLeft' <= AddressAfter(at)
                        /\ track_size' = SizeOf(tracks_stored)'
                        /\ flash'[Address(flash'[n].page)] = Erased
    BY <1>2, <1>3 DEF Growing, n
  <2>2. NextLeft' = at + SampleSize
    <3>1. Len(log') = nr /\ log' # <<>> /\ tracks_stored' = n
      BY <1>2, <1>3 DEF n
    <3>2. NextLeft' = IF log' # <<>> /\ log'[Len(log')].track = tracks_stored'
                        THEN log'[Len(log')].at + SampleSize
                        ELSE Address(flash'[tracks_stored'].page)
      BY DEF NextLeft
    <3>. QED
      BY <1>8, <3>1, <3>2
  <2>3. AfterHeader(AddressAfter(at)) = ReadAddress(at + SampleSize)
    BY <1>3, ReaderFollowsWriter
  <2>4. track_size' = SizeOf(tracks_stored)'
    <3>1. track_size = SizeOf(tracks_stored)
      BY <1>1, <1>2, <2>1 DEF Written, Growing, n
    <3>. QED
      BY <1>2, <3>1, StoreSampleSizes
  <2>5. flash'[Address(flash'[n].page)] = Erased
    <3>1. n \in 1 .. Keyed
      BY <1>1, <2>1
    <3>2. flash[Address(flash[n].page)] = Erased
      BY <1>1, <1>2, <2>1 DEF Written, Growing, n
    <3>. QED
      BY <1>4, <1>5, <3>1, <3>2
  <2>. QED
    BY <1>3, <2>2, <2>3, <2>4, <2>5
<1>. QED
  BY <1>9, <1>11, <1>12, <1>13, <1>14, <1>15, <1>16 DEF Written

LEMMA InitCounts ==
    \A fl, before : MemOrgInit(fl, before) => tracks_stored' = Passed(fl)
BY DEF MemOrgInit, Passed

LEMMA ClearTracksWritten ==
    ASSUME TypeInv, ClearTracks
    PROVE  Written' /\ tracks_stored' = 0
<1>1. /\ pc = "idle" /\ pc' = "idle"
      /\ flash' = [w \in Words |-> Erased]
      /\ log' = <<>>
      /\ tracks_stored' = Passed(flash')
  BY InitCounts DEF ClearTracks, call
<1>2. Passed(flash') = 0
  <2>1. SearchedWords \subseteq Words /\ SearchedWords \subseteq Nat
    BY Searched
  <2>2. {w \in SearchedWords : flash'[w] = Erased} = SearchedWords
    BY <1>1, <2>1
  <2>3. {w \in SearchedWords : \A f \in SearchedWords : w < f} = {}
    <3>1. \A w \in Nat : ~(w < w)
      OBVIOUS
    <3>. QED
      BY <2>1, <3>1
  <2>. QED
    BY <2>2, <2>3 DEF Passed
<1>3. tracks_stored' = 0 /\ Keyed' = 0
  BY <1>1, <1>2 DEF Keyed
<1>4. next_free_data_sample_address' % PageSize = 0
  BY ErasedStart, DataStartsPage
<1>5. 1 .. 0 = {} /\ DOMAIN log' = {}
  BY <1>1
<1>6. InOrder' /\ Chained'
  BY <1>5 DEF InOrder, Chained
<1>7. KeysInOrder'
  BY <1>3, <1>5, LayoutWords DEF KeysInOrder
<1>8. HeadersErased'
  BY <1>1 DEF HeadersErased
<1>9. HeadersRight'
  BY <1>3, <1>5 DEF HeadersRight
<1>10. Starting' /\ Growing' /\ Resting'
  BY <1>1, <1>3, <1>4 DEF Starting, Growing, Resting
<1>. QED
  BY <1>3, <1>6, <1>7, <1>8, <1>9, <1>10 DEF Written

LEMMA StoreInit == Init => StoreInv
<1>. SUFFICES ASSUME Init PROVE StoreInv
  OBVIOUS
<1>1. /\ flash = [w \in Words |-> Erased] /\ log = <<>> /\ tracks_stored = 0
      /\ next_free_data_sample_address = DataStart /\ pc = "idle"
      /\ ~storage_enabled /\ track_size = 0 /\ breached = {}
  BY DEF Init
<1>2. Keyed = 0 /\ 1 .. 0 = {} /\ DOMAIN log = {}
  BY <1>1 DEF Keyed
<1>3. InOrder /\ Chained
  BY <1>2 DEF InOrder, Chained
<1>4. KeysInOrder
  BY <1>1, <1>2, LayoutWords DEF KeysInOrder
<1>5. HeadersErased
  BY <1>1 DEF HeadersErased
<1>6. HeadersRight
  BY <1>2 DEF HeadersRight
<1>7. Starting /\ Growing /\ Resting
  BY <1>1, DataStartsPage DEF Starting, Growing, Resting
<1>. QED
  BY <1>1, <1>3, <1>4, <1>5, <1>6, <1>7 DEF StoreInv, Written

LEMMA FaultlessBefore ==
    ASSUME [Next]_vars, ~ClearTracks, Faultless'
    PROVE  Faultless /\ ~Restart /\ ~StoreKeyFails /\ ~AcknowledgeKeyFails
<1>1. breached \subseteq breached'
  BY DEF Next, vars, ram, call, TrackStart, StoreKey, StoreKeyFails, AcknowledgeKey,
         AcknowledgeKeyFails, Retry, TrackStop, StoreSample, StoreSampleWhenFull,
         StopStorage, FailUnseen, Restart
<1>. QED
  BY <1>1 DEF Faultless, Restart, StoreKeyFails, AcknowledgeKeyFails, Retry

\* What is recorded while nothing fails stays readable.
LEMMA WrittenNext ==
    ASSUME Inv, [Next]_vars, Faultless'
    PROVE  Written'
<1>1. CASE ClearTracks
  BY <1>1, ClearTracksWritten DEF Inv
<1>2. CASE ~ClearTracks
  <2>0. Faultless /\ ~Restart /\ ~StoreKeyFails /\ ~AcknowledgeKeyFails
    BY <1>2, FaultlessBefore
  <2>1. CASE TrackStart
    BY <2>0, <2>1, TrackStartWritten
  <2>2. CASE StoreKey
    BY <2>0, <2>2, StoreKeyWritten
  <2>3. CASE AcknowledgeKey
    BY <2>0, <2>3, AcknowledgeKeyWritten
  <2>4. CASE TrackStop
    BY <2>0, <2>4, StopStorageWritten DEF TrackStop
  <2>5. CASE StoreSample
    BY <2>0, <2>5, StoreSampleWritten
  <2>6. CASE StoreSampleWhenFull
    BY <2>0, <2>6, StopStorageWritten DEF StoreSampleWhenFull
  <2>7. CASE UNCHANGED vars
    <3>1. Keyed' = Keyed /\ (\A t : SizeOf(t)' = SizeOf(t))
      BY <2>7 DEF vars, ram, call, Keyed, SizeOf, Entries
    <3>2. UNCHANGED <<flash, log, next_free_data_sample_address, tracks_stored,
                      storage_enabled, track_size, pc, key>>
      BY <2>7 DEF vars, ram, call
    <3>3. Chained'
      BY <2>0, <3>2, ChainKept
    <3>4. NextLeft' = NextLeft
      BY <3>2 DEF NextLeft
    <3>5. Written
      BY <2>0, Plain
    <3>6. InOrder' /\ KeysInOrder' /\ HeadersErased' /\ HeadersRight'
      BY <3>1, <3>2, <3>5 DEF Written, InOrder, KeysInOrder, HeadersErased, HeadersRight
    <3>7. Starting' /\ Growing' /\ Resting'
      <4>1. SizeOf(tracks_stored)' = SizeOf(tracks_stored)
        BY <3>2 DEF SizeOf, Entries
      <4>. QED
        BY <3>2, <3>4, <3>5, <4>1 DEF Written, Starting, Growing, Resting
    <3>. QED
      BY <3>3, <3>6, <3>7 DEF Written
  <2>. QED
    BY <1>2, <2>0, <2>1, <2>2, <2>3, <2>4, <2>5, <2>6, <2>7 DEF Next
<1>. QED
  BY <1>1, <1>2

LEMMA StoreInvNext ==
    Inv /\ [Next]_vars => StoreInv'
<1>. SUFFICES ASSUME Inv, [Next]_vars PROVE StoreInv'
  OBVIOUS
<1>1. Faultless' => Written'
  BY WrittenNext
<1>2. ASSUME breached' = {"restart"}
      PROVE  pc' = "idle" /\ ~storage_enabled' /\ tracks_stored' = Passed(flash')
  <2>1. CASE Restart
    BY <2>1, InitCounts DEF Restart
  <2>2. CASE ~Restart
    <3>1. breached = {"restart"} /\ UNCHANGED vars
      <4>1. ~ClearTracks
        BY <1>2 DEF ClearTracks
      <4>2. ~StoreKeyFails /\ ~AcknowledgeKeyFails
        <5>1. Retry => "failure" \in breached'
          BY DEF Retry
        <5>. QED
          BY <1>2, <5>1 DEF StoreKeyFails, AcknowledgeKeyFails
      <4>3. ~FailUnseen
        BY <1>2 DEF FailUnseen
      <4>4. CASE TrackStart
        <5>1. "restart" \in breached
          BY <1>2, <4>4 DEF TrackStart, StartBreaches, KeyAreaBreach
        <5>2. "reused" \in breached'
          BY <4>4, <5>1 DEF TrackStart, StartBreaches
        <5>. QED
          BY <1>2, <5>2
      <4>5. CASE ~TrackStart
        <5>1. UNCHANGED breached
          BY <2>2, <4>1, <4>2, <4>3, <4>5
             DEF Next, vars, StoreKey, AcknowledgeKey, TrackStop, StoreSample,
                 StoreSampleWhenFull, StopStorage
        <5>2. pc = "idle" /\ ~storage_enabled
          BY <1>2, <5>1 DEF Inv, StoreInv
        <5>. QED
          BY <1>2, <2>2, <4>1, <4>2, <4>5, <5>1, <5>2
             DEF Next, StoreKey, AcknowledgeKey, TrackStop, StoreSample,
                 StoreSampleWhenFull
      <4>. QED
        BY <4>4, <4>5
    <3>. QED
      BY <3>1 DEF vars, ram, call, Inv, StoreInv
  <2>. QED
    BY <2>1, <2>2
<1>3. ~storage_enabled' => track_size' = 0
  <2>1. ~storage_enabled => track_size = 0
    BY DEF Inv, StoreInv
  <2>2. CASE TrackStop \/ StoreSampleWhenFull
    BY <2>2 DEF TrackStop, StoreSampleWhenFull, StopStorage
  <2>3. CASE Restart
    BY <2>3 DEF Restart
  <2>4. CASE StoreSample
    BY <2>4 DEF StoreSample
  <2>5. CASE ~(TrackStop \/ StoreSampleWhenFull \/ Restart \/ StoreSample)
    <3>1. /\ track_size' = track_size
          /\ storage_enabled' \/ storage_enabled' = storage_enabled
      BY <2>5 DEF Next, vars, ram, TrackStart, StoreKey, StoreKeyFails, AcknowledgeKey,
                  AcknowledgeKeyFails, Retry, Return, ClearTracks
    <3>. QED
      BY <2>1, <3>1
  <2>. QED
    BY <2>2, <2>3, <2>4, <2>5
<1>. QED
  BY <1>1, <1>2, <1>3 DEF StoreInv, Passed

-----------------------------------------------------------------------------
(* What a restart counts                                                   *)

LEMMA PassedKeys ==
    ASSUME NEW fl \in [Words -> Word], NEW m \in 0 .. KeysOnPage,
           \A w \in 1 .. m : fl[w] # Erased,
           \A w \in SearchedWords : w > m => fl[w] = Erased,
           m # 0 => fl[m].kind = "key" /\ fl[m].track = m
    PROVE  Passed(fl) = m
<1>. DEFINE free == {w \in SearchedWords : fl[w] = Erased}
            passed == {w \in SearchedWords : \A f \in free : w < f}
<1>1. m \in Nat /\ m <= KeysOnPage /\ KeysOnPage < PageSize /\ PageSize \in Nat
  BY Layout, LayoutWords DEF KeysOnPage
<1>2. \A w \in 1 .. m : w \in SearchedWords
  <2>1. ASSUME NEW w \in 1 .. m PROVE w \in SearchedWords
    <3>1. w \in Nat /\ w # 0 /\ w < PageSize /\ w \in 0 .. DataStart - 1
      BY <1>1, LayoutWords
    <3>2. \A x \in Nat, p \in Nat \ {0} : x < p => x \div p = 0 /\ x % p = x
      OBVIOUS
    <3>3. w \div PageSize = 0 /\ w % PageSize # 0
      BY <3>1, <3>2, Layout
    <3>4. 0 % ScanStride = 0
      <4>1. \A p \in Nat \ {0} : 0 % p = 0
        OBVIOUS
      <4>. QED
        BY <4>1, LayoutAssumption
    <3>. QED
      BY <3>1, <3>3, <3>4 DEF SearchedWords
  <2>. QED
    BY <2>1
<1>3. \A w \in SearchedWords : w \in Nat /\ w # 0
  <2>1. \A w \in SearchedWords : w \in 1 .. DataStart - 1
    BY Searched DEF InKeyArea
  <2>. QED
    BY <2>1, LayoutWords
<1>4. \A w \in SearchedWords : w \in free <=> w > m
  <2>1. \A w \in SearchedWords : w > m \/ w \in 1 .. m
    BY <1>1, <1>3
  <2>2. \A w \in 1 .. m : ~(w > m)
    BY <1>1
  <2>. QED
    BY <2>1, <2>2
<1>5. \A w \in SearchedWords : w \in passed <=> w \in 1 .. m
  <2>1. ASSUME NEW w \in 1 .. m, NEW f \in free PROVE w < f
    <3>1. f \in SearchedWords /\ f > m
      BY <1>4
    <3>. QED
      BY <1>1, <1>3, <3>1
  <2>2. ASSUME NEW w \in passed PROVE w \in 1 .. m
    <3>1. w \in SearchedWords /\ w \in Nat /\ w # 0
      BY <1>3
    <3>2. w \notin free
      BY <3>1
    <3>3. ~(w > m)
      BY <1>4, <3>1, <3>2
    <3>. QED
      BY <1>1, <3>1, <3>3
  <2>3. \A w \in 1 .. m : w \in passed
    BY <1>2, <2>1
  <2>. QED
    BY <2>2, <2>3
<1>6. passed = 1 .. m
  <2>1. passed \subseteq SearchedWords
    OBVIOUS
  <2>. HIDE DEF passed
  <2>. QED
    BY <1>2, <1>5, <2>1
<1>7. CASE m = 0
  <2>1. passed = {}
    BY <1>6, <1>7
  <2>. QED
    BY <1>7, <2>1 DEF Passed
<1>8. CASE m # 0
  <2>1. 1 .. m \subseteq 0 .. m /\ 1 .. m # {} /\ m \in 1 .. m
    BY <1>1, <1>8
  <2>2. Max(1 .. m) \in 1 .. m /\ \A x \in 1 .. m : Max(1 .. m) >= x
    BY <1>1, <2>1, MaxType
  <2>3. Max(1 .. m) = m
    BY <1>1, <2>1, <2>2
  <2>4. AsKey(fl[m]).track = m
    BY <1>8 DEF AsKey
  <2>5. passed # {} /\ Max(passed) = m
    BY <1>6, <2>1, <2>3
  <2>. QED
    BY <2>4, <2>5 DEF Passed
<1>. QED
  BY <1>7, <1>8

\* A loss of power loses no key, and adds the one being stored if it has got to
\* the flash.
LEMMA RestartCount ==
    ASSUME Inv, Faultless
    PROVE  \/ Passed(flash) = Keyed
           \/ pc # "idle" /\ Passed(flash) = Keyed + 1
<1>. DEFINE slot == next_free_key_address
<1>1. /\ TypeInv /\ KeysInv /\ ListInv /\ Clean /\ Limits /\ Written
      /\ Keyed \in Nat /\ tracks_stored \in Nat
      /\ pc = "idle" => Keyed = tracks_stored
      /\ pc # "idle" => Keyed + 1 = tracks_stored
      /\ flash \in [Words -> Word]
  BY Plain DEF Inv, TypeInv, FlashType
<1>2. /\ Keyed <= KeysOnPage /\ KeysOnPage \in Nat /\ KeysOnPage + 1 = PageSize
      /\ pc # "idle" => Keyed + 1 <= KeysOnPage
  <2>1. KeysOnPage \in Nat /\ KeysOnPage + 1 = PageSize /\ tracks_stored <= KeysOnPage
    BY <1>1, Layout, LayoutWords DEF KeysOnPage, Written, KeysInOrder
  <2>. QED
    BY <1>1, <2>1
<1>3. \A t \in 1 .. Keyed : flash[t] \in Keys /\ flash[t].track = t
  BY <1>1, KeyOnFirstPage DEF Written
<1>4. \A t \in 1 .. Keyed : flash[t] # Erased /\ flash[t].kind = "key"
  BY <1>3 DEF Keys, Erased
<1>5. slot = KeySlot(Keyed + 1)
  BY <1>1 DEF ListInv
<1>6. /\ Keyed < KeysOnPage => slot = Keyed + 1
      /\ Keyed = KeysOnPage => slot = PageSize + 1
  <2>1. slot = Keyed + 1 + (((Keyed + 1) - 1) \div KeysOnPage)
    BY <1>1, <1>5, KeySlotEquation
  <2>2. (Keyed + 1) - 1 = Keyed
    BY <1>1
  <2>3. \A x \in Nat, m \in Nat \ {0} : /\ x < m => x \div m = 0
                                        /\ x = m => x \div m = 1
    OBVIOUS
  <2>4. KeysOnPage \in Nat \ {0}
    BY LayoutWords
  <2>5. /\ Keyed < KeysOnPage => Keyed \div KeysOnPage = 0
        /\ Keyed = KeysOnPage => Keyed \div KeysOnPage = 1
    BY <1>1, <2>3, <2>4
  <2>. QED
    BY <1>1, <1>2, <2>1, <2>2, <2>5
<1>7. \A w \in SearchedWords : w > Keyed /\ w # slot => flash[w] = Erased
  <2>1. SUFFICES ASSUME NEW w \in SearchedWords, w > Keyed, w # slot
                 PROVE  flash[w] = Erased
    OBVIOUS
  <2>2. w \in Nat /\ w \in 1 .. DataStart - 1 /\ w % PageSize # 0
    BY Searched DEF InKeyArea
  <2>3. w > slot
    <3>1. PageSize % PageSize = 0
      <4>1. \A p \in Nat \ {0} : p % p = 0
        OBVIOUS
      <4>. QED
        BY <4>1, Layout
    <3>2. w # PageSize
      BY <2>2, <3>1
    <3>. QED
      BY <1>1, <1>2, <1>6, <2>1, <2>2, <3>2
  <2>4. InKeyArea(slot) /\ slot \in Nat
    BY <1>1, <1>2, <1>6, <2>2, <2>3, LayoutWords DEF InKeyArea
  <2>5. SlotsBehindErased
    BY <1>1, <2>4 DEF KeysInv
  <2>6. w \in slot + 1 .. DataStart - 1
    BY <2>2, <2>3, <2>4, LayoutWords
  <2>. QED
    BY <2>5, <2>6 DEF SlotsBehindErased
<1>8. CASE InKeyArea(slot) => flash[slot] = Erased
  <2>1. \A w \in SearchedWords : w > Keyed => flash[w] = Erased
    <3>1. \A w \in SearchedWords : InKeyArea(w)
      BY Searched
    <3>. QED
      BY <1>7, <1>8, <3>1
  <2>2. Keyed \in 0 .. KeysOnPage
    BY <1>1, <1>2
  <2>3. Keyed # 0 => flash[Keyed].kind = "key" /\ flash[Keyed].track = Keyed
    <3>1. Keyed # 0 => Keyed \in 1 .. Keyed
      BY <1>1
    <3>. QED
      BY <1>3, <1>4, <3>1
  <2>4. Passed(flash) = Keyed
    BY <1>1, <1>4, <2>1, <2>2, <2>3, PassedKeys
  <2>. QED
    BY <2>4
<1>9. CASE InKeyArea(slot) /\ flash[slot] # Erased
  <2>1. pc # "idle" /\ SameKey(flash[slot], key)
    BY <1>1, <1>9 DEF KeysInv, SlotKept
  <2>2. slot = Keyed + 1 /\ Keyed + 1 = tracks_stored /\ Keyed + 1 \in 0 .. KeysOnPage
    BY <1>1, <1>2, <1>6, <2>1
  <2>3. flash[Keyed + 1].kind = "key" /\ flash[Keyed + 1].track = Keyed + 1
    <3>1. key.track = tracks_stored
      BY <1>1, <2>1 DEF ListInv
    <3>. QED
      BY <2>1, <2>2, <3>1 DEF SameKey, Keys
  <2>4. \A w \in 1 .. Keyed + 1 : flash[w] # Erased
    <3>1. \A w \in 1 .. Keyed + 1 : w = slot \/ w \in 1 .. Keyed
      BY <1>1, <2>2
    <3>. QED
      BY <1>4, <1>9, <3>1
  <2>5. \A w \in SearchedWords : w > Keyed + 1 => flash[w] = Erased
    <3>1. \A w \in SearchedWords : w \in Nat
      BY Searched
    <3>2. \A w \in SearchedWords : w > Keyed + 1 => w > Keyed /\ w # slot
      BY <1>1, <2>2, <3>1
    <3>. QED
      BY <1>7, <3>2
  <2>6. Passed(flash) = Keyed + 1
    BY <1>1, <2>2, <2>3, <2>4, <2>5, PassedKeys
  <2>. QED
    BY <2>1, <2>6
<1>. QED
  BY <1>8, <1>9

-----------------------------------------------------------------------------
(* The store of tracks is implemented                                      *)

Tracks == [t \in 1 .. tracks_stored |-> Track(t)]
RecordedTracks == [t \in 1 .. tracks_stored |-> RecordedOf(log, t)]
Recording == storage_enabled \/ pc # "idle"
Restarted == "restart" \in breached
Void == breached \ {"restart"} # {}

LEMMA TracksRecorded == Inv /\ Faultless => Tracks = RecordedTracks
<1>. SUFFICES ASSUME Inv, Faultless PROVE Tracks = RecordedTracks
  OBVIOUS
<1>1. ASSUME NEW t \in 1 .. tracks_stored
      PROVE  Track(t) = RecordedOf(log, t)
  <2>1. CASE Finished(t)
    <3>1. t \in 1 .. Keyed /\ (t < tracks_stored \/ ~storage_enabled)
      BY <2>1, Plain DEF Finished
    <3>2. KeptOf(flash, log, t) = RecordedOf(log, t)
      BY <3>1, FinishedAsRecorded
    <3>. QED
      BY <2>1, <3>2, TrackIs
  <2>2. CASE ~Finished(t)
    BY <2>2, TrackIs
  <2>. QED
    BY <2>1, <2>2
<1>. QED
  BY <1>1 DEF Tracks, RecordedTracks

\* Of a track that is not the log's, nothing is recorded.
LEMMA NothingRecorded ==
    ASSUME NEW l, NEW t, \A i \in DOMAIN l : l[i].track # t
    PROVE  RecordedOf(l, t) = <<>>
<1>1. {i \in DOMAIN l : l[i].track = t} = 0 + 1 .. 0 + 0
  OBVIOUS
<1>2. RecordedOf(l, t) = SamplesFrom(0, 0)
  BY <1>1, RecordedSamples
<1>3. 1 .. 0 = {}
  OBVIOUS
<1>. QED
  BY <1>2, <1>3 DEF SamplesFrom

LEMMA StartRefines ==
    ASSUME Inv, Faultless, TrackStart, Tracks = RecordedTracks, Tracks' = RecordedTracks'
    PROVE  /\ ~Recording /\ Recording'
           /\ Tracks' = Append(Tracks, <<>>)
<1>1. /\ TypeInv /\ Written /\ tracks_stored \in Nat /\ Keyed = tracks_stored
      /\ log \in Seq(LogEntry)
  BY Plain DEF TrackStart
<1>2. /\ ~Recording /\ Recording' /\ log' = log /\ tracks_stored' = tracks_stored + 1
  BY DEF TrackStart, Recording
<1>3. RecordedOf(log, tracks_stored + 1) = <<>>
  <2>1. \A i \in DOMAIN log : log[i].track <= tracks_stored /\ log[i].track \in Nat
    BY <1>1, EntryType DEF Written, InOrder
  <2>2. \A i \in DOMAIN log : log[i].track # tracks_stored + 1
    BY <1>1, <2>1
  <2>. QED
    BY <2>2, NothingRecorded
<1>. DEFINE n == tracks_stored
            r == [t \in 1 .. n |-> RecordedOf(log, t)]
            s == [t \in 1 .. n + 1 |-> RecordedOf(log, t)]
<1>4. s = Append(r, <<>>)
  <2>1. \A f, g : \A m \in Nat :
            (\A t \in 1 .. m : f[t] = g[t]) /\ f[m + 1] = <<>> =>
                [t \in 1 .. m + 1 |-> f[t]] = Append([t \in 1 .. m |-> g[t]], <<>>)
    <3>1. ASSUME NEW f, NEW g, NEW m \in Nat, \A t \in 1 .. m : f[t] = g[t],
                 f[m + 1] = <<>>
          PROVE  [t \in 1 .. m + 1 |-> f[t]] = Append([t \in 1 .. m |-> g[t]], <<>>)
      <4>. DEFINE h == [t \in 1 .. m |-> g[t]]
      <4>1. Len(h) = m /\ DOMAIN h = 1 .. m
        OBVIOUS
      <4>2. Append(h, <<>>) = [i \in 1 .. m + 1 |-> IF i = m + 1 THEN <<>> ELSE h[i]]
        BY <4>1
      <4>. QED
        BY <3>1, <4>2
    <3>. QED
      BY <3>1
  <2>. QED
    BY <1>1, <1>3, <2>1
<1>5. Tracks = r /\ Tracks' = s
  BY <1>2 DEF RecordedTracks
<1>. QED
  BY <1>2, <1>4, <1>5

SampleOf(i) == [part \in 0 .. SampleSize - 1 |-> Sample(i, part)]

LEMMA SampleAppended ==
    ASSUME NEW a \in Nat, NEW n \in Nat \ {0}
    PROVE  SamplesFrom(a, n) = Append(SamplesFrom(a, n - 1), SampleOf(a + n))
<1>. DEFINE from == [k \in 1 .. n - 1 |-> SampleOf(a + k)]
<1>1. SamplesFrom(a, n - 1) = from /\ SamplesFrom(a, n) = [k \in 1 .. n |-> SampleOf(a + k)]
  BY DEF SamplesFrom, SampleOf
<1>2. Len(from) = n - 1 /\ DOMAIN from = 1 .. n - 1
  OBVIOUS
<1>3. Append(from, SampleOf(a + n))
        = [k \in 1 .. n |-> IF k = n THEN SampleOf(a + n) ELSE from[k]]
  BY <1>2
<1>4. \A k \in 1 .. n : k # n => k \in 1 .. n - 1
  OBVIOUS
<1>. QED
  BY <1>1, <1>3, <1>4

LEMMA RecordedGrows ==
    ASSUME Inv, Faultless, StoreSample, Faultless'
    PROVE  /\ \A t \in 1 .. tracks_stored : t # tracks_stored =>
                 RecordedOf(log', t) = RecordedOf(log, t)
           /\ RecordedOf(log', tracks_stored)
                 = Append(RecordedOf(log, tracks_stored), SampleOf(Len(log) + 1))
<1>. DEFINE n == tracks_stored
            nr == Len(log) + 1
            at == AfterHeader(next_free_data_sample_address)
<1>1. /\ log \in Seq(LogEntry) /\ Len(log) \in Nat /\ DOMAIN log = 1 .. Len(log)
      /\ n \in Nat /\ InOrder
  BY Plain DEF Written
<1>2. /\ DOMAIN log' = 1 .. nr /\ Len(log') = nr
      /\ log' \in Seq(LogEntry)
      /\ \A i \in 1 .. Len(log) : log'[i] = log[i]
      /\ log'[nr] = [track |-> n, at |-> at]
  BY StoreSamplePlain
<1>3. InOrder'
  BY StoreSampleWritten DEF Written
<1>4. /\ \A i : i \in DOMAIN log' <=> i = nr \/ i \in DOMAIN log
      /\ nr \notin DOMAIN log /\ nr \in DOMAIN log' /\ log'[nr].track = n
      /\ \A i \in DOMAIN log : log'[i] = log[i]
  BY <1>1, <1>2
<1>5. ASSUME NEW t \in 1 .. n, t # n
      PROVE  RecordedOf(log', t) = RecordedOf(log, t)
  <2>1. PICK a, k \in Nat : /\ a + k <= Len(log)
                            /\ {i \in DOMAIN log : log[i].track = t} = a + 1 .. a + k
    <3>1. t \in Nat
      BY <1>1
    <3>. QED
      BY <1>1, <3>1, EntriesTogether DEF InOrder
  <2>2. {i \in DOMAIN log' : log'[i].track = t} = {i \in DOMAIN log : log[i].track = t}
    <3>. HIDE DEF nr, at, n
    <3>. QED
      BY <1>4, <1>5
  <2>3. {i \in DOMAIN log' : log'[i].track = t} = a + 1 .. a + k
    BY <2>1, <2>2
  <2>4. RecordedOf(log, t) = SamplesFrom(a, k)
    BY <2>1, RecordedSamples
  <2>5. RecordedOf(log', t) = SamplesFrom(a, k)
    BY <2>3, RecordedSamples
  <2>. QED
    BY <2>4, <2>5
<1>6. RecordedOf(log', n) = Append(RecordedOf(log, n), SampleOf(nr))
  <2>1. PICK a, k \in Nat : /\ a + k <= Len(log')
                            /\ {i \in DOMAIN log' : log'[i].track = n} = a + 1 .. a + k
    BY <1>1, <1>2, <1>3, EntriesTogether DEF InOrder
  <2>2. nr \in a + 1 .. a + k
    BY <1>4, <2>1
  <2>3. k \in Nat \ {0} /\ a + k = nr /\ k - 1 \in Nat
    BY <1>1, <1>2, <2>1, <2>2
  <2>4. {i \in DOMAIN log : log[i].track = n} = (a + 1 .. a + k) \ {nr}
    <3>. HIDE DEF nr, at, n
    <3>. QED
      BY <1>4, <2>1
  <2>5. (a + 1 .. a + k) \ {nr} = a + 1 .. a + (k - 1)
    <3>1. \A x, y \in Nat : (x + 1 .. x + y) \ {x + y} = x + 1 .. x + (y - 1)
      OBVIOUS
    <3>. QED
      BY <2>1, <2>3, <3>1
  <2>6. RecordedOf(log, n) = SamplesFrom(a, k - 1)
    <3>1. PICK j \in Nat : j = k - 1
      BY <2>3
    <3>2. {i \in DOMAIN log : log[i].track = n} = a + 1 .. a + j
      BY <2>4, <2>5, <3>1
    <3>3. RecordedOf(log, n) = SamplesFrom(a, j)
      BY <3>2, RecordedSamples
    <3>. QED
      BY <3>1, <3>3
  <2>7. RecordedOf(log', n) = SamplesFrom(a, k)
    BY <2>1, RecordedSamples
  <2>8. SamplesFrom(a, k) = Append(SamplesFrom(a, k - 1), SampleOf(a + k))
    BY <2>1, <2>3, SampleAppended
  <2>. QED
    BY <2>3, <2>6, <2>7, <2>8
<1>. QED
  BY <1>5, <1>6

LEMMA StoreRefines ==
    ASSUME Inv, Faultless, StoreSample, Faultless',
           Tracks = RecordedTracks, Tracks' = RecordedTracks'
    PROVE  /\ Recording /\ Recording'
           /\ tracks_stored' = tracks_stored /\ tracks_stored \in Nat
           /\ tracks_stored # 0 =>
                 Tracks' = [Tracks EXCEPT ![tracks_stored]
                               = Append(@, SampleOf(Len(log) + 1))]
           /\ Len(log) + 1 \in 1 .. MaxSamples
<1>. DEFINE n == tracks_stored
<1>1. /\ storage_enabled /\ storage_enabled' /\ n' = n /\ Len(log) < MaxSamples
  BY DEF StoreSample
<1>2. n \in Nat /\ Len(log) \in Nat /\ MaxSamples \in Nat
  BY Plain, Layout
<1>3. ASSUME n # 0
      PROVE  Tracks' = [Tracks EXCEPT ![n] = Append(@, SampleOf(Len(log) + 1))]
  <2>1. /\ Tracks = [t \in 1 .. n |-> RecordedOf(log, t)]
        /\ Tracks' = [t \in 1 .. n |-> RecordedOf(log', t)]
    BY <1>1 DEF RecordedTracks
  <2>2. n \in 1 .. n
    BY <1>2, <1>3
  <2>3. /\ \A t \in 1 .. n : t # n => RecordedOf(log', t) = RecordedOf(log, t)
        /\ RecordedOf(log', n) = Append(RecordedOf(log, n), SampleOf(Len(log) + 1))
    BY RecordedGrows
  <2>. QED
    BY <2>1, <2>2, <2>3
<1>. QED
  BY <1>1, <1>2, <1>3 DEF Recording

\* Finished tracks stay as they are sent.
LEMMA KeptTracks ==
    UNCHANGED <<flash, log>> =>
        \A t : Finished(t) /\ Finished(t)' => Track(t)' = Track(t)
BY TrackIs

\* The tracks of a watch that records nothing.
LEMMA RestartAtRest ==
    ASSUME Restart, ~Recording, Passed(flash) = tracks_stored
    PROVE  Tracks' = Tracks /\ ~Recording' /\ Restarted'
<1>1. /\ pc = "idle" /\ ~storage_enabled /\ pc' = "idle" /\ ~storage_enabled'
      /\ UNCHANGED <<flash, log>> /\ tracks_stored' = tracks_stored
      /\ "restart" \in breached'
  BY InitCounts DEF Restart, Recording
<1>2. \A t : Finished(t) /\ Finished(t)'
  BY <1>1 DEF Finished
<1>3. \A t : Track(t)' = Track(t)
  BY <1>1, <1>2, KeptTracks
<1>. QED
  BY <1>1, <1>3 DEF Tracks, Recording, Restarted

LEMMA FrontOf ==
    ASSUME NEW n \in Nat \ {0}, NEW s, DOMAIN s = 1 .. n, s = [t \in 1 .. n |-> s[t]]
    PROVE  SubSeq(s, 1, n - 1) = [t \in 1 .. n - 1 |-> s[t]]
<1>. DEFINE S == {s[t] : t \in 1 .. n}
<1>1. s \in Seq(S) /\ Len(s) = n
  OBVIOUS
<1>. HIDE DEF S
<1>. QED
  BY <1>1

\* What a loss of power leaves of tracks of which the last was recorded.
Interrupted(before, after) ==
    LET finished == IF before # <<>> THEN SubSeq(before, 1, Len(before) - 1) ELSE before
    IN  \/ after = finished
        \/ /\ Len(after) = Len(finished) + 1
           /\ SubSeq(after, 1, Len(finished)) = finished

\* A loss of power in mid-track: the tracks before it stay as they are sent.
LEMMA RestartRecording ==
    ASSUME Inv, Faultless, Restart, Recording
    PROVE  ~Recording' /\ Restarted' /\ Interrupted(Tracks, Tracks')
<1>. DEFINE n == tracks_stored
<1>1. /\ pc' = "idle" /\ ~storage_enabled' /\ UNCHANGED <<flash, log>>
      /\ tracks_stored' = Passed(flash) /\ "restart" \in breached'
  BY InitCounts DEF Restart
<1>2. /\ n \in Nat /\ Keyed \in Nat
      /\ pc = "idle" => Keyed = n
      /\ pc # "idle" => Keyed + 1 = n
  BY Plain
<1>3. ASSUME NEW t \in 1 .. n, t < n
      PROVE  Track(t)' = Track(t)
  <2>1. Finished(t)'
    BY <1>1 DEF Finished
  <2>2. CASE pc = "idle"
    <3>1. Finished(t)
      BY <1>3, <2>2 DEF Finished
    <3>. QED
      BY <1>1, <2>1, <3>1, KeptTracks
  <2>3. CASE pc # "idle"
    <3>1. Track(t) = RecordedOf(log, t)
      BY <2>3, TrackIs DEF Finished
    <3>2. Track(t)' = KeptOf(flash, log, t)
      BY <1>1, <2>1, TrackIs
    <3>3. t \in 1 .. Keyed
      BY <1>2, <1>3, <2>3
    <3>. QED
      BY <1>3, <3>1, <3>2, <3>3, FinishedAsRecorded
  <2>. QED
    BY <2>2, <2>3
<1>4. Passed(flash) = n \/ (n # 0 /\ Passed(flash) = n - 1)
  BY <1>2, RestartCount
<1>5. Tracks = [t \in 1 .. n |-> Track(t)]
  BY DEF Tracks
<1>6. Tracks' = [t \in 1 .. Passed(flash) |-> Track(t)']
  BY <1>1 DEF Tracks
<1>7. CASE n = 0
  <2>1. 1 .. 0 = {}
    OBVIOUS
  <2>2. Passed(flash) = 0
    BY <1>4, <1>7
  <2>3. Tracks = <<>> /\ Tracks' = <<>>
    BY <1>5, <1>6, <1>7, <2>1, <2>2
  <2>. QED
    BY <1>1, <2>3 DEF Recording, Restarted, Interrupted
<1>8. CASE n # 0
  <2>1. n \in Nat \ {0} /\ n - 1 \in Nat /\ 1 .. n # {}
    BY <1>2, <1>8
  <2>2. /\ DOMAIN Tracks = 1 .. n /\ Len(Tracks) = n /\ Tracks # <<>>
        /\ Tracks = [t \in 1 .. n |-> Tracks[t]]
        /\ \A t \in 1 .. n : Tracks[t] = Track(t)
    BY <1>5, <2>1
  <2>3. SubSeq(Tracks, 1, n - 1) = [t \in 1 .. n - 1 |-> Tracks[t]]
    <3>. HIDE DEF n
    <3>. QED
      BY <2>1, <2>2, FrontOf
  <2>4. \A t \in 1 .. n - 1 : t \in 1 .. n /\ t < n
    BY <2>1
  <2>5. SubSeq(Tracks, 1, n - 1) = [t \in 1 .. n - 1 |-> Track(t)']
    BY <1>3, <2>2, <2>3, <2>4
  <2>6. Len(SubSeq(Tracks, 1, n - 1)) = n - 1
    BY <2>1, <2>5
  <2>7. CASE Passed(flash) = n - 1
    BY <1>1, <1>6, <2>2, <2>5, <2>7 DEF Recording, Restarted, Interrupted
  <2>8. CASE Passed(flash) = n
    <3>1. Tracks' = [t \in 1 .. n |-> Track(t)']
      BY <1>6, <2>8
    <3>2. /\ DOMAIN Tracks' = 1 .. n /\ Len(Tracks') = n
          /\ Tracks' = [t \in 1 .. n |-> Tracks'[t]]
          /\ \A t \in 1 .. n : Tracks'[t] = Track(t)'
      BY <2>1, <3>1
    <3>3. SubSeq(Tracks', 1, n - 1) = [t \in 1 .. n - 1 |-> Tracks'[t]]
      <4>. HIDE DEF n
      <4>. QED
        BY <2>1, <3>2, FrontOf
    <3>4. SubSeq(Tracks', 1, n - 1) = SubSeq(Tracks, 1, n - 1)
      BY <2>4, <2>5, <3>2, <3>3
    <3>5. n = (n - 1) + 1
      BY <2>1
    <3>. QED
      BY <1>1, <2>2, <2>6, <3>2, <3>4, <3>5 DEF Recording, Restarted, Interrupted
  <2>. QED
    BY <1>4, <2>7, <2>8
<1>. QED
  BY <1>7, <1>8

\* The abstract store's actions, in terms of what it is mapped to.
LEMMA MappedSteps ==
    /\ ~Recording /\ ~Restarted /\ Tracks' = Append(Tracks, <<>>)
          /\ Recording' /\ Restarted' = Restarted
       => Store!Start
    /\ Recording /\ Recording' /\ Restarted' = Restarted
          /\ Tracks = <<>> /\ Tracks' = <<>>
       => Store!Store
    /\ Recording /\ ~Recording' /\ Restarted' = Restarted /\ Tracks' = Tracks
       => Store!Stop
    /\ Tracks' = <<>> /\ ~Restarted' /\ ~Void' /\ Recording' = Recording
       => Store!Clear
    /\ Void' => Store!GiveUp
    /\ Tracks' = Tracks /\ Recording' = Recording /\ Restarted' = Restarted /\ Void' = Void
       => UNCHANGED Store!vars
    /\ ~Recording /\ Tracks' = Tracks /\ ~Recording' /\ Restarted'
       => Store!Restart
    /\ Recording /\ ~Recording' /\ Restarted' /\ Interrupted(Tracks, Tracks')
       => Store!Restart
<1>1. ~Recording /\ ~Restarted /\ Tracks' = Append(Tracks, <<>>)
          /\ Recording' /\ Restarted' = Restarted
       => Store!Start
  BY DEF Store!Start, Tracks, Recording, Restarted
<1>2. Recording /\ Recording' /\ Restarted' = Restarted
          /\ Tracks = <<>> /\ Tracks' = <<>>
       => Store!Store
  BY DEF Store!Store, Tracks, Recording, Restarted
<1>3. Recording /\ ~Recording' /\ Restarted' = Restarted /\ Tracks' = Tracks => Store!Stop
  BY DEF Store!Stop, Tracks, Recording, Restarted
<1>4. Tracks' = <<>> /\ ~Restarted' /\ ~Void' /\ Recording' = Recording => Store!Clear
  BY DEF Store!Clear, Tracks, Recording, Restarted, Void
<1>5. Void' => Store!GiveUp
  BY DEF Store!GiveUp, Void
<1>6. Tracks' = Tracks /\ Recording' = Recording /\ Restarted' = Restarted /\ Void' = Void
       => UNCHANGED Store!vars
  BY DEF Store!vars, Tracks, Recording, Restarted, Void
<1>7. ~Recording /\ Tracks' = Tracks /\ ~Recording' /\ Restarted' => Store!Restart
  BY DEF Store!Restart, Tracks, Recording, Restarted
<1>8. Recording /\ ~Recording' /\ Restarted' /\ Interrupted(Tracks, Tracks')
       => Store!Restart
  BY DEF Store!Restart, Tracks, Recording, Restarted, Interrupted
<1>. QED
  BY <1>1, <1>2, <1>3, <1>4, <1>5, <1>6, <1>7, <1>8

LEMMA MappedStore ==
    ASSUME NEW s, Recording, Recording', Restarted' = Restarted, Tracks # <<>>,
           s \in {SampleOf(i) : i \in 1 .. MaxSamples},
           Tracks' = [Tracks EXCEPT ![Len(Tracks)] = Append(@, s)]
    PROVE  Store!Store
<1>1. s \in {[part \in 0 .. SampleSize - 1 |-> Sample(i, part)] : i \in 1 .. MaxSamples}
  BY DEF SampleOf
<1>. QED
  BY <1>1 DEF Store!Store, Tracks, Recording, Restarted

LEMMA StoreInitImplements == Init => Store!Init
<1>. SUFFICES ASSUME Init PROVE Store!Init
  OBVIOUS
<1>1. tracks_stored = 0 /\ ~storage_enabled /\ pc = "idle" /\ breached = {}
  BY DEF Init
<1>2. [t \in 1 .. tracks_stored |-> Track(t)] = <<>>
  <2>1. 1 .. 0 = {}
    OBVIOUS
  <2>. QED
    BY <1>1, <2>1
<1>. QED
  BY <1>1, <1>2 DEF Store!Init

LEMMA VoidStays ==
    ASSUME [Next]_vars, ~ClearTracks, Void
    PROVE  Void'
<1>1. breached \subseteq breached'
  BY DEF Next, vars, ram, call, TrackStart, StoreKey, StoreKeyFails, AcknowledgeKey,
         AcknowledgeKeyFails, Retry, TrackStop, StoreSample, StoreSampleWhenFull,
         StopStorage, FailUnseen, Restart
<1>. QED
  BY <1>1 DEF Void

\* Steps between one promise of the store and the next.
LEMMA PlainStep ==
    ASSUME Inv, Faultless, Tracks = RecordedTracks, Tracks' = RecordedTracks',
           UNCHANGED <<log, tracks_stored>>
    PROVE  Tracks' = Tracks
BY DEF RecordedTracks

LEMMA FaultlessStep ==
    ASSUME Inv, Next, Faultless, Faultless',
           Tracks = RecordedTracks, Tracks' = RecordedTracks'
    PROVE  [Store!Start \/ Store!Store \/ Store!Stop \/ Store!Clear]_(Store!vars)
<1>0. /\ ~Restarted /\ ~Restarted' /\ Restarted' = Restarted
      /\ ~Void /\ ~Void' /\ Void' = Void
  BY DEF Faultless, Restarted, Void
<1>1. CASE TrackStart
  BY <1>0, <1>1, StartRefines, MappedSteps
<1>2. CASE StoreKey
  <2>1. Recording' = Recording /\ UNCHANGED <<log, tracks_stored>>
    BY <1>2 DEF StoreKey, ram, Recording
  <2>. QED
    BY <1>0, <2>1, PlainStep, MappedSteps
<1>3. CASE AcknowledgeKey
  <2>1. Recording /\ Recording' /\ UNCHANGED <<log, tracks_stored>>
    BY <1>3 DEF AcknowledgeKey, Return, Recording
  <2>. QED
    BY <1>0, <2>1, PlainStep, MappedSteps
<1>4. CASE TrackStop \/ StoreSampleWhenFull
  <2>1. Recording /\ ~Recording' /\ UNCHANGED <<log, tracks_stored>>
    BY <1>4 DEF TrackStop, StoreSampleWhenFull, StopStorage, call, Recording
  <2>. QED
    BY <1>0, <2>1, PlainStep, MappedSteps
<1>5. CASE StoreSample
  <2>1. /\ Recording /\ Recording'
        /\ tracks_stored' = tracks_stored /\ tracks_stored \in Nat
        /\ tracks_stored # 0 =>
              Tracks' = [Tracks EXCEPT ![tracks_stored]
                            = Append(@, SampleOf(Len(log) + 1))]
        /\ Len(log) + 1 \in 1 .. MaxSamples
    BY <1>5, StoreRefines
  <2>2. CASE tracks_stored = 0
    <3>1. 1 .. 0 = {}
      OBVIOUS
    <3>2. Tracks = <<>> /\ Tracks' = <<>>
      BY <2>1, <2>2, <3>1 DEF Tracks
    <3>. QED
      BY <1>0, <2>1, <3>2, MappedSteps
  <2>3. CASE tracks_stored # 0
    <3>1. Len(Tracks) = tracks_stored /\ Tracks # <<>>
      <4>1. 1 \in 1 .. tracks_stored
        BY <2>1, <2>3
      <4>2. /\ DOMAIN Tracks = 1 .. tracks_stored
            /\ Tracks \in Seq({Track(t) : t \in 1 .. tracks_stored})
        BY <2>1 DEF Tracks
      <4>. QED
        BY <2>1, <4>1, <4>2
    <3>2. PICK s : s = SampleOf(Len(log) + 1)
      OBVIOUS
    <3>3. s \in {SampleOf(i) : i \in 1 .. MaxSamples}
      BY <2>1, <3>2
    <3>4. Tracks' = [Tracks EXCEPT ![Len(Tracks)] = Append(@, s)]
      BY <2>1, <2>3, <3>1, <3>2
    <3>. QED
      BY <1>0, <2>1, <3>1, <3>3, <3>4, MappedStore
  <2>. QED
    BY <2>2, <2>3
<1>6. CASE ClearTracks
  <2>1. Tracks' = <<>>
    <3>1. tracks_stored' = 0
      BY <1>6, ClearTracksWritten DEF Inv
    <3>2. 1 .. 0 = {}
      OBVIOUS
    <3>. QED
      BY <3>1, <3>2 DEF Tracks
  <2>2. Recording' = Recording
    BY <1>6 DEF ClearTracks, call, Recording
  <2>. QED
    BY <1>0, <2>1, <2>2, MappedSteps
<1>7. ~Restart /\ ~StoreKeyFails /\ ~AcknowledgeKeyFails
  BY DEF Faultless, Restart, StoreKeyFails, AcknowledgeKeyFails, Retry
<1>. QED
  BY <1>1, <1>2, <1>3, <1>4, <1>5, <1>6, <1>7 DEF Next

\* Every step of the code is one of the store's, or none.
LEMMA StoreNextImplements ==
    ASSUME Inv, [Next]_vars,
           Faultless => Tracks = RecordedTracks,
           (Faultless => Tracks = RecordedTracks)'
    PROVE  [Store!Next]_(Store!vars)
<1>1. CASE Void'
  BY <1>1, MappedSteps DEF Store!Next
<1>2. CASE UNCHANGED vars
  <2>1. UNCHANGED <<flash, log, tracks_stored, storage_enabled, pc, breached>>
    BY <1>2 DEF vars, ram, call
  <2>2. \A t : Track(t)' = Track(t)
    <3>1. \A t : Finished(t)' <=> Finished(t)
      BY <2>1 DEF Finished
    <3>. QED
      BY <2>1, <3>1, TrackIs
  <2>3. Tracks' = Tracks
    BY <2>1, <2>2 DEF Tracks
  <2>4. Recording' = Recording /\ Restarted' = Restarted /\ Void' = Void
    BY <2>1 DEF Recording, Restarted, Void
  <2>. QED
    BY <2>3, <2>4, MappedSteps
<1>3. CASE ClearTracks
  <2>1. Tracks' = <<>>
    <3>1. tracks_stored' = 0
      BY <1>3, ClearTracksWritten DEF Inv
    <3>2. 1 .. 0 = {}
      OBVIOUS
    <3>. QED
      BY <3>1, <3>2 DEF Tracks
  <2>2. Recording' = Recording /\ ~Restarted' /\ ~Void'
    BY <1>3 DEF ClearTracks, call, Recording, Restarted, Void
  <2>. QED
    BY <2>1, <2>2, MappedSteps DEF Store!Next
<1>4. CASE ~Void' /\ Next /\ ~ClearTracks
  <2>1. ~Void
    BY <1>4, VoidStays
  <2>2. Faultless \/ breached = {"restart"}
    BY <2>1 DEF Faultless, Void
  <2>3. Faultless' \/ breached' = {"restart"}
    BY <1>4 DEF Faultless, Void
  <2>4. ~(breached \ {"restart"} # {}) /\ ~(breached' \ {"restart"} # {})
    BY <1>4, <2>1 DEF Void
  <2>5. CASE Faultless /\ Faultless'
    BY <1>4, <2>4, <2>5, FaultlessStep DEF Store!Next
  <2>6. CASE Faultless /\ ~Faultless'
    <3>1. Restart
      <4>1. breached' = {"restart"} /\ breached = {}
        BY <2>3, <2>6 DEF Faultless
      <4>2. Retry => "failure" \in breached'
        BY DEF Retry
      <4>3. ~StoreKeyFails /\ ~AcknowledgeKeyFails
        BY <4>1, <4>2 DEF StoreKeyFails, AcknowledgeKeyFails
      <4>4. ~FailUnseen
        BY <4>1 DEF FailUnseen
      <4>5. ~TrackStart
        BY <4>1 DEF TrackStart, StartBreaches, KeyAreaBreach
      <4>. QED
        BY <1>4, <4>1, <4>3, <4>4, <4>5
           DEF Next, StoreKey, AcknowledgeKey, TrackStop, StoreSample,
               StoreSampleWhenFull, StopStorage
    <3>2. CASE Recording
      BY <2>4, <2>6, <3>1, <3>2, RestartRecording, MappedSteps DEF Store!Next
    <3>3. CASE ~Recording
      <4>1. Keyed = tracks_stored /\ pc = "idle"
        BY <2>6, <3>3, Plain DEF Recording
      <4>2. Passed(flash) = tracks_stored
        BY <2>6, <4>1, RestartCount
      <4>. QED
        BY <2>4, <3>1, <3>3, <4>2, RestartAtRest, MappedSteps DEF Store!Next
    <3>. QED
      BY <3>2, <3>3
  <2>7. CASE breached = {"restart"}
    <3>1. pc = "idle" /\ ~storage_enabled /\ tracks_stored = Passed(flash)
      BY <2>7 DEF Inv, StoreInv
    <3>2. ~TrackStart
      BY <1>4, <2>7 DEF TrackStart, StartBreaches, Void
    <3>3. Restart
      BY <1>4, <3>1, <3>2
         DEF Next, StoreKey, StoreKeyFails, AcknowledgeKey, AcknowledgeKeyFails,
             TrackStop, StoreSample, StoreSampleWhenFull
    <3>4. ~Recording
      BY <3>1 DEF Recording
    <3>. QED
      BY <2>4, <3>1, <3>3, <3>4, RestartAtRest, MappedSteps DEF Store!Next
  <2>. QED
    BY <2>2, <2>3, <2>5, <2>6, <2>7
<1>. QED
  BY <1>1, <1>2, <1>3, <1>4

LEMMA StoreInvariant == Spec => []Inv
<1>1. Init => Inv
  BY TypeInit, SamplesInit, KeysInit, ListInit, StoreInit DEF Inv
<1>2. Inv /\ [Next]_vars => Inv'
  BY TypeNext, SamplesNext, KeysNext, ListNext, StoreInvNext DEF Inv
<1>. QED
  BY <1>1, <1>2, PTL DEF Spec

\* Every behaviour of the flash and of what writes it, failed programmings and
\* losses of power between any two of them included, is one of a store of tracks:
\* within the format's limits a finished track is sent as it was recorded, and
\* what was finished before a loss of power is sent as it was before.
THEOREM StoreImplemented == Spec => StoresTracks
<1>1. Inv => (Faultless => Tracks = RecordedTracks)
  BY TracksRecorded
<1>2. Inv /\ [Next]_vars /\ (Faultless => Tracks = RecordedTracks)
          /\ (Faultless => Tracks = RecordedTracks)'
       => [Store!Next]_(Store!vars)
  <2>. SUFFICES ASSUME Inv, [Next]_vars,
                       Faultless => Tracks = RecordedTracks,
                       (Faultless => Tracks = RecordedTracks)'
                PROVE  [Store!Next]_(Store!vars)
    OBVIOUS
  <2>. QED
    BY StoreNextImplements
<1>. QED
  BY <1>1, <1>2, StoreInvariant, StoreInitImplements, PTL
     DEF Spec, StoresTracks, Store!Spec
=============================================================================
