------------------------- MODULE BleRequests_proofs -------------------------
(***************************************************************************)
(* Theorems about BleRequests, for every capacity of the two queues and    *)
(* every range of a byte: types, and that requests are answered as asked.  *)
(*                                                                         *)
(* The inductive invariant says where the arguments of each queued request *)
(* begin.  That the arguments are then the flattening that                 *)
(* ArgumentsMatchTasks states, a recursion, is shown at the end, by        *)
(* induction along the queue.                                              *)
(***************************************************************************)
EXTENDS BleRequests, TLAPS, SequenceTheorems, WellFoundedInduction

Low(t)  == t % ByteRange
High(t) == t \div ByteRange

Width(r) == IF r.code = "history" THEN 2 ELSE 0

\* In the arguments a, those of the i-th request of q begin behind pos[i]; the
\* first of them behind the n that the dispatcher takes before.
Placed(pos, n, q, a) ==
    /\ pos \in [1 .. Len(q) + 1 -> 0 .. Len(a)]
    /\ pos[1] = n
    /\ pos[Len(q) + 1] = Len(a)
    /\ \A i, j \in 1 .. Len(q) + 1 : i <= j => pos[i] <= pos[j]
    /\ \A i \in 1 .. Len(q) : pos[i + 1] = pos[i] + Width(q[i])
    /\ \A i \in 1 .. Len(q) : q[i].code = "history" =>
           /\ a[pos[i] + 1] = Low(q[i].asked)
           /\ a[pos[i] + 2] = High(q[i].asked)

Aligned(n, q, a) ==
    \E pos \in [1 .. Len(q) + 1 -> 0 .. Len(a)] : Placed(pos, n, q, a)

\* What the dispatcher has taken and what comes next, wherever it is.
InStep ==
    /\ pc \in {"idle", "answer"} => Aligned(0, tasks, args)
    /\ pc = "low" => /\ Aligned(2, tasks, args)
                     /\ args[1] = Low(request.asked)
                     /\ args[2] = High(request.asked)
    /\ pc = "high" => /\ Aligned(1, tasks, args)
                      /\ args[1] = High(request.asked)
                      /\ track_number = Low(request.asked)
    /\ pc = "answer" /\ request.code = "history" => track_number = request.asked

Progress ==
    /\ pc \in {"low", "high"} => request.code = "history"
    /\ pc = "high" => track_number \in ArgByte

TypeInv == TypeOK /\ Progress

IInv == TypeInv /\ (torn \/ InStep)

-----------------------------------------------------------------------------
(* Requests and bytes                                                      *)

LEMMA RequestFacts ==
    /\ Other \in Request /\ Other.code = "other"
    /\ \A t \in TrackNumber : /\ History(t) \in Request
                             /\ History(t).code = "history"
                             /\ History(t).asked = t
    /\ \A r \in Request : r.asked \in TrackNumber
<1>1. 0 \in TrackNumber
  <2>1. ByteRange \in Nat /\ ByteRange >= 1
    BY CapacityAssumption
  <2>2. ByteRange * ByteRange >= 1
    BY <2>1
  <2> QED
    BY <2>1, <2>2 DEF TrackNumber
<1> QED
  BY <1>1 DEF Request, History, Other

LEMMA ByteFacts ==
  ASSUME NEW t \in TrackNumber
  PROVE  /\ Low(t) \in ArgByte /\ High(t) \in ArgByte
         /\ Combined(Low(t), High(t)) = t
         /\ Bytes(t)[1] = Low(t) /\ Bytes(t)[2] = High(t)
<1> DEFINE B == ByteRange
<1>1. B \in Nat /\ B >= 2 /\ t \in Nat /\ t < B * B
  BY CapacityAssumption DEF TrackNumber
<1> HIDE DEF B
<1>2. /\ t % B \in 0 .. B - 1 /\ t \div B \in Nat
      /\ t = B * (t \div B) + (t % B)
  <2>1. t % B \in 0 .. B - 1
    BY <1>1
  <2>2. t = B * (t \div B) + (t % B)
    BY <1>1
  <2>3. t \div B \in Nat
    BY <1>1
  <2> QED
    BY <2>1, <2>2, <2>3
<1>3. t \div B < B
  BY <1>1, <1>2, SMTT(30)
<1>4. Low(t) = t % B /\ High(t) = t \div B
  BY DEF Low, High, B
<1>5. /\ \A x : x \in ArgByte <=> x \in 0 .. B - 1
      /\ Combined(Low(t), High(t)) = Low(t) + B * High(t)
  BY DEF ArgByte, Combined, B
<1>6. High(t) \in 0 .. B - 1
  BY <1>1, <1>2, <1>3, <1>4
<1>7. Combined(Low(t), High(t)) = t
  BY <1>1, <1>2, <1>4, <1>5
<1> QED
  BY <1>2, <1>4, <1>5, <1>6, <1>7 DEF Bytes, Low, High

LEMMA CombinedType ==
  ASSUME NEW l \in ArgByte, NEW h \in ArgByte
  PROVE  Combined(l, h) \in TrackNumber
<1> DEFINE B == ByteRange
<1>1. B \in Nat /\ B >= 2
  BY CapacityAssumption
<1>2. l \in 0 .. B - 1 /\ h \in 0 .. B - 1
  BY DEF ArgByte
<1> HIDE DEF B
<1>3. B * h \in Nat /\ B * h <= B * (B - 1) /\ B * (B - 1) = B * B - B
  BY <1>1, <1>2, SMTT(30)
<1>4. l + B * h \in 0 .. B * B - 1
  BY <1>1, <1>2, <1>3
<1> QED
  BY <1>4 DEF Combined, TrackNumber, B

LEMMA ByteInTrack == ArgByte \subseteq TrackNumber
<1>1. ByteRange \in Nat /\ ByteRange >= 2
  BY CapacityAssumption
<1>2. ByteRange * ByteRange >= ByteRange
  BY <1>1, SMTT(30)
<1> QED
  BY <1>1, <1>2 DEF ArgByte, TrackNumber

-----------------------------------------------------------------------------
(* The alignment                                                           *)

\* A request without arguments goes behind all others.
LEMMA PutOther ==
  ASSUME NEW n \in Nat, NEW q \in Seq(Request), NEW a \in Seq(ArgByte),
         Aligned(n, q, a)
  PROVE  Aligned(n, Append(q, Other), a)
<1> DEFINE k == Len(q) + 1
           new == Append(q, Other)
<1>1. PICK pos : Placed(pos, n, q, a)
  BY DEF Aligned
<1>2. /\ pos \in [1 .. k -> 0 .. Len(a)] /\ pos[1] = n /\ pos[k] = Len(a)
      /\ \A i, j \in 1 .. k : i <= j => pos[i] <= pos[j]
      /\ \A i \in 1 .. Len(q) : pos[i + 1] = pos[i] + Width(q[i])
      /\ \A i \in 1 .. Len(q) : q[i].code = "history" =>
             a[pos[i] + 1] = Low(q[i].asked) /\ a[pos[i] + 2] = High(q[i].asked)
  BY <1>1 DEF Placed
<1>3. /\ new \in Seq(Request) /\ Len(new) = k /\ k \in Nat /\ k = Len(q) + 1
      /\ new[k] = Other /\ \A i \in 1 .. Len(q) : new[i] = q[i]
  BY RequestFacts
<1> HIDE DEF k, new
<1> DEFINE to == [i \in 1 .. k + 1 |-> IF i = k + 1 THEN Len(a) ELSE pos[i]]
<1>4. Len(a) \in Nat /\ Len(q) \in Nat /\ k >= 1
  BY <1>3
<1>5. /\ to \in [1 .. k + 1 -> 0 .. Len(a)]
      /\ to[k + 1] = Len(a)
      /\ \A i \in 1 .. k : to[i] = pos[i]
  <2>1. ASSUME NEW i \in 1 .. k + 1
        PROVE  (IF i = k + 1 THEN Len(a) ELSE pos[i]) \in 0 .. Len(a)
    <3>1. i # k + 1 => i \in 1 .. k
      BY <1>3
    <3> QED
      BY <3>1, <1>2, <1>4
  <2>2. to \in [1 .. k + 1 -> 0 .. Len(a)]
    BY <2>1
  <2>3. \A i \in 1 .. k : i \in 1 .. k + 1 /\ i # k + 1
    BY <1>3
  <2>4. k + 1 \in 1 .. k + 1
    BY <1>3, <1>4
  <2> QED
    BY <2>2, <2>3, <2>4
<1> HIDE DEF to
<1>6. \A i, j \in 1 .. k + 1 : i <= j => to[i] <= to[j]
  BY <1>2, <1>3, <1>4, <1>5
<1>7. Width(new[k]) = 0 /\ new[k].code # "history"
  BY <1>3, RequestFacts DEF Width
<1>8. \A i \in 1 .. k : to[i + 1] = to[i] + Width(new[i])
  <2> TAKE i \in 1 .. k
  <2>1. CASE i = k
    BY <2>1, <1>2, <1>4, <1>5, <1>7
  <2>2. CASE i # k
    <3>1. i \in 1 .. Len(q) /\ i + 1 \in 1 .. k
      BY <2>2, <1>3, <1>4
    <3> QED
      BY <3>1, <1>2, <1>3, <1>5
  <2> QED
    BY <2>1, <2>2
<1>9. \A i \in 1 .. k : new[i].code = "history" =>
          a[to[i] + 1] = Low(new[i].asked) /\ a[to[i] + 2] = High(new[i].asked)
  <2> TAKE i \in 1 .. k
  <2>1. CASE i = k
    BY <2>1, <1>7
  <2>2. CASE i # k
    <3>1. i \in 1 .. Len(q)
      BY <2>2, <1>3, <1>4
    <3> QED
      BY <3>1, <1>2, <1>3, <1>5
  <2> QED
    BY <2>1, <2>2
<1>10. to[1] = n
  BY <1>2, <1>4, <1>5
<1>11. Placed(to, n, new, a)
  BY <1>3, <1>5, <1>6, <1>8, <1>9, <1>10 DEF Placed
<1> QED
  BY <1>11, <1>3, <1>5 DEF Aligned, new

\* A request whose arguments go behind all others' goes behind all others.
LEMMA PutHistory ==
  ASSUME NEW n \in Nat, NEW q \in Seq(Request), NEW a \in Seq(ArgByte),
         NEW t \in TrackNumber, Aligned(n, q, a)
  PROVE  Aligned(n, Append(q, History(t)), Append(Append(a, Low(t)), High(t)))
<1> DEFINE k == Len(q) + 1
           m == Len(a)
           new == Append(q, History(t))
           b == Append(Append(a, Low(t)), High(t))
<1>1. PICK pos : Placed(pos, n, q, a)
  BY DEF Aligned
<1>2. /\ pos \in [1 .. k -> 0 .. m] /\ pos[1] = n /\ pos[k] = m
      /\ \A i, j \in 1 .. k : i <= j => pos[i] <= pos[j]
      /\ \A i \in 1 .. Len(q) : pos[i + 1] = pos[i] + Width(q[i])
      /\ \A i \in 1 .. Len(q) : q[i].code = "history" =>
             a[pos[i] + 1] = Low(q[i].asked) /\ a[pos[i] + 2] = High(q[i].asked)
  BY <1>1 DEF Placed
<1>3. /\ new \in Seq(Request) /\ Len(new) = k /\ k \in Nat /\ k = Len(q) + 1
      /\ new[k] = History(t) /\ \A i \in 1 .. Len(q) : new[i] = q[i]
  BY RequestFacts
<1>4. /\ b \in Seq(ArgByte) /\ Len(b) = m + 2 /\ m \in Nat
      /\ b[m + 1] = Low(t) /\ b[m + 2] = High(t)
      /\ \A i \in 1 .. m : b[i] = a[i]
  BY ByteFacts
<1> HIDE DEF k, m, new, b
<1> DEFINE to == [i \in 1 .. k + 1 |-> IF i = k + 1 THEN m + 2 ELSE pos[i]]
<1>5. Len(q) \in Nat /\ k >= 1
  BY <1>3
<1>6. /\ to \in [1 .. k + 1 -> 0 .. Len(b)]
      /\ to[k + 1] = m + 2
      /\ \A i \in 1 .. k : to[i] = pos[i] /\ to[i] \in 0 .. m
  <2>1. ASSUME NEW i \in 1 .. k + 1
        PROVE  (IF i = k + 1 THEN m + 2 ELSE pos[i]) \in 0 .. Len(b)
    <3>1. CASE i = k + 1
      BY <3>1, <1>4
    <3>2. CASE i # k + 1
      <4>1. i \in 1 .. k
        BY <3>2, <1>3
      <4>2. pos[i] \in 0 .. m
        BY <4>1, <1>2
      <4> QED
        BY <3>2, <4>2, <1>4
    <3> QED
      BY <3>1, <3>2
  <2>2. to \in [1 .. k + 1 -> 0 .. Len(b)]
    BY <2>1
  <2>3. \A i \in 1 .. k : i \in 1 .. k + 1 /\ i # k + 1 /\ pos[i] \in 0 .. m
    BY <1>2, <1>3
  <2>4. k + 1 \in 1 .. k + 1
    BY <1>3, <1>5
  <2> QED
    BY <2>2, <2>3, <2>4
<1> HIDE DEF to
<1>7. \A i, j \in 1 .. k + 1 : i <= j => to[i] <= to[j]
  <2> SUFFICES ASSUME NEW i \in 1 .. k + 1, NEW j \in 1 .. k + 1, i <= j
               PROVE  to[i] <= to[j]
    OBVIOUS
  <2>1. CASE j \in 1 .. k
    <3>1. i \in 1 .. k
      BY <2>1, <1>3
    <3> QED
      BY <2>1, <3>1, <1>2, <1>6
  <2>2. CASE j = k + 1
    <3>1. to[i] \in 0 .. m + 2
      BY <1>4, <1>6
    <3> QED
      BY <2>2, <3>1, <1>4, <1>6
  <2> QED
    BY <2>1, <2>2, <1>3
<1>8. Width(new[k]) = 2 /\ new[k].asked = t
  BY <1>3, RequestFacts DEF Width
<1>9. \A i \in 1 .. k : to[i + 1] = to[i] + Width(new[i])
  <2> TAKE i \in 1 .. k
  <2>1. CASE i = k
    BY <2>1, <1>2, <1>5, <1>6, <1>8
  <2>2. CASE i # k
    <3>1. i \in 1 .. Len(q) /\ i + 1 \in 1 .. k
      BY <2>2, <1>3, <1>5
    <3> QED
      BY <3>1, <1>2, <1>3, <1>6
  <2> QED
    BY <2>1, <2>2
<1>10. \A i \in 1 .. k : new[i].code = "history" =>
          b[to[i] + 1] = Low(new[i].asked) /\ b[to[i] + 2] = High(new[i].asked)
  <2> TAKE i \in 1 .. k
  <2>1. CASE i = k
    BY <2>1, <1>2, <1>4, <1>5, <1>6, <1>8
  <2>2. CASE i # k /\ new[i].code = "history"
    <3>1. i \in 1 .. Len(q) /\ i + 1 \in 1 .. k
      BY <2>2, <1>3, <1>5
    <3>2. new[i] = q[i] /\ to[i] = pos[i] /\ to[i + 1] = to[i] + 2
      BY <3>1, <2>2, <1>3, <1>6, <1>9 DEF Width
    <3>3. to[i] + 1 \in 1 .. m /\ to[i] + 2 \in 1 .. m
      BY <3>1, <3>2, <1>4, <1>6
    <3> QED
      BY <3>1, <3>2, <3>3, <2>2, <1>2, <1>4
  <2> QED
    BY <2>1, <2>2
<1>11. to[1] = n
  BY <1>2, <1>5, <1>6
<1>12. Placed(to, n, new, b)
  BY <1>3, <1>4, <1>6, <1>7, <1>9, <1>10, <1>11 DEF Placed
<1> QED
  BY <1>12, <1>3, <1>6 DEF Aligned, new, b

\* The dispatcher takes a request: its arguments are the next.
LEMMA TakeRequest ==
  ASSUME NEW q \in Seq(Request), q # <<>>, NEW a \in Seq(ArgByte),
         Aligned(0, q, a)
  PROVE  /\ Aligned(Width(Head(q)), Tail(q), a)
         /\ Head(q).code = "history" =>
                a[1] = Low(Head(q).asked) /\ a[2] = High(Head(q).asked)
<1> DEFINE k == Len(q)
           rest == Tail(q)
<1>1. PICK pos : Placed(pos, 0, q, a)
  BY DEF Aligned
<1>2. /\ pos \in [1 .. k + 1 -> 0 .. Len(a)] /\ pos[1] = 0
      /\ pos[k + 1] = Len(a)
      /\ \A i, j \in 1 .. k + 1 : i <= j => pos[i] <= pos[j]
      /\ \A i \in 1 .. k : pos[i + 1] = pos[i] + Width(q[i])
      /\ \A i \in 1 .. k : q[i].code = "history" =>
             a[pos[i] + 1] = Low(q[i].asked) /\ a[pos[i] + 2] = High(q[i].asked)
  BY <1>1 DEF Placed
<1>3. /\ rest \in Seq(Request) /\ Len(rest) = k - 1 /\ k \in Nat /\ k >= 1
      /\ Head(q) = q[1] /\ \A i \in 1 .. k - 1 : rest[i] = q[i + 1]
  OBVIOUS
<1> HIDE DEF k, rest
<1> DEFINE to == [i \in 1 .. k |-> pos[i + 1]]
<1>4. /\ to \in [1 .. k -> 0 .. Len(a)]
      /\ \A i \in 1 .. k : to[i] = pos[i + 1]
  BY <1>2, <1>3
<1> HIDE DEF to
<1>5. to[1] = Width(Head(q))
  <2>1. Width(q[1]) \in Nat
    BY DEF Width
  <2> QED
    BY <2>1, <1>2, <1>3, <1>4
<1>6. Len(rest) + 1 = k
  BY <1>3
<1>7. \A i, j \in 1 .. k : i <= j => to[i] <= to[j]
  BY <1>2, <1>3, <1>4
<1>8. \A i \in 1 .. k - 1 : to[i + 1] = to[i] + Width(rest[i])
  BY <1>2, <1>3, <1>4
<1>9. \A i \in 1 .. k - 1 : rest[i].code = "history" =>
         a[to[i] + 1] = Low(rest[i].asked) /\ a[to[i] + 2] = High(rest[i].asked)
  <2> TAKE i \in 1 .. k - 1
  <2>1. i \in 1 .. k /\ i + 1 \in 1 .. k
    BY <1>3
  <2>2. to[i] = pos[i + 1] /\ rest[i] = q[i + 1]
    BY <2>1, <1>3, <1>4
  <2> QED
    BY <2>1, <2>2, <1>2
<1>10. to[k] = Len(a)
  BY <1>2, <1>3, <1>4
<1>11. Placed(to, Width(Head(q)), rest, a)
  BY <1>3, <1>4, <1>5, <1>6, <1>7, <1>8, <1>9, <1>10 DEF Placed
<1>12. Head(q).code = "history" =>
           a[1] = Low(Head(q).asked) /\ a[2] = High(Head(q).asked)
  BY <1>2, <1>3
<1> QED
  BY <1>4, <1>6, <1>11, <1>12 DEF Aligned, rest

\* The dispatcher takes a byte.
LEMMA TakeArgument ==
  ASSUME NEW n \in Nat, n > 0, NEW q \in Seq(Request), NEW a \in Seq(ArgByte),
         Aligned(n, q, a)
  PROVE  /\ a # <<>> /\ Len(a) >= n
         /\ Aligned(n - 1, q, Tail(a))
<1> DEFINE k == Len(q) + 1
           b == Tail(a)
<1>1. PICK pos : Placed(pos, n, q, a)
  BY DEF Aligned
<1>2. /\ pos \in [1 .. k -> 0 .. Len(a)] /\ pos[1] = n /\ pos[k] = Len(a)
      /\ \A i, j \in 1 .. k : i <= j => pos[i] <= pos[j]
      /\ \A i \in 1 .. Len(q) : pos[i + 1] = pos[i] + Width(q[i])
      /\ \A i \in 1 .. Len(q) : q[i].code = "history" =>
             a[pos[i] + 1] = Low(q[i].asked) /\ a[pos[i] + 2] = High(q[i].asked)
  BY <1>1 DEF Placed
<1>3. Len(q) \in Nat /\ k = Len(q) + 1 /\ k \in Nat /\ k >= 1 /\ Len(a) \in Nat
  OBVIOUS
<1> HIDE DEF k
<1>4. Len(a) >= n /\ \A i \in 1 .. k : pos[i] >= n /\ pos[i] \in 1 .. Len(a)
  BY <1>2, <1>3
<1>5. a # <<>>
  BY <1>4
<1>6. /\ b \in Seq(ArgByte) /\ Len(b) = Len(a) - 1
      /\ \A i \in 1 .. Len(a) - 1 : b[i] = a[i + 1]
  BY <1>5
<1> HIDE DEF b
<1> DEFINE to == [i \in 1 .. k |-> pos[i] - 1]
<1>7. /\ to \in [1 .. k -> 0 .. Len(b)]
      /\ \A i \in 1 .. k : to[i] = pos[i] - 1 /\ to[i] \in 0 .. Len(b)
  BY <1>3, <1>4, <1>6
<1> HIDE DEF to
<1>8. \A i, j \in 1 .. k : i <= j => to[i] <= to[j]
  BY <1>2, <1>3, <1>4, <1>7
<1>9. \A i \in 1 .. Len(q) : to[i + 1] = to[i] + Width(q[i])
  <2> TAKE i \in 1 .. Len(q)
  <2>1. i \in 1 .. k /\ i + 1 \in 1 .. k /\ Width(q[i]) \in Nat
    BY <1>3 DEF Width
  <2> QED
    BY <2>1, <1>2, <1>4, <1>7
<1>10. \A i \in 1 .. Len(q) : q[i].code = "history" =>
          b[to[i] + 1] = Low(q[i].asked) /\ b[to[i] + 2] = High(q[i].asked)
  <2> SUFFICES ASSUME NEW i \in 1 .. Len(q), q[i].code = "history"
               PROVE  /\ b[to[i] + 1] = Low(q[i].asked)
                      /\ b[to[i] + 2] = High(q[i].asked)
    OBVIOUS
  <2>1. i \in 1 .. k /\ i + 1 \in 1 .. k
    BY <1>3
  <2>2. to[i + 1] = to[i] + 2 /\ to[i] = pos[i] - 1
    BY <2>1, <1>7, <1>9 DEF Width
  <2>3. to[i] + 1 \in 1 .. Len(a) - 1 /\ to[i] + 2 \in 1 .. Len(a) - 1
    BY <2>1, <2>2, <1>3, <1>6, <1>7
  <2>4. b[to[i] + 1] = a[to[i] + 2] /\ b[to[i] + 2] = a[to[i] + 3]
    <3>1. /\ to[i] \in Nat /\ (to[i] + 1) + 1 = to[i] + 2
          /\ (to[i] + 2) + 1 = to[i] + 3
      BY <1>7, <2>1, <1>6
    <3>2. /\ b[to[i] + 1] = a[(to[i] + 1) + 1]
          /\ b[to[i] + 2] = a[(to[i] + 2) + 1]
      BY <2>3, <1>6
    <3> QED
      BY <3>1, <3>2
  <2>5. to[i] + 2 = pos[i] + 1 /\ to[i] + 3 = pos[i] + 2
    BY <2>1, <2>2, <1>4
  <2> QED
    BY <2>4, <2>5, <1>2
<1>11. to[1] = n - 1 /\ to[k] = Len(b)
  <2>1. 1 \in 1 .. k /\ k \in 1 .. k
    BY <1>3
  <2>2. to[1] = pos[1] - 1 /\ to[k] = pos[k] - 1
    BY <1>7, <2>1
  <2> QED
    BY <1>2, <1>3, <1>6, <2>2
<1>12. Placed(to, n - 1, q, b)
  BY <1>3, <1>7, <1>8, <1>9, <1>10, <1>11 DEF Placed
<1>13. Aligned(n - 1, q, b)
  BY <1>3, <1>7, <1>12 DEF Aligned
<1> QED
  BY <1>4, <1>5, <1>13 DEF b

-----------------------------------------------------------------------------
(* Types                                                                   *)

LEMMA TypeInit == Init => TypeInv
<1> SUFFICES ASSUME Init PROVE TypeInv
  OBVIOUS
<1>1. 0 \in ArgByte
  BY CapacityAssumption DEF ArgByte
<1>2. 0 \in TrackNumber
  BY <1>1, ByteInTrack
<1>3. /\ tasks \in Seq(Request) /\ Len(tasks) <= TaskCapacity
      /\ args \in Seq(ArgByte) /\ Len(args) <= ArgCapacity
  BY CapacityAssumption DEF Init
<1>4. /\ pc = "idle" /\ request \in Request /\ torn \in BOOLEAN
      /\ temp \in ArgByte /\ track_number \in TrackNumber
  BY <1>1, <1>2, RequestFacts DEF Init
<1> QED
  BY <1>3, <1>4 DEF TypeInv, TypeOK, Progress

LEMMA PutTask ==
  ASSUME NEW r \in Request, tasks \in Seq(Request), Len(tasks) <= TaskCapacity
  PROVE  /\ Tasks!After(tasks, r) \in Seq(Request)
         /\ Len(Tasks!After(tasks, r)) <= TaskCapacity
BY CapacityAssumption DEF Tasks!After

LEMMA PutArgument ==
  ASSUME NEW a \in Seq(ArgByte), Len(a) <= ArgCapacity, NEW b \in ArgByte
  PROVE  /\ Args!After(a, b) \in Seq(ArgByte)
         /\ Len(Args!After(a, b)) <= ArgCapacity
BY CapacityAssumption DEF Args!After

LEMMA GetArgumentType ==
  ASSUME TypeOK, GetArgument
  PROVE  /\ args' \in Seq(ArgByte) /\ Len(args') <= ArgCapacity
         /\ temp' \in ArgByte
<1>1. CASE Args!Get
  BY <1>1, CapacityAssumption DEF Args!Get, TypeOK
<1>2. CASE args = <<>> /\ temp' = 0 /\ UNCHANGED args
  BY <1>2, CapacityAssumption DEF TypeOK, ArgByte
<1> QED
  BY <1>1, <1>2 DEF GetArgument

LEMMA TypeNext == TypeInv /\ [Next]_vars => TypeInv'
<1> SUFFICES ASSUME TypeInv, [Next]_vars PROVE TypeInv'
  OBVIOUS
<1> USE DEF TypeInv, TypeOK, Progress
<1>1. CASE ReceiveOther
  BY <1>1, PutTask, RequestFacts DEF ReceiveOther
<1>2. ASSUME NEW t \in TrackNumber, ReceiveHistory(t) PROVE TypeInv'
  <2>1. Bytes(t)[1] \in ArgByte /\ Bytes(t)[2] \in ArgByte
    BY ByteFacts
  <2>2. args' \in Seq(ArgByte) /\ Len(args') <= ArgCapacity
    BY <1>2, <2>1, PutArgument DEF ReceiveHistory
  <2>3. tasks' \in Seq(Request) /\ Len(tasks') <= TaskCapacity
    BY <1>2, PutTask, RequestFacts DEF ReceiveHistory
  <2>4. torn' \in BOOLEAN
    BY <1>2 DEF ReceiveHistory
  <2> QED
    BY <1>2, <2>2, <2>3, <2>4 DEF ReceiveHistory
<1>3. CASE GetTask
  <2>1. /\ tasks # <<>> /\ request' = Head(tasks) /\ tasks' = Tail(tasks)
    BY <1>3 DEF GetTask, Tasks!Get
  <2>2. /\ tasks' \in Seq(Request) /\ Len(tasks') <= TaskCapacity
        /\ request' \in Request
    BY <2>1, CapacityAssumption
  <2>3. 0 \in TrackNumber
    BY ByteInTrack, CapacityAssumption DEF ArgByte
  <2> QED
    BY <1>3, <2>2, <2>3 DEF GetTask
<1>4. CASE GetLow
  <2>1. args' \in Seq(ArgByte) /\ Len(args') <= ArgCapacity /\ temp' \in ArgByte
    BY <1>4, GetArgumentType DEF GetLow
  <2>2. track_number' \in ArgByte /\ track_number' \in TrackNumber
    BY <1>4, <2>1, ByteInTrack DEF GetLow
  <2> QED
    BY <1>4, <2>1, <2>2 DEF GetLow
<1>5. CASE GetHigh
  <2>1. args' \in Seq(ArgByte) /\ Len(args') <= ArgCapacity /\ temp' \in ArgByte
    BY <1>5, GetArgumentType DEF GetHigh
  <2>2. track_number' \in TrackNumber
    BY <1>5, <2>1, CombinedType DEF GetHigh
  <2> QED
    BY <1>5, <2>1, <2>2 DEF GetHigh
<1>6. CASE Answer
  BY <1>6 DEF Answer
<1>7. CASE UNCHANGED vars
  BY <1>7 DEF vars
<1> QED
  BY <1>1, <1>2, <1>3, <1>4, <1>5, <1>6, <1>7 DEF Next, Receive, Dispatcher

\* Every variable keeps its type, for all capacities and every range of a byte.
THEOREM TypeCorrect == Spec => []TypeOK
BY TypeInit, TypeNext, PTL DEF TypeInv, Spec

-----------------------------------------------------------------------------
(* The queues in step                                                      *)

\* Nothing is in the queues: nothing is to be aligned.
LEMMA AlignedEmpty == Aligned(0, <<>>, <<>>)
<1> DEFINE pos == [i \in 1 .. 1 |-> 0]
<1>1. Placed(pos, 0, <<>>, <<>>)
  BY DEF Placed
<1>2. pos \in [1 .. Len(<<>>) + 1 -> 0 .. Len(<<>>)]
  OBVIOUS
<1> QED
  BY <1>1, <1>2 DEF Aligned

LEMMA InStepInit == Init => InStep
BY AlignedEmpty, RequestFacts DEF Init, InStep

\* A request that was not torn is in both queues, or in none.
LEMMA Whole ==
  ASSUME TypeInv, NEW t \in TrackNumber, ReceiveHistory(t), ~torn'
  PROVE  /\ ~torn
         /\ \/ tasks' = tasks /\ args' = args
            \/ /\ tasks' = Append(tasks, History(t))
               /\ args' = Append(Append(args, Low(t)), High(t))
<1>1. /\ tasks \in Seq(Request) /\ args \in Seq(ArgByte)
      /\ Low(t) \in ArgByte /\ High(t) \in ArgByte
      /\ Bytes(t)[1] = Low(t) /\ Bytes(t)[2] = High(t)
      /\ History(t) \in Request
  BY ByteFacts, RequestFacts DEF TypeInv, TypeOK
<1> DEFINE one == Args!After(args, Low(t))
<1>2. /\ args' = Args!After(one, High(t))
      /\ ~torn /\ Len(args') = Len(args) + (IF tasks' = tasks THEN 0 ELSE 2)
      /\ tasks' = Tasks!After(tasks, History(t))
  BY <1>1 DEF ReceiveHistory
<1>3. one = args \/ (one = Append(args, Low(t)) /\ Len(one) = Len(args) + 1)
  BY <1>1 DEF Args!After
<1>4. one \in Seq(ArgByte)
  BY <1>1, <1>3
<1> HIDE DEF one
<1>5. args' = one \/ (args' = Append(one, High(t)) /\ Len(args') = Len(one) + 1)
  BY <1>1, <1>2, <1>4 DEF Args!After
<1>6. CASE tasks' = tasks
  <2>1. Len(args') = Len(args)
    BY <1>1, <1>2, <1>6
  <2>2. args' = args
    BY <1>1, <1>3, <1>4, <1>5, <2>1
  <2> QED
    BY <1>2, <1>6, <2>2
<1>7. CASE tasks' # tasks
  <2>1. tasks' = Append(tasks, History(t))
    BY <1>2, <1>7 DEF Tasks!After
  <2>2. Len(args') = Len(args) + 2
    BY <1>1, <1>2, <1>7
  <2>3. one = Append(args, Low(t)) /\ args' = Append(one, High(t))
    BY <1>1, <1>3, <1>4, <1>5, <2>2
  <2> QED
    BY <1>2, <2>1, <2>3
<1> QED
  BY <1>6, <1>7

\* What is put on the arguments leaves the first ones where they are.
LEMMA FirstKept ==
  ASSUME NEW a \in Seq(ArgByte), NEW l \in ArgByte, NEW h \in ArgByte,
         NEW i \in 1 .. Len(a)
  PROVE  Append(Append(a, l), h)[i] = a[i]
<1>1. Append(a, l) \in Seq(ArgByte) /\ Len(Append(a, l)) = Len(a) + 1
  OBVIOUS
<1>2. Append(Append(a, l), h)[i] = Append(a, l)[i]
  BY <1>1
<1> QED
  BY <1>2

LEMMA InStepNext == TypeInv /\ InStep /\ [Next]_vars => torn' \/ InStep'
<1> SUFFICES ASSUME TypeInv, InStep, [Next]_vars, ~torn' PROVE InStep'
  OBVIOUS
<1>1. tasks \in Seq(Request) /\ args \in Seq(ArgByte) /\ request \in Request
  BY DEF TypeInv, TypeOK
<1>2. CASE ReceiveOther
  <2>1. tasks' = tasks \/ tasks' = Append(tasks, Other)
    BY <1>2 DEF ReceiveOther, Tasks!After
  <2>2. \A n \in Nat : Aligned(n, tasks, args) => Aligned(n, tasks', args')
    BY <1>1, <1>2, <2>1, PutOther DEF ReceiveOther
  <2> QED
    BY <1>2, <2>2 DEF ReceiveOther, InStep
<1>3. ASSUME NEW t \in TrackNumber, ReceiveHistory(t) PROVE InStep'
  <2>1. UNCHANGED <<pc, request, track_number>>
    BY <1>3 DEF ReceiveHistory
  <2>2. CASE tasks' = tasks /\ args' = args
    BY <2>1, <2>2 DEF InStep
  <2>3. CASE /\ tasks' = Append(tasks, History(t))
             /\ args' = Append(Append(args, Low(t)), High(t))
    <3>1. \A n \in Nat : Aligned(n, tasks, args) => Aligned(n, tasks', args')
      BY <1>1, <2>3, PutHistory
    <3>2. \A i \in 1 .. Len(args) : args'[i] = args[i]
      BY <1>1, <2>3, FirstKept, ByteFacts
    <3>3. /\ pc = "low" => Len(args) >= 2
          /\ pc = "high" => Len(args) >= 1
      BY <1>1, TakeArgument DEF InStep
    <3>4. /\ pc = "low" => args'[1] = args[1] /\ args'[2] = args[2]
          /\ pc = "high" => args'[1] = args[1]
      BY <1>1, <3>2, <3>3
    <3> QED
      BY <2>1, <3>1, <3>4 DEF InStep
  <2> QED
    BY <1>3, <2>2, <2>3, Whole
<1>4. CASE GetTask
  <2>1. /\ pc = "idle" /\ args' = args
        /\ tasks # <<>> /\ request' = Head(tasks) /\ tasks' = Tail(tasks)
        /\ pc' = IF request'.code = "history" THEN "low" ELSE "answer"
    BY <1>4 DEF GetTask, Tasks!Get
  <2>2. /\ Aligned(Width(request'), tasks', args')
        /\ request'.code = "history" =>
               args'[1] = Low(request'.asked) /\ args'[2] = High(request'.asked)
    BY <1>1, <2>1, TakeRequest DEF InStep
  <2> QED
    BY <2>1, <2>2 DEF InStep, Width
<1>5. CASE GetLow
  <2>1. /\ pc = "low" /\ pc' = "high" /\ UNCHANGED <<tasks, request>>
        /\ track_number' = temp' /\ GetArgument
    BY <1>5 DEF GetLow
  <2>2. Aligned(2, tasks, args)
    BY <2>1 DEF InStep
  <2>3. args # <<>> /\ Len(args) >= 2 /\ Aligned(1, tasks, Tail(args))
    <3>1. 2 \in Nat /\ 2 > 0 /\ 2 - 1 = 1
      OBVIOUS
    <3> QED
      BY <1>1, <2>2, <3>1, TakeArgument
  <2>4. args' = Tail(args) /\ temp' = args[1]
    BY <1>1, <2>1, <2>3 DEF GetArgument, Args!Get
  <2>5. args'[1] = args[2]
    BY <1>1, <2>3, <2>4
  <2> QED
    BY <2>1, <2>3, <2>4, <2>5 DEF InStep
<1>6. CASE GetHigh
  <2>1. /\ pc = "high" /\ pc' = "answer" /\ UNCHANGED <<tasks, request>>
        /\ track_number' = Combined(track_number, temp') /\ GetArgument
    BY <1>6 DEF GetHigh
  <2>2. Aligned(1, tasks, args)
    BY <2>1 DEF InStep
  <2>3. args # <<>> /\ Aligned(0, tasks, Tail(args))
    <3>1. 1 \in Nat /\ 1 > 0 /\ 1 - 1 = 0
      OBVIOUS
    <3> QED
      BY <1>1, <2>2, <3>1, TakeArgument
  <2>4. args' = Tail(args) /\ temp' = args[1]
    BY <1>1, <2>1, <2>3 DEF GetArgument, Args!Get
  <2>5. track_number' = request.asked
    BY <1>1, <2>1, <2>4, ByteFacts, RequestFacts DEF InStep
  <2> QED
    BY <2>1, <2>3, <2>4, <2>5 DEF InStep
<1>7. CASE Answer
  BY <1>7 DEF Answer, InStep
<1>8. CASE UNCHANGED vars
  BY <1>8 DEF vars, InStep
<1> QED
  BY <1>2, <1>3, <1>4, <1>5, <1>6, <1>7, <1>8 DEF Next, Receive, Dispatcher

LEMMA TornStays == torn /\ [Next]_vars => torn'
BY DEF Next, Receive, ReceiveOther, ReceiveHistory, Dispatcher, GetTask, GetLow,
       GetHigh, Answer, vars

\* The invariant: types, and queues in step as long as no request was torn.
THEOREM IInvAlways == Spec => []IInv
<1>1. Init => IInv
  BY TypeInit, InStepInit DEF IInv
<1>2. IInv /\ [Next]_vars => IInv'
  BY TypeNext, InStepNext, TornStays DEF IInv
<1> QED
  BY <1>1, <1>2, PTL DEF Spec

\* The track that is sent is the one that was asked for, unless some request was
\* queued in part.
THEOREM AnsweredRight == Spec => []AnsweredAsAsked
<1>1. IInv => AnsweredAsAsked
  BY DEF IInv, InStep, AnsweredAsAsked
<1> QED
  BY <1>1, IInvAlways, PTL

-----------------------------------------------------------------------------
(* The arguments of the queued requests                                    *)

\* Every nonempty set of numbers has a least one.
LEMMA Least ==
  ASSUME NEW S, S \subseteq Nat, S # {}
  PROVE  \E m \in S : \A k \in S : m <= k
<1> DEFINE Less == OpToRel(<, Nat)
<1>1. \A x, y \in Nat : <<x, y>> \in Less <=> x < y
  BY DEF OpToRel
<1>2. IsWellFoundedOn(Less, Nat)
  BY NatLessThanWellFounded
<1> HIDE DEF Less
<1>3. PICK m \in S : \A k \in S : ~(<<k, m>> \in Less)
  BY <1>2, WFMin
<1>4. \A k \in S : ~(k < m)
  BY <1>1, <1>3
<1> QED
  BY <1>4

\* What a keeps behind its first n elements, up to the m-th.
LEMMA Behind ==
  ASSUME NEW S, NEW a, NEW n \in Nat, NEW m \in Nat, n <= m,
         \A i \in n + 1 .. m : a[i] \in S
  PROVE  /\ SubSeq(a, n + 1, m) \in Seq(S)
         /\ Len(SubSeq(a, n + 1, m)) = m - n
         /\ \A i \in 1 .. m - n : SubSeq(a, n + 1, m)[i] = a[n + i]
<1> DEFINE f == n + 1
           s == SubSeq(a, f, m)
<1>1. f \in Int /\ m \in Int
  OBVIOUS
<1>2. \A i \in f .. m : a[i] \in S
  OBVIOUS
<1>3. f = n + 1
  OBVIOUS
<1> HIDE DEF f
<1>4. /\ s \in Seq(S) /\ Len(s) = IF f <= m THEN m - f + 1 ELSE 0
      /\ \A i \in 1 .. m - f + 1 : s[i] = a[f + i - 1]
  BY <1>1, <1>2, SubSeqProperties
<1> HIDE DEF s
<1>5. m - f + 1 = m - n /\ (~(f <= m) => m - n = 0)
  BY <1>3
<1>6. Len(s) = m - n
  BY <1>4, <1>5
<1>7. ASSUME NEW i \in 1 .. m - n
      PROVE  s[i] = a[n + i]
  <2>1. f + i - 1 = n + i
    BY <1>3
  <2> QED
    BY <1>4, <1>5, <2>1
<1> QED
  BY <1>3, <1>4, <1>6, <1>7 DEF s

\* The flattening of l is the last of any sequences p that begin with the first
\* element of l and go on by one more each.
LEMMA FlattenIsLast ==
  ASSUME NEW S, NEW l \in Seq(Seq(S)), Len(l) # 0,
         NEW p \in [1 .. Len(l) -> Seq(S)], p[1] = l[1],
         \A i \in 2 .. Len(l) : p[i] = p[i - 1] \o l[i]
  PROVE  FlattenSeq(l) = p[Len(l)]
<1> DEFINE Q(f) == f = [i \in 1 .. Len(l) |->
                          IF i = 1 THEN l[i] ELSE f[i - 1] \o l[i]]
           g == CHOOSE f : Q(f)
<1>1. FlattenSeq(l) = g[Len(l)]
  BY DEF FlattenSeq
<1>2. Len(l) \in Nat /\ Len(l) >= 1
  BY LenProperties
<1>3. Q(p)
  <2> DEFINE r == [i \in 1 .. Len(l) |->
                     IF i = 1 THEN l[i] ELSE p[i - 1] \o l[i]]
  <2>1. ASSUME NEW i \in 1 .. Len(l)
        PROVE  p[i] = r[i]
    <3>1. CASE i = 1
      BY <3>1
    <3>2. CASE i # 1
      <4>1. i \in 2 .. Len(l)
        BY <1>2, <3>2
      <4> QED
        BY <3>2, <4>1
    <3> QED
      BY <3>1, <3>2
  <2>2. r = [i \in 1 .. Len(l) |-> r[i]] /\ p = [i \in 1 .. Len(l) |-> p[i]]
    OBVIOUS
  <2> HIDE DEF r
  <2>3. p = r
    BY <2>1, <2>2
  <2> QED
    BY <2>3 DEF r
<1>4. Q(g)
  <2> HIDE DEF Q
  <2> QED
    BY <1>3
<1> HIDE DEF g
<1>5. \A i \in 1 .. Len(l) : g[i] = IF i = 1 THEN l[i] ELSE g[i - 1] \o l[i]
  BY <1>4
<1> HIDE DEF Q
<1> DEFINE B == {i \in 1 .. Len(l) : g[i] # p[i]}
<1>6. B = {}
  <2>1. SUFFICES ASSUME B # {} PROVE FALSE
    OBVIOUS
  <2>2. B \subseteq Nat
    BY <1>2
  <2>3. PICK i \in B : \A j \in B : i <= j
    <3> HIDE DEF B
    <3> QED
      BY <2>1, <2>2, Least
  <2>4. i \in 1 .. Len(l) /\ g[i] # p[i]
    OBVIOUS
  <2>5. i # 1
    BY <1>5, <2>4
  <2>6. i - 1 \in 1 .. Len(l) /\ i \in 2 .. Len(l) /\ ~(i <= i - 1)
    BY <1>2, <2>4, <2>5
  <2>7. g[i - 1] = p[i - 1]
    BY <2>3, <2>6
  <2> QED
    BY <1>5, <2>4, <2>5, <2>6, <2>7
<1>7. Len(l) \in 1 .. Len(l)
  BY <1>2
<1> QED
  BY <1>1, <1>6, <1>7

LEMMA ArgumentsType ==
  ASSUME NEW r \in Request
  PROVE  /\ Arguments(r) \in Seq(ArgByte)
         /\ Len(Arguments(r)) = Width(r)
         /\ r.code = "history" => /\ Arguments(r)[1] = Low(r.asked)
                                  /\ Arguments(r)[2] = High(r.asked)
<1>1. r.asked \in TrackNumber
  BY RequestFacts
<1>2. Low(r.asked) \in ArgByte /\ High(r.asked) \in ArgByte
  BY <1>1, ByteFacts
<1>3. Bytes(r.asked) = <<Low(r.asked), High(r.asked)>>
  BY DEF Bytes, Low, High
<1> QED
  BY <1>2, <1>3 DEF Arguments, Width

\* The arguments of the i-th queued request come after those of the ones before.
LEMMA PlacedNext ==
  ASSUME NEW n \in Nat, NEW q \in Seq(Request), NEW a \in Seq(ArgByte),
         NEW pos, Placed(pos, n, q, a), NEW i \in 1 .. Len(q)
  PROVE  /\ SubSeq(a, n + 1, pos[i]) \in Seq(ArgByte)
         /\ SubSeq(a, n + 1, pos[i + 1])
                = SubSeq(a, n + 1, pos[i]) \o Arguments(q[i])
<1> DEFINE w == Width(q[i])
           x == pos[i]
           s == SubSeq(a, n + 1, x)
           t == SubSeq(a, n + 1, x + w)
           r == Arguments(q[i])
<1>1. /\ Len(q) \in Nat /\ Len(a) \in Nat
      /\ i \in 1 .. Len(q) + 1 /\ i + 1 \in 1 .. Len(q) + 1
      /\ 1 \in 1 .. Len(q) + 1 /\ 1 <= i
  BY LenProperties
<1>2. /\ x \in 0 .. Len(a) /\ pos[i + 1] \in 0 .. Len(a)
      /\ pos[i + 1] = x + w
      /\ n <= x
  BY <1>1 DEF Placed
<1>3. q[i] \in Request
  BY ElementOfSeq
<1>4. r \in Seq(ArgByte) /\ Len(r) = w /\ w \in {0, 2}
  BY <1>3, ArgumentsType DEF Width
<1>5. \A j \in 1 .. w : a[x + j] = r[j]
  <2>1. CASE w = 2
    <3>1. q[i].code = "history"
      BY <2>1 DEF Width
    <3>2. a[x + 1] = r[1] /\ a[x + 2] = r[2]
      BY <1>3, <3>1, ArgumentsType DEF Placed
    <3> QED
      BY <2>1, <3>2
  <2>2. CASE w = 0
    BY <2>2
  <2> QED
    BY <1>4, <2>1, <2>2
<1> HIDE DEF w, x, r
<1> DEFINE y == x + w
<1>6. x \in Nat /\ w \in Nat /\ y \in Nat /\ y = x + w /\ n <= y /\ y <= Len(a)
  BY <1>1, <1>2, <1>4 DEF x, w
<1> HIDE DEF y
<1>7. \A j \in 1 .. Len(a) : a[j] \in ArgByte
  BY ElementOfSeq
<1>8. /\ s \in Seq(ArgByte) /\ Len(s) = x - n
      /\ \A j \in 1 .. x - n : s[j] = a[n + j]
  <2>1. \A j \in n + 1 .. x : a[j] \in ArgByte
    BY <1>1, <1>2, <1>6, <1>7
  <2> QED
    BY <1>2, <1>6, <2>1, Behind
<1>9. /\ t \in Seq(ArgByte) /\ Len(t) = y - n
      /\ \A j \in 1 .. y - n : t[j] = a[n + j]
  <2>1. \A j \in n + 1 .. y : a[j] \in ArgByte
    BY <1>1, <1>6, <1>7
  <2> QED
    BY <1>6, <2>1, Behind DEF y
<1> HIDE DEF s, t
<1>10. /\ s \o r \in Seq(ArgByte) /\ Len(s \o r) = Len(s) + Len(r)
       /\ \A j \in 1 .. Len(s) + Len(r) :
             (s \o r)[j] = IF j <= Len(s) THEN s[j] ELSE r[j - Len(s)]
  BY <1>4, <1>8, ConcatProperties
<1>11. Len(s) + Len(r) = y - n
  BY <1>4, <1>6, <1>8
<1>12. ASSUME NEW j \in 1 .. y - n
       PROVE  t[j] = (s \o r)[j]
  <2>1. j \in Nat /\ t[j] = a[n + j]
    BY <1>6, <1>9
  <2>2. CASE j <= x - n
    <3>1. j \in 1 .. x - n
      BY <1>2, <1>6, <2>2
    <3>2. s[j] = a[n + j] /\ j <= Len(s)
      BY <1>8, <2>2, <3>1
    <3> QED
      BY <1>10, <1>11, <2>1, <3>2
  <2>3. CASE ~(j <= x - n)
    <3>1. j - (x - n) \in 1 .. w /\ x + (j - (x - n)) = n + j
      BY <1>2, <1>6, <2>3
    <3>2. a[n + j] = r[j - (x - n)]
      BY <1>5, <3>1
    <3> QED
      BY <1>8, <1>10, <1>11, <2>1, <2>3, <3>2
  <2> QED
    BY <2>2, <2>3
<1>13. t = s \o r
  <2>1. Len(t) = Len(s \o r)
    BY <1>9, <1>10, <1>11
  <2> QED
    BY <1>9, <1>10, <1>12, <2>1, SeqEqual
<1> QED
  BY <1>2, <1>8, <1>13 DEF s, t, r, w, x

\* Behind the first n, the arguments are those of the queued requests in their
\* order.
LEMMA AlignedFlat ==
  ASSUME NEW n \in Nat, NEW q \in Seq(Request), NEW a \in Seq(ArgByte),
         Aligned(n, q, a)
  PROVE  /\ n <= Len(a)
         /\ FlattenSeq([i \in DOMAIN q |-> Arguments(q[i])])
                = SubSeq(a, n + 1, Len(a))
<1> DEFINE l == [i \in DOMAIN q |-> Arguments(q[i])]
           k == Len(q)
<1>1. PICK pos : Placed(pos, n, q, a)
  BY DEF Aligned
<1>2. k \in Nat /\ DOMAIN q = 1 .. k /\ Len(a) \in Nat
  BY LenProperties
<1>3. /\ \A i \in 1 .. k : q[i] \in Request /\ l[i] = Arguments(q[i])
      /\ \A i \in 1 .. k : Arguments(q[i]) \in Seq(ArgByte)
  BY <1>2, ElementOfSeq, ArgumentsType
<1>4. l \in Seq(Seq(ArgByte)) /\ Len(l) = k
  <2>1. l \in [1 .. k -> Seq(ArgByte)]
    BY <1>2, <1>3
  <2> HIDE DEF l
  <2>2. l \in Seq(Seq(ArgByte))
    BY <1>2, <2>1, SeqDef
  <2>3. Len(l) \in Nat /\ 1 .. Len(l) = 1 .. k
    BY <2>1, <2>2, LenProperties
  <2>4. Len(l) = k
    <3>1. \A x, y \in Nat : 1 .. x = 1 .. y => x <= y
      <4>1. SUFFICES ASSUME NEW x \in Nat, NEW y \in Nat, 1 .. x = 1 .. y
                     PROVE  x <= y
        OBVIOUS
      <4>2. x # 0 => x \in 1 .. y
        BY <4>1
      <4> QED
        BY <4>2
    <3> QED
      BY <1>2, <2>3, <3>1
  <2> QED
    BY <2>2, <2>4
<1>5. /\ pos[1] = n /\ pos[k + 1] = Len(a) /\ n <= Len(a)
      /\ \A i \in 1 .. k : pos[i + 1] \in 0 .. Len(a)
  <2>1. 1 \in 1 .. k + 1 /\ \A i \in 1 .. k : i + 1 \in 1 .. k + 1
    BY <1>2
  <2> QED
    BY <1>1, <1>2, <2>1 DEF Placed
<1>6. \A i \in 1 .. k : /\ SubSeq(a, n + 1, pos[i]) \in Seq(ArgByte)
                        /\ SubSeq(a, n + 1, pos[i + 1])
                               = SubSeq(a, n + 1, pos[i]) \o l[i]
  <2>1. ASSUME NEW i \in 1 .. k
        PROVE  /\ SubSeq(a, n + 1, pos[i]) \in Seq(ArgByte)
               /\ SubSeq(a, n + 1, pos[i + 1])
                      = SubSeq(a, n + 1, pos[i]) \o l[i]
    <3>1. i \in 1 .. Len(q) /\ l[i] = Arguments(q[i])
      BY <1>3
    <3>2. /\ SubSeq(a, n + 1, pos[i]) \in Seq(ArgByte)
          /\ SubSeq(a, n + 1, pos[i + 1])
                 = SubSeq(a, n + 1, pos[i]) \o Arguments(q[i])
      <4> HIDE DEF l, k
      <4> QED
        BY <1>1, <3>1, PlacedNext
    <3> QED
      BY <3>1, <3>2
  <2> QED
    BY <2>1
<1>7. SubSeq(a, n + 1, n) = <<>>
  BY SubSeqEmpty
<1> HIDE DEF l, k
<1>8. CASE k = 0
  <2>1. l = <<>>
    BY <1>4, <1>8, EmptySeq
  <2>2. FlattenSeq(l) = l
    BY <1>4, <1>8 DEF FlattenSeq
  <2>3. Len(a) = n
    BY <1>5, <1>8
  <2> QED
    BY <1>5, <1>7, <2>1, <2>2, <2>3 DEF l
<1>9. CASE k # 0
  <2> DEFINE p == [i \in 1 .. k |-> SubSeq(a, n + 1, pos[i + 1])]
  <2>1. p \in [1 .. k -> Seq(ArgByte)]
    <3>1. \A i \in 1 .. k : SubSeq(a, n + 1, pos[i]) \o l[i] \in Seq(ArgByte)
      <4>1. \A i \in 1 .. k : l[i] \in Seq(ArgByte)
        BY <1>3
      <4> QED
        BY <1>6, <4>1, ConcatProperties
    <3> QED
      BY <1>6, <3>1
  <2>2. 1 \in 1 .. k /\ k \in 1 .. k /\ \A i \in 2 .. k :
            i \in 1 .. k /\ i - 1 \in 1 .. k /\ (i - 1) + 1 = i
    BY <1>2, <1>9
  <2>3. p[1] = l[1]
    <3>1. p[1] = SubSeq(a, n + 1, n) \o l[1]
      BY <1>5, <1>6, <2>2
    <3>2. l[1] \in Seq(ArgByte)
      BY <1>3, <2>2
    <3> QED
      BY <1>7, <3>1, <3>2, ConcatEmptySeq
  <2>4. \A i \in 2 .. k : p[i] = p[i - 1] \o l[i]
    BY <1>6, <2>2
  <2>5. p[k] = SubSeq(a, n + 1, Len(a))
    BY <1>5, <2>2
  <2> HIDE DEF p
  <2>6. FlattenSeq(l) = p[k]
    BY <1>4, <1>9, <2>1, <2>3, <2>4, FlattenIsLast
  <2> QED
    BY <1>5, <2>5, <2>6 DEF l
<1> QED
  BY <1>8, <1>9

LEMMA OneFirst ==
  ASSUME NEW a \in Seq(ArgByte), NEW n \in Nat, n <= Len(a)
  PROVE  a = SubSeq(a, 1, n) \o SubSeq(a, n + 1, Len(a))
<1> DEFINE s == SubSeq(a, 1, n)
           t == SubSeq(a, n + 1, Len(a))
<1>1. Len(a) \in Nat /\ \A i \in 1 .. Len(a) : a[i] \in ArgByte
  BY LenProperties, ElementOfSeq
<1>2. /\ s \in Seq(ArgByte) /\ Len(s) = n
      /\ \A i \in 1 .. n : s[i] = a[i]
  <2>1. \A i \in 0 + 1 .. n : a[i] \in ArgByte
    BY <1>1
  <2>2. /\ SubSeq(a, 0 + 1, n) \in Seq(ArgByte)
        /\ Len(SubSeq(a, 0 + 1, n)) = n - 0
        /\ \A i \in 1 .. n - 0 : SubSeq(a, 0 + 1, n)[i] = a[0 + i]
    BY <2>1, Behind
  <2>3. 0 + 1 = 1 /\ n - 0 = n /\ \A i \in Nat : 0 + i = i
    OBVIOUS
  <2> QED
    BY <2>2, <2>3
<1>3. /\ t \in Seq(ArgByte) /\ Len(t) = Len(a) - n
      /\ \A i \in 1 .. Len(a) - n : t[i] = a[n + i]
  <2>1. \A i \in n + 1 .. Len(a) : a[i] \in ArgByte
    BY <1>1
  <2> QED
    BY <1>1, <2>1, Behind
<1> HIDE DEF s, t
<1>4. /\ s \o t \in Seq(ArgByte) /\ Len(s \o t) = Len(s) + Len(t)
      /\ \A i \in 1 .. Len(s) + Len(t) :
            (s \o t)[i] = IF i <= Len(s) THEN s[i] ELSE t[i - Len(s)]
  BY <1>2, <1>3, ConcatProperties
<1>5. ASSUME NEW i \in 1 .. Len(a)
      PROVE  a[i] = (s \o t)[i]
  <2>1. CASE i <= n
    BY <1>1, <1>2, <1>3, <1>4, <2>1
  <2>2. CASE ~(i <= n)
    <3>1. i - n \in 1 .. Len(a) - n /\ n + (i - n) = i
      BY <1>1, <2>2
    <3> QED
      BY <1>1, <1>2, <1>3, <1>4, <2>2, <3>1
  <2> QED
    BY <2>1, <2>2
<1>6. a = s \o t
  BY <1>1, <1>2, <1>3, <1>4, <1>5, SeqEqual
<1> QED
  BY <1>6 DEF s, t

LEMMA InStepMatches ==
  TypeInv /\ InStep => ArgumentsMatchTasks
<1> SUFFICES ASSUME TypeInv, InStep PROVE ArgumentsMatchTasks
  OBVIOUS
<1> DEFINE rest == FlattenSeq([i \in DOMAIN tasks |-> Arguments(tasks[i])])
           t == request.asked
<1>1. /\ tasks \in Seq(Request) /\ args \in Seq(ArgByte) /\ request \in Request
      /\ pc \in {"idle", "low", "high", "answer"} /\ Len(args) \in Nat
  BY LenProperties DEF TypeInv, TypeOK
<1>2. ASSUME NEW n \in Nat, Aligned(n, tasks, args)
      PROVE  /\ n <= Len(args)
             /\ args = SubSeq(args, 1, n) \o rest
  <2>1. n <= Len(args) /\ rest = SubSeq(args, n + 1, Len(args))
    BY <1>1, <1>2, AlignedFlat
  <2> HIDE DEF rest
  <2> QED
    BY <1>1, <2>1, OneFirst
<1>3. t \in TrackNumber /\ Bytes(t) = <<Low(t), High(t)>>
  BY <1>1, RequestFacts DEF Bytes, Low, High
<1>4. Low(t) \in ArgByte /\ High(t) \in ArgByte
  BY <1>3, ByteFacts
<1> HIDE DEF rest, t
<1>5. CASE pc \in {"idle", "answer"}
  <2>1. SubSeq(args, 1, 0) = <<>>
    BY SubSeqEmpty
  <2>2. args = <<>> \o rest
    BY <1>2, <1>5, <2>1 DEF InStep
  <2>3. Outstanding = <<>>
    BY <1>5 DEF Outstanding
  <2> QED
    BY <2>2, <2>3 DEF ArgumentsMatchTasks, rest
<1>6. CASE pc = "low"
  <2>1. /\ Aligned(2, tasks, args)
        /\ args[1] = Low(t) /\ args[2] = High(t)
    BY <1>6 DEF InStep, t
  <2>2. 2 <= Len(args) /\ args = SubSeq(args, 1, 2) \o rest
    BY <1>2, <2>1
  <2>3. SubSeq(args, 1, 2) = <<Low(t), High(t)>>
    <3>1. 1 \in Int /\ 2 \in Int /\ \A i \in 1 .. 2 : args[i] \in ArgByte
      BY <1>1, <2>2, ElementOfSeq
    <3>2. /\ SubSeq(args, 1, 2) \in Seq(ArgByte)
          /\ Len(SubSeq(args, 1, 2)) = 2
          /\ \A i \in 1 .. 2 : SubSeq(args, 1, 2)[i] = args[i]
      BY <3>1, SubSeqProperties
    <3> DEFINE s == SubSeq(args, 1, 2)
               u == <<Low(t), High(t)>>
    <3>3. u \in Seq(ArgByte) /\ Len(u) = 2 /\ \A i \in 1 .. 2 : u[i] = args[i]
      BY <1>4, <2>1
    <3> HIDE DEF s, u
    <3>4. s = u
      BY <3>2, <3>3, SeqEqual DEF s
    <3> QED
      BY <3>4 DEF s, u
  <2>4. Outstanding = <<Low(t), High(t)>>
    BY <1>3, <1>6 DEF Outstanding, t
  <2> QED
    BY <2>2, <2>3, <2>4 DEF ArgumentsMatchTasks, rest
<1>7. CASE pc = "high"
  <2>1. Aligned(1, tasks, args) /\ args[1] = High(t)
    BY <1>7 DEF InStep, t
  <2>2. 1 <= Len(args) /\ args = SubSeq(args, 1, 1) \o rest
    BY <1>2, <2>1
  <2>3. SubSeq(args, 1, 1) = <<High(t)>>
    <3>1. 1 \in Int /\ 1 \in Int /\ \A i \in 1 .. 1 : args[i] \in ArgByte
      BY <1>1, <2>2, ElementOfSeq
    <3>2. /\ SubSeq(args, 1, 1) \in Seq(ArgByte)
          /\ Len(SubSeq(args, 1, 1)) = 1
          /\ \A i \in 1 .. 1 : SubSeq(args, 1, 1)[i] = args[i]
      BY <3>1, SubSeqProperties
    <3> DEFINE s == SubSeq(args, 1, 1)
               u == <<High(t)>>
    <3>3. u \in Seq(ArgByte) /\ Len(u) = 1 /\ \A i \in 1 .. 1 : u[i] = args[i]
      BY <1>4, <2>1
    <3> HIDE DEF s, u
    <3>4. s = u
      BY <3>2, <3>3, SeqEqual DEF s
    <3> QED
      BY <3>4 DEF s, u
  <2>4. Outstanding = <<High(t)>>
    <3>1. Outstanding = Tail(Bytes(t))
      BY <1>7 DEF Outstanding, t
    <3>2. Tail(<<Low(t), High(t)>>) = <<High(t)>>
      BY <1>4
    <3> QED
      BY <1>3, <3>1, <3>2
  <2> QED
    BY <2>2, <2>3, <2>4 DEF ArgumentsMatchTasks, rest
<1> QED
  BY <1>1, <1>5, <1>6, <1>7

\* As long as no request was queued in part the two queues stay in step, for every
\* capacity of theirs and wherever the handler comes between the dispatcher's gets.
THEOREM QueuesInStep == Spec => []ArgumentsMatchTasks
<1>1. IInv => ArgumentsMatchTasks
  BY InStepMatches DEF IInv, ArgumentsMatchTasks
<1> QED
  BY <1>1, IInvAlways, PTL

=============================================================================
