--------------------------- MODULE AppFifo_proofs ---------------------------
(***************************************************************************)
(* For every buffer size and every number of wraps: the ring buffer keeps  *)
(* its types, no put laps the read position, a get keeps its byte, and the *)
(* ring is the bounded queue its users count on.                           *)
(***************************************************************************)
EXTENDS AppFifo, SequenceTheorems, TLAPS

\* Division by the buffer size.
LEMMA DivMod ==
    ASSUME NEW a \in Int
    PROVE  /\ a % BufSize \in 0 .. BufSize - 1
           /\ a \div BufSize \in Int
           /\ a = BufSize * (a \div BufSize) + (a % BufSize)
  BY SizeAssumption

\* app_fifo.c:47,60: a masked position is an index of the buffer.
LEMMA SlotType ==
    ASSUME NEW p \in Int
    PROVE  Slot(p) \in 0 .. BufSize - 1
  BY DivMod DEF Slot

\* No multiple of the buffer size lies strictly between 0 and it.
LEMMA NoSmallMultiple ==
    ASSUME NEW m \in Int, NEW d \in 1 .. BufSize - 1
    PROVE  BufSize * m # d
<1>1. CASE m <= 0
  BY <1>1, SizeAssumption
<1>2. CASE m >= 1
  <2>1. BufSize * m >= BufSize
    BY <1>2, SizeAssumption
  <2> QED
    BY <2>1, SizeAssumption
<1> QED
  BY <1>1, <1>2

\* The buffer fits at least twice in the range of a position.
LEMMA PosRangeType == PosRange \in Nat /\ PosRange >= 2 * BufSize
  BY SizeAssumption DEF PosRange

\* Two positions less than a buffer apart, up to a wrap, have different slots.
LEMMA SlotsDiffer ==
    ASSUME NEW p \in Int, NEW q \in Int, NEW k \in Int,
           q - p + k * PosRange \in 1 .. BufSize - 1
    PROVE  Slot(p) # Slot(q)
<1> SUFFICES ASSUME Slot(p) = Slot(q) PROVE FALSE
  OBVIOUS
<1> DEFINE m == (q \div BufSize) - (p \div BufSize) + k * Wraps
<1>1. /\ p \div BufSize \in Int
      /\ p % BufSize \in Int
      /\ p = BufSize * (p \div BufSize) + (p % BufSize)
  BY DivMod
<1>2. /\ q \div BufSize \in Int
      /\ q % BufSize \in Int
      /\ q = BufSize * (q \div BufSize) + (q % BufSize)
  BY DivMod
<1>3. k * Wraps \in Int /\ k * PosRange = BufSize * (k * Wraps)
  BY SizeAssumption DEF PosRange
<1>4. m \in Int
  BY <1>1, <1>2, <1>3
<1>5. BufSize * m = q - p + k * PosRange
  <2>1. p % BufSize = q % BufSize
    BY DEF Slot
  <2>2. BufSize * m = BufSize * (q \div BufSize) - BufSize * (p \div BufSize)
                        + BufSize * (k * Wraps)
    BY <1>1, <1>2, <1>3, SizeAssumption
  <2> QED
    BY <1>1, <1>2, <1>3, <2>1, <2>2, SizeAssumption
<1> QED
  BY <1>4, <1>5, NoSmallMultiple

-----------------------------------------------------------------------------
\* fifo_length is the distance of the positions modulo their range.
LEMMA LengthType ==
    ASSUME TypeOK
    PROVE  Length \in 0 .. PosRange - 1
  BY PosRangeType DEF TypeOK, Position, Length

\* A put on a buffer with room makes the length one larger.
LEMMA LengthAfterPut ==
    ASSUME TypeOK, Length <= BufSize - 1,
           write_pos' = Incremented(write_pos), read_pos' = read_pos
    PROVE  Length' = Length + 1
  BY PosRangeType, SizeAssumption DEF TypeOK, Position, Length, Incremented

\* A completed get makes it one smaller.
LEMMA LengthAfterAdvance ==
    ASSUME TypeOK, Length # 0,
           read_pos' = Incremented(read_pos), write_pos' = write_pos
    PROVE  Length' = Length - 1
  BY PosRangeType, SizeAssumption DEF TypeOK, Position, Length, Incremented

\* A queued byte is never in the slot the next put writes.
LEMMA PutMissesContents ==
    ASSUME TypeOK, Length <= BufSize - 1, NEW i \in 1 .. Length
    PROVE  Slot(PositionAt(i)) # Slot(write_pos)
<1> DEFINE p == PositionAt(i)
<1>1. p \in Int /\ write_pos \in Int
  BY LengthType, PosRangeType DEF PositionAt, TypeOK, Position
<1>2. \/ write_pos - p + 0 * PosRange \in 1 .. BufSize - 1
      \/ write_pos - p + 1 * PosRange \in 1 .. BufSize - 1
  BY LengthType, PosRangeType, SizeAssumption
     DEF PositionAt, TypeOK, Position, Length
<1> QED
  BY <1>1, <1>2, SlotsDiffer

\* The oldest byte is at the read position.
LEMMA FirstPosition ==
    ASSUME TypeOK
    PROVE  PositionAt(1) = read_pos
  BY PosRangeType DEF PositionAt, TypeOK, Position

\* A completed get moves every other byte one place ahead.
LEMMA PositionsAfterAdvance ==
    ASSUME TypeOK, NEW i \in 1 .. Length - 1,
           read_pos' = Incremented(read_pos), write_pos' = write_pos
    PROVE  PositionAt(i)' = PositionAt(i + 1)
  BY LengthType, PosRangeType DEF PositionAt, TypeOK, Position, Incremented

-----------------------------------------------------------------------------
\* The step of the handlers keeps the types.
LEMMA PutKeepsTypes ==
    ASSUME TypeOK, NEW b \in Byte, Put(b)
    PROVE  TypeOK'
<1>1. Incremented(write_pos) \in Position
  BY PosRangeType, SizeAssumption DEF TypeOK, Position, Incremented
<1> QED
  BY <1>1 DEF TypeOK, Put, vars, Position

\* The step that moves the read position keeps them.
LEMMA AdvanceKeepsTypes ==
    ASSUME TypeOK, Advance
    PROVE  TypeOK'
<1>1. Incremented(read_pos) \in Position
  BY PosRangeType, SizeAssumption DEF TypeOK, Position, Incremented
<1> QED
  BY <1>1 DEF TypeOK, Advance, Position

\* An empty ring satisfies the invariant.
LEMMA IInvInit == Init => IInv
<1> SUFFICES ASSUME Init PROVE IInv
  OBVIOUS
<1>1. TypeOK
  BY PosRangeType, SizeAssumption, ZeroAssumption DEF Init, TypeOK, Position
<1>2. Length = 0
  BY DEF Init, Length
<1> QED
  BY <1>1, <1>2, SizeAssumption DEF Init, IInv, NeverLapped, GetKeepsItsByte

\* The inductive step.  NeverLapped alone is not inductive: a put may move
\* write_pos between the main loop's length test and the read position it then
\* moves, so the test's outcome has to be carried along (GetKeepsItsByte).
LEMMA IInvNext == IInv /\ [Next]_vars => IInv'
<1> SUFFICES ASSUME IInv, [Next]_vars PROVE IInv'
  OBVIOUS
<1> USE DEF IInv
<1>1. ASSUME NEW b \in Byte, Put(b) PROVE IInv'
  <2>1. TypeOK'
    BY <1>1, PutKeepsTypes
  <2>2. CASE Length <= BufSize - 1
    <3>1. Length' = Length + 1
      BY <1>1, <2>2, LengthAfterPut DEF Put
    <3>2. Length \in Nat
      BY LengthType
    <3>3. NeverLapped'
      BY <2>2, <3>1, <3>2, SizeAssumption DEF NeverLapped
    <3>4. pc = "advance" => buf'[Slot(read_pos)] = buf[Slot(read_pos)]
      <4> SUFFICES ASSUME pc = "advance" PROVE Slot(read_pos) # Slot(write_pos)
        <5>1. Slot(read_pos) \in 0 .. BufSize - 1
          BY SlotType DEF TypeOK, Position
        <5> QED
          BY <1>1, <2>2, <5>1 DEF Put, TypeOK
      <4>1. 1 \in 1 .. Length
        BY <3>2 DEF GetKeepsItsByte
      <4> QED
        BY <2>2, <4>1, PutMissesContents, FirstPosition
    <3>5. GetKeepsItsByte'
      BY <1>1, <2>2, <3>1, <3>2, <3>4 DEF Put, GetKeepsItsByte
    <3> QED
      BY <2>1, <3>3, <3>5
  <2>3. CASE ~(Length <= BufSize - 1)
    BY <1>1, <2>3 DEF Put, vars, TypeOK, NeverLapped, GetKeepsItsByte, Length
  <2> QED
    BY <2>2, <2>3
<1>2. CASE CheckEmpty
  <2>1. Length' = Length
    BY <1>2 DEF CheckEmpty, Length
  <2>2. TypeOK'
    BY <1>2 DEF CheckEmpty, TypeOK
  <2>3. ~IsEmpty => Length # 0
    BY PosRangeType DEF IsEmpty, Length, TypeOK, Position
  <2> QED
    BY <1>2, <2>1, <2>2, <2>3 DEF CheckEmpty, NeverLapped, GetKeepsItsByte
<1>3. CASE CheckLength
  <2>1. Length' = Length
    BY <1>3 DEF CheckLength, Length
  <2>2. TypeOK'
    BY <1>3 DEF CheckLength, TypeOK
  <2> QED
    BY <1>3, <2>1, <2>2 DEF CheckLength, NeverLapped, GetKeepsItsByte
<1>4. CASE CopyByte
  <2>1. Length' = Length
    BY <1>4 DEF CopyByte, Length
  <2>2. buf[Slot(read_pos)] \in Byte
    BY SlotType DEF TypeOK, Position
  <2>3. TypeOK'
    BY <1>4, <2>2 DEF CopyByte, TypeOK
  <2> QED
    BY <1>4, <2>1, <2>3 DEF CopyByte, NeverLapped, GetKeepsItsByte
<1>5. CASE Advance
  <2>1. Length' = Length - 1
    BY <1>5, LengthAfterAdvance DEF Advance, GetKeepsItsByte
  <2>2. TypeOK'
    BY <1>5, AdvanceKeepsTypes
  <2> QED
    BY <1>5, <2>1, <2>2, LengthType, SizeAssumption
       DEF Advance, NeverLapped, GetKeepsItsByte
<1>6. CASE UNCHANGED vars
  BY <1>6 DEF vars, TypeOK, NeverLapped, GetKeepsItsByte, Length
<1> QED
  BY <1>1, <1>2, <1>3, <1>4, <1>5, <1>6 DEF Next, Handler, Main

\* The inductive invariant: types, positions no further apart than the buffer
\* is long, and a get under way that still has its byte.
THEOREM IInvAlways == Spec => []IInv
  BY IInvInit, IInvNext, PTL DEF Spec

\* Type correctness, for every buffer size and every number of wraps.
THEOREM TypeCorrect == Spec => []TypeOK
<1>1. IInv => TypeOK
  BY DEF IInv
<1> QED
  BY <1>1, IInvAlways, PTL

\* No put laps the read position, however the counters have wrapped.
THEOREM RingNeverLapped == Spec => []NeverLapped
<1>1. IInv => NeverLapped
  BY DEF IInv
<1> QED
  BY <1>1, IInvAlways, PTL

\* A get that has begun is not disturbed by the puts that interrupt it.
THEOREM GetUndisturbed == Spec => []GetKeepsItsByte
<1>1. IInv => GetKeepsItsByte
  BY DEF IInv
<1> QED
  BY <1>1, IInvAlways, PTL

-----------------------------------------------------------------------------
(* The ring implements the bounded queue.                                  *)

ContentsFacts ==
    /\ Contents \in Seq(Byte)
    /\ Len(Contents) = Length
    /\ \A i \in 1 .. Length : Contents[i] = buf[Slot(PositionAt(i))]

\* The queue the ring stands for is a sequence of Length bytes.
LEMMA ContentsType == TypeOK => ContentsFacts
<1> SUFFICES ASSUME TypeOK PROVE ContentsFacts
  OBVIOUS
<1>1. Length \in Nat
  BY LengthType
<1>2. ASSUME NEW i \in 1 .. Length
      PROVE  buf[Slot(PositionAt(i))] \in Byte
  <2>1. PositionAt(i) \in Int
    BY <1>1, PosRangeType DEF PositionAt, TypeOK, Position
  <2> QED
    BY <2>1, SlotType DEF TypeOK
<1>3. Contents \in [1 .. Length -> Byte]
  BY <1>2 DEF Contents
<1> QED
  BY <1>1, <1>3 DEF Contents, ContentsFacts

\* And so it is in the next state.
LEMMA ContentsTypeNext == TypeOK' => ContentsFacts'
  BY ContentsType, PTL

\* A put on a buffer with room appends to that queue.
LEMMA PutAppends ==
    ASSUME TypeOK, TypeOK', Length <= BufSize - 1, NEW b \in Byte, Put(b)
    PROVE  Contents' = Append(Contents, b)
<1>1. Length \in Nat /\ Length' = Length + 1
  BY LengthType, LengthAfterPut DEF Put
<1>2. /\ Contents' \in Seq(Byte)
      /\ Len(Contents') = Length + 1
      /\ \A i \in 1 .. Length + 1 :
            Contents'[i] = buf'[Slot(PositionAt(i))]
  <2>1. \A i \in 1 .. Length + 1 : PositionAt(i)' = PositionAt(i)
    BY DEF PositionAt, Put
  <2> QED
    BY <1>1, <2>1, ContentsTypeNext DEF ContentsFacts
<1>3. /\ Append(Contents, b) \in Seq(Byte)
      /\ Len(Append(Contents, b)) = Length + 1
      /\ \A i \in 1 .. Length : Append(Contents, b)[i] = Contents[i]
      /\ Append(Contents, b)[Length + 1] = b
  BY ContentsType, AppendProperties DEF ContentsFacts
<1>4. ASSUME NEW i \in 1 .. Length
      PROVE  Contents'[i] = Contents[i]
  <2>1. Slot(PositionAt(i)) # Slot(write_pos)
    BY PutMissesContents
  <2>2. Slot(PositionAt(i)) \in 0 .. BufSize - 1
    <3>1. PositionAt(i) \in Int
      BY <1>1, PosRangeType DEF PositionAt, TypeOK, Position
    <3> QED
      BY <3>1, SlotType
  <2>3. buf'[Slot(PositionAt(i))] = buf[Slot(PositionAt(i))]
    BY <2>1, <2>2 DEF Put, TypeOK
  <2> QED
    BY <1>1, <1>2, <2>3, ContentsType DEF ContentsFacts
<1>5. Contents'[Length + 1] = b
  <2>1. PositionAt(Length + 1) = write_pos
    BY PosRangeType DEF PositionAt, TypeOK, Position, Length
  <2>2. Slot(write_pos) \in 0 .. BufSize - 1
    BY SlotType DEF TypeOK, Position
  <2>3. buf'[Slot(write_pos)] = b
    BY <2>2 DEF Put, TypeOK
  <2> QED
    BY <1>1, <1>2, <2>1, <2>3
<1>6. \A i \in 1 .. Length + 1 : Contents'[i] = Append(Contents, b)[i]
  BY <1>1, <1>3, <1>4, <1>5
<1> QED
  BY <1>2, <1>3, <1>6, SeqEqual

\* A completed get removes its head, and returns it.
LEMMA AdvanceTakesHead ==
    ASSUME IInv, TypeOK', Advance
    PROVE  /\ Contents # <<>>
           /\ returned' = Head(Contents)
           /\ Contents' = Tail(Contents)
<1> USE DEF IInv
<1>1. Length \in Nat /\ Length # 0 /\ Length' = Length - 1
  BY LengthType, LengthAfterAdvance DEF Advance, GetKeepsItsByte
<1>2. Contents # <<>>
  BY <1>1, ContentsType, EmptySeq DEF ContentsFacts
<1>3. returned' = Head(Contents)
  <2>1. Head(Contents) = Contents[1]
    BY <1>2, ContentsType DEF ContentsFacts
  <2>2. Contents[1] = buf[Slot(read_pos)]
    BY <1>1, ContentsType, FirstPosition DEF ContentsFacts
  <2> QED
    BY <2>1, <2>2 DEF Advance, GetKeepsItsByte
<1>4. /\ Contents' \in Seq(Byte)
      /\ Len(Contents') = Length - 1
      /\ \A i \in 1 .. Length - 1 : Contents'[i] = buf[Slot(PositionAt(i + 1))]
  <2>1. \A i \in 1 .. Length - 1 : PositionAt(i)' = PositionAt(i + 1)
    BY PositionsAfterAdvance DEF Advance
  <2> QED
    BY <1>1, <2>1, ContentsTypeNext DEF Advance, ContentsFacts
<1>5. /\ Tail(Contents) \in Seq(Byte)
      /\ Len(Tail(Contents)) = Length - 1
      /\ \A i \in 1 .. Length - 1 : Tail(Contents)[i] = Contents[i + 1]
  BY <1>1, <1>2, ContentsType, HeadTailProperties DEF ContentsFacts
<1>6. \A i \in 1 .. Length - 1 : Contents'[i] = Tail(Contents)[i]
  BY <1>1, <1>4, <1>5, ContentsType DEF ContentsFacts
<1>7. Contents' = Tail(Contents)
  BY <1>4, <1>5, <1>6, SeqEqual
<1> QED
  BY <1>2, <1>3, <1>7

\* Any other step leaves it alone.
LEMMA ContentsUnchanged ==
    ASSUME UNCHANGED <<buf, write_pos, read_pos>>
    PROVE  UNCHANGED Contents
  BY DEF Contents, Length, PositionAt

\* The initial ring is the empty queue.
LEMMA InitImplements == Init => Queue!Init
<1> SUFFICES ASSUME Init PROVE Queue!Init
  OBVIOUS
<1>1. TypeOK
  BY IInvInit DEF IInv
<1>2. Length = 0
  BY DEF Init, Length
<1>3. Contents = <<>>
  BY <1>1, <1>2, ContentsType, EmptySeq DEF ContentsFacts
<1> QED
  BY <1>3, ZeroAssumption DEF Init, Queue!Init

\* Every step of the ring is a step of the bounded queue or changes nothing of it.
LEMMA NextImplements == IInv /\ IInv' /\ [Next]_vars => [Queue!Next]_Queue!vars
<1> SUFFICES ASSUME IInv, IInv', [Next]_vars
             PROVE  [Queue!Next]_Queue!vars
  OBVIOUS
<1> USE DEF IInv
<1>1. ASSUME NEW b \in Byte, Put(b) PROVE [Queue!Next]_Queue!vars
  <2>1. Len(Contents) = Length /\ Length \in Nat
    BY ContentsType, LengthType DEF ContentsFacts
  <2>2. CASE Length <= BufSize - 1
    <3>1. Contents' = Append(Contents, b) /\ UNCHANGED returned
      BY <1>1, <2>2, PutAppends DEF Put
    <3>2. Len(Contents) < BufSize
      BY <2>1, <2>2, SizeAssumption
    <3> QED
      BY <3>1, <3>2 DEF Queue!Next, Queue!Put, Queue!After
  <2>3. CASE ~(Length <= BufSize - 1)
    BY <1>1, <2>3, ContentsUnchanged DEF Put, vars, Queue!vars
  <2> QED
    BY <2>2, <2>3
<1>2. CASE Advance
  BY <1>2, AdvanceTakesHead DEF Queue!Next, Queue!Get
<1>3. CASE CheckEmpty \/ CheckLength \/ CopyByte \/ UNCHANGED vars
  <2>1. UNCHANGED <<buf, write_pos, read_pos, returned>>
    BY <1>3 DEF CheckEmpty, CheckLength, CopyByte, vars
  <2> QED
    BY <2>1, ContentsUnchanged DEF Queue!vars
<1> QED
  BY <1>1, <1>2, <1>3 DEF Next, Handler, Main

\* Every behaviour of the ring, with handlers interrupting the main loop between
\* any two of its steps, is a behaviour of the bounded queue.
THEOREM RingIsBoundedQueue == Spec => ImplementsQueue
  BY IInvAlways, InitImplements, NextImplements, PTL
     DEF Spec, ImplementsQueue, Queue!Spec
=============================================================================
