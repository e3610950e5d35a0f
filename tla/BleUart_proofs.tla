--------------------------- MODULE BleUart_proofs ---------------------------
(***************************************************************************)
(* For every packet size, every range of the size counter and every set of *)
(* lengths that fit in a packet: types, the packet mutex, that a wait that *)
(* succeeds means reception, and that a wait in a handler always has a     *)
(* timeout to end it.                                                      *)
(***************************************************************************)
EXTENDS BleUart, SequenceTheorems, TLAPS

\* ble_uart.c:448: the subtraction stays within the 16 bits of the size.
LEMMA MinusType ==
    ASSUME NEW size \in Size, NEW n \in 0 .. PacketSize
    PROVE  Minus(size, n) \in Size
  BY LengthAssumption DEF Minus, Size

\* ble_uart.c:482: a slice fits in a packet.
LEMMA SliceLengthType ==
    ASSUME NEW size \in Size
    PROVE  SliceLength(size) \in 0 .. PacketSize
  BY LengthAssumption DEF SliceLength, Size

\* The messages of the main loop fit in a packet and in the size.
LEMMA LengthsFit ==
    ASSUME NEW m \in [id : Id, len : Lengths \cup {0}, waits : BOOLEAN]
    PROVE  m.len \in 0 .. PacketSize /\ m.len \in Size
<1>1. m.len \in Lengths \cup {0}
  OBVIOUS
<1>2. Lengths \cup {0} \subseteq 0 .. PacketSize
  <2>1. 0 \in 0 .. PacketSize /\ Lengths \subseteq 0 .. PacketSize
    BY LengthAssumption
  <2> QED
    BY <2>1
<1>3. 0 .. PacketSize \subseteq Size
  BY LengthAssumption DEF Size
<1> QED
  BY <1>1, <1>2, <1>3

\* So does an empty one.
LEMMA ZeroFits == 0 \in Size /\ 0 \in 0 .. PacketSize
  BY LengthAssumption DEF Size

\* The stack keeps its type when a notification is handed to it,
LEMMA NotifiedType ==
    ASSUME NEW s \in RadioType
    PROVE  Notified(s) \in RadioType
<1>1. CASE s.link /\ s.notes < MaxNotes
  <2>1. s.notes + 1 \in 0 .. MaxNotes
    BY <1>1, LengthAssumption DEF RadioType
  <2> QED
    BY <1>1, <2>1 DEF Notified, RadioType
<1>2. CASE ~(s.link /\ s.notes < MaxNotes)
  BY <1>2 DEF Notified
<1> QED
  BY <1>1, <1>2

\* when an indication is,
LEMMA IndicateType ==
    ASSUME NEW s \in RadioType, NEW t \in TxType, NEW len \in 0 .. PacketSize,
           clean \in BOOLEAN, Indicate(s, t, len)
    PROVE  sd' \in RadioType /\ clean' \in BOOLEAN
<1> DEFINE p == [cmd |-> t.cmd, data |-> t.data, from |-> t.from, len |-> len]
<1>1. p \in Packet
  BY DEF Packet, TxType, SliceLengths
<1>2. sd' = s \/ sd' = [s EXCEPT !.air = p]
  BY DEF Indicate
<1>3. sd' \in RadioType
  BY <1>1, <1>2 DEF RadioType
<1> QED
  BY <1>3 DEF Indicate

\* A handler that sends a notification keeps the types.
LEMMA NotifySliceType ==
    ASSUME NEW s \in RadioType, NEW t \in TxType, NEW from \in Size,
           NEW len \in 0 .. PacketSize,
           rtc \in [armed : BOOLEAN, flag : BOOLEAN], waiting \in 0 .. PacketSize,
           NotifySlice(s, t, from, len)
    PROVE  /\ sd' \in RadioType
           /\ tx' \in TxType
           /\ rtc' \in [armed : BOOLEAN, flag : BOOLEAN]
           /\ waiting' \in 0 .. PacketSize
<1>1. CASE connected
  <2>1. tx' \in TxType
    BY <1>1 DEF NotifySlice, TxType
  <2>2. sd' \in RadioType
    BY <1>1, NotifiedType DEF NotifySlice
  <2>3. rtc' = Armed /\ waiting' = len
    BY <1>1 DEF NotifySlice
  <2>4. Armed \in [armed : BOOLEAN, flag : BOOLEAN]
    BY DEF Armed
  <2> QED
    BY <2>1, <2>2, <2>3, <2>4
<1>2. CASE ~connected
  BY <1>2 DEF NotifySlice
<1> QED
  BY <1>1, <1>2

\* when an event is delivered,
LEMMA DeliveredType ==
    ASSUME sd \in RadioType, sd.events # <<>>
    PROVE  Delivered \in RadioType
<1>1. Tail(sd.events) \in Seq(Event)
  BY DEF RadioType
<1> QED
  BY <1>1 DEF Delivered, RadioType

\* and when one is raised.
LEMMA RaiseType ==
    ASSUME NEW s \in RadioType, NEW e \in Event
    PROVE  Raise(s, e) \in RadioType
<1>1. Append(s.events, e) \in Seq(Event)
  BY DEF RadioType
<1> QED
  BY <1>1 DEF Raise, RadioType

\* The statics of the module have their types to begin with.
LEMMA TypeInit == Init => TypeOK
<1> SUFFICES ASSUME Init PROVE TypeOK
  OBVIOUS
<1> USE DEF Init
<1>1. tx \in TxType
  BY ZeroFits DEF TxType, Data, Id, Note
<1>2. sd \in RadioType
  BY LengthAssumption DEF RadioType
<1>3. msg \in [id : Id, len : Lengths \cup {0}, waits : BOOLEAN]
  BY DEF Id
<1>4. received \in Seq(Packet)
  BY EmptySeq
<1>5. rtc \in [armed : BOOLEAN, flag : BOOLEAN]
  OBVIOUS
<1> QED
  BY <1>1, <1>2, <1>3, <1>4, <1>5, ZeroFits DEF TypeOK, PcType

\* The main loop keeps the types, step by step.
LEMMA TypeMain == TypeOK /\ Main => TypeOK'
<1> SUFFICES ASSUME TypeOK, Main PROVE TypeOK'
  OBVIOUS
<1> USE DEF TypeOK, MainStep
<1>1. ASSUME NEW len \in Lengths, NEW waits \in BOOLEAN, DataSend(len, waits)
      PROVE  TypeOK'
  <2>1. tx' \in TxType
    BY <1>1 DEF DataSend, TxType
  <2>2. 1 - msg.id \in Id
    BY DEF Id
  <2> QED
    BY <1>1, <2>1, <2>2 DEF DataSend, PcType
<1>2. CASE SetSize
  <2>1. tx' \in TxType
    BY <1>2, LengthsFit DEF SetSize, TxType
  <2> QED
    BY <1>2, <2>1 DEF SetSize, PcType
<1>3. CASE SetPointer
  <2>1. tx' \in TxType
    BY <1>3 DEF SetPointer, TxType, Data
  <2> QED
    BY <1>3, <2>1 DEF SetPointer, PcType
<1>4. CASE CopySlice
  <2>1. CASE connected
    <3>1. tx' = [tx EXCEPT !.data = msg.id, !.from = 0]
      BY <1>4, <2>1 DEF CopySlice
    <3>2. tx' \in TxType
      BY <3>1, ZeroFits DEF TxType, Data
    <3> QED
      BY <1>4, <2>1, <3>2 DEF CopySlice, PcType
  <2>2. CASE ~connected
    <3>1. pc' \in {"arm", "idle"}
      BY <1>4, <2>2 DEF CopySlice, AfterSend
    <3>2. tx' = tx
      BY <1>4, <2>2 DEF CopySlice
    <3> QED
      BY <1>4, <3>1, <3>2 DEF CopySlice, PcType
  <2> QED
    BY <2>1, <2>2
<1>5. CASE PacketFree
  BY <1>5 DEF PacketFree, PcType
<1>6. CASE RaiseFlag
  <2>1. tx' \in TxType
    BY <1>6 DEF RaiseFlag, TxType
  <2> QED
    BY <1>6, <2>1 DEF RaiseFlag, PcType
<1>7. CASE Hvx
  <2>1. sd' \in RadioType /\ clean' \in BOOLEAN
    BY <1>7, IndicateType, LengthsFit DEF Hvx
  <2> QED
    BY <1>7, <2>1 DEF Hvx, PcType
<1>8. CASE LoadSize
  BY <1>8 DEF LoadSize, PcType, TxType
<1>9. CASE StoreSize
  <2>1. Minus(loaded, msg.len) \in Size
    BY MinusType, LengthsFit
  <2>2. tx' \in TxType
    BY <1>9, <2>1 DEF StoreSize, TxType
  <2> QED
    BY <1>9, <2>2 DEF StoreSize, PcType, AfterSend
<1>10. CASE ArmTimeout
  BY <1>10 DEF ArmTimeout, Armed, PcType
<1>11. CASE MessageGone
  BY <1>11 DEF MessageGone, PcType
<1>12. CASE CancelTimeout
  BY <1>12 DEF CancelTimeout, PcType
<1>13. CASE WaitReturns
  BY <1>13 DEF WaitReturns, PcType
<1> QED
  BY <1>1, <1>2, <1>3, <1>4, <1>5, <1>6, <1>7, <1>8, <1>9, <1>10, <1>11,
     <1>12, <1>13 DEF Main, MainRest

\* The handlers keep them.
LEMMA TypeHandlers == TypeOK /\ (NotifyCentral \/ Handlers) => TypeOK'
<1> SUFFICES ASSUME TypeOK, NotifyCentral \/ Handlers PROVE TypeOK'
  OBVIOUS
<1> USE DEF TypeOK
<1>1. CASE NotifyCentral
  <2> DEFINE t == [tx EXCEPT !.size = NoteLength, !.ptr = Note, !.cmd = Note]
  <2>1. NoteLength \in 0 .. PacketSize /\ NoteLength \in Size
    BY LengthAssumption DEF Size
  <2>2. t \in TxType
    BY <2>1 DEF TxType, Data
  <2>3. NotifySlice(sd, t, 0, NoteLength)
    BY <1>1 DEF NotifyCentral
  <2> HIDE DEF t
  <2>4. /\ sd' \in RadioType
        /\ tx' \in TxType
        /\ rtc' \in [armed : BOOLEAN, flag : BOOLEAN]
        /\ waiting' \in 0 .. PacketSize
    BY <2>1, <2>2, <2>3, ZeroFits, NotifySliceType
  <2> QED
    BY <1>1, <2>4 DEF NotifyCentral
<1>2. CASE OnConnect
  BY <1>2, DeliveredType DEF OnConnect, Deliver
<1>3. CASE OnDisconnect
  BY <1>3, DeliveredType DEF OnDisconnect, Deliver
<1>4. CASE OnHvc
  <2> DEFINE len == SliceLength(tx.size)
             next == [tx EXCEPT !.packet = TRUE, !.data = tx.ptr,
                                !.from = tx.size, !.size = Minus(@, len)]
  <2>1. Delivered \in RadioType
    BY <1>4, DeliveredType DEF OnHvc, Deliver
  <2>2. tx.size \in Size /\ len \in 0 .. PacketSize
    BY SliceLengthType DEF TxType
  <2>3. Minus(tx.size, len) \in Size
    BY <2>2, MinusType
  <2>4. next \in TxType
    BY <2>3 DEF TxType
  <2>5. CASE Indicate(Delivered, next, len) /\ tx' = next
    <3> HIDE DEF next, len
    <3>1. sd' \in RadioType /\ clean' \in BOOLEAN
      BY <2>1, <2>2, <2>4, <2>5, IndicateType
    <3> QED
      BY <1>4, <2>4, <2>5, <3>1 DEF OnHvc
  <2>6. CASE /\ sd' = Delivered
             /\ UNCHANGED clean
             /\ \/ tx' = [tx EXCEPT !.packet = FALSE, !.message = FALSE]
                \/ tx' = [tx EXCEPT !.packet = FALSE]
    <3>1. tx' \in TxType
      BY <2>6 DEF TxType
    <3> QED
      BY <1>4, <2>1, <2>6, <3>1 DEF OnHvc
  <2> QED
    BY <1>4, <2>5, <2>6 DEF OnHvc
<1>5. CASE OnTxComplete
  <2> DEFINE done == [tx EXCEPT !.note = FALSE]
             len == SliceLength(tx.size)
  <2>1. Delivered \in RadioType
    BY <1>5, DeliveredType DEF OnTxComplete, Deliver
  <2>2. tx.size \in Size /\ len \in 0 .. PacketSize
    BY SliceLengthType DEF TxType
  <2>3. done \in TxType
    BY DEF TxType
  <2>4. CASE NotifySlice(Delivered, done, tx.size, len)
    <3> HIDE DEF done, len
    <3>1. /\ sd' \in RadioType
          /\ tx' \in TxType
          /\ rtc' \in [armed : BOOLEAN, flag : BOOLEAN]
          /\ waiting' \in 0 .. PacketSize
      BY <2>1, <2>2, <2>3, <2>4, NotifySliceType
    <3> QED
      BY <1>5, <3>1 DEF OnTxComplete
  <2>5. CASE tx' = done /\ sd' = Delivered /\ UNCHANGED <<rtc, waiting>>
    <3> HIDE DEF done
    <3> QED
      BY <1>5, <2>1, <2>3, <2>5 DEF OnTxComplete
  <2> QED
    BY <1>5, <2>4, <2>5 DEF OnTxComplete
<1>6. CASE NotifyDone
  <2>1. Minus(tx.size, waiting) \in Size
    BY MinusType DEF TxType
  <2>2. tx' \in TxType
    BY <1>6, <2>1 DEF NotifyDone, TxType
  <2>3. sd' \in RadioType
    BY <1>6, NotifiedType DEF NotifyDone
  <2> QED
    BY <1>6, <2>2, <2>3, ZeroFits DEF NotifyDone
<1> QED
  BY <1>1, <1>2, <1>3, <1>4, <1>5, <1>6 DEF Handlers

\* The RTC interrupt, the stack and the central keep them.
LEMMA TypeCentral == TypeOK /\ (TimeoutFires \/ Central) => TypeOK'
<1> SUFFICES ASSUME TypeOK, TimeoutFires \/ Central PROVE TypeOK'
  OBVIOUS
<1> USE DEF TypeOK
<1>1. CASE TimeoutFires
  BY <1>1 DEF TimeoutFires
<1>2. CASE LinkUp
  <2>1. [sd EXCEPT !.link = TRUE] \in RadioType
    BY DEF RadioType
  <2>2. sd' \in RadioType
    BY <1>2, <2>1, RaiseType DEF LinkUp, Event
  <2> QED
    BY <1>2, <2>2 DEF LinkUp, Radio
<1>3. CASE LinkDown
  <2>1. [sd EXCEPT !.link = FALSE, !.enabled = FALSE, !.air = NoPacket,
                   !.notes = 0] \in RadioType
    <3>1. 0 \in 0 .. MaxNotes
      BY LengthAssumption
    <3> QED
      BY <3>1 DEF RadioType
  <2>2. sd' \in RadioType
    BY <1>3, <2>1, RaiseType DEF LinkDown, Event
  <2> QED
    BY <1>3, <2>2 DEF LinkDown, Radio
<1>4. CASE CentralEnables
  <2>1. sd' \in RadioType
    BY <1>4 DEF CentralEnables, RadioType
  <2> QED
    BY <1>4, <2>1 DEF CentralEnables, Radio
<1>5. CASE CentralConfirms
  <2>1. [sd EXCEPT !.air = NoPacket] \in RadioType
    BY DEF RadioType
  <2>2. sd' \in RadioType
    BY <1>5, <2>1, RaiseType DEF CentralConfirms, Event
  <2>3. sd.air \in Packet
    BY <1>5 DEF CentralConfirms, RadioType
  <2>4. received' \in Seq(Packet)
    BY <1>5, <2>3, AppendProperties DEF CentralConfirms
  <2> QED
    BY <1>5, <2>2, <2>4 DEF CentralConfirms, Radio
<1>6. CASE NotificationSent
  <2>1. [sd EXCEPT !.notes = @ - 1] \in RadioType
    <3>1. sd.notes - 1 \in 0 .. MaxNotes
      <4>1. sd.notes \in 0 .. MaxNotes /\ sd.notes > 0
        BY <1>6 DEF NotificationSent, RadioType
      <4> QED
        BY <4>1, LengthAssumption
    <3> QED
      BY <3>1 DEF RadioType
  <2>2. sd' \in RadioType
    BY <1>6, <2>1, RaiseType DEF NotificationSent, Event
  <2> QED
    BY <1>6, <2>2 DEF NotificationSent, Radio
<1> QED
  BY <1>1, <1>2, <1>3, <1>4, <1>5, <1>6 DEF Central

\* Every variable keeps its type; the size stays within 16 bits because the
\* subtraction wraps.
THEOREM TypeCorrect == Spec => []TypeOK
<1>1. TypeOK /\ [Next]_vars => TypeOK'
  <2>1. TypeOK /\ UNCHANGED vars => TypeOK'
    BY DEF TypeOK, vars
  <2> QED
    BY <2>1, TypeMain, TypeHandlers, TypeCentral DEF Next
<1> QED
  BY <1>1, TypeInit, PTL DEF Spec

-----------------------------------------------------------------------------
(* The packet flag is a mutex on indications.                              *)

\* PacketMutex with what it needs to be inductive: the flag is still up when
\* the main loop calls sd_ble_gatts_hvx.
MutexInv ==
    /\ PacketMutex
    /\ pc = "hvx" => tx.packet

\* An event raised adds a confirmation only if it is one.
LEMMA RaisedConfirmations ==
    ASSUME TypeOK, NEW e \in Event, sd'.events = Append(sd.events, e)
    PROVE  /\ e # "hvc" => Confirmations' = Confirmations
           /\ Confirmations = {} => \A i, j \in Confirmations' : i = j
<1>1. sd.events \in Seq(Event)
  BY DEF TypeOK, RadioType
<1>2. /\ DOMAIN sd.events = 1 .. Len(sd.events)
      /\ DOMAIN sd'.events = 1 .. Len(sd.events) + 1
      /\ Len(sd.events) \in Nat
      /\ \A i \in 1 .. Len(sd.events) : sd'.events[i] = sd.events[i]
      /\ sd'.events[Len(sd.events) + 1] = e
  BY <1>1, AppendProperties, LenProperties
<1> QED
  BY <1>2 DEF Confirmations

\* An event delivered leaves the later confirmations in their order.
LEMMA DeliveredConfirmations ==
    ASSUME TypeOK, sd.events # <<>>, sd'.events = Tail(sd.events)
    PROVE  /\ \A i \in Confirmations' : i + 1 \in Confirmations /\ i \in Nat \ {0}
           /\ Head(sd.events) = "hvc" => 1 \in Confirmations
<1>1. sd.events \in Seq(Event)
  BY DEF TypeOK, RadioType
<1>2. /\ DOMAIN sd.events = 1 .. Len(sd.events)
      /\ Len(sd.events) \in Nat \ {0}
      /\ Head(sd.events) = sd.events[1]
  BY <1>1, EmptySeq, LenProperties
<1>3. /\ DOMAIN sd'.events = 1 .. Len(sd.events) - 1
      /\ \A i \in 1 .. Len(sd.events) - 1 : sd'.events[i] = sd.events[i + 1]
  BY <1>1, <1>2, HeadTailProperties, LenProperties
<1> QED
  BY <1>2, <1>3 DEF Confirmations

\* A step that hands no indication to the stack and confirms none.
LEMMA MutexKept ==
    ASSUME TypeOK, MutexInv,
           UNCHANGED <<tx.packet, pc>>,
           sd'.air \in {sd.air, NoPacket},
           \/ sd'.events = sd.events
           \/ \E e \in Event \ {"hvc"} : sd'.events = Append(sd.events, e)
           \/ sd.events # <<>> /\ sd'.events = Tail(sd.events)
    PROVE  MutexInv'
<1>1. /\ Confirmations = {} => Confirmations' = {}
      /\ \A i, j \in Confirmations' : i = j
  <2>1. CASE sd'.events = sd.events
    BY <2>1 DEF Confirmations, MutexInv, PacketMutex
  <2>2. CASE \E e \in Event \ {"hvc"} : sd'.events = Append(sd.events, e)
    BY <2>2, RaisedConfirmations DEF MutexInv, PacketMutex
  <2>3. CASE sd.events # <<>> /\ sd'.events = Tail(sd.events)
    <3>1. \A i \in Confirmations' : i + 1 \in Confirmations /\ i \in Nat \ {0}
      BY <2>3, DeliveredConfirmations
    <3> QED
      BY <3>1 DEF MutexInv, PacketMutex
  <2> QED
    BY <2>1, <2>2, <2>3
<1> QED
  BY <1>1 DEF MutexInv, PacketMutex

\* Before the first packet there is nothing to exclude.
LEMMA MutexInit == Init => MutexInv
  BY DEF Init, MutexInv, PacketMutex, Confirmations

\* The main loop hands over an indication only with the flag it waited for.
LEMMA MutexMain == TypeOK /\ MutexInv /\ Main => MutexInv'
<1> SUFFICES ASSUME TypeOK, MutexInv, Main PROVE MutexInv'
  OBVIOUS
<1> USE DEF MainStep
<1>1. CASE PacketFree
  <2>1. Confirmations' = Confirmations
    BY <1>1 DEF PacketFree, Confirmations
  <2> QED
    BY <1>1, <2>1 DEF PacketFree, MutexInv, PacketMutex
<1>2. CASE RaiseFlag
  <2>1. Confirmations' = Confirmations
    BY <1>2 DEF RaiseFlag, Confirmations
  <2>2. tx'.packet = TRUE
    BY <1>2 DEF RaiseFlag, TypeOK, TxType
  <2> QED
    BY <1>2, <2>1, <2>2 DEF RaiseFlag, MutexInv, PacketMutex
<1>3. CASE Hvx
  <2>1. sd'.events = sd.events
    BY <1>3 DEF Hvx, Indicate, TypeOK, RadioType
  <2>2. Confirmations' = Confirmations
    BY <2>1 DEF Confirmations
  <2>3. sd.air = NoPacket /\ Confirmations = {} /\ tx.packet
    BY <1>3 DEF Hvx, MutexInv, PacketMutex
  <2>4. tx'.packet /\ pc' = "load"
    BY <1>3, <2>3 DEF Hvx
  <2> QED
    BY <2>2, <2>3, <2>4 DEF MutexInv, PacketMutex
<1>4. ASSUME UNCHANGED sd, tx'.packet = tx.packet, pc' \notin {"flag", "hvx"}
      PROVE  MutexInv'
  <2>1. Confirmations' = Confirmations
    BY <1>4 DEF Confirmations
  <2> QED
    BY <1>4, <2>1 DEF MutexInv, PacketMutex
<1>5. ASSUME NEW len \in Lengths, NEW waits \in BOOLEAN, DataSend(len, waits)
      PROVE  MutexInv'
  <2>1. tx'.packet = tx.packet
    BY <1>5 DEF DataSend, TypeOK, TxType
  <2>2. UNCHANGED sd /\ pc' \notin {"flag", "hvx"}
    BY <1>5 DEF DataSend
  <2> QED
    BY <1>4, <2>1, <2>2
<1>6. CASE SetSize \/ SetPointer \/ CopySlice \/ StoreSize
  <2>1. tx'.packet = tx.packet
    BY <1>6 DEF SetSize, SetPointer, CopySlice, StoreSize, TypeOK, TxType
  <2>2. UNCHANGED sd /\ pc' \notin {"flag", "hvx"}
    BY <1>6 DEF SetSize, SetPointer, CopySlice, StoreSize, AfterSend
  <2> QED
    BY <1>4, <2>1, <2>2
<1>7. CASE LoadSize \/ ArmTimeout \/ MessageGone \/ CancelTimeout \/ WaitReturns
  <2>1. UNCHANGED <<sd, tx>> /\ pc' \notin {"flag", "hvx"}
    BY <1>7 DEF LoadSize, ArmTimeout, MessageGone, CancelTimeout, WaitReturns
  <2> QED
    BY <1>4, <2>1
<1> QED
  BY <1>1, <1>2, <1>3, <1>5, <1>6, <1>7 DEF Main, MainRest

\* A handler sends the next packet only for the one just confirmed.
LEMMA MutexHandlers ==
    TypeOK /\ MutexInv /\ (NotifyCentral \/ Handlers) => MutexInv'
<1> SUFFICES ASSUME TypeOK, MutexInv, NotifyCentral \/ Handlers PROVE MutexInv'
  OBVIOUS
<1>1. ASSUME NEW s \in RadioType, Notified(s).air # s.air
             \/ Notified(s).events # s.events
      PROVE  FALSE
  BY <1>1 DEF Notified, RadioType
<1>2. sd \in RadioType /\ tx \in TxType
  BY DEF TypeOK
<1>3. CASE NotifyCentral
  <2>1. tx'.packet = tx.packet
    BY <1>2, <1>3 DEF NotifyCentral, NotifySlice, TxType
  <2>2. sd' = Notified(sd) \/ sd' = sd
    BY <1>3 DEF NotifyCentral, NotifySlice
  <2>3. sd'.air = sd.air /\ sd'.events = sd.events /\ pc' = pc
    BY <1>1, <1>2, <1>3, <2>2 DEF NotifyCentral
  <2> QED
    BY <2>1, <2>3, MutexKept
<1>4. ASSUME sd.events # <<>>
      PROVE  /\ Delivered \in RadioType
             /\ Delivered.air = sd.air
             /\ Delivered.events = Tail(sd.events)
  BY <1>2, <1>4, DeliveredType DEF Delivered, RadioType
<1>5. CASE OnConnect \/ OnDisconnect
  <2>1. sd' = Delivered /\ sd.events # <<>> /\ UNCHANGED <<tx, pc>>
    BY <1>5 DEF OnConnect, OnDisconnect, Deliver
  <2> QED
    BY <1>4, <2>1, MutexKept
<1>6. CASE OnTxComplete
  <2>1. tx'.packet = tx.packet
    BY <1>2, <1>6 DEF OnTxComplete, NotifySlice, TxType
  <2>2. sd.events # <<>> /\ pc' = pc
    BY <1>6 DEF OnTxComplete, Deliver
  <2>3. sd' = Notified(Delivered) \/ sd' = Delivered
    BY <1>6 DEF OnTxComplete, NotifySlice
  <2>4. sd'.air = sd.air /\ sd'.events = Tail(sd.events)
    BY <1>1, <1>4, <2>2, <2>3
  <2> QED
    BY <2>1, <2>2, <2>4, MutexKept
<1>7. CASE NotifyDone
  <2>1. tx'.packet = tx.packet
    BY <1>2, <1>7 DEF NotifyDone, TxType
  <2>2. sd' = Notified(sd) \/ sd' = sd
    BY <1>7 DEF NotifyDone
  <2>3. sd'.air = sd.air /\ sd'.events = sd.events /\ pc' = pc
    BY <1>1, <1>2, <1>7, <2>2 DEF NotifyDone
  <2> QED
    BY <2>1, <2>3, MutexKept
<1>8. CASE OnHvc
  <2>1. sd.events # <<>> /\ Head(sd.events) = "hvc" /\ pc' = pc
    BY <1>8 DEF OnHvc, Deliver
  <2>2. sd'.events = Tail(sd.events)
    <3>1. \/ sd' = Delivered
          \/ \E p \in {sd'.air} : sd' = [Delivered EXCEPT !.air = p]
      BY <1>4, <1>8, <2>1 DEF OnHvc, Indicate, RadioType
    <3> QED
      BY <1>4, <2>1, <3>1 DEF RadioType
  <2>3. 1 \in Confirmations
    BY <2>1, <2>2, DeliveredConfirmations
  <2>4. pc \notin {"flag", "hvx"} /\ sd.air = NoPacket
    BY <2>3 DEF MutexInv, PacketMutex
  <2>5. Confirmations' = {}
    <3> SUFFICES ASSUME NEW i \in Confirmations' PROVE FALSE
      OBVIOUS
    <3>1. i + 1 \in Confirmations /\ i \in Nat \ {0}
      BY <2>1, <2>2, DeliveredConfirmations
    <3>2. i + 1 = 1
      BY <2>3, <3>1 DEF MutexInv, PacketMutex
    <3> QED
      BY <3>1, <3>2
  <2>6. sd'.air # NoPacket => tx'.packet
    <3>1. CASE tx.size > 0 /\ connected
      <4>1. tx' = [tx EXCEPT !.packet = TRUE, !.data = tx.ptr,
                             !.from = tx.size,
                             !.size = Minus(@, SliceLength(tx.size))]
        BY <1>8, <3>1 DEF OnHvc
      <4> QED
        BY <1>2, <4>1 DEF TxType
    <3>2. CASE ~(tx.size > 0 /\ connected)
      BY <1>4, <1>8, <2>1, <2>4, <3>2 DEF OnHvc
    <3> QED
      BY <3>1, <3>2
  <2> QED
    BY <2>1, <2>4, <2>5, <2>6 DEF MutexInv, PacketMutex
<1> QED
  BY <1>3, <1>5, <1>6, <1>7, <1>8 DEF Handlers

\* A confirmation is for the one packet that is out; a lost link takes it away.
LEMMA MutexCentral ==
    TypeOK /\ MutexInv /\ (TimeoutFires \/ Central) => MutexInv'
<1> SUFFICES ASSUME TypeOK, MutexInv, TimeoutFires \/ Central PROVE MutexInv'
  OBVIOUS
<1>1. UNCHANGED <<tx, pc>>
  BY DEF TimeoutFires, Central, LinkUp, LinkDown, CentralEnables,
         CentralConfirms, NotificationSent, Radio
<1>2. sd \in RadioType
  BY DEF TypeOK
<1>3. CASE TimeoutFires \/ CentralEnables
  <2>1. sd'.air = sd.air /\ sd'.events = sd.events
    BY <1>2, <1>3 DEF TimeoutFires, CentralEnables, RadioType
  <2> QED
    BY <1>1, <2>1, MutexKept
<1>4. CASE LinkUp
  <2>1. sd'.air = sd.air /\ sd'.events = Append(sd.events, "connected")
    BY <1>2, <1>4 DEF LinkUp, Raise, RadioType
  <2> QED
    BY <1>1, <2>1, MutexKept DEF Event
<1>5. CASE LinkDown
  <2>1. sd'.air = NoPacket /\ sd'.events = Append(sd.events, "disconnected")
    BY <1>2, <1>5 DEF LinkDown, Raise, RadioType
  <2> QED
    BY <1>1, <2>1, MutexKept DEF Event
<1>6. CASE NotificationSent
  <2>1. sd'.air = sd.air /\ sd'.events = Append(sd.events, "tx complete")
    BY <1>2, <1>6 DEF NotificationSent, Raise, RadioType
  <2> QED
    BY <1>1, <2>1, MutexKept DEF Event
<1>7. CASE CentralConfirms
  <2>1. sd'.air = NoPacket /\ sd'.events = Append(sd.events, "hvc")
    BY <1>2, <1>7 DEF CentralConfirms, Raise, RadioType
  <2>2. Confirmations = {} /\ tx.packet /\ pc \notin {"flag", "hvx"}
    BY <1>7 DEF CentralConfirms, MutexInv, PacketMutex
  <2>3. \A i, j \in Confirmations' : i = j
    BY <2>1, <2>2, RaisedConfirmations DEF Event
  <2> QED
    BY <1>1, <2>1, <2>2, <2>3 DEF MutexInv, PacketMutex
<1> QED
  BY <1>3, <1>4, <1>5, <1>6, <1>7 DEF Central

LEMMA MutexAlways == Spec => []MutexInv
<1>1. TypeOK /\ MutexInv /\ [Next]_vars => MutexInv'
  <2>1. TypeOK /\ MutexInv /\ UNCHANGED vars => MutexInv'
    BY DEF vars, MutexInv, PacketMutex, Confirmations
  <2> QED
    BY <2>1, MutexMain, MutexHandlers, MutexCentral DEF Next
<1> QED
  BY <1>1, MutexInit, TypeCorrect, PTL DEF Spec

\* At most one indication is unconfirmed, whatever the main loop and the handler
\* that sends the next packet do, and however the link comes and goes.
THEOREM PacketMutexHolds == Spec => []PacketMutex
<1>1. MutexInv => PacketMutex
  BY DEF MutexInv
<1> QED
  BY <1>1, MutexAlways, PTL

-----------------------------------------------------------------------------
(* A wait in a handler never lacks its timeout.                            *)

\* No step takes the timeout from a handler that waits.
LEMMA GuardedNext == TypeOK /\ HandlerWaitGuarded /\ [Next]_vars
                        => HandlerWaitGuarded'
<1> SUFFICES ASSUME TypeOK, HandlerWaitGuarded, [Next]_vars
             PROVE  HandlerWaitGuarded'
  OBVIOUS
<1> USE DEF HandlerWaitGuarded
<1>1. Armed.armed
  BY DEF Armed, TypeOK
<1>2. CASE Main
  BY <1>2 DEF Main, MainRest, MainStep, DataSend, SetSize, SetPointer, CopySlice,
              PacketFree, RaiseFlag, Hvx, LoadSize, StoreSize, ArmTimeout,
              MessageGone, CancelTimeout, WaitReturns
<1>3. CASE NotifyCentral
  BY <1>1, <1>3 DEF NotifyCentral, NotifySlice
<1>4. CASE OnConnect \/ OnDisconnect \/ OnHvc
  BY <1>4 DEF OnConnect, OnDisconnect, OnHvc
<1>5. CASE OnTxComplete
  BY <1>1, <1>5 DEF OnTxComplete, NotifySlice
<1>6. CASE NotifyDone
  BY <1>6 DEF NotifyDone
<1>7. CASE TimeoutFires
  BY <1>7 DEF TimeoutFires, TypeOK
<1>8. CASE Central
  BY <1>8 DEF Central, LinkUp, LinkDown, CentralEnables, CentralConfirms,
              NotificationSent, Radio
<1>9. CASE UNCHANGED vars
  BY <1>9 DEF vars
<1> QED
  BY <1>2, <1>3, <1>4, <1>5, <1>6, <1>7, <1>8, <1>9 DEF Next, Handlers

\* While a handler waits for a notification, COMPARE1 is armed or has fired.
THEOREM HandlerWaitAlwaysGuarded == Spec => []HandlerWaitGuarded
<1>1. Init => HandlerWaitGuarded
  BY DEF Init, HandlerWaitGuarded
<1> QED
  BY <1>1, GuardedNext, TypeCorrect, PTL DEF Spec

-----------------------------------------------------------------------------
(* On an undisturbed channel success means that the message has arrived.   *)

\* Until it hands its packet over the main loop prepares a message; the packet is
\* then out until the main loop is past line 448, and after that on its way back.
Preparing == {"size", "pointer", "copy", "wait packet", "flag", "hvx"}
Out       == {"load", "store"}
Past      == {"idle", "arm", "wait message", "cancel", "result"}

\* Nothing is out and nothing was confirmed that is not handled yet.
Quiet == sd.air = NoPacket /\ Confirmations = {}

\* How far the message has come.
NothingSent == Quiet /\ received = <<>> /\ ~tx.packet /\ ~tx.message
Unconfirmed == sd.air = Whole /\ Confirmations = {} /\ received = <<>> /\ tx.message
Confirmed   == sd.air = NoPacket /\ Confirmations # {} /\ received = <<Whole>>
               /\ tx.message
Handled     == Quiet /\ received = <<Whole>> /\ ~tx.packet /\ ~tx.message

Outcome == (NothingSent /\ pc = "idle") \/ Unconfirmed \/ Confirmed \/ Handled

\* What the main loop has put into the packet, as far as it has come.
Prepared ==
    /\ pc \in {"pointer", "copy", "wait packet", "flag", "hvx"} \cup Out =>
         tx.size = msg.len
    /\ pc \in {"copy", "wait packet", "flag", "hvx"} =>
         tx.ptr = msg.id /\ tx.cmd = msg.id
    /\ pc \in {"wait packet", "flag", "hvx"} => tx.data = msg.id /\ tx.from = 0

Undisturbed ==
    /\ waiting = 0
    /\ sd.notes = 0
    /\ \A i \in DOMAIN sd.events : sd.events[i] # "tx complete"
    /\ pc \in Preparing => Quiet /\ received = <<>> /\ tx.message
    /\ Prepared
    /\ pc \in Out => Unconfirmed
    /\ pc = "store" => loaded = msg.len
    /\ pc \in Past => tx.size = 0 /\ Outcome
    /\ pc \in {"cancel", "result"} => ~tx.message \/ rtc.flag

CleanInv == clean => Undisturbed

\* Confirmations come and go with their events only.
LEMMA RaisedHvc ==
    ASSUME sd \in RadioType, sd'.events = Append(sd.events, "hvc")
    PROVE  Confirmations' # {}
<1>1. sd.events \in Seq(Event) /\ "hvc" \in Event
  BY DEF RadioType, Event
<1>2. /\ DOMAIN sd'.events = 1 .. Len(sd.events) + 1
      /\ Len(sd.events) \in Nat
      /\ sd'.events[Len(sd.events) + 1] = "hvc"
  BY <1>1, AppendProperties, LenProperties
<1> QED
  BY <1>2 DEF Confirmations

LEMMA AppendedEvents ==
    ASSUME NEW s \in Seq(Event), NEW e \in Event, NEW f \in Event
    PROVE  (\E i \in DOMAIN Append(s, e) : Append(s, e)[i] = f)
           => e = f \/ \E i \in DOMAIN s : s[i] = f
<1>1. /\ DOMAIN s = 1 .. Len(s)
      /\ DOMAIN Append(s, e) = 1 .. Len(s) + 1
      /\ Len(s) \in Nat
      /\ \A i \in 1 .. Len(s) : Append(s, e)[i] = s[i]
      /\ Append(s, e)[Len(s) + 1] = e
  BY AppendProperties, LenProperties
<1>2. \A i \in 1 .. Len(s) + 1 : i \in 1 .. Len(s) \/ i = Len(s) + 1
  BY <1>1
<1> QED
  BY <1>1, <1>2

LEMMA RaisedOther ==
    ASSUME sd \in RadioType, NEW e \in Event \ {"tx complete"},
           sd'.events = Append(sd.events, e),
           \A i \in DOMAIN sd.events : sd.events[i] # "tx complete"
    PROVE  \A i \in DOMAIN sd'.events : sd'.events[i] # "tx complete"
<1>1. sd.events \in Seq(Event) /\ e \in Event /\ e # "tx complete"
      /\ "tx complete" \in Event
  BY DEF RadioType, Event
<1>2. (\E i \in DOMAIN Append(sd.events, e) :
            Append(sd.events, e)[i] = "tx complete")
      => e = "tx complete" \/ \E i \in DOMAIN sd.events :
                                  sd.events[i] = "tx complete"
  BY <1>1, AppendedEvents
<1>3. \A i \in DOMAIN Append(sd.events, e) :
          Append(sd.events, e)[i] # "tx complete"
  BY <1>1, <1>2
<1> QED
  BY <1>3

LEMMA HvcIsConfirmation ==
    ASSUME TypeOK, sd.events # <<>>, Head(sd.events) = "hvc"
    PROVE  Confirmations # {}
<1>1. sd.events \in Seq(Event)
  BY DEF TypeOK, RadioType
<1>2. /\ DOMAIN sd.events = 1 .. Len(sd.events)
      /\ Len(sd.events) \in Nat \ {0}
      /\ Head(sd.events) = sd.events[1]
  BY <1>1, EmptySeq, LenProperties
<1> QED
  BY <1>2 DEF Confirmations

LEMMA OtherDelivered ==
    ASSUME TypeOK, sd.events # <<>>, Head(sd.events) # "hvc",
           sd'.events = Tail(sd.events)
    PROVE  Confirmations' = {} <=> Confirmations = {}
<1>1. sd.events \in Seq(Event)
  BY DEF TypeOK, RadioType
<1>2. /\ DOMAIN sd.events = 1 .. Len(sd.events)
      /\ Len(sd.events) \in Nat \ {0}
      /\ Head(sd.events) = sd.events[1]
  BY <1>1, EmptySeq, LenProperties
<1>3. /\ DOMAIN sd'.events = 1 .. Len(sd.events) - 1
      /\ \A i \in 1 .. Len(sd.events) - 1 : sd'.events[i] = sd.events[i + 1]
  BY <1>1, <1>2, HeadTailProperties, LenProperties
<1>4. ASSUME NEW i \in Confirmations PROVE i - 1 \in Confirmations'
  <2>1. i \in 1 .. Len(sd.events) /\ sd.events[i] = "hvc" /\ i # 1
    BY <1>2 DEF Confirmations
  <2>2. i - 1 \in 1 .. Len(sd.events) - 1 /\ (i - 1) + 1 = i
    BY <1>2, <2>1
  <2> QED
    BY <1>3, <2>1, <2>2 DEF Confirmations
<1>5. \A i \in Confirmations' : i + 1 \in Confirmations
  BY DeliveredConfirmations
<1> QED
  BY <1>4, <1>5

LEMMA CleanInit == Init => CleanInv
<1> SUFFICES ASSUME Init PROVE Undisturbed
  BY DEF CleanInv
<1>1. Confirmations = {} /\ \A i \in DOMAIN sd.events : sd.events[i] # "tx complete"
  BY DEF Init, Confirmations
<1>2. NothingSent
  BY <1>1 DEF Init, NothingSent, Quiet
<1> QED
  BY <1>1, <1>2 DEF Init, Undisturbed, Prepared, Outcome, Preparing, Out, Past

\* A step of the main loop that leaves the stack and the history alone leaves
\* what they say of the message alone.
LEMMA SameChannel ==
    ASSUME UNCHANGED <<sd, received, msg>>
    PROVE  /\ Quiet' = Quiet
           /\ Confirmations' = Confirmations
           /\ Whole' = Whole
           /\ (\A i \in DOMAIN sd.events : sd.events[i] # "tx complete")
              => \A i \in DOMAIN sd'.events : sd'.events[i] # "tx complete"
  BY DEF Quiet, Confirmations, Whole

\* Where the message is does not change either unless its flags do.
LEMMA SameOutcome ==
    ASSUME UNCHANGED <<sd, received, msg>>, tx'.message = tx.message,
           tx'.packet = tx.packet
    PROVE  /\ Unconfirmed' = Unconfirmed
           /\ Confirmed' = Confirmed
           /\ Handled' = Handled
<1>1. Quiet' = Quiet /\ Confirmations' = Confirmations /\ Whole' = Whole
  BY SameChannel
<1>2. sd' = sd /\ received' = received
  OBVIOUS
<1>3. Unconfirmed' = Unconfirmed
  BY <1>1, <1>2 DEF Unconfirmed
<1>4. Confirmed' = Confirmed
  BY <1>1, <1>2 DEF Confirmed
<1>5. Handled' = Handled
  BY <1>1, <1>2 DEF Handled
<1> QED
  BY <1>3, <1>4, <1>5

LEMMA CleanMain == TypeOK /\ MutexInv /\ CleanInv /\ Main => CleanInv'
<1> SUFFICES ASSUME TypeOK, MutexInv, CleanInv, Main, clean'
             PROVE  Undisturbed'
  BY DEF CleanInv
<1> USE DEF MainStep
<1>1. tx \in TxType /\ sd \in RadioType /\ clean \in BOOLEAN /\ msg.len \in Size
      /\ rtc \in [armed : BOOLEAN, flag : BOOLEAN]
  BY LengthsFit DEF TypeOK
<1>2. ASSUME NEW len \in Lengths, NEW waits \in BOOLEAN, DataSend(len, waits)
      PROVE  Undisturbed'
  <2>1. clean /\ connected /\ ~tx.packet /\ pc = "idle" /\ pc' = "size"
    BY <1>2, <1>1 DEF DataSend
  <2>2. Undisturbed
    BY <2>1 DEF CleanInv
  <2>3. Quiet /\ sd' = sd
    BY <1>2, <2>1 DEF DataSend, MutexInv, PacketMutex, Quiet
  <2>4. Quiet' /\ \A i \in DOMAIN sd'.events : sd'.events[i] # "tx complete"
    BY <2>2, <2>3 DEF Undisturbed, Quiet, Confirmations
  <2>5. tx'.message /\ received' = <<>> /\ waiting' = waiting
    BY <1>1, <1>2, <2>1 DEF DataSend, TxType
  <2> QED
    BY <2>1, <2>2, <2>3, <2>4, <2>5 DEF Undisturbed, Prepared, Preparing, Out, Past
<1>3. CASE SetSize
  <2>1. clean /\ pc = "size" /\ pc' = "pointer"
    BY <1>3 DEF SetSize
  <2>2. Undisturbed
    BY <2>1 DEF CleanInv
  <2>3. UNCHANGED <<sd, received, msg, waiting>> /\ tx'.size = msg.len
        /\ tx'.message = tx.message
    BY <1>1, <1>3 DEF SetSize, TxType
  <2> QED
    BY <2>1, <2>2, <2>3, SameChannel
       DEF Undisturbed, Prepared, Preparing, Out, Past
<1>4. CASE SetPointer
  <2>1. clean /\ pc = "pointer" /\ pc' = "copy"
    BY <1>4 DEF SetPointer
  <2>2. Undisturbed
    BY <2>1 DEF CleanInv
  <2>3. UNCHANGED <<sd, received, msg, waiting>> /\ tx'.size = tx.size
        /\ tx'.message = tx.message /\ tx'.ptr = msg.id /\ tx'.cmd = msg.id
    BY <1>1, <1>4 DEF SetPointer, TxType
  <2> QED
    BY <2>1, <2>2, <2>3, SameChannel
       DEF Undisturbed, Prepared, Preparing, Out, Past
<1>5. CASE CopySlice
  <2>1. clean /\ connected /\ pc = "copy" /\ pc' = "wait packet"
    BY <1>1, <1>5 DEF CopySlice
  <2>2. Undisturbed
    BY <2>1 DEF CleanInv
  <2>3. UNCHANGED <<sd, received, msg, waiting>> /\ tx'.size = tx.size
        /\ tx'.message = tx.message /\ tx'.ptr = tx.ptr /\ tx'.cmd = tx.cmd
        /\ tx'.data = msg.id /\ tx'.from = 0
    BY <1>1, <1>5, <2>1 DEF CopySlice, TxType
  <2> QED
    BY <2>1, <2>2, <2>3, SameChannel
       DEF Undisturbed, Prepared, Preparing, Out, Past
<1>6. CASE PacketFree
  <2>1. clean /\ pc = "wait packet" /\ pc' = "flag"
    BY <1>6 DEF PacketFree
  <2>2. Undisturbed
    BY <2>1 DEF CleanInv
  <2>3. UNCHANGED <<sd, received, msg, waiting, tx>>
    BY <1>6 DEF PacketFree
  <2> QED
    BY <2>1, <2>2, <2>3, SameChannel
       DEF Undisturbed, Prepared, Preparing, Out, Past
<1>7. CASE RaiseFlag
  <2>1. clean /\ pc = "flag" /\ pc' = "hvx"
    BY <1>7 DEF RaiseFlag
  <2>2. Undisturbed
    BY <2>1 DEF CleanInv
  <2>3. UNCHANGED <<sd, received, msg, waiting>> /\ tx'.size = tx.size
        /\ tx'.message = tx.message /\ tx'.ptr = tx.ptr /\ tx'.cmd = tx.cmd
        /\ tx'.data = tx.data /\ tx'.from = tx.from
    BY <1>1, <1>7 DEF RaiseFlag, TxType
  <2> QED
    BY <2>1, <2>2, <2>3, SameChannel
       DEF Undisturbed, Prepared, Preparing, Out, Past
<1>8. CASE Hvx
  <2>1. pc = "hvx" /\ pc' = "load" /\ Indicate(sd, tx, msg.len)
        /\ UNCHANGED <<tx, msg, waiting, received>>
    BY <1>8 DEF Hvx
  <2>2. clean /\ sd' = [sd EXCEPT !.air = [cmd |-> tx.cmd, data |-> tx.data,
                                           from |-> tx.from, len |-> msg.len]]
    BY <2>1 DEF Indicate
  <2>3. Undisturbed
    BY <2>2 DEF CleanInv
  <2>4. tx.cmd = msg.id /\ tx.data = msg.id /\ tx.from = 0 /\ tx.size = msg.len
        /\ Quiet /\ received = <<>> /\ tx.message
    BY <2>1, <2>3 DEF Undisturbed, Prepared, Preparing
  <2>5. sd'.air = Whole /\ sd'.notes = sd.notes /\ sd'.events = sd.events
    BY <1>1, <2>2, <2>4 DEF Whole, RadioType
  <2>6. Confirmations' = Confirmations /\ Whole' = Whole
    BY <2>1, <2>5 DEF Confirmations, Whole
  <2>7. Unconfirmed'
    BY <2>1, <2>4, <2>5, <2>6 DEF Unconfirmed, Quiet
  <2> QED
    BY <2>1, <2>3, <2>4, <2>5, <2>7 DEF Undisturbed, Prepared, Preparing, Out, Past
<1>9. CASE LoadSize
  <2>1. clean /\ pc = "load" /\ pc' = "store"
    BY <1>9 DEF LoadSize
  <2>2. Undisturbed
    BY <2>1 DEF CleanInv
  <2>3. UNCHANGED <<sd, received, msg, waiting, tx>> /\ loaded' = tx.size
    BY <1>9 DEF LoadSize
  <2> QED
    BY <2>1, <2>2, <2>3, SameChannel, SameOutcome
       DEF Undisturbed, Prepared, Preparing, Out, Past
<1>10. CASE StoreSize
  <2>1. clean /\ pc = "store" /\ pc' \in {"arm", "idle"}
    BY <1>10 DEF StoreSize, AfterSend
  <2>2. Undisturbed
    BY <2>1 DEF CleanInv
  <2>3. UNCHANGED <<sd, received, msg, waiting>>
        /\ tx'.size = Minus(loaded, msg.len)
        /\ tx'.message = tx.message /\ tx'.packet = tx.packet
    BY <1>1, <1>10 DEF StoreSize, TxType
  <2>4. tx'.size = 0
    <3>1. loaded = msg.len
      BY <2>1, <2>2 DEF Undisturbed
    <3>2. Minus(msg.len, msg.len) = 0
      BY <1>1, LengthAssumption DEF Minus, Size
    <3> QED
      BY <2>3, <3>1, <3>2
  <2>5. Unconfirmed'
    BY <2>1, <2>2, <2>3, SameOutcome DEF Undisturbed, Out
  <2> QED
    BY <2>1, <2>2, <2>3, <2>4, <2>5, SameChannel
       DEF Undisturbed, Prepared, Outcome, Preparing, Out, Past
<1>11. CASE ArmTimeout
  <2>1. clean /\ pc = "arm" /\ pc' = "wait message"
    BY <1>11 DEF ArmTimeout
  <2>2. Undisturbed
    BY <2>1 DEF CleanInv
  <2>3. UNCHANGED <<sd, received, msg, waiting, tx>>
    BY <1>11 DEF ArmTimeout
  <2>4. Outcome'
    BY <2>1, <2>2, <2>3, SameOutcome DEF Undisturbed, Outcome, Past
  <2> QED
    BY <2>1, <2>2, <2>3, <2>4, SameChannel
       DEF Undisturbed, Prepared, Preparing, Out, Past
<1>12. CASE MessageGone
  <2>1. clean /\ pc = "wait message" /\ pc' = "cancel"
    BY <1>12 DEF MessageGone
  <2>2. Undisturbed
    BY <2>1 DEF CleanInv
  <2>3. UNCHANGED <<sd, received, msg, waiting, tx, rtc>>
        /\ (~tx.message \/ rtc.flag)
    BY <1>12 DEF MessageGone
  <2>4. Outcome'
    BY <2>1, <2>2, <2>3, SameOutcome DEF Undisturbed, Outcome, Past
  <2> QED
    BY <2>1, <2>2, <2>3, <2>4, SameChannel
       DEF Undisturbed, Prepared, Preparing, Out, Past
<1>13. CASE CancelTimeout
  <2>1. clean /\ pc = "cancel" /\ pc' = "result"
    BY <1>13 DEF CancelTimeout
  <2>2. Undisturbed
    BY <2>1 DEF CleanInv
  <2>3. UNCHANGED <<sd, received, msg, waiting, tx>> /\ rtc'.flag = rtc.flag
    BY <1>1, <1>13 DEF CancelTimeout
  <2>4. Outcome'
    BY <2>1, <2>2, <2>3, SameOutcome DEF Undisturbed, Outcome, Past
  <2> QED
    BY <2>1, <2>2, <2>3, <2>4, SameChannel
       DEF Undisturbed, Prepared, Preparing, Out, Past
<1>14. CASE WaitReturns
  <2>1. clean /\ pc = "result" /\ pc' = "idle"
    BY <1>14 DEF WaitReturns
  <2>2. Undisturbed
    BY <2>1 DEF CleanInv
  <2>3. UNCHANGED <<sd, received, msg, waiting, tx>>
    BY <1>14 DEF WaitReturns
  <2>4. Outcome'
    BY <2>1, <2>2, <2>3, SameOutcome DEF Undisturbed, Outcome, Past
  <2> QED
    BY <2>1, <2>2, <2>3, <2>4, SameChannel
       DEF Undisturbed, Prepared, Preparing, Out, Past
<1> QED
  BY <1>2, <1>3, <1>4, <1>5, <1>6, <1>7, <1>8, <1>9, <1>10, <1>11, <1>12, <1>13,
     <1>14 DEF Main, MainRest

\* Without a notification no handler touches the message but the one that takes
\* its confirmation, and that ends it: nothing is left to send.
LEMMA CleanHandlers ==
    TypeOK /\ MutexInv /\ CleanInv /\ (NotifyCentral \/ Handlers) => CleanInv'
<1> SUFFICES ASSUME TypeOK, MutexInv, CleanInv, NotifyCentral \/ Handlers, clean'
             PROVE  Undisturbed'
  BY DEF CleanInv
<1>1. tx \in TxType /\ sd \in RadioType /\ pc \in PcType
  BY DEF TypeOK
<1>2. ~NotifyCentral
  BY DEF NotifyCentral
<1>3. clean
  BY <1>2 DEF Handlers, OnConnect, OnDisconnect, OnHvc, OnTxComplete, NotifyDone,
              Indicate
<1>4. Undisturbed
  BY <1>3 DEF CleanInv
<1>5. ~NotifyDone
  BY <1>4 DEF Undisturbed, NotifyDone
<1>6. ASSUME sd.events # <<>>
      PROVE  /\ Delivered.air = sd.air /\ Delivered.notes = sd.notes
             /\ Delivered.events = Tail(sd.events)
  BY <1>1 DEF Delivered, RadioType
<1>7. ASSUME sd.events # <<>>
      PROVE  /\ \A i \in DOMAIN Tail(sd.events) :
                   Tail(sd.events)[i] # "tx complete"
             /\ Head(sd.events) # "tx complete"
  <2>1. sd.events \in Seq(Event)
    BY <1>1 DEF RadioType
  <2>2. /\ DOMAIN sd.events = 1 .. Len(sd.events)
        /\ Len(sd.events) \in Nat \ {0}
        /\ Head(sd.events) = sd.events[1]
    BY <1>7, <2>1, EmptySeq, LenProperties
  <2>3. /\ DOMAIN Tail(sd.events) = 1 .. Len(sd.events) - 1
        /\ \A i \in 1 .. Len(sd.events) - 1 :
              Tail(sd.events)[i] = sd.events[i + 1]
    BY <1>7, <2>1, <2>2, HeadTailProperties, LenProperties
  <2>4. \A i \in 1 .. Len(sd.events) : sd.events[i] # "tx complete"
    BY <1>4, <2>2 DEF Undisturbed
  <2>5. \A i \in 1 .. Len(sd.events) - 1 : i + 1 \in 1 .. Len(sd.events)
    BY <2>2
  <2>6. 1 \in 1 .. Len(sd.events)
    BY <2>2
  <2> QED
    BY <2>2, <2>3, <2>4, <2>5, <2>6
<1>8. ~OnTxComplete
  BY <1>7 DEF OnTxComplete, Deliver
<1>9. CASE OnConnect \/ OnDisconnect
  <2>1. /\ sd' = Delivered /\ sd.events # <<>> /\ Head(sd.events) # "hvc"
        /\ UNCHANGED <<tx, rtc, pc, msg, loaded, waiting, received>>
    BY <1>9 DEF OnConnect, OnDisconnect, Deliver
  <2>2. sd'.air = sd.air /\ sd'.notes = sd.notes
        /\ \A i \in DOMAIN sd'.events : sd'.events[i] # "tx complete"
    BY <1>6, <1>7, <2>1
  <2>3. Confirmations' = {} <=> Confirmations = {}
    BY <1>1, <1>6, <2>1, OtherDelivered
  <2>4. Whole' = Whole
    BY <2>1 DEF Whole
  <2>5. Quiet' = Quiet /\ Unconfirmed' = Unconfirmed /\ Outcome' = Outcome
    BY <2>1, <2>2, <2>3, <2>4
       DEF Quiet, Unconfirmed, Outcome, NothingSent, Confirmed, Handled
  <2> QED
    BY <1>4, <2>1, <2>2, <2>5 DEF Undisturbed, Prepared
<1>10. CASE OnHvc
  <2>1. sd.events # <<>> /\ Head(sd.events) = "hvc"
        /\ UNCHANGED <<rtc, pc, msg, loaded, waiting, received>>
    BY <1>10 DEF OnHvc, Deliver
  <2>2. Confirmations # {}
    BY <2>1, HvcIsConfirmation
  <2>3. pc \in Past /\ tx.size = 0 /\ Confirmed
    <3>1. pc \notin Preparing /\ pc \notin Out
      BY <1>4, <2>2 DEF Undisturbed, Quiet, Unconfirmed
    <3>2. pc \in Past
      BY <1>1, <3>1 DEF PcType, Preparing, Out, Past
    <3> QED
      BY <1>4, <2>2, <3>2
         DEF Undisturbed, Outcome, NothingSent, Handled, Unconfirmed, Quiet
  <2>4. tx' = [tx EXCEPT !.packet = FALSE, !.message = FALSE] /\ sd' = Delivered
    BY <1>10, <2>3 DEF OnHvc
  <2>5. /\ tx'.size = tx.size /\ ~tx'.packet /\ ~tx'.message
        /\ sd'.air = sd.air /\ sd'.notes = sd.notes
        /\ sd'.events = Tail(sd.events)
    BY <1>1, <1>6, <2>1, <2>4 DEF TxType
  <2>6. Confirmations' = {}
    <3> SUFFICES ASSUME NEW i \in Confirmations' PROVE FALSE
      OBVIOUS
    <3>1. /\ i + 1 \in Confirmations /\ i \in Nat \ {0}
          /\ 1 \in Confirmations
      BY <2>1, <2>5, DeliveredConfirmations
    <3>2. i + 1 = 1
      BY <3>1 DEF MutexInv, PacketMutex
    <3> QED
      BY <3>1, <3>2
  <2>7. Handled'
    <3>1. Whole' = Whole
      BY <2>1 DEF Whole
    <3> QED
      BY <2>1, <2>3, <2>5, <2>6, <3>1 DEF Handled, Confirmed, Quiet
  <2>8. \A i \in DOMAIN sd'.events : sd'.events[i] # "tx complete"
    BY <1>7, <2>1, <2>5
  <2> QED
    BY <1>4, <2>1, <2>3, <2>5, <2>7, <2>8
       DEF Undisturbed, Prepared, Outcome, Preparing, Out, Past
<1> QED
  BY <1>2, <1>5, <1>8, <1>9, <1>10 DEF Handlers

\* The link keeps up, and a confirmation is for the message that is out.
LEMMA CleanCentral ==
    TypeOK /\ MutexInv /\ CleanInv /\ (TimeoutFires \/ Central) => CleanInv'
<1> SUFFICES ASSUME TypeOK, MutexInv, CleanInv, TimeoutFires \/ Central, clean'
             PROVE  Undisturbed'
  BY DEF CleanInv
<1>1. tx \in TxType /\ sd \in RadioType /\ pc \in PcType
      /\ rtc \in [armed : BOOLEAN, flag : BOOLEAN]
  BY DEF TypeOK
<1>2. clean /\ ~LinkDown /\ UNCHANGED <<tx, pc, msg, loaded, waiting>>
  BY DEF TimeoutFires, Central, LinkUp, LinkDown, CentralEnables,
         CentralConfirms, NotificationSent, Radio
<1>3. Undisturbed
  BY <1>2 DEF CleanInv
<1>4. ~NotificationSent
  <2>1. sd.notes = 0
    BY <1>3 DEF Undisturbed
  <2>2. NotificationSent => sd.notes > 0
    BY DEF NotificationSent
  <2> QED
    BY <2>1, <2>2
<1>5. Whole' = Whole
  BY <1>2 DEF Whole
<1>6. ASSUME sd'.air = sd.air, received' = received, sd'.notes = sd.notes,
             \/ sd'.events = sd.events
             \/ sd'.events = Append(sd.events, "connected"),
             rtc.flag => rtc'.flag
      PROVE  Undisturbed'
  <2>1. Confirmations' = Confirmations
        /\ \A i \in DOMAIN sd'.events : sd'.events[i] # "tx complete"
    <3>1. CASE sd'.events = sd.events
      BY <1>3, <3>1 DEF Confirmations, Undisturbed
    <3>2. CASE sd'.events = Append(sd.events, "connected")
      <4>1. Confirmations' = Confirmations
        BY <3>2, RaisedConfirmations DEF Event
      <4>2. \A i \in DOMAIN sd.events : sd.events[i] # "tx complete"
        BY <1>3 DEF Undisturbed
      <4>3. "connected" \in Event \ {"tx complete"}
        BY DEF Event
      <4>4. \A i \in DOMAIN sd'.events : sd'.events[i] # "tx complete"
        BY <1>1, <3>2, <4>2, <4>3, RaisedOther
      <4> QED
        BY <4>1, <4>4
    <3> QED
      BY <1>6, <3>1, <3>2
  <2>2. Quiet' = Quiet /\ Unconfirmed' = Unconfirmed /\ Outcome' = Outcome
    BY <1>2, <1>5, <1>6, <2>1
       DEF Quiet, Unconfirmed, Outcome, NothingSent, Confirmed, Handled
  <2> QED
    BY <1>2, <1>3, <1>6, <2>1, <2>2 DEF Undisturbed, Prepared
<1>7. CASE TimeoutFires
  BY <1>1, <1>6, <1>7 DEF TimeoutFires
<1>8. CASE CentralEnables
  <2>1. sd'.air = sd.air /\ sd'.notes = sd.notes /\ sd'.events = sd.events
        /\ received' = received /\ rtc' = rtc
    BY <1>1, <1>8 DEF CentralEnables, Radio, RadioType
  <2> QED
    BY <1>6, <2>1
<1>9. CASE LinkUp
  <2>1. sd'.air = sd.air /\ sd'.notes = sd.notes
        /\ sd'.events = Append(sd.events, "connected")
        /\ received' = received /\ rtc' = rtc
    BY <1>1, <1>9 DEF LinkUp, Raise, Radio, RadioType
  <2> QED
    BY <1>6, <2>1
<1>10. CASE CentralConfirms
  <2>1. sd.air # NoPacket /\ sd'.air = NoPacket /\ sd'.notes = sd.notes
        /\ sd'.events = Append(sd.events, "hvc") /\ rtc' = rtc
        /\ received' = Append(received, sd.air)
    BY <1>1, <1>2, <1>10 DEF CentralConfirms, Raise, Radio, RadioType
  <2>2. pc \in Past
    <3>1. pc \notin Preparing
      BY <1>3, <2>1 DEF Undisturbed, Quiet
    <3>2. pc \notin Out
      BY <1>3, <1>10 DEF Undisturbed, CentralConfirms, Out
    <3> QED
      BY <1>1, <3>1, <3>2 DEF PcType, Preparing, Out, Past
  <2>3. tx.size = 0 /\ Unconfirmed
    BY <1>3, <2>1, <2>2
       DEF Undisturbed, Outcome, NothingSent, Confirmed, Handled, Quiet
  <2>4. received' = <<Whole>>
    BY <2>1, <2>3 DEF Unconfirmed
  <2>5. Confirmations' # {}
        /\ \A i \in DOMAIN sd'.events : sd'.events[i] # "tx complete"
    <3>1. \A i \in DOMAIN sd.events : sd.events[i] # "tx complete"
      BY <1>3 DEF Undisturbed
    <3>2. "hvc" \in Event \ {"tx complete"}
      BY DEF Event
    <3>3. \A i \in DOMAIN sd'.events : sd'.events[i] # "tx complete"
      BY <1>1, <2>1, <3>1, <3>2, RaisedOther
    <3> QED
      BY <1>1, <2>1, <3>3, RaisedHvc
  <2>6. Confirmed'
    BY <1>2, <1>5, <2>1, <2>3, <2>4, <2>5 DEF Confirmed, Unconfirmed
  <2> QED
    BY <1>2, <1>3, <2>1, <2>2, <2>3, <2>5, <2>6
       DEF Undisturbed, Prepared, Outcome, Preparing, Out, Past
<1> QED
  BY <1>2, <1>4, <1>7, <1>8, <1>9, <1>10 DEF Central

\* On a channel that nothing disturbs, a wait that returns without a timeout means
\* that the central has the message, whole, once, and nothing else.
THEOREM SuccessIsReception == Spec => []SuccessMeansReceived
<1>1. TypeOK /\ MutexInv /\ CleanInv /\ [Next]_vars => CleanInv'
  <2>1. CleanInv /\ UNCHANGED vars => CleanInv'
    BY DEF vars, CleanInv, Undisturbed, Prepared, Outcome, NothingSent,
           Unconfirmed, Confirmed, Handled, Quiet, Whole, Confirmations
  <2> QED
    BY <2>1, CleanMain, CleanHandlers, CleanCentral DEF Next
<1>2. CleanInv => SuccessMeansReceived
  <2> SUFFICES ASSUME CleanInv, clean, pc = "result", ~rtc.flag
               PROVE  received = <<Whole>>
    BY DEF SuccessMeansReceived
  <2>1. ~tx.message /\ Outcome
    BY DEF CleanInv, Undisturbed, Past
  <2> QED
    BY <2>1 DEF Outcome, NothingSent, Unconfirmed, Confirmed, Handled
<1> QED
  BY <1>1, <1>2, CleanInit, MutexAlways, TypeCorrect, PTL DEF Spec

=============================================================================
