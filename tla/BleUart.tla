------------------------------ MODULE BleUart ------------------------------
(***************************************************************************)
(* The transmit side of the BLE UART service (BLE/ble_uart.c).  The main   *)
(* loop answers requests by indications (Ble_Uart_Data_Send); the GPS      *)
(* parser, in the UART interrupt, reports a changed fix by a notification  *)
(* (Ble_Uart_Notify_Central).  Both use the same size, data pointer and    *)
(* packet buffer, and both wait on the one timeout of RTC.c.               *)
(*                                                                         *)
(* Who preempts whom (main.c, NVIC_Config): the main loop is interrupted   *)
(* between any two of its accesses to shared state.  The UART handler and  *)
(* the handler of stack events have the same priority and never interrupt  *)
(* each other, so a handler is one step, except where it waits for a       *)
(* notification: nothing but the RTC interrupt runs during that wait.      *)
(*                                                                         *)
(* The SoftDevice and the central are outside the repository.  They are    *)
(* modelled from how ble_uart.c uses them: sd_ble_gatts_hvx accepts one    *)
(* indication at a time, while connected and enabled by the central;       *)
(* confirmations, completed notifications and changes of the connection    *)
(* arrive as events, in order.                                             *)
(***************************************************************************)
EXTENDS Integers, Sequences

CONSTANTS
    PacketSize,   \* data bytes of a packet: 19
    SizeRange,    \* ble_uart_tx_data_size counts modulo this: 2^16
    Lengths,      \* the lengths main sends; every caller's fit in one packet
    NoteLength,   \* the length of a fix notification: 1
    MaxEvents,    \* bound: stack events waiting to be delivered
    MaxNotes      \* notifications the SoftDevice buffers

ASSUME LengthAssumption ==
    /\ PacketSize \in Nat \ {0}
    /\ SizeRange \in Nat
    /\ SizeRange > PacketSize
    /\ Lengths \subseteq 0 .. PacketSize
    /\ NoteLength \in 1 .. PacketSize
    /\ MaxEvents \in Nat
    /\ MaxNotes \in Nat

VARIABLES
    connected,  \* m_conn_handle and m_ble_uart.conn_handle are valid
    tx,         \* the statics of ble_uart.c, see TxType
    rtc,        \* RTC.c: COMPARE1 armed, and timeout_flag
    pc,         \* where the main loop is
    msg,        \* the message it sends, and whether its caller waits for it
    loaded,     \* the size it loaded for line 448
    waiting,    \* length of the slice a handler waits on, 0 if none waits
    sd,         \* SoftDevice and central, see RadioType
    received,   \* history: packets of msg the central has, while clean
    clean       \* history: nothing has disturbed the channel, see Indicate

vars == <<connected, tx, rtc, pc, msg, loaded, waiting, sd, received, clean>>

Id == {0, 1}            \* main's messages, numbered modulo 2
Note == 2               \* the fix indicator
Data == Id \cup {Note}
Size == 0 .. SizeRange - 1
SliceLengths == 0 .. PacketSize
Packet == [cmd : Data, data : Data, from : Size, len : SliceLengths]
NoPacket == [cmd |-> Note, data |-> Note, from |-> 0, len |-> PacketSize + 1]
Event == {"connected", "disconnected", "hvc", "tx complete"}

TxType ==
    [packet  : BOOLEAN,     \* ble_tx_packet_in_progress
     message : BOOLEAN,     \* ble_tx_in_progress
     note    : BOOLEAN,     \* ble_notification_packet_in_progress
     size    : Size,        \* ble_uart_tx_data_size
     ptr     : Data,        \* ble_data_ptr: the message it points at
     cmd     : Data,        \* ble_uart_tx_buffer[0]
     data    : Data,        \* ble_uart_tx_buffer[1..]: a slice of this message
     from    : Size]        \*   from this offset on

RadioType ==
    [link    : BOOLEAN,             \* the radio connection
     enabled : BOOLEAN,             \* indications, by the central
     air     : Packet \cup {NoPacket},   \* the unconfirmed indication
     notes   : 0 .. MaxNotes,       \* notifications not yet transmitted
     events  : Seq(Event)]          \* raised and not yet delivered

PcType ==
    {"idle", "size", "pointer", "copy", "wait packet", "flag", "hvx", "load",
     "store", "arm", "wait message", "cancel", "result"}

Init ==
    /\ connected = FALSE
    /\ tx = [packet |-> FALSE, message |-> FALSE, note |-> FALSE, size |-> 0,
             ptr |-> 0, cmd |-> 0, data |-> 0, from |-> 0]
    /\ rtc = [armed |-> FALSE, flag |-> FALSE]
    /\ pc = "idle"
    /\ msg = [id |-> 0, len |-> 0, waits |-> FALSE]
    /\ loaded = 0
    /\ waiting = 0
    /\ sd = [link |-> FALSE, enabled |-> FALSE, air |-> NoPacket, notes |-> 0,
             events |-> <<>>]
    /\ received = <<>>
    /\ clean = TRUE

-----------------------------------------------------------------------------
(* Shared pieces                                                           *)

Minus_Unbounded(size, n) == size - n

Minus(size, n) == (size - n) % SizeRange

\* A packet takes all that is left or fills up, lines 482-485 and 502-505.
SliceLength(size) == IF size > PacketSize THEN PacketSize ELSE size

Armed_FlagOnly == [rtc EXCEPT !.flag = FALSE]

\* RTC_Timeout leaves a timeout that is already running alone.
Armed == IF rtc.armed THEN rtc ELSE [armed |-> TRUE, flag |-> FALSE]

\* sd_ble_gatts_hvx with an indication, s being the stack's state; its error code
\* is ignored.  The history variable clean stays TRUE until a packet is refused,
\* a message begins while the previous packet is unconfirmed, a notification is
\* sent or the link drops.
Indicate(s, buffer, len) ==
    IF s.link /\ s.enabled /\ s.air = NoPacket
      THEN /\ sd' = [s EXCEPT !.air = [cmd  |-> buffer.cmd, data |-> buffer.data,
                                       from |-> buffer.from, len |-> len]]
           /\ UNCHANGED clean
      ELSE /\ sd' = s
           /\ clean' = FALSE

\* sd_ble_gatts_hvx with a notification: refused when no buffer is free.
Notified(s) ==
    IF s.link /\ s.notes < MaxNotes THEN [s EXCEPT !.notes = @ + 1] ELSE s

-----------------------------------------------------------------------------
(* The main loop: Ble_Uart_Data_Send, then, if the caller waits,           *)
(* Ble_Uart_Wait_For_Transmission_End.  The callers at ble_uart.c:1021,    *)
(* 1036, 1044 and main.c:103 do not wait.                                  *)

MainStep(from, to) ==
    /\ waiting = 0
    /\ pc = from
    /\ pc' = to

AfterSend == IF msg.waits THEN "arm" ELSE "idle"

\* Lines 469-472.
DataSend(len, waits) ==
    /\ MainStep("idle", IF connected THEN "size"
                        ELSE IF waits THEN "arm" ELSE "idle")
    /\ msg' = [id |-> 1 - msg.id, len |-> len, waits |-> waits]
    /\ received' = <<>>
    /\ tx' = [tx EXCEPT !.message = connected \/ @]
    /\ clean' = (clean /\ connected /\ ~tx.packet)
    /\ UNCHANGED <<connected, rtc, loaded, waiting, sd>>

\* Line 474.
SetSize ==
    /\ MainStep("size", "pointer")
    /\ tx' = [tx EXCEPT !.size = msg.len]
    /\ UNCHANGED <<connected, rtc, msg, loaded, waiting, sd, received, clean>>

\* Lines 476-478.
SetPointer ==
    /\ MainStep("pointer", "copy")
    /\ tx' = [tx EXCEPT !.ptr = msg.id, !.cmd = msg.id]
    /\ UNCHANGED <<connected, rtc, msg, loaded, waiting, sd, received, clean>>

\* Ble_Uart_Send_Single_Packet, lines 415-440 and 453.
CopySlice ==
    /\ MainStep("copy", IF connected THEN "wait packet" ELSE AfterSend)
    /\ tx' = IF connected THEN [tx EXCEPT !.data = msg.id, !.from = 0] ELSE tx
    /\ clean' = (clean /\ connected)
    /\ UNCHANGED <<connected, rtc, msg, loaded, waiting, sd, received>>

PacketFree_NotWaiting ==
    /\ MainStep("wait packet", "flag")
    /\ UNCHANGED <<connected, tx, rtc, msg, loaded, waiting, sd, received, clean>>

\* Line 442: Ble_Uart_Wait_Till_Packet_Transmission_In_Progress, which has no
\* timeout.
PacketFree ==
    /\ MainStep("wait packet", "flag")
    /\ ~tx.packet
    /\ UNCHANGED <<connected, tx, rtc, msg, loaded, waiting, sd, received, clean>>

\* Line 444.
RaiseFlag ==
    /\ MainStep("flag", "hvx")
    /\ tx' = [tx EXCEPT !.packet = TRUE]
    /\ UNCHANGED <<connected, rtc, msg, loaded, waiting, sd, received, clean>>

\* Line 446.
Hvx ==
    /\ MainStep("hvx", "load")
    /\ Indicate(sd, tx, msg.len)
    /\ UNCHANGED <<connected, tx, rtc, msg, loaded, waiting, received>>

\* Line 448: a load and a store of a volatile.
LoadSize ==
    /\ MainStep("load", "store")
    /\ loaded' = tx.size
    /\ UNCHANGED <<connected, tx, rtc, msg, waiting, sd, received, clean>>

StoreSize_Skipped ==
    /\ MainStep("store", AfterSend)
    /\ UNCHANGED <<connected, tx, rtc, msg, loaded, waiting, sd, received, clean>>

StoreSize ==
    /\ MainStep("store", AfterSend)
    /\ tx' = [tx EXCEPT !.size = Minus(loaded, msg.len)]
    /\ UNCHANGED <<connected, rtc, msg, loaded, waiting, sd, received, clean>>

\* Line 279.
ArmTimeout ==
    /\ MainStep("arm", "wait message")
    /\ rtc' = Armed
    /\ UNCHANGED <<connected, tx, msg, loaded, waiting, sd, received, clean>>

\* Lines 280-283.
MessageGone ==
    /\ MainStep("wait message", "cancel")
    /\ ~tx.message \/ rtc.flag
    /\ UNCHANGED <<connected, tx, rtc, msg, loaded, waiting, sd, received, clean>>

\* Line 284.
CancelTimeout ==
    /\ MainStep("cancel", "result")
    /\ rtc' = [rtc EXCEPT !.armed = FALSE]
    /\ UNCHANGED <<connected, tx, msg, loaded, waiting, sd, received, clean>>

\* Lines 285-293: the flag decides between NRF_ERROR_INTERNAL and NRF_SUCCESS.
WaitReturns ==
    /\ MainStep("result", "idle")
    /\ rtc' = [rtc EXCEPT !.flag = FALSE]
    /\ UNCHANGED <<connected, tx, msg, loaded, waiting, sd, received, clean>>

MainRest ==
    \/ SetSize \/ SetPointer \/ CopySlice \/ PacketFree \/ RaiseFlag
    \/ Hvx \/ LoadSize \/ StoreSize
    \/ ArmTimeout \/ MessageGone \/ CancelTimeout \/ WaitReturns

Main == MainRest \/ \E len \in Lengths, waits \in BOOLEAN : DataSend(len, waits)

-----------------------------------------------------------------------------
(* Ble_Uart_Notification_Single_Packet_Send, in a handler.                 *)

\* Lines 520-553, up to the wait, from the state s of the stack and t of
\* ble_uart.c that the caller left.
NotifySlice(s, t, from, len) ==
    IF connected
      THEN /\ tx' = [t EXCEPT !.data = t.ptr, !.from = from, !.note = TRUE]
           /\ sd' = Notified(s)
           /\ rtc' = Armed
           /\ waiting' = len
      ELSE /\ tx' = t
           /\ sd' = s
           /\ UNCHANGED <<rtc, waiting>>

\* Lines 259-271 and 553-561: the wait ends, a timeout means send again.
NotifyDone ==
    /\ waiting # 0
    /\ ~tx.note \/ rtc.flag
    /\ rtc' = [armed |-> FALSE, flag |-> FALSE]
    /\ sd' = IF rtc.flag THEN Notified(sd) ELSE sd
    /\ tx' = [tx EXCEPT !.size = Minus(@, waiting)]
    /\ waiting' = 0
    /\ UNCHANGED <<connected, pc, msg, loaded, received, clean>>

\* The UART handler parses a sentence with a changed fix: Ble_Uart_Notify_
\* Central, lines 598-619, when the central has enabled notifications.
NotifyCentral ==
    /\ waiting = 0
    /\ connected
    /\ NotifySlice(sd,
                   [tx EXCEPT !.size = NoteLength, !.ptr = Note, !.cmd = Note],
                   0, NoteLength)
    /\ clean' = FALSE
    /\ UNCHANGED <<connected, pc, msg, loaded, received>>

-----------------------------------------------------------------------------
(* Stack events: ble_evt_dispatch, on_ble_evt, ble_uart_on_ble_evt         *)

Deliver(event) ==
    /\ waiting = 0
    /\ sd.events # <<>>
    /\ Head(sd.events) = event

Delivered == [sd EXCEPT !.events = Tail(@)]

OnConnect ==
    /\ Deliver("connected")
    /\ connected' = TRUE
    /\ sd' = Delivered
    /\ UNCHANGED <<tx, rtc, pc, msg, loaded, waiting, received, clean>>

OnDisconnect ==
    /\ Deliver("disconnected")
    /\ connected' = FALSE
    /\ sd' = Delivered
    /\ UNCHANGED <<tx, rtc, pc, msg, loaded, waiting, received, clean>>

OnHvc_MessageFlagKept ==
    /\ Deliver("hvc")
    /\ tx' = [tx EXCEPT !.packet = FALSE]
    /\ sd' = Delivered
    /\ UNCHANGED <<connected, rtc, pc, msg, loaded, waiting, received, clean>>

\* The central confirmed a packet, lines 634-651: Ble_Uart_Send_Next_Packet if
\* anything is left.  The packet flag is down, so line 442 does not wait.
OnHvc ==
    /\ Deliver("hvc")
    /\ LET len == SliceLength(tx.size)
           next == [tx EXCEPT !.packet = TRUE, !.data = tx.ptr, !.from = tx.size,
                              !.size = Minus(@, len)]
       IN \/ /\ tx.size = 0
             /\ tx' = [tx EXCEPT !.packet = FALSE, !.message = FALSE]
             /\ sd' = Delivered
             /\ UNCHANGED clean
          \/ /\ tx.size > 0
             /\ connected
             /\ tx' = next
             /\ Indicate(Delivered, next, len)
          \/ /\ tx.size > 0
             /\ ~connected
             /\ tx' = [tx EXCEPT !.packet = FALSE]
             /\ sd' = Delivered
             /\ UNCHANGED clean
    /\ UNCHANGED <<connected, rtc, pc, msg, loaded, waiting, received>>

\* A notification went out, lines 654-671: Ble_Uart_Notify_Send_Next_Packet if
\* ble_uart_tx_data_size is not 0, whoever set it.
OnTxComplete ==
    /\ Deliver("tx complete")
    /\ LET done == [tx EXCEPT !.note = FALSE]
       IN \/ /\ tx.size = 0
             /\ tx' = done
             /\ sd' = Delivered
             /\ UNCHANGED <<rtc, waiting>>
          \/ /\ tx.size > 0
             /\ NotifySlice(Delivered, done, tx.size, SliceLength(tx.size))
    /\ UNCHANGED <<connected, pc, msg, loaded, received, clean>>

Handlers ==
    OnConnect \/ OnDisconnect \/ OnHvc \/ OnTxComplete \/ NotifyDone

-----------------------------------------------------------------------------
(* RTC1_IRQHandler, above every other priority                             *)

TimeoutFires ==
    /\ rtc.armed
    /\ ~rtc.flag
    /\ rtc' = [rtc EXCEPT !.flag = TRUE]
    /\ UNCHANGED <<connected, tx, pc, msg, loaded, waiting, sd, received, clean>>

-----------------------------------------------------------------------------
(* SoftDevice and central                                                  *)

Raise(s, event) == [s EXCEPT !.events = Append(@, event)]

Radio ==
    /\ Len(sd.events) < MaxEvents
    /\ UNCHANGED <<connected, tx, rtc, pc, msg, loaded, waiting>>

LinkUp ==
    /\ ~sd.link
    /\ sd' = Raise([sd EXCEPT !.link = TRUE], "connected")
    /\ UNCHANGED <<received, clean>>
    /\ Radio

LinkDown ==
    /\ sd.link
    /\ sd' = Raise([sd EXCEPT !.link = FALSE, !.enabled = FALSE,
                              !.air = NoPacket, !.notes = 0], "disconnected")
    /\ clean' = FALSE
    /\ UNCHANGED received
    /\ Radio

\* The central writes the CCCD of the TX characteristic.
CentralEnables ==
    /\ sd.link
    /\ sd' = [sd EXCEPT !.enabled = ~@]
    /\ UNCHANGED <<received, clean>>
    /\ Radio

\* A confirmation takes a connection interval, 7.5 ms at least: the main loop is
\* past line 448 by then, unless a handler has kept it from running.
CentralConfirms ==
    /\ sd.air # NoPacket
    /\ pc \notin {"load", "store"} \/ waiting # 0
    /\ sd' = Raise([sd EXCEPT !.air = NoPacket], "hvc")
    /\ received' = IF clean THEN Append(received, sd.air) ELSE received
    /\ UNCHANGED clean
    /\ Radio

NotificationSent ==
    /\ sd.notes > 0
    /\ sd' = Raise([sd EXCEPT !.notes = @ - 1], "tx complete")
    /\ UNCHANGED <<received, clean>>
    /\ Radio

Central ==
    LinkUp \/ LinkDown \/ CentralEnables \/ CentralConfirms \/ NotificationSent

-----------------------------------------------------------------------------
Next == Main \/ NotifyCentral \/ Handlers \/ TimeoutFires \/ Central

Spec == Init /\ [][Next]_vars

\* The processor runs whatever is ready, COMPARE1 fires within one turn of the
\* 24 bit counter, and the stack delivers.  A central confirms what it
\* received or loses the link.
FairSpec ==
    /\ Spec
    /\ WF_vars(MainRest)
    /\ WF_vars(Handlers)
    /\ WF_vars(TimeoutFires)
    /\ WF_vars(CentralConfirms \/ LinkDown)

-----------------------------------------------------------------------------
TypeOK ==
    /\ connected \in BOOLEAN
    /\ tx \in TxType
    /\ rtc \in [armed : BOOLEAN, flag : BOOLEAN]
    /\ pc \in PcType
    /\ msg \in [id : Id, len : Lengths \cup {0}, waits : BOOLEAN]
    /\ loaded \in Size
    /\ waiting \in 0 .. PacketSize
    /\ sd \in RadioType
    /\ received \in Seq(Packet)
    /\ clean \in BOOLEAN

\* What the packet flag is for ("Mutex on single packet HVX transmission",
\* ble_uart.c:31): while an indication is unconfirmed, or its confirmation not
\* yet handled, the flag is up and no other indication is handed to the stack,
\* by the main loop or by the handler that sends the next packet.
Confirmations == {i \in DOMAIN sd.events : sd.events[i] = "hvc"}

PacketMutex ==
    /\ sd.air # NoPacket => Confirmations = {}
    /\ \A i, j \in Confirmations : i = j
    /\ sd.air # NoPacket \/ Confirmations # {} =>
         tx.packet /\ pc \notin {"flag", "hvx"}

\* A handler waits for a notification at a priority that keeps the event it
\* waits for from being handled.  Its only way out is the timeout, which is
\* always running or already up: no interleaving with the main loop's use of
\* the same timeout leaves it without.
HandlerWaitGuarded == waiting # 0 => rtc.armed \/ rtc.flag

\* The central has the message, whole, once, and nothing else.
Whole == [cmd |-> msg.id, data |-> msg.id, from |-> 0, len |-> msg.len]

\* On an undisturbed channel a wait that ends without a timeout means that the
\* central has received the message exactly once.
SuccessMeansReceived ==
    clean /\ pc = "result" /\ ~rtc.flag => received = <<Whole>>

\* On an undisturbed channel every message is received and its flag comes down.
CleanMessageArrives ==
    (clean /\ pc = "size") ~> (~clean \/ (received = <<Whole>> /\ ~tx.message))

\* "This function blocks program execution until the single BLE packet is
\* transmitted" (ble_uart.c:241): the main loop waits for the packet flag only
\* while there is a packet whose end will lower it.
WaitsForAPacket ==
    pc = "wait packet" /\ tx.packet => sd.air # NoPacket \/ Confirmations # {}
=============================================================================
