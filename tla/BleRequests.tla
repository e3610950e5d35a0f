---------------------------- MODULE BleRequests ----------------------------
(***************************************************************************)
(* How the central's requests reach the main loop.  The handler of a write *)
(* to the RX characteristic (ble_uart.c Ble_Uart_Rx_Handler) queues the    *)
(* request's code for the dispatcher the main loop calls                   *)
(* (Ble_Uart_Execute_Ble_Requests_If_Available).  The number of the track  *)
(* a BLE_GET_HISTORY_TRACK asks for does not fit the queue of codes: its   *)
(* two bytes go through a queue of their own, and each put on either queue *)
(* is dropped without a word when that queue is full.                      *)
(*                                                                         *)
(* The handler runs to completion before the main loop goes on; the        *)
(* dispatcher can be interrupted between any two gets.  The queues are     *)
(* those of BoundedQueue, which the ring buffer implements (AppFifo).      *)
(***************************************************************************)
EXTENDS Integers, SequencesExt

CONSTANTS
    TaskCapacity,   \* BLE_SCHEDULER_QUEUE_SIZE, 8
    ArgCapacity,    \* sizeof(ble_uart_arg_buffer), 16
    ByteRange       \* 256

ASSUME CapacityAssumption ==
    /\ TaskCapacity \in Nat \ {0}
    /\ ArgCapacity \in Nat \ {0}
    /\ ByteRange \in Nat \ {0, 1}

ArgByte == 0 .. ByteRange - 1
TrackNumber == 0 .. ByteRange * ByteRange - 1

\* A queued code; "asked" is a ghost, the track the central meant.
History(t) == [code |-> "history", asked |-> t]
Other == [code |-> "other", asked |-> 0]
Request == {History(t) : t \in TrackNumber} \cup {Other}

VARIABLES
    tasks,          \* ble_task_fifo
    args,           \* ble_uart_argument_fifo
    pc,             \* where the dispatcher is
    request,        \* request_code
    temp,           \* the byte Fifo_Get leaves its argument in
    track_number,
    torn            \* ghost: a request was queued in part

vars == <<tasks, args, pc, request, temp, track_number, torn>>

Tasks == INSTANCE BoundedQueue
    WITH Byte <- Request, Capacity <- TaskCapacity,
         queue <- tasks, returned <- request

Args == INSTANCE BoundedQueue
    WITH Byte <- ArgByte, Capacity <- ArgCapacity,
         queue <- args, returned <- temp

Init ==
    /\ tasks = <<>>
    /\ args = <<>>
    /\ pc = "idle"
    /\ request = Other
    /\ temp = 0
    /\ track_number = 0
    /\ torn = FALSE

-----------------------------------------------------------------------------
(* Ble_Uart_Rx_Handler                                                     *)

\* p_data[1] and p_data[2]
Bytes(t) == <<t % ByteRange, t \div ByteRange>>

ReceiveHistory_OneByte(t) ==
    /\ args' = Args!After(args, Bytes(t)[1])
    /\ tasks' = Tasks!After(tasks, History(t))
    /\ UNCHANGED <<pc, request, temp, track_number, torn>>

ReceiveHistory(t) ==
    /\ args' = Args!After(Args!After(args, Bytes(t)[1]), Bytes(t)[2])
    /\ tasks' = Tasks!After(tasks, History(t))
    /\ torn' = (\/ torn
                \/ Len(args') # Len(args) + (IF tasks' = tasks THEN 0 ELSE 2))
    /\ UNCHANGED <<pc, request, temp, track_number>>

\* A request whose answer takes no argument.
ReceiveOther ==
    /\ tasks' = Tasks!After(tasks, Other)
    /\ UNCHANGED <<args, pc, request, temp, track_number, torn>>

Receive == ReceiveOther \/ \E t \in TrackNumber : ReceiveHistory(t)

-----------------------------------------------------------------------------
(* Ble_Uart_Execute_Ble_Requests_If_Available                              *)

GetTask ==
    /\ pc = "idle"
    /\ Tasks!Get
    /\ pc' = IF request'.code = "history" THEN "low" ELSE "answer"
    /\ track_number' = 0
    /\ UNCHANGED <<args, temp, torn>>

\* uint8_t temp = 0; Fifo_Get(&ble_uart_argument_fifo, &temp)
GetArgument_Waits == Args!Get

GetArgument == Args!Get \/ (args = <<>> /\ temp' = 0 /\ UNCHANGED args)

Combined_Swapped(number, byte) == number * ByteRange + byte

\* track_number |= temp << 8, on a number that has its low byte only.
Combined(number, byte) == number + ByteRange * byte

GetLow ==
    /\ pc = "low"
    /\ GetArgument
    /\ track_number' = temp'
    /\ pc' = "high"
    /\ UNCHANGED <<tasks, request, torn>>

GetHigh ==
    /\ pc = "high"
    /\ GetArgument
    /\ track_number' = Combined(track_number, temp')
    /\ pc' = "answer"
    /\ UNCHANGED <<tasks, request, torn>>

\* The answer is indicated to the central; nothing of it is state here.
Answer ==
    /\ pc = "answer"
    /\ pc' = "idle"
    /\ UNCHANGED <<tasks, args, request, temp, track_number, torn>>

Dispatcher == GetTask \/ GetLow \/ GetHigh \/ Answer

-----------------------------------------------------------------------------
Next == Receive \/ Dispatcher

Spec == Init /\ [][Next]_vars

\* The main loop calls the dispatcher on every pass, and it loops until the
\* queue is empty; an answer takes a bounded time, as long as its sender is not
\* left waiting for a free packet (BleUart, WaitsForAPacket).  The central need
\* not ask anything.
FairSpec == Spec /\ WF_vars(Dispatcher)

-----------------------------------------------------------------------------
TypeOK ==
    /\ tasks \in Seq(Request)
    /\ Len(tasks) <= TaskCapacity
    /\ args \in Seq(ArgByte)
    /\ Len(args) <= ArgCapacity
    /\ pc \in {"idle", "low", "high", "answer"}
    /\ request \in Request
    /\ temp \in ArgByte
    /\ track_number \in TrackNumber
    /\ torn \in BOOLEAN

\* What the dispatcher has still to take from the queue of arguments for r.
Arguments(r) == IF r.code = "history" THEN Bytes(r.asked) ELSE <<>>

Outstanding ==
    CASE pc = "low" -> Bytes(request.asked)
      [] pc = "high" -> Tail(Bytes(request.asked))
      [] OTHER -> <<>>

\* Unless a request was queued in part, the two queues stay in step, whatever
\* is received between the gets of the dispatcher and whatever is dropped as a
\* whole: the arguments are those of the queued requests in their order, after
\* the ones the dispatcher is about to take.
ArgumentsMatchTasks ==
    torn \/ args = Outstanding \o
                       FlattenSeq([i \in DOMAIN tasks |-> Arguments(tasks[i])])

\* Unless a request was queued in part, the track that is sent is the one that
\* was asked for.
AnsweredAsAsked ==
    pc = "answer" /\ request.code = "history" /\ ~torn =>
        track_number = request.asked

\* When the central has stopped asking, everything that was queued is answered
\* in the end, and no argument is left over to be taken for a later request's.
Drained ==
    <>[][~Receive]_vars =>
        <>[](tasks = <<>> /\ pc = "idle" /\ (torn \/ args = <<>>))

=============================================================================
