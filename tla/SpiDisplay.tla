----------------------------- MODULE SpiDisplay -----------------------------
(***************************************************************************)
(* The display (display.c) and the interrupt-driven transfers of SPI1      *)
(* (spi.c) that carry its lines.                                           *)
(*                                                                         *)
(* SPI_Wait_For_Transmission_End tests a pointer and never waits.  What    *)
(* keeps two transfers apart is the interrupt itself: it does not clear    *)
(* the READY event, so from the first byte ever sent on it strikes again   *)
(* and again until the transfer it serves is over, before the code that    *)
(* started the transfer runs on.                                           *)
(*                                                                         *)
(* Bytes are followed up to the data register; a line of the display, 14   *)
(* bytes of display_array, is one item here.                               *)
(***************************************************************************)
EXTENDS Naturals, Sequences

CONSTANTS
    Lines,          \* lines of the display (96)
    Icon            \* the lines of the connection icon (1..8)

ASSUME LinesAssumption == Lines \in Nat /\ Lines > 1
ASSUME IconAssumption  == Icon \subseteq 1..Lines

Buffers == {"clear", "command", "lines"}

\* Items of a transfer; the caller of the last counts end_line - start_line.
Items == [clear |-> 2, command |-> 1, lines |-> Lines - 1]

VARIABLES
    pc,                             \* where the main loop is
    job,                            \* the transfer it sets up or has set up
    display_array,                  \* what each line shows
    spi_1_tx_buff, spi_1_tx_buff_size, spi_1_tx_index,
    spi_1_cs_pin,                   \* DISP_CS or SPI_CS_MANUALLY_CHANGED
    spi_1_dynamically_allocated_buf,
    spi_1_transfer_ongoing_flag,
    ready,                          \* EVENTS_READY
    inten,                          \* READY in INTENSET
    pended,                         \* the interrupt as software asked for it
    shifting,                       \* a byte is on its way out (external)
    cs,                             \* the select line of the display
    heap,                           \* the buffer of Display_Clear
    frame,                          \* what was put out since cs was raised
    moment                          \* display_array at the first of its lines

transfer == <<spi_1_tx_buff, spi_1_tx_buff_size, spi_1_tx_index, spi_1_cs_pin,
              spi_1_dynamically_allocated_buf, spi_1_transfer_ongoing_flag>>
vars == <<pc, job, display_array, transfer, ready, inten, pended, shifting, cs,
          heap, frame, moment>>

Arrays == [1..Lines -> 0..1]

TypeOK ==
    /\ pc \in {"clear", "setup", "enable", "pend", "settle", "idle", "select"}
    /\ job \in Buffers
    /\ display_array \in Arrays /\ moment \in Arrays
    /\ spi_1_tx_buff \in Buffers \cup {"none"}
    /\ spi_1_tx_buff_size \in 0..(Lines + 1)
    /\ spi_1_tx_index \in 0..spi_1_tx_buff_size
    /\ spi_1_cs_pin \in {"DISP_CS", "manual"}
    /\ spi_1_dynamically_allocated_buf \in BOOLEAN
    /\ spi_1_transfer_ongoing_flag \in BOOLEAN
    /\ ready \in BOOLEAN /\ inten \in BOOLEAN /\ pended \in BOOLEAN
    /\ shifting \in BOOLEAN /\ cs \in BOOLEAN
    /\ heap \in {"none", "live", "freed"}
    /\ Len(frame) <= Lines + 1

\* After Display_SPI_Config and with display_array filled.
Init ==
    /\ pc = "clear" /\ job = "clear"
    /\ display_array = [l \in 1..Lines |-> 0] /\ moment = display_array
    /\ spi_1_tx_buff = "none" /\ spi_1_tx_buff_size = 0 /\ spi_1_tx_index = 0
    /\ spi_1_cs_pin = "DISP_CS"
    /\ spi_1_dynamically_allocated_buf = FALSE
    /\ spi_1_transfer_ongoing_flag = FALSE
    /\ ready = FALSE /\ inten = TRUE /\ pended = FALSE /\ shifting = FALSE
    /\ cs = FALSE /\ heap = "none" /\ frame = <<>>
-----------------------------------------------------------------------------
(* The interrupt and the shift register.                                   *)

\* The interrupt is wanted; the main loop and the BLE handler, which has its
\* priority and a higher number, stay behind it.
Irq == pended \/ (inten /\ ready)

Item(buffer, index) ==
    IF buffer = "lines" THEN <<buffer, display_array[index + 1]>>
    ELSE <<buffer, index>>

PutItem ==
    /\ frame' = Append(frame, Item(spi_1_tx_buff, spi_1_tx_index))
    /\ moment' = IF spi_1_tx_buff = "lines" /\ spi_1_tx_index = 0
                 THEN display_array ELSE moment
    /\ spi_1_tx_index' = spi_1_tx_index + 1
    /\ shifting' = TRUE
    /\ UNCHANGED <<spi_1_tx_buff, spi_1_tx_buff_size, spi_1_cs_pin,
                   spi_1_dynamically_allocated_buf,
                   spi_1_transfer_ongoing_flag, inten, cs, heap>>

EndTransfer_KeepsFreeing ==
    /\ inten' = FALSE
    /\ heap' = IF spi_1_dynamically_allocated_buf THEN "freed" ELSE heap
    /\ spi_1_transfer_ongoing_flag' = FALSE
    /\ cs' = (cs /\ spi_1_cs_pin = "manual")
    /\ UNCHANGED <<spi_1_tx_buff, spi_1_tx_buff_size, spi_1_tx_index,
                   spi_1_dynamically_allocated_buf,
                   spi_1_cs_pin, shifting, frame, moment>>

EndTransfer ==
    /\ inten' = FALSE
    /\ heap' = IF spi_1_dynamically_allocated_buf THEN "freed" ELSE heap
    /\ spi_1_dynamically_allocated_buf' = FALSE
    /\ spi_1_transfer_ongoing_flag' = FALSE
    /\ cs' = (cs /\ spi_1_cs_pin = "manual")
    /\ UNCHANGED <<spi_1_tx_buff, spi_1_tx_buff_size, spi_1_tx_index,
                   spi_1_cs_pin, shifting, frame, moment>>

\* The line that clears the event, commented out in the code, is back.
SPI1_TWI1_IRQHandler_ClearsReady ==
    /\ Irq
    /\ pended' = FALSE
    /\ ready' = FALSE
    /\ IF spi_1_tx_index >= spi_1_tx_buff_size THEN EndTransfer ELSE PutItem
    /\ UNCHANGED <<pc, job, display_array>>

SPI1_TWI1_IRQHandler_OneMore ==
    /\ Irq
    /\ pended' = FALSE
    /\ IF spi_1_tx_index > spi_1_tx_buff_size THEN EndTransfer ELSE PutItem
    /\ UNCHANGED <<pc, job, display_array, ready>>

SPI1_TWI1_IRQHandler ==
    /\ Irq
    /\ pended' = FALSE
    /\ IF spi_1_tx_index >= spi_1_tx_buff_size THEN EndTransfer ELSE PutItem
    /\ UNCHANGED <<pc, job, display_array, ready>>

ByteOut ==
    /\ shifting
    /\ shifting' = FALSE /\ ready' = TRUE
    /\ UNCHANGED <<pc, job, display_array, transfer, inten, pended, cs, heap,
                   frame, moment>>
-----------------------------------------------------------------------------
(* SPI_Transfer_Non_Blocking, for the main loop.                           *)

Main(here) == pc = here /\ ~Irq

SetUpTransfer ==
    /\ Main("setup")
    /\ pc' = "enable"
    /\ spi_1_tx_buff' = job
    /\ spi_1_tx_buff_size' = Items[job]
    /\ spi_1_tx_index' = 0
    /\ spi_1_cs_pin' = IF job = "command" THEN "manual" ELSE "DISP_CS"
    /\ spi_1_dynamically_allocated_buf' = (job = "clear")
    /\ spi_1_transfer_ongoing_flag' = TRUE
    /\ cs' = (cs \/ job # "command")
    /\ frame' = IF cs' /\ ~cs THEN <<>> ELSE frame
    /\ UNCHANGED <<job, display_array, ready, inten, pended, shifting, heap,
                   moment>>

EnableInterrupt ==
    /\ Main("enable")
    /\ pc' = "pend"
    /\ inten' = TRUE
    /\ UNCHANGED <<job, display_array, transfer, ready, pended, shifting, cs,
                   heap, frame, moment>>

\* Where each caller goes on: the wait that follows does not wait.
AfterTransfer == [clear |-> "settle", command |-> "setup", lines |-> "idle"]

PendInterrupt_Forgotten ==
    /\ Main("pend")
    /\ pc' = AfterTransfer[job]
    /\ job' = IF job = "command" THEN "lines" ELSE job
    /\ UNCHANGED <<display_array, transfer, ready, inten, pended, shifting, cs,
                   heap, frame, moment>>

PendInterrupt ==
    /\ Main("pend")
    /\ pended' = TRUE
    /\ pc' = AfterTransfer[job]
    /\ job' = IF job = "command" THEN "lines" ELSE job
    /\ UNCHANGED <<display_array, transfer, ready, inten, shifting, cs, heap,
                   frame, moment>>
-----------------------------------------------------------------------------
(* Display_Config and the main loop's passes.                              *)

Display_Clear ==
    /\ Main("clear")
    /\ pc' = "setup" /\ job' = "clear"
    /\ heap' = "live"
    /\ UNCHANGED <<display_array, transfer, ready, inten, pended, shifting, cs,
                   frame, moment>>

\* RTC_Wait lasts five milliseconds, the two bytes sixteen microseconds.
Settle ==
    /\ Main("settle") /\ ~spi_1_transfer_ongoing_flag
    /\ pc' = "select"
    /\ UNCHANGED <<job, display_array, transfer, ready, inten, pended, shifting,
                   cs, heap, frame, moment>>

\* Texts are written into display_array, outside the icon.
Display_Write ==
    /\ Main("idle")
    /\ pc' = "select"
    /\ \E v \in 0..1 : display_array' =
           [l \in 1..Lines |-> IF l \in Icon THEN display_array[l] ELSE v]
    /\ UNCHANGED <<job, transfer, ready, inten, pended, shifting, cs, heap,
                   frame, moment>>

\* Display_Flush_Buffer, up to the transfer of the command on its stack.
Display_Flush_Buffer ==
    /\ Main("select")
    /\ pc' = "setup" /\ job' = "command"
    /\ cs' = TRUE
    /\ frame' = IF cs THEN frame ELSE <<>>
    /\ UNCHANGED <<display_array, transfer, ready, inten, pended, shifting,
                   heap, moment>>

\* The BLE event handler, on a connection and on its end.
Display_Update_BLE_Conn ==
    /\ ~Irq
    /\ \E v \in 0..1 : display_array' =
           [l \in 1..Lines |-> IF l \in Icon THEN v ELSE display_array[l]]
    /\ UNCHANGED <<pc, job, transfer, ready, inten, pended, shifting, cs, heap,
                   frame, moment>>
-----------------------------------------------------------------------------
MainStep ==
    \/ Display_Clear \/ Settle \/ Display_Write \/ Display_Flush_Buffer
    \/ SetUpTransfer \/ EnableInterrupt \/ PendInterrupt

Next == SPI1_TWI1_IRQHandler \/ ByteOut \/ MainStep \/ Display_Update_BLE_Conn

\* The interrupt is served, a byte goes out, and the main loop, which nothing but
\* that interrupt holds up here, runs on.
Fairness ==
    /\ WF_vars(SPI1_TWI1_IRQHandler) /\ WF_vars(ByteOut) /\ WF_vars(MainStep)

Spec == Init /\ [][Next]_vars /\ Fairness
-----------------------------------------------------------------------------
\* Each buffer is there as long as the interrupt can read it: the allocated one
\* until it is freed, the command until its function has returned
\* (display.c:136), and the one that is freed has not been freed yet (spi.c:187).
Alive(buffer) ==
    /\ buffer = "clear" => heap = "live"
    /\ buffer = "command" => pc \in {"setup", "enable", "pend"}

BuffersAlive ==
    /\ spi_1_tx_index < spi_1_tx_buff_size => Alive(spi_1_tx_buff)
    /\ spi_1_dynamically_allocated_buf => heap = "live"

\* When the main loop has flushed the array, the display has been sent, in one
\* selection, the command and every line handed over, all of one moment although
\* the BLE handler writes the array too, and has been released (spi.c:359).
FrameWhole ==
    (pc = "idle" /\ ~Irq) =>
        /\ ~cs
        /\ frame = <<<<"command", 0>>>>
                   \o [l \in 1..(Lines - 1) |-> <<"lines", moment[l]>>]

\* Every transfer ends, and so does every pass of the display.
FlushEnds ==
    /\ spi_1_transfer_ongoing_flag ~> ~spi_1_transfer_ongoing_flag
    /\ pc # "idle" ~> pc = "idle"
=============================================================================
