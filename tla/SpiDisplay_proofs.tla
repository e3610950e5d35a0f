------------------------- MODULE SpiDisplay_proofs -------------------------
(***************************************************************************)
(* Theorems about SpiDisplay, for every number of lines and every place of *)
(* the icon: types, that no buffer goes away under the interrupt, and that *)
(* frames are whole.                                                       *)
(*                                                                         *)
(* All rest on one fact: the main loop passes a point only when the        *)
(* interrupt is not wanted, and once a byte has been sent the interrupt is *)
(* wanted as long as it is enabled.  So where the main loop is tells how   *)
(* far the transfer is: the invariant has one disjunct for each place.     *)
(***************************************************************************)
EXTENDS SpiDisplay, TLAPS

\* What the interrupt has once the main loop has set up the transfer of a job.
Given(buffer) ==
    /\ spi_1_tx_buff = buffer
    /\ spi_1_tx_buff_size = Items[buffer]
    /\ spi_1_cs_pin = IF buffer = "command" THEN "manual" ELSE "DISP_CS"

At(here, what) == pc = here /\ job = what

\* Nothing has been sent yet, and nothing is on its way.
Untouched == ~ready /\ ~pended /\ ~shifting /\ spi_1_tx_index = 0

Over == ready /\ ~inten /\ spi_1_tx_index = spi_1_tx_buff_size
        /\ ~spi_1_dynamically_allocated_buf

\* What is put out: the bytes that clear, the command, the lines.
Clear(i) == <<"clear", i>>
Command  == <<"command", 0>>
Line(v)  == <<"lines", v>>
Cells    == {Command} \cup {Clear(i) : i \in 0..1} \cup {Line(v) : v \in 0..1}

\* The lines put out so far, behind the command.
Lined(frm, arr, n) ==
    /\ frm \in Seq(Cells) /\ Len(frm) = n + 1
    /\ frm[1] = Command
    /\ \A l \in 1..n : frm[l + 1] = Line(arr[l])

-----------------------------------------------------------------------------
(* The stages of the first transfer, of the two bytes that clear.          *)

BeforeClear ==
    /\ At("clear", "clear") \/ (At("setup", "clear") /\ heap = "live")
    /\ Untouched /\ spi_1_tx_buff_size = 0
    /\ ~cs /\ frame = <<>>
    /\ ~spi_1_dynamically_allocated_buf

ClearGiven ==
    /\ Given("clear")
    /\ cs /\ heap = "live"
    /\ spi_1_dynamically_allocated_buf /\ spi_1_transfer_ongoing_flag
    /\ frame \in Seq(Cells) /\ Len(frame) = spi_1_tx_index

Clearing ==
    /\ At("enable", "clear") \/ (At("pend", "clear") /\ inten)
    /\ Untouched /\ ClearGiven

\* The interrupt has been asked for; it has been served; it strikes by itself.
ClearAsked ==
    /\ At("settle", "clear") /\ ClearGiven /\ inten
    /\ pended /\ ~ready /\ ~shifting /\ spi_1_tx_index = 0

ClearSent ==
    /\ At("settle", "clear") /\ ClearGiven /\ inten
    /\ ~pended /\ spi_1_tx_index \in 1..2
    /\ ready \/ (shifting /\ spi_1_tx_index = 1)

Cleared ==
    /\ At("settle", "clear") \/ At("select", "clear")
    /\ Over /\ ~pended /\ ~cs
    /\ frame \in Seq(Cells) /\ Len(frame) = 2

(* The stages of a pass of the display.                                    *)

Selecting == At("select", "lines") /\ Over /\ ~pended /\ ~cs
             /\ Lined(frame, moment, Lines - 1)

Selected == At("setup", "command") /\ Over /\ ~pended /\ cs /\ frame = <<>>

CommandGiven ==
    Given("command") /\ cs /\ ready /\ ~spi_1_dynamically_allocated_buf

CommandSetUp == At("enable", "command") /\ CommandGiven /\ ~pended /\ ~inten
                /\ spi_1_tx_index = 0 /\ frame = <<>>

CommandSent ==
    /\ \/ At("pend", "command") /\ ~pended
       \/ At("setup", "lines") /\ ~inten
    /\ CommandGiven
    /\ spi_1_tx_index = 0 => inten /\ frame = <<>>
    /\ spi_1_tx_index = 1 => Lined(frame, moment, 0)

LinesGiven == Given("lines") /\ ready /\ ~spi_1_dynamically_allocated_buf
              /\ Lined(frame, moment, spi_1_tx_index)

LinesSetUp == At("enable", "lines") /\ LinesGiven /\ cs /\ ~pended /\ ~inten
              /\ spi_1_tx_index = 0

LinesRunning ==
    /\ At("pend", "lines") /\ LinesGiven /\ cs /\ ~pended /\ inten
    /\ spi_1_tx_index > 0 => moment = display_array

LinesSent ==
    /\ (At("pend", "lines") /\ ~pended) \/ At("idle", "lines")
    /\ LinesGiven /\ Over /\ ~cs

Stage ==
    \/ BeforeClear \/ Clearing \/ ClearAsked \/ ClearSent \/ Cleared
    \/ Selecting \/ Selected \/ CommandSetUp \/ CommandSent
    \/ LinesSetUp \/ LinesRunning \/ LinesSent

Numbers ==
    /\ spi_1_tx_buff_size \in Nat /\ spi_1_tx_index \in Nat
    /\ spi_1_tx_index <= spi_1_tx_buff_size /\ spi_1_tx_buff_size <= Lines + 1

Booleans ==
    /\ spi_1_dynamically_allocated_buf \in BOOLEAN
    /\ spi_1_transfer_ongoing_flag \in BOOLEAN
    /\ ready \in BOOLEAN /\ inten \in BOOLEAN /\ pended \in BOOLEAN
    /\ shifting \in BOOLEAN /\ cs \in BOOLEAN

Names ==
    /\ display_array \in Arrays /\ moment \in Arrays
    /\ spi_1_tx_buff \in Buffers \cup {"none"}
    /\ spi_1_cs_pin \in {"DISP_CS", "manual"}
    /\ heap \in {"none", "live", "freed"}

Types == Numbers /\ Booleans /\ Names

IInv == Types /\ Stage

-----------------------------------------------------------------------------
(* Frames                                                                  *)

LEMMA LineIsCell ==
  ASSUME NEW m \in Arrays, NEW l \in 1..Lines PROVE Line(m[l]) \in Cells
<1>1. m[l] \in 0..1
  BY DEF Arrays
<1> QED
  BY <1>1 DEF Cells

LEMMA LinedStart ==
  ASSUME NEW m
  PROVE  Lined(Append(<<>>, Command), m, 0)
<1> DEFINE new == Append(<<>>, Command)
<1>1. Command \in Cells /\ <<>> \in Seq(Cells)
  BY DEF Cells
<1>2. new \in Seq(Cells) /\ Len(new) = 1 /\ new[1] = Command
  BY <1>1
<1> QED
  BY <1>2 DEF Lined

LEMMA LinedNext ==
  ASSUME NEW m \in Arrays, NEW n \in Nat, n < Lines, NEW frm, Lined(frm, m, n)
  PROVE  Lined(Append(frm, Line(m[n + 1])), m, n + 1)
<1> DEFINE e == Line(m[n + 1])
           new == Append(frm, e)
<1>1. n + 1 \in 1..Lines
  BY LinesAssumption
<1>2. e \in Cells
  BY <1>1, LineIsCell
<1>3. /\ frm \in Seq(Cells) /\ Len(frm) = n + 1 /\ frm[1] = Command
      /\ \A l \in 1..n : frm[l + 1] = Line(m[l])
  BY DEF Lined
<1> HIDE DEF e
<1>4. /\ new \in Seq(Cells) /\ Len(new) = n + 2
      /\ new[n + 2] = e
      /\ \A i \in 1..(n + 1) : new[i] = frm[i]
  BY <1>2, <1>3
<1>5. new[1] = Command
  BY <1>3, <1>4
<1>6. ASSUME NEW l \in 1..(n + 1) PROVE new[l + 1] = Line(m[l])
  <2>1. CASE l = n + 1
    <3>1. l + 1 = n + 2
      BY <2>1
    <3>2. e = Line(m[l])
      BY <2>1 DEF e
    <3>3. new[l + 1] = new[n + 2]
      BY <3>1
    <3> QED
      BY <3>2, <3>3, <1>4
  <2>2. CASE l \in 1..n
    BY <1>3, <1>4, <2>2
  <2>3. l = n + 1 \/ l \in 1..n
    OBVIOUS
  <2> QED
    BY <2>1, <2>2, <2>3
<1> HIDE DEF new
<1>7. Lined(new, m, n + 1)
  BY <1>4, <1>5, <1>6 DEF Lined
<1> QED
  BY <1>7 DEF new, e

\* A frame that holds the command and n lines is the sequence FrameWhole states.
LEMMA LinedIsFrame ==
  ASSUME NEW m \in Arrays, NEW n \in Nat, n < Lines, NEW frm, Lined(frm, m, n)
  PROVE  frm = <<Command>> \o [l \in 1..n |-> Line(m[l])]
<1> DEFINE tail == [l \in 1..n |-> Line(m[l])]
           all  == <<Command>> \o tail
<1>1. \A l \in 1..n : Line(m[l]) \in Cells
  BY LineIsCell, LinesAssumption
<1>2. tail \in Seq(Cells) /\ Len(tail) = n
  BY <1>1
<1>3. <<Command>> \in Seq(Cells)
  BY DEF Cells
<1>4. /\ frm \in Seq(Cells) /\ Len(frm) = n + 1 /\ frm[1] = Command
      /\ \A l \in 1..n : frm[l + 1] = tail[l]
  BY DEF Lined
<1> HIDE DEF tail
<1>5. /\ all \in Seq(Cells) /\ Len(all) = n + 1 /\ all[1] = Command
      /\ \A l \in 1..n : all[l + 1] = tail[l]
  BY <1>2, <1>3
<1> HIDE DEF all
<1>6. \A i \in 1..(n + 1) : frm[i] = all[i]
  <2> TAKE i \in 1..(n + 1)
  <2>1. CASE i = 1
    BY <2>1, <1>4, <1>5
  <2>2. CASE i # 1
    <3>1. i - 1 \in 1..n /\ (i - 1) + 1 = i
      BY <2>2
    <3> QED
      BY <3>1, <1>4, <1>5
  <2> QED
    BY <2>1, <2>2
<1>7. frm = all
  BY <1>4, <1>5, <1>6
<1> QED
  BY <1>7 DEF all, tail

-----------------------------------------------------------------------------
(* What the interrupt puts out                                             *)

LEMMA CellPut ==
  /\ \A i : Item("clear", i) = Clear(i)
  /\ \A i : i = 0 => Item("command", i) = Command
  /\ \A i : Item("lines", i) = Line(display_array[i + 1])
BY DEF Item, Clear, Command, Line

-----------------------------------------------------------------------------
(* Types                                                                   *)

LEMMA TypesInit == Init => Types
<1> SUFFICES ASSUME Init PROVE Types
  OBVIOUS
<1>1. Numbers
  BY LinesAssumption DEF Init, Numbers
<1>2. Booleans
  BY DEF Init, Booleans
<1>3. Names
  BY DEF Init, Names, Arrays, Buffers
<1> QED
  BY <1>1, <1>2, <1>3 DEF Types

LEMMA ItemsOfJob ==
    /\ \A b \in Buffers :
           Items[b] \in Nat /\ Items[b] > 0 /\ Items[b] <= Lines + 1
    /\ Items["clear"] = 2 /\ Items["command"] = 1 /\ Items["lines"] = Lines - 1
BY LinesAssumption DEF Items, Buffers

LEMMA StageJob == Stage => job \in Buffers
BY DEF Stage, BeforeClear, Clearing, ClearAsked, ClearSent, Cleared, Selecting,
       Selected, CommandSetUp, CommandSent, LinesSetUp, LinesRunning, LinesSent,
       At, Buffers

LEMMA NumbersNext == Numbers /\ Stage /\ [Next]_vars => Numbers'
<1> SUFFICES ASSUME Numbers, Stage, [Next]_vars PROVE Numbers'
  OBVIOUS
<1> USE DEF Numbers, transfer
<1>1. CASE SPI1_TWI1_IRQHandler
  BY <1>1 DEF SPI1_TWI1_IRQHandler, EndTransfer, PutItem
<1>2. CASE SetUpTransfer
  BY <1>2, StageJob, ItemsOfJob DEF SetUpTransfer
<1>3. CASE ByteOut \/ EnableInterrupt \/ PendInterrupt \/ Settle
  BY <1>3 DEF ByteOut, EnableInterrupt, PendInterrupt, Settle
<1>4. CASE Display_Clear \/ Display_Flush_Buffer
  BY <1>4 DEF Display_Clear, Display_Flush_Buffer
<1>5. CASE Display_Write \/ Display_Update_BLE_Conn
  BY <1>5 DEF Display_Write, Display_Update_BLE_Conn
<1>6. CASE UNCHANGED vars
  BY <1>6 DEF vars
<1> QED
  BY <1>1, <1>2, <1>3, <1>4, <1>5, <1>6 DEF Next, MainStep

LEMMA BooleansNext == Booleans /\ [Next]_vars => Booleans'
<1> SUFFICES ASSUME Booleans, [Next]_vars PROVE Booleans'
  OBVIOUS
<1> USE DEF Booleans, transfer
<1>1. CASE SPI1_TWI1_IRQHandler
  BY <1>1 DEF SPI1_TWI1_IRQHandler, EndTransfer, PutItem
<1>2. CASE SetUpTransfer
  BY <1>2 DEF SetUpTransfer
<1>3. CASE ByteOut \/ EnableInterrupt \/ PendInterrupt \/ Settle
  BY <1>3 DEF ByteOut, EnableInterrupt, PendInterrupt, Settle
<1>4. CASE Display_Clear \/ Display_Flush_Buffer
  BY <1>4 DEF Display_Clear, Display_Flush_Buffer
<1>5. CASE Display_Write \/ Display_Update_BLE_Conn
  BY <1>5 DEF Display_Write, Display_Update_BLE_Conn
<1>6. CASE UNCHANGED vars
  BY <1>6 DEF vars
<1> QED
  BY <1>1, <1>2, <1>3, <1>4, <1>5, <1>6 DEF Next, MainStep

LEMMA NamesNext == Names /\ Stage /\ [Next]_vars => Names'
<1> SUFFICES ASSUME Names, Stage, [Next]_vars PROVE Names'
  OBVIOUS
<1> USE DEF Names, transfer
<1>1. CASE SPI1_TWI1_IRQHandler
  BY <1>1 DEF SPI1_TWI1_IRQHandler, EndTransfer, PutItem
<1>2. CASE SetUpTransfer
  BY <1>2, StageJob DEF SetUpTransfer
<1>3. CASE ByteOut \/ EnableInterrupt \/ PendInterrupt \/ Settle
  BY <1>3 DEF ByteOut, EnableInterrupt, PendInterrupt, Settle
<1>4. CASE Display_Clear \/ Display_Flush_Buffer
  BY <1>4 DEF Display_Clear, Display_Flush_Buffer
<1>5. CASE Display_Write \/ Display_Update_BLE_Conn
  BY <1>5 DEF Display_Write, Display_Update_BLE_Conn, Arrays
<1>6. CASE UNCHANGED vars
  BY <1>6 DEF vars
<1> QED
  BY <1>1, <1>2, <1>3, <1>4, <1>5, <1>6 DEF Next, MainStep

LEMMA TypesNext == Types /\ Stage /\ [Next]_vars => Types'
BY NumbersNext, BooleansNext, NamesNext DEF Types

-----------------------------------------------------------------------------
(* The interrupt                                                           *)

LEMMA StageInit == Init => Stage
<1> SUFFICES ASSUME Init PROVE BeforeClear
  BY DEF Stage
<1> QED
  BY DEF Init, BeforeClear, At, Untouched

\* Where the interrupt is not wanted it does nothing.
LEMMA NotWanted ==
  Types /\ (BeforeClear \/ Clearing \/ Cleared \/ Selecting \/ Selected
            \/ CommandSetUp \/ LinesSetUp) => ~Irq
BY DEF Types, Booleans, Irq, BeforeClear, Clearing, Cleared, Selecting,
       Selected, CommandSetUp, LinesSetUp, Untouched, Over

LEMMA ClearAskedServed ==
  Types /\ ClearAsked /\ SPI1_TWI1_IRQHandler => ClearSent'
<1> SUFFICES ASSUME Types, ClearAsked, SPI1_TWI1_IRQHandler PROVE ClearSent'
  OBVIOUS
<1>1. /\ spi_1_tx_index = 0 /\ spi_1_tx_buff_size = 2
      /\ spi_1_tx_buff = "clear"
  BY ItemsOfJob DEF ClearAsked, ClearGiven, Given
<1>2. PutItem /\ pended' = FALSE /\ UNCHANGED <<pc, job>>
  BY <1>1 DEF SPI1_TWI1_IRQHandler
<1>3. frame' = Append(frame, Clear(0)) /\ spi_1_tx_index' = 1
  BY <1>1, <1>2, CellPut DEF PutItem
<1>4. frame' \in Seq(Cells) /\ Len(frame') = 1
  <2>1. Clear(0) \in Cells
    BY DEF Cells
  <2> QED
    BY <1>1, <1>3, <2>1 DEF ClearAsked, ClearGiven
<1> QED
  BY <1>1, <1>2, <1>3, <1>4
  DEF ClearAsked, ClearSent, ClearGiven, Given, At, PutItem

LEMMA ClearSentServed ==
  Types /\ ClearSent /\ SPI1_TWI1_IRQHandler => ClearSent' \/ Cleared'
<1> SUFFICES ASSUME Types, ClearSent, SPI1_TWI1_IRQHandler
             PROVE  ClearSent' \/ Cleared'
  OBVIOUS
<1>1. /\ spi_1_tx_buff_size = 2 /\ spi_1_tx_buff = "clear"
      /\ spi_1_tx_index = 1 \/ spi_1_tx_index = 2
  BY ItemsOfJob DEF ClearSent, ClearGiven, Given
<1>2. ready /\ ready' = ready /\ pended' = FALSE /\ UNCHANGED <<pc, job>>
  BY DEF ClearSent, SPI1_TWI1_IRQHandler, Irq
<1>3. CASE spi_1_tx_index = 1
  <2>1. PutItem
    BY <1>1, <1>3 DEF SPI1_TWI1_IRQHandler
  <2>2. frame' = Append(frame, Clear(1)) /\ spi_1_tx_index' = 2
    BY <1>1, <1>3, <2>1, CellPut DEF PutItem
  <2>3. frame' \in Seq(Cells) /\ Len(frame') = 2
    <3>1. Clear(1) \in Cells
      BY DEF Cells
    <3> QED
      BY <1>3, <2>2, <3>1 DEF ClearSent, ClearGiven
  <2> QED
    BY <1>1, <1>2, <2>1, <2>2, <2>3
    DEF ClearSent, ClearGiven, Given, At, PutItem
<1>4. CASE spi_1_tx_index = 2
  <2>1. EndTransfer
    BY <1>1, <1>4 DEF SPI1_TWI1_IRQHandler
  <2>2. ~cs' /\ ~inten' /\ ~spi_1_dynamically_allocated_buf'
    BY <2>1 DEF EndTransfer, ClearSent, ClearGiven, Given
  <2> QED
    BY <1>1, <1>2, <1>4, <2>1, <2>2
    DEF ClearSent, ClearGiven, Cleared, Over, At, EndTransfer
<1> QED
  BY <1>1, <1>3, <1>4

LEMMA CommandSentServed ==
  Types /\ CommandSent /\ SPI1_TWI1_IRQHandler => CommandSent'
<1> SUFFICES ASSUME Types, CommandSent, SPI1_TWI1_IRQHandler PROVE CommandSent'
  OBVIOUS
<1>1. /\ spi_1_tx_buff_size = 1 /\ spi_1_tx_buff = "command"
      /\ spi_1_tx_index = 0 \/ spi_1_tx_index = 1
  BY ItemsOfJob DEF CommandSent, CommandGiven, Given, Types, Numbers
<1>2. ready' = ready /\ pended' = FALSE /\ UNCHANGED <<pc, job>>
  BY DEF SPI1_TWI1_IRQHandler
<1>3. CASE spi_1_tx_index = 0
  <2>1. PutItem
    BY <1>1, <1>3 DEF SPI1_TWI1_IRQHandler
  <2>2. /\ inten /\ frame = <<>>
    BY <1>3 DEF CommandSent
  <2>3. frame' = Append(<<>>, Command) /\ spi_1_tx_index' = 1
    BY <1>1, <1>3, <2>1, <2>2, CellPut DEF PutItem
  <2>4. Lined(frame', moment', 0)
    BY <2>3, LinedStart
  <2> QED
    BY <1>1, <1>2, <2>1, <2>2, <2>3, <2>4
    DEF CommandSent, CommandGiven, Given, At, PutItem
<1>4. CASE spi_1_tx_index = 1
  <2>1. EndTransfer
    BY <1>1, <1>4 DEF SPI1_TWI1_IRQHandler
  <2>2. cs' /\ ~inten' /\ ~spi_1_dynamically_allocated_buf'
    BY <2>1 DEF EndTransfer, CommandSent, CommandGiven, Given
  <2> QED
    BY <1>1, <1>2, <1>4, <2>1, <2>2
    DEF CommandSent, CommandGiven, Given, At, EndTransfer
<1> QED
  BY <1>1, <1>3, <1>4

LEMMA LinesRunningServed ==
  Types /\ LinesRunning /\ SPI1_TWI1_IRQHandler => LinesRunning' \/ LinesSent'
<1> SUFFICES ASSUME Types, LinesRunning, SPI1_TWI1_IRQHandler
             PROVE  LinesRunning' \/ LinesSent'
  OBVIOUS
<1>1. /\ spi_1_tx_buff_size = Lines - 1 /\ spi_1_tx_buff = "lines"
      /\ spi_1_tx_index \in Nat /\ spi_1_tx_index <= spi_1_tx_buff_size
      /\ display_array \in Arrays
  BY ItemsOfJob DEF LinesRunning, LinesGiven, Given, Types, Numbers, Names
<1>2. ready' = ready /\ pended' = FALSE /\ UNCHANGED <<pc, job, display_array>>
  BY DEF SPI1_TWI1_IRQHandler
<1>3. CASE spi_1_tx_index < spi_1_tx_buff_size
  <2>1. PutItem
    BY <1>1, <1>3 DEF SPI1_TWI1_IRQHandler
  <2>2. /\ frame' = Append(frame, Line(display_array[spi_1_tx_index + 1]))
        /\ spi_1_tx_index' = spi_1_tx_index + 1
    BY <1>1, <2>1, CellPut DEF PutItem
  <2>3. moment' = display_array
    BY <1>1, <2>1 DEF PutItem, LinesRunning
  <2>4. Lined(frame, display_array, spi_1_tx_index)
    <3>1. CASE spi_1_tx_index = 0
      BY <3>1 DEF LinesRunning, LinesGiven, Lined
    <3>2. CASE spi_1_tx_index > 0
      BY <3>2 DEF LinesRunning, LinesGiven
    <3> QED
      BY <1>1, <3>1, <3>2
  <2>5. Lined(frame', moment', spi_1_tx_index')
    BY <1>1, <1>3, <2>2, <2>3, <2>4, LinedNext, LinesAssumption
  <2> QED
    BY <1>2, <2>1, <2>3, <2>5 DEF LinesRunning, LinesGiven, Given, At, PutItem
<1>4. CASE spi_1_tx_index = spi_1_tx_buff_size
  <2>1. EndTransfer
    BY <1>1, <1>4 DEF SPI1_TWI1_IRQHandler
  <2>2. ~cs' /\ ~inten' /\ ~spi_1_dynamically_allocated_buf'
    BY <2>1 DEF EndTransfer, LinesRunning, LinesGiven, Given
  <2> QED
    BY <1>2, <1>4, <2>1, <2>2
    DEF LinesRunning, LinesSent, LinesGiven, Over, Given, At, EndTransfer
<1> QED
  BY <1>1, <1>3, <1>4

LEMMA LinesSentServed ==
  Types /\ LinesSent /\ SPI1_TWI1_IRQHandler => LinesSent'
<1> SUFFICES ASSUME Types, LinesSent, SPI1_TWI1_IRQHandler PROVE LinesSent'
  OBVIOUS
<1>1. ready' = ready /\ pended' = FALSE /\ UNCHANGED <<pc, job>>
  BY DEF SPI1_TWI1_IRQHandler
<1>2. EndTransfer
  BY DEF SPI1_TWI1_IRQHandler, LinesSent, Over, Types, Numbers
<1>3. ~cs' /\ ~inten' /\ ~spi_1_dynamically_allocated_buf'
  BY <1>2 DEF EndTransfer, LinesSent
<1> QED
  BY <1>1, <1>2, <1>3 DEF LinesSent, LinesGiven, Over, Given, At, EndTransfer

LEMMA StageServed == Types /\ Stage /\ SPI1_TWI1_IRQHandler => Stage'
<1>1. SPI1_TWI1_IRQHandler => Irq
  BY DEF SPI1_TWI1_IRQHandler
<1> QED
  BY <1>1, NotWanted, ClearAskedServed, ClearSentServed, CommandSentServed,
     LinesRunningServed, LinesSentServed DEF Stage

-----------------------------------------------------------------------------
(* All other steps                                                         *)

LEMMA StageByteOut == Types /\ Stage /\ ByteOut => Stage'
<1> SUFFICES ASSUME Types, Stage, ByteOut PROVE Stage'
  OBVIOUS
<1> USE DEF ByteOut, transfer, At, Given, Over, Untouched
<1>1. ~BeforeClear /\ ~Clearing /\ ~ClearAsked
  BY DEF BeforeClear, Clearing, ClearAsked
<1>2. CASE ClearSent
  BY <1>2 DEF Stage, ClearSent, ClearGiven
<1>3. CASE Cleared \/ Selecting \/ Selected
  BY <1>3 DEF Stage, Cleared, Selecting, Selected
<1>4. CASE CommandSetUp \/ CommandSent
  BY <1>4 DEF Stage, CommandSetUp, CommandSent, CommandGiven
<1>5. CASE LinesSetUp \/ LinesRunning \/ LinesSent
  BY <1>5 DEF Stage, LinesSetUp, LinesRunning, LinesSent, LinesGiven
<1> QED
  BY <1>1, <1>2, <1>3, <1>4, <1>5 DEF Stage

\* The icon is drawn between two passes, or before the lines are sent.
LEMMA StageDrawn == Types /\ Stage /\ Display_Update_BLE_Conn => Stage'
<1> SUFFICES ASSUME Types, Stage, Display_Update_BLE_Conn PROVE Stage'
  OBVIOUS
<1> USE DEF transfer, At, Given, Over, Untouched
<1>1. UNCHANGED <<pc, job, transfer, ready, inten, pended, shifting, cs, heap,
                  frame, moment>> /\ ~Irq
  BY DEF Display_Update_BLE_Conn
<1>2. ~LinesRunning
  BY <1>1 DEF LinesRunning, LinesGiven, Irq
<1>3. CASE BeforeClear \/ Clearing \/ ClearAsked \/ ClearSent
  BY <1>1, <1>3
  DEF Stage, BeforeClear, Clearing, ClearAsked, ClearSent, ClearGiven
<1>4. CASE Cleared \/ Selecting \/ Selected
  BY <1>1, <1>4 DEF Stage, Cleared, Selecting, Selected
<1>5. CASE CommandSetUp \/ CommandSent
  BY <1>1, <1>5 DEF Stage, CommandSetUp, CommandSent, CommandGiven
<1>6. CASE LinesSetUp \/ LinesSent
  BY <1>1, <1>6 DEF Stage, LinesSetUp, LinesSent, LinesGiven
<1> QED
  BY <1>2, <1>3, <1>4, <1>5, <1>6 DEF Stage

LEMMA StageSetUp == Types /\ Stage /\ SetUpTransfer => Stage'
<1> SUFFICES ASSUME Types, Stage, SetUpTransfer PROVE Stage'
  OBVIOUS
<1>1. /\ pc = "setup" /\ ~Irq /\ pc' = "enable" /\ job' = job
      /\ spi_1_tx_index' = 0
      /\ UNCHANGED <<display_array, ready, inten, pended, shifting, heap,
                     moment>>
  BY DEF SetUpTransfer, Main
<1>2. Given(job)'
  BY DEF SetUpTransfer, Given, Items
<1>3. ~pended
  BY <1>1 DEF Irq
<1>4. CASE BeforeClear
  <2>1. job = "clear" /\ cs' /\ frame' = <<>> /\ heap' = "live"
    BY <1>1, <1>4 DEF BeforeClear, At, SetUpTransfer
  <2>2. frame' \in Seq(Cells) /\ Len(frame') = 0
    BY <2>1
  <2>3. spi_1_dynamically_allocated_buf' /\ spi_1_transfer_ongoing_flag'
    BY <2>1 DEF SetUpTransfer
  <2>4. ClearGiven'
    BY <1>1, <1>2, <2>1, <2>2, <2>3 DEF ClearGiven, Given
  <2>5. Clearing'
    BY <1>1, <1>4, <2>1, <2>4 DEF BeforeClear, Clearing, At, Untouched
  <2> QED
    BY <2>5 DEF Stage
<1>5. CASE Selected
  <2>1. job = "command" /\ cs' /\ frame' = <<>>
    BY <1>5 DEF Selected, At, SetUpTransfer
  <2>2. ~spi_1_dynamically_allocated_buf'
    BY <2>1 DEF SetUpTransfer
  <2>3. CommandSetUp'
    BY <1>1, <1>2, <1>5, <2>1, <2>2
    DEF Selected, Over, CommandSetUp, CommandGiven, Given, At
  <2> QED
    BY <2>3 DEF Stage
<1>6. CASE CommandSent
  <2>1. /\ job = "lines" /\ cs' /\ frame' = frame /\ ~inten /\ ready
    BY <1>1, <1>6 DEF CommandSent, CommandGiven, At, SetUpTransfer
  <2>2. spi_1_tx_index = 1
    BY <1>6, <2>1, ItemsOfJob
    DEF CommandSent, CommandGiven, Given, Types, Numbers
  <2>3. Lined(frame', moment', 0)
    BY <1>1, <1>6, <2>1, <2>2 DEF CommandSent
  <2>4. ~spi_1_dynamically_allocated_buf'
    BY <2>1 DEF SetUpTransfer
  <2>5. LinesGiven'
    BY <1>1, <1>2, <2>1, <2>3, <2>4 DEF LinesGiven, Given
  <2>6. LinesSetUp'
    BY <1>1, <1>3, <2>1, <2>5 DEF LinesSetUp, At
  <2> QED
    BY <2>6 DEF Stage
<1> QED
  BY <1>1, <1>4, <1>5, <1>6
  DEF Stage, Clearing, ClearAsked, ClearSent, Cleared, Selecting, CommandSetUp,
      LinesSetUp, LinesRunning, LinesSent, At

LEMMA StageEnable == Types /\ Stage /\ EnableInterrupt => Stage'
<1> SUFFICES ASSUME Types, Stage, EnableInterrupt PROVE Stage'
  OBVIOUS
<1> USE DEF EnableInterrupt, Main, transfer, At, Given, Untouched
<1>1. CASE Clearing
  BY <1>1 DEF Clearing, ClearGiven, Stage
<1>2. CASE CommandSetUp
  BY <1>2 DEF CommandSetUp, CommandGiven, CommandSent, Stage
<1>3. CASE LinesSetUp
  BY <1>3 DEF LinesSetUp, LinesGiven, LinesRunning, Stage
<1> QED
  BY <1>1, <1>2, <1>3
  DEF Stage, BeforeClear, ClearAsked, ClearSent, Cleared, Selecting, Selected,
      CommandSent, LinesRunning, LinesSent

LEMMA StagePend == Types /\ Stage /\ PendInterrupt => Stage'
<1> SUFFICES ASSUME Types, Stage, PendInterrupt PROVE Stage'
  OBVIOUS
<1>1. /\ pc = "pend" /\ ~Irq /\ pended'
      /\ pc' = AfterTransfer[job]
      /\ job' = IF job = "command" THEN "lines" ELSE job
      /\ UNCHANGED <<display_array, transfer, ready, inten, shifting, cs, heap,
                     frame, moment>>
  BY DEF PendInterrupt, Main
<1> USE DEF transfer, At, Given
<1>2. CASE Clearing
  <2>1. job = "clear" /\ pc' = "settle" /\ job' = "clear"
    BY <1>1, <1>2 DEF Clearing, AfterTransfer
  <2>2. ClearGiven' /\ inten'
    BY <1>1, <1>2 DEF Clearing, ClearGiven
  <2>3. ClearAsked'
    BY <1>1, <1>2, <2>1, <2>2 DEF Clearing, ClearAsked, Untouched
  <2> QED
    BY <2>3 DEF Stage
<1>3. CASE CommandSent
  <2>1. job = "command" /\ pc' = "setup" /\ job' = "lines"
    BY <1>1, <1>3 DEF CommandSent, AfterTransfer
  <2>2. ~inten
    BY <1>1, <1>3 DEF CommandSent, CommandGiven, Irq
  <2> QED
    BY <1>1, <1>3, <2>1, <2>2 DEF CommandSent, CommandGiven, Stage
<1>4. CASE LinesSent
  <2>1. job = "lines" /\ pc' = "idle" /\ job' = "lines"
    BY <1>1, <1>4 DEF LinesSent, AfterTransfer
  <2>2. LinesGiven' /\ Over' /\ ~cs'
    BY <1>1, <1>4 DEF LinesSent, LinesGiven, Over
  <2>3. LinesSent'
    BY <2>1, <2>2 DEF LinesSent
  <2> QED
    BY <2>3 DEF Stage
<1>5. ~LinesRunning
  BY <1>1 DEF LinesRunning, LinesGiven, Irq
<1> QED
  BY <1>1, <1>2, <1>3, <1>4, <1>5
  DEF Stage, BeforeClear, ClearAsked, ClearSent, Cleared, Selecting, Selected,
      CommandSetUp, LinesSetUp

LEMMA StageSettle == Types /\ Stage /\ (Display_Clear \/ Settle) => Stage'
<1> SUFFICES ASSUME Types, Stage, Display_Clear \/ Settle PROVE Stage'
  OBVIOUS
<1> USE DEF Display_Clear, Settle, Main, transfer, At, Untouched, Over
<1>1. CASE BeforeClear
  BY <1>1 DEF BeforeClear, Stage
<1>2. CASE Cleared
  BY <1>2 DEF Cleared, Stage
<1> QED
  BY <1>1, <1>2
  DEF Stage, Clearing, ClearAsked, ClearSent, ClearGiven, Selecting, Selected,
      CommandSetUp, CommandSent, LinesSetUp, LinesRunning, LinesSent

LEMMA StageWrite == Types /\ Stage /\ Display_Write => Stage'
<1> SUFFICES ASSUME Types, Stage, Display_Write PROVE Stage'
  OBVIOUS
<1>1. /\ pc = "idle" /\ ~Irq /\ pc' = "select"
      /\ UNCHANGED <<job, transfer, ready, inten, pended, shifting, cs, heap,
                     frame, moment>>
  BY DEF Display_Write, Main
<1>2. LinesSent
  BY <1>1
  DEF Stage, BeforeClear, Clearing, ClearAsked, ClearSent, Cleared, Selecting,
      Selected, CommandSetUp, CommandSent, LinesSetUp, LinesRunning, LinesSent,
      At
<1>3. spi_1_tx_index = Lines - 1
  BY <1>2, ItemsOfJob DEF LinesSent, LinesGiven, Over, Given
<1> QED
  BY <1>1, <1>2, <1>3
  DEF LinesSent, LinesGiven, Over, Selecting, Stage, At, Irq, transfer

LEMMA StageSelect == Types /\ Stage /\ Display_Flush_Buffer => Stage'
<1> SUFFICES ASSUME Types, Stage, Display_Flush_Buffer PROVE Stage'
  OBVIOUS
<1> USE DEF Display_Flush_Buffer, Main, transfer, At, Over
<1>1. CASE Cleared
  BY <1>1 DEF Cleared, Selected, Stage
<1>2. CASE Selecting
  BY <1>2 DEF Selecting, Selected, Stage
<1> QED
  BY <1>1, <1>2
  DEF Stage, BeforeClear, Clearing, ClearAsked, ClearSent, Selected,
      CommandSetUp, CommandSent, LinesSetUp, LinesRunning, LinesSent

LEMMA StageKept == Stage /\ UNCHANGED vars => Stage'
BY DEF vars, transfer, Stage, BeforeClear, Clearing, ClearAsked, ClearSent,
       ClearGiven, Cleared, Selecting, Selected, CommandSetUp, CommandSent,
       CommandGiven, LinesSetUp, LinesRunning, LinesSent, LinesGiven, At, Given,
       Untouched, Over

LEMMA IInvNext == IInv /\ [Next]_vars => IInv'
BY TypesNext, StageServed, StageByteOut, StageDrawn, StageSetUp, StageEnable,
   StagePend, StageSettle, StageWrite, StageSelect, StageKept
   DEF IInv, Next, MainStep

-----------------------------------------------------------------------------
(* What follows                                                            *)

\* The invariant: wherever the main loop is, the transfer is where it has to be.
THEOREM IInvAlways == Spec => []IInv
BY TypesInit, StageInit, IInvNext, PTL DEF IInv, Spec

LEMMA IInvTypeOK == IInv => TypeOK
<1> SUFFICES ASSUME Types, Stage PROVE TypeOK
  BY DEF IInv
<1>1. pc \in {"clear", "setup", "enable", "pend", "settle", "idle", "select"}
  BY DEF Stage, BeforeClear, Clearing, ClearAsked, ClearSent, Cleared,
         Selecting, Selected, CommandSetUp, CommandSent, LinesSetUp,
         LinesRunning, LinesSent, At
<1>2. Len(frame) <= Lines + 1
  <2>1. spi_1_tx_index \in Nat /\ spi_1_tx_index <= spi_1_tx_buff_size
    BY DEF Types, Numbers
  <2>2. CASE frame = <<>>
    <3>1. Len(frame) = 0
      BY <2>2
    <3> QED
      BY <3>1, LinesAssumption
  <2>3. CASE Clearing \/ ClearAsked \/ ClearSent
    <3>1. Len(frame) = spi_1_tx_index /\ spi_1_tx_buff_size = 2
      BY <2>3, ItemsOfJob DEF Clearing, ClearAsked, ClearSent, ClearGiven, Given
    <3> QED
      BY <2>1, <3>1, LinesAssumption
  <2>4. CASE Cleared
    BY <2>4, LinesAssumption DEF Cleared
  <2>5. CASE Selecting
    BY <2>5, LinesAssumption DEF Selecting, Lined
  <2>6. CASE CommandSent
    <3>1. spi_1_tx_index = 0 \/ spi_1_tx_index = 1
      BY <2>1, <2>6, ItemsOfJob DEF CommandSent, CommandGiven, Given
    <3>2. CASE spi_1_tx_index = 1
      BY <2>6, <3>2, LinesAssumption DEF CommandSent, Lined
    <3> QED
      BY <2>2, <2>6, <3>1, <3>2 DEF CommandSent
  <2>7. CASE LinesSetUp \/ LinesRunning \/ LinesSent
    <3>1. Given("lines") /\ Lined(frame, moment, spi_1_tx_index)
      BY <2>7 DEF LinesSetUp, LinesRunning, LinesSent, LinesGiven
    <3>2. spi_1_tx_index <= Lines - 1
      BY <2>1, <3>1, ItemsOfJob DEF Given
    <3> QED
      BY <2>1, <3>1, <3>2, LinesAssumption DEF Lined
  <2>8. BeforeClear \/ Selected \/ CommandSetUp => frame = <<>>
    BY DEF BeforeClear, Selected, CommandSetUp
  <2> QED
    BY <2>2, <2>3, <2>4, <2>5, <2>6, <2>7, <2>8 DEF Stage
<1>3. /\ spi_1_tx_buff_size \in 0..(Lines + 1)
      /\ spi_1_tx_index \in 0..spi_1_tx_buff_size
  BY LinesAssumption DEF Types, Numbers
<1> QED
  BY <1>1, <1>2, <1>3, StageJob DEF TypeOK, Types, Booleans, Names

\* Every variable keeps its type, for every display.
THEOREM TypeCorrect == Spec => []TypeOK
BY IInvAlways, IInvTypeOK, PTL

\* No buffer goes away while the interrupt may read it, and none is freed twice.
THEOREM BuffersStay == Spec => []BuffersAlive
<1>1. IInv => BuffersAlive
  <2> SUFFICES ASSUME Types, Stage PROVE BuffersAlive
    BY DEF IInv
  <2> USE DEF BuffersAlive, Alive, At, Given, Over, Types, Numbers
  <2>1. CASE BeforeClear \/ Clearing \/ ClearAsked \/ ClearSent
    BY <2>1 DEF BeforeClear, Clearing, ClearAsked, ClearSent, ClearGiven,
                Untouched
  <2>2. CASE Cleared \/ Selecting \/ Selected
    BY <2>2 DEF Cleared, Selecting, Selected
  <2>3. CASE CommandSetUp \/ CommandSent
    BY <2>3 DEF CommandSetUp, CommandSent, CommandGiven
  <2>4. CASE LinesSetUp \/ LinesRunning \/ LinesSent
    BY <2>4 DEF LinesSetUp, LinesRunning, LinesSent, LinesGiven
  <2> QED
    BY <2>1, <2>2, <2>3, <2>4 DEF Stage
<1> QED
  BY <1>1, IInvAlways, PTL

\* After a pass the display has got one whole frame, of one moment.
THEOREM FramesWhole == Spec => []FrameWhole
<1>1. IInv => FrameWhole
  <2> SUFFICES ASSUME Types, Stage, pc = "idle"
               PROVE  /\ ~cs
                      /\ frame = <<<<"command", 0>>>>
                            \o [l \in 1..(Lines - 1) |-> <<"lines", moment[l]>>]
    BY DEF IInv, FrameWhole
  <2>1. LinesSent
    BY DEF Stage, BeforeClear, Clearing, ClearAsked, ClearSent, Cleared,
         Selecting,
           Selected, CommandSetUp, CommandSent, LinesSetUp, LinesRunning, At
  <2>2. Lined(frame, moment, Lines - 1)
    BY <2>1, ItemsOfJob DEF LinesSent, LinesGiven, Given, Over
  <2>3. frame = <<Command>> \o [l \in 1..(Lines - 1) |-> Line(moment[l])]
    <3>1. Lines - 1 \in Nat /\ Lines - 1 < Lines /\ moment \in Arrays
      BY LinesAssumption DEF Types, Names
    <3> QED
      BY <2>2, <3>1, LinedIsFrame
  <2> QED
    BY <2>1, <2>3 DEF LinesSent, Command, Line
<1> QED
  BY <1>1, IInvAlways, PTL

=============================================================================
