---------------------------- MODULE GpsReceiver ----------------------------
(***************************************************************************)
(* The GPS module's sentences on their way from the UART into the last fix *)
(* (hardware/UART.c, hardware/GPS.c).  Everything happens in the UART      *)
(* interrupt, one received byte at a time: bytes are queued and counted,   *)
(* and the one that ends a line has the line parsed, all in that handler.  *)
(* The main loop only turns the module on and off, on request.             *)
(*                                                                         *)
(* Bytes get lost: the UART holds six, and the parser waits a whole second *)
(* when it reports a changed fix (BleUart), some 960 bytes at 9600 baud.   *)
(*                                                                         *)
(* A character is a record that says what it is in the sentence it belongs *)
(* to.  What the parser sets besides the fix, the sentence number, the     *)
(* timestamp and the flag for the main loop, is in GpsSampling.            *)
(***************************************************************************)
EXTENDS Integers, SequencesExt

CONSTANTS
    HeaderSize,     \* "$GPGGA", 6
    AckHeaderSize,  \* what GPS_Parse_ACK_Message takes for the header, 8
    Widths,         \* of the fields of a GGA sentence, 0 for those of any width:
                    \* <<10, 9, 1, 10, 1, 1, 0, 4, 0, 1, 4, 1, 0, 3>>
    FifoSize,       \* UART_FIFO_SIZE, 128
    IndexRange,     \* values of gps_msg_byte_index and gps_msg_size, 256
    MaxFaults       \* bound: bursts of lost bytes, sentences cut off

Fields == DOMAIN Widths

\* The checksum is in every sentence.
Optional == Fields \ {Len(Widths)}

\* No index leaves the range of a uint8_t before it leaves the message.
ASSUME SizesAssumption ==
    /\ Widths \in Seq(Nat)
    /\ Widths # <<>>
    /\ Widths[Len(Widths)] > 0
    /\ HeaderSize \in Nat \ {0, 1}
    /\ AckHeaderSize \in Nat
    /\ FifoSize \in Nat \ {0}
    /\ IndexRange \in Nat
    /\ \A f \in Fields : FifoSize + Widths[f] < IndexRange
    /\ MaxFaults \in Nat

VARIABLES
    line,                   \* what is to come of the sentence being sent
    gps_is_powered_on,
    uart_rx_fifo,
    gps_msg_byte_index,
    gga_message,            \* each field empty, right or wrong
    hung,                   \* the handler never returns
    faults                  \* ghost, counted for MaxFaults

vars == <<line, gps_is_powered_on, uart_rx_fifo, gps_msg_byte_index, gga_message,
          hung, faults>>

-----------------------------------------------------------------------------
(* What the GPS module sends                                               *)

Chars == [kind : {"dollar", "gga", "ack", "other", "data", "comma", "cr", "lf"},
          field : Fields \cup {0}, nr : Nat]

Char(kind, field, nr) == [kind |-> kind, field |-> field, nr |-> nr]
Comma == Char("comma", 0, 0)
CR == Char("cr", 0, 0)
LF == Char("lf", 0, 0)

\* The headers start alike.
Header(type) ==
    [i \in 1 .. HeaderSize |-> IF i = 1 THEN Char("dollar", 0, 0) ELSE Char(type, 0, i)]

\* What is not empty has the width the parser expects (an HDOP of ten or more
\* has not); a field of any width has one character.
Text(f) == [i \in 1 .. (IF Widths[f] = 0 THEN 1 ELSE Widths[f]) |-> Char("data", f, i)]

\* Without a fix, most fields are empty.
Part(f, present) == <<Comma>> \o IF f \in present THEN Text(f) ELSE <<>>

Gga(present) ==
    Header("gga") \o FlattenSeq([f \in Fields |-> Part(f, present)]) \o <<CR, LF>>

Present == {fields \cup {Len(Widths)} : fields \in SUBSET Optional}

Sentences ==
    {Gga(present) : present \in Present}
    \cup {Header(type) \o <<Comma, CR, LF>> : type \in {"ack", "other"}}

\* NMEA allows 82 characters, the queue has 128.
ASSUME FitsAssumption == \A sentence \in Sentences : Len(sentence) <= FifoSize

Coming == IF line = <<>> THEN Sentences ELSE {line}

Empty == [f \in Fields |-> "empty"]

\* After GPS_Init, which turns the module off.
Init ==
    /\ line = <<>>
    /\ gps_is_powered_on = FALSE
    /\ uart_rx_fifo = <<>>
    /\ gps_msg_byte_index = 0
    /\ gga_message = Empty
    /\ hung = FALSE
    /\ faults = 0

-----------------------------------------------------------------------------
(* GPS_Parse_GGA_Message                                                   *)

Fixes == [Fields -> {"empty", "right", "wrong"}]

Parser == [index : Nat, field : Int, fix : Fixes,
           outcome : {"running", "returned", "hung", "undefined"}]

FirstField_Zero == 0

FirstField == -1

MessageLength_WithLineEnd(size) == size

\* uint8_t message_length = gps_msg_size - 2
MessageLength(size) == (size - 2) % IndexRange

\* The width of the field at index: given, or up to the next comma.
WidthAt(msg, index, f) ==
    IF Widths[f] > 0 THEN Widths[f]
    ELSE SelectInSubSeq(msg, index + 1, Len(msg), LAMBDA c : c = Comma) - index - 1

\* A turn of the loop.  The first character is looked at before the length is,
\* what is not a comma must be of a field, and a field of any width must end.
Turn(msg, size, s) ==
    LET f == s.field + 1
        width == WidthAt(msg, s.index, f)
        text == SubSeq(msg, s.index + 1, s.index + width)
        value == IF s.index + width <= Len(msg) /\ text = Text(f) THEN "right" ELSE "wrong"
        moved(index, field, fix) ==
            [index |-> index, field |-> field, fix |-> fix,
             outcome |-> IF index < MessageLength(size) THEN "running" ELSE "returned"]
    IN  IF s.index >= Len(msg)
          THEN [s EXCEPT !.outcome = "undefined"]
        ELSE IF msg[s.index + 1] = Comma
          THEN moved(s.index + 1, s.field + 1, s.fix)
        ELSE IF f \notin Fields
          THEN [s EXCEPT !.outcome = "hung"]
        ELSE IF width < 0
          THEN [s EXCEPT !.outcome = "undefined"]
        ELSE moved(s.index + width, s.field, [s.fix EXCEPT ![f] = value])

Parse(msg, size, fix) ==
    LET loop[s \in Parser] ==
            IF s.outcome = "running" THEN loop[Turn(msg, size, s)] ELSE s
    IN  loop[[index |-> HeaderSize, field |-> FirstField, fix |-> fix,
              outcome |-> "running"]]

-----------------------------------------------------------------------------
(* UART0_IRQHandler                                                        *)

\* app_fifo_put
Put_Unbounded(c) == Append(uart_rx_fifo, c)

Put(c) == IF Len(uart_rx_fifo) < FifoSize THEN Append(uart_rx_fifo, c) ELSE uart_rx_fifo

\* n times Fifo_Get
Without(fifo, n) == SubSeq(fifo, n + 1, Len(fifo))

\* GPS_Get_Message_Type.  A message shorter than a header is compared with
\* whatever follows it in memory.
MessageTypes(msg) ==
    LET known == {type \in {"gga", "ack"} : IsPrefix(Header(type), msg)}
        short == {type \in {"gga", "ack"} : IsStrictPrefix(msg, Header(type))}
    IN  IF known # {} THEN known ELSE {"other"} \cup short

Drained_OnlyOnce(fifo, size) == fifo

\* The dummy gets at the end of GPS_Parse_Message.
Drained(fifo, size) == Without(fifo, size)

Returns(fifo, size, fix) ==
    /\ uart_rx_fifo' = Drained(fifo, size)
    /\ gga_message' = fix
    /\ UNCHANGED hung

Hangs(fifo, fix) ==
    /\ uart_rx_fifo' = fifo
    /\ gga_message' = fix
    /\ hung' = TRUE

\* GPS_Parse_Message, on the size bytes it takes from the queue, or on fewer
\* and uninitialised memory.
ParseMessage(fifo, size) ==
    LET msg == SubSeq(fifo, 1, IF size < Len(fifo) THEN size ELSE Len(fifo))
        rest == Without(fifo, size)
        parsed == Parse(msg, size, gga_message)
        some == {fix \in Fixes : \A f \in Fields : fix[f] \in {parsed.fix[f], "wrong"}}
    IN  \E type \in MessageTypes(msg) :
            \/ /\ type = "gga"
               /\ parsed.outcome = "returned"
               /\ Returns(rest, size, parsed.fix)
            \/ /\ type = "gga"
               /\ parsed.outcome = "hung"
               /\ Hangs(rest, parsed.fix)
            \/ /\ type = "gga"
               /\ parsed.outcome = "undefined"
               /\ \E fix \in some : Returns(rest, size, fix) \/ Hangs(rest, fix)
            \/ /\ type = "ack"
               /\ Returns(Without(rest, (size - AckHeaderSize) % IndexRange), size, gga_message)
            \/ /\ type = "other"
               /\ Returns(rest, size, gga_message)

Receiving == gps_is_powered_on /\ ~hung

ReceiveByte ==
    /\ Receiving
    /\ \E sentence \in Coming :
         /\ line' = Tail(sentence)
         /\ \/ /\ Head(sentence) # LF
               /\ uart_rx_fifo' = Put(Head(sentence))
               /\ gps_msg_byte_index' = (gps_msg_byte_index + 1) % IndexRange
               /\ UNCHANGED <<gga_message, hung>>
            \/ /\ Head(sentence) = LF
               /\ gps_msg_byte_index' = 0
               /\ ParseMessage(Put(LF), (gps_msg_byte_index + 1) % IndexRange)
    /\ UNCHANGED <<gps_is_powered_on, faults>>

\* Bytes arrive while the handler does not run and the UART is full.
LoseBytes ==
    /\ Receiving
    /\ faults < MaxFaults
    /\ faults' = faults + 1
    /\ \E sentence \in Coming : \E n \in DOMAIN sentence : line' = Without(sentence, n)
    /\ UNCHANGED <<gps_is_powered_on, uart_rx_fifo, gps_msg_byte_index, gga_message, hung>>

-----------------------------------------------------------------------------
(* The main loop, on BLE_GPS_ON and BLE_GPS_OFF                            *)

TurnOn ==
    /\ ~hung
    /\ gps_is_powered_on' = TRUE
    /\ UNCHANGED <<line, uart_rx_fifo, gps_msg_byte_index, gga_message, hung, faults>>

\* Neither the queue nor the index is reset.  Only a sentence that is cut off
\* counts for the bound.
TurnOff ==
    /\ ~hung
    /\ gps_is_powered_on' = FALSE
    /\ line' = <<>>
    /\ gga_message' = Empty
    /\ IF gps_is_powered_on /\ gps_msg_byte_index # 0
         THEN faults < MaxFaults /\ faults' = faults + 1
         ELSE UNCHANGED faults
    /\ UNCHANGED <<uart_rx_fifo, gps_msg_byte_index, hung>>

-----------------------------------------------------------------------------
Next == ReceiveByte \/ LoseBytes \/ TurnOn \/ TurnOff

Spec == Init /\ [][Next]_vars

\* A module that is on sends its sentences every second.  This is weak fairness
\* of ReceiveByte, which is enabled exactly when Receiving holds; written out,
\* TLC need not compute ENABLED of a whole parse in every state.
FairSpec == Spec /\ ([]<>~Receiving \/ []<><<ReceiveByte>>_vars)

-----------------------------------------------------------------------------
TypeOK ==
    /\ line \in Seq(Chars)
    /\ gps_is_powered_on \in BOOLEAN
    /\ uart_rx_fifo \in Seq(Chars)
    /\ Len(uart_rx_fifo) <= FifoSize
    /\ gps_msg_byte_index \in 0 .. IndexRange - 1
    /\ gga_message \in Fixes
    /\ hung \in BOOLEAN
    /\ faults \in 0 .. MaxFaults

\* A GGA sentence that was received whole, after whatever happened to earlier
\* ones, is parsed: the handler returns, the fields it has are those of the
\* sentence, and a field that is empty in it keeps what it had.  (Leftovers of
\* an overfull queue can look like its first bytes: those were not counted.)
WholeSentenceParsed ==
    [][ /\ line = <<LF>> /\ line' = <<>> /\ gps_is_powered_on' /\ faults' = faults
        /\ gps_msg_byte_index = Len(uart_rx_fifo)
        =>
          \A present \in Present :
            Append(uart_rx_fifo, LF) = Gga(present) =>
              /\ ~hung'
              /\ uart_rx_fifo' = <<>>
              /\ gga_message' = [f \in Fields |-> IF f \in present THEN "right"
                                                  ELSE gga_message[f]] ]_vars

\* Only lost bytes or a sentence cut off by turning the module off make the
\* parser hang or copy what is not the field's: no order of sentences, empty
\* fields and switching between sentences does.
OnlyFaultsHarm ==
    faults = 0 => ~hung /\ \A f \in Fields : gga_message[f] # "wrong"

\* The index counts the bytes in the queue.  An overfull queue or a wrapped
\* index puts them out of step; the sentences that follow bring them back in
\* step for good, or the parser hangs.
Realigned ==
    \/ <>[](hung \/ Len(uart_rx_fifo) = gps_msg_byte_index)
    \/ []<>~gps_is_powered_on
=============================================================================
