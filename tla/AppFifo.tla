------------------------------ MODULE AppFifo ------------------------------
(***************************************************************************)
(* The ring buffer behind every queue of the firmware (nordic app_fifo.c   *)
(* under the wrappers of libraries/fifo.c), used the way the scheduler     *)
(* uses it: interrupt handlers put, the main loop gets.                    *)
(*                                                                         *)
(* A handler runs to completion before the main loop goes on, so a put is  *)
(* one step.  The main loop can be interrupted between any two of its      *)
(* loads and stores, so emptiness test, length, byte and read position are *)
(* separate steps.  Each of the first two loads write_pos once, the only   *)
(* position a handler moves.                                               *)
(*                                                                         *)
(* The positions are free-running uint32 counters that wrap at PosRange,   *)
(* 2^32 in the code; a slot is a position masked by the buffer size.       *)
(***************************************************************************)
EXTENDS Integers, Sequences

CONSTANTS
    Byte,       \* the values a queue holds
    Zero,       \* what static storage is initialised to
    BufSize,    \* buf_size_mask + 1
    Wraps       \* how often the buffer fits in the range of a position

PosRange == BufSize * Wraps

\* app_fifo_init takes a power of two that fits in 16 bits: it divides 2^32
\* and is smaller, which is all the ring needs.
ASSUME SizeAssumption ==
    /\ BufSize \in Nat \ {0}
    /\ Wraps \in Nat
    /\ Wraps >= 2

ASSUME ZeroAssumption == Zero \in Byte

VARIABLES
    buf,        \* p_buf
    write_pos,  \* moved by interrupt handlers only
    read_pos,   \* moved by the main loop only
    pc,         \* where the main loop is
    byte,       \* *p_byte of the running get
    returned    \* what the last completed get handed to the dispatcher

vars == <<buf, write_pos, read_pos, pc, byte, returned>>

Position == 0 .. PosRange - 1
Slot(pos) == pos % BufSize

Incremented_Unwrapped(pos) == pos + 1

Incremented(pos) == IF pos = PosRange - 1 THEN 0 ELSE pos + 1

\* fifo_length: an unsigned difference, right across a wrap of write_pos.
Length == IF write_pos >= read_pos THEN write_pos - read_pos
                                   ELSE write_pos - read_pos + PosRange

IsEmpty_Masked == Slot(read_pos) = Slot(write_pos)

\* Fifo_Is_Empty
IsEmpty == read_pos = write_pos

\* app_fifo_init, on buffers and variables of static storage.
Init ==
    /\ buf = [s \in 0 .. BufSize - 1 |-> Zero]
    /\ write_pos = 0
    /\ read_pos = 0
    /\ pc = "idle"
    /\ byte = Zero
    /\ returned = Zero

-----------------------------------------------------------------------------
(* Interrupt handlers                                                      *)

Put_OneTooMany(b) ==
    IF Length <= BufSize
      THEN /\ buf' = [buf EXCEPT ![Slot(write_pos)] = b]
           /\ write_pos' = Incremented(write_pos)
           /\ UNCHANGED <<read_pos, pc, byte, returned>>
      ELSE UNCHANGED vars

Put_DropsOldest(b) ==
    /\ buf' = [buf EXCEPT ![Slot(write_pos)] = b]
    /\ write_pos' = Incremented(write_pos)
    /\ read_pos' = IF Length = BufSize THEN Incremented(read_pos) ELSE read_pos
    /\ UNCHANGED <<pc, byte, returned>>

\* app_fifo_put; Fifo_Put drops the NRF_ERROR_NO_MEM of a full buffer.
Put(b) ==
    IF Length <= BufSize - 1
      THEN /\ buf' = [buf EXCEPT ![Slot(write_pos)] = b]
           /\ write_pos' = Incremented(write_pos)
           /\ UNCHANGED <<read_pos, pc, byte, returned>>
      ELSE UNCHANGED vars

-----------------------------------------------------------------------------
(* The main loop: while(!Fifo_Is_Empty) Fifo_Get                           *)

CheckEmpty ==
    /\ pc = "idle"
    /\ pc' = IF IsEmpty THEN "idle" ELSE "length"
    /\ UNCHANGED <<buf, write_pos, read_pos, byte, returned>>

\* app_fifo_get's own test; NRF_ERROR_NOT_FOUND leaves *p_byte as it was.
CheckLength ==
    /\ pc = "length"
    /\ pc' = IF Length # 0 THEN "copy" ELSE "idle"
    /\ UNCHANGED <<buf, write_pos, read_pos, byte, returned>>

CopyByte_PreIncrement ==
    /\ pc = "copy"
    /\ byte' = buf[Slot(Incremented(read_pos))]
    /\ pc' = "advance"
    /\ UNCHANGED <<buf, write_pos, read_pos, returned>>

CopyByte ==
    /\ pc = "copy"
    /\ byte' = buf[Slot(read_pos)]
    /\ pc' = "advance"
    /\ UNCHANGED <<buf, write_pos, read_pos, returned>>

Advance ==
    /\ pc = "advance"
    /\ read_pos' = Incremented(read_pos)
    /\ returned' = byte
    /\ pc' = "idle"
    /\ UNCHANGED <<buf, write_pos, byte>>

-----------------------------------------------------------------------------
Handler == \E b \in Byte : Put(b)
Main == CheckEmpty \/ CheckLength \/ CopyByte \/ Advance

Next == Handler \/ Main

Spec == Init /\ [][Next]_vars

\* The dispatcher loops until the queue is empty and is entered on every pass
\* of the main loop, so the main loop's steps are fair; handlers need not run.
FairSpec == Spec /\ WF_vars(Main)

-----------------------------------------------------------------------------
TypeOK ==
    /\ buf \in [0 .. BufSize - 1 -> Byte]
    /\ write_pos \in Position
    /\ read_pos \in Position
    /\ pc \in {"idle", "length", "copy", "advance"}
    /\ byte \in Byte
    /\ returned \in Byte

\* The queue the ring stands for: Length bytes from the read position on.
PositionAt(i) == IF read_pos + i - 1 < PosRange THEN read_pos + i - 1
                                                ELSE read_pos + i - 1 - PosRange
Contents == [i \in 1 .. Length |-> buf[Slot(PositionAt(i))]]

\* The two positions are never further apart than the buffer is long: no put
\* laps the read position, also after either counter has wrapped.
NeverLapped == Length <= BufSize

\* A get that has passed its length test still has its byte, whatever puts
\* come between the test, the copy and the moved read position, and the byte
\* it copied is still the one at the read position when it moves.
GetKeepsItsByte ==
    /\ pc \in {"length", "copy", "advance"} => Length # 0
    /\ pc = "advance" => byte = buf[Slot(read_pos)]

IInv == TypeOK /\ NeverLapped /\ GetKeepsItsByte

\* The ring is the bounded queue its users count on: nothing is reordered,
\* duplicated, overwritten or lost but on a full queue, and each completed
\* get returns the oldest byte.
Queue == INSTANCE BoundedQueue WITH Capacity <- BufSize, queue <- Contents

ImplementsQueue == Queue!Spec

\* As long as bytes wait, the main loop keeps taking them: a full buffer is
\* never taken for an empty one.
WaitingIsTaken ==
    \A p \in Position : (read_pos = p /\ write_pos # p) ~> (read_pos # p)
=============================================================================
