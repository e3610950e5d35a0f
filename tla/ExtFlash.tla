------------------------------ MODULE ExtFlash ------------------------------
(***************************************************************************)
(* The power and the readiness of the external flash: the driver           *)
(* (ext_flash.c), which turns the chip on and off, waits for it and        *)
(* sends it commands, and the calls memory_organization.c makes to it.     *)
(* Every operation there turns the chip on and off itself, also those that *)
(* other operations call in the middle of their own.                       *)
(*                                                                         *)
(* What the words of the flash hold is the matter of TrackMemory.          *)
(***************************************************************************)
EXTENDS Naturals, Sequences

\* An operation is the sequence of its calls, one of several if they depend on
\* what is in the flash.  "reads" and "programs" stand for one such command or
\* more; "strays" for reads of a chip that is off.
FindFreeKey == {<<"turn on to read", "reads", "off">>}

FindKey_LeavesPowerAlone == <<"reads", "off">>

FindKey == <<"turn on to read", "reads", "off">>

\* The second reads the header of the last track, or walks over its pages.
FindFreeAddress ==
    { <<"turn on to read">> \o FindKey \o <<"off">>,
      <<"turn on to read">> \o FindKey \o <<"strays", "off">> }

StartTrack == {<<"turn on to erase", "programs", "off">>}

StopTrack == FindKey \o <<"turn on to erase", "programs", "off">>

\* The second ends the track, as the memory is full.
StoreSample ==
    { <<"turn on to erase", "programs", "off">>,
      <<"turn on to erase">> \o StopTrack \o <<"off">> }

ClearTracks == {<<"turn on to erase", "erase", "off">>}

ListTracks == {<<"turn on to read", "reads", "off">>}

\* The second reaches the end of the memory and leaves the chip on.
SendTrack == { <<"turn on to read", "reads", "off">>,
               <<"turn on to read", "reads", "stay on">> }

Operations ==
    FindFreeKey \cup {FindKey} \cup FindFreeAddress \cup StartTrack
    \cup {StopTrack} \cup StoreSample \cup ClearTracks \cup ListTracks
    \cup SendTrack

VARIABLES
    chip,                           \* the chip (external)
    failed,                         \* its error bit
    ext_flash_on,
    ready_or_busy,                  \* ext_flash_status_reg, as it was read last
    erase_or_program_error,
    calls,                          \* the calls the operation still makes
    pc,                             \* where the first of them is
    sent,                           \* its command has been sent
    abandoned                       \* the last track sent left the chip on

status == <<ready_or_busy, erase_or_program_error>>
vars == <<chip, failed, ext_flash_on, status, calls, pc, sent, abandoned>>

\* A chip that wakes up can be read some time before it can be programmed.
Chip == {"off", "waking", "readable", "ready", "busy"}

TypeOK ==
    /\ chip \in Chip /\ failed \in BOOLEAN
    /\ ext_flash_on \in BOOLEAN /\ ext_flash_on = (chip # "off")
    /\ ready_or_busy \in BOOLEAN /\ erase_or_program_error \in BOOLEAN
    /\ pc \in {"call", "wake", "poll", "polled", "transfer", "check"}
    /\ pc # "call" => calls # <<>>
    /\ sent \in BOOLEAN /\ abandoned \in BOOLEAN

Init ==
    /\ chip = "off" /\ failed = FALSE
    /\ ext_flash_on = FALSE
    /\ ready_or_busy = FALSE /\ erase_or_program_error = FALSE
    /\ calls = <<>> /\ pc = "call" /\ sent = FALSE /\ abandoned = FALSE
-----------------------------------------------------------------------------
(* The chip wakes up, and ends what it was told to do.                     *)

Wake ==
    /\ chip \in {"waking", "readable"}
    /\ chip' = IF chip = "waking" THEN "readable" ELSE "ready"
    /\ UNCHANGED <<failed, ext_flash_on, status, calls, pc, sent, abandoned>>

Finish ==
    /\ chip = "busy"
    /\ chip' = "ready"
    /\ failed' \in BOOLEAN
    /\ UNCHANGED <<ext_flash_on, status, calls, pc, sent, abandoned>>
-----------------------------------------------------------------------------
(* The operations of memory_organization.c, run one after the other.       *)

Begin ==
    /\ pc = "call" /\ calls = <<>>
    /\ calls' \in Operations
    /\ UNCHANGED <<chip, failed, ext_flash_on, status, pc, sent, abandoned>>

Called(what) == pc = "call" /\ calls # <<>> /\ Head(calls) \in what

Reads    == {"reads", "strays"}
Programs == {"programs", "erase"}

Return == pc' = "call" /\ calls' = Tail(calls)

\* Only a chip that was off is waited for.
Ext_Flash_Turn_On ==
    /\ Called({"turn on to read", "turn on to erase"})
    /\ IF ext_flash_on
       THEN Return /\ UNCHANGED <<chip, ext_flash_on>>
       ELSE /\ pc' = "wake" /\ UNCHANGED calls
            /\ ext_flash_on' = TRUE /\ chip' = "waking"
    /\ UNCHANGED <<failed, status, sent, abandoned>>

\* The waits of Ext_Flash_Turn_On last as long as the chip takes.
TurnedOn ==
    /\ pc = "wake"
    /\ chip = "ready" \/ (chip = "readable" /\ Head(calls) = "turn on to read")
    /\ Return
    /\ UNCHANGED <<chip, failed, ext_flash_on, status, sent, abandoned>>

Ext_Flash_Turn_Off_FlagKept ==
    /\ Called({"off"})
    /\ Return
    /\ chip' = "off"
    /\ abandoned' = FALSE
    /\ UNCHANGED <<failed, ext_flash_on, status, sent>>

Ext_Flash_Turn_Off ==
    /\ Called({"off"})
    /\ Return
    /\ ext_flash_on' = FALSE /\ chip' = "off"
    /\ abandoned' = FALSE
    /\ UNCHANGED <<failed, status, sent>>

\* The messages before took longer than the chip takes to wake up.
StayOn ==
    /\ Called({"stay on"}) /\ chip = "ready"
    /\ Return
    /\ abandoned' = TRUE
    /\ UNCHANGED <<chip, failed, ext_flash_on, status, sent>>
-----------------------------------------------------------------------------
(* A command: Ext_Flash_Wait_Till_Ready, the transfer and, for a           *)
(* programming or erasure, another wait and a look at the error bit.       *)

\* A programming is refused while the chip is off; other commands are not, and
\* do not wait.
StartCommand ==
    /\ Called(Reads \cup Programs)
    /\ sent' = FALSE
    /\ IF ext_flash_on THEN pc' = "poll" /\ UNCHANGED calls
       ELSE IF Head(calls) = "programs" THEN Return
       ELSE pc' = "transfer" /\ UNCHANGED calls
    /\ UNCHANGED <<chip, failed, ext_flash_on, status, abandoned>>

Ext_Flash_Read_Status_Reg ==
    /\ pc = "poll"
    /\ pc' = "polled"
    /\ ready_or_busy' = (chip # "busy")
    /\ erase_or_program_error' = failed
    /\ UNCHANGED <<chip, failed, ext_flash_on, calls, sent, abandoned>>

Polled_Once ==
    /\ pc = "polled"
    /\ pc' = IF sent THEN "check" ELSE "transfer"
    /\ UNCHANGED <<chip, failed, ext_flash_on, status, calls, sent, abandoned>>

Polled ==
    /\ pc = "polled"
    /\ pc' = IF ~ready_or_busy THEN "poll"
             ELSE IF sent THEN "check" ELSE "transfer"
    /\ UNCHANGED <<chip, failed, ext_flash_on, status, calls, sent, abandoned>>

\* "reads" and "programs" may go on with another command.
Another == Head(calls) \in {"reads", "programs", "strays"} /\ pc' = "call"
           /\ UNCHANGED calls

TransferRead ==
    /\ pc = "transfer" /\ Head(calls) \in Reads
    /\ Return \/ Another
    /\ UNCHANGED <<chip, failed, ext_flash_on, status, sent, abandoned>>

TransferProgram ==
    /\ pc = "transfer" /\ Head(calls) \in Programs
    /\ sent' = TRUE
    /\ chip' = IF chip = "ready" THEN "busy" ELSE chip
    /\ pc' = IF ext_flash_on THEN "poll" ELSE "check"
    /\ UNCHANGED <<failed, ext_flash_on, status, calls, abandoned>>

\* Ext_Flash_Check_Program_Erase_Error: after a key that failed another is
\* programmed, and two at most; what fails otherwise is left so.
CheckError ==
    /\ pc = "check"
    /\ Return \/ Another
    /\ UNCHANGED <<chip, failed, ext_flash_on, status, sent, abandoned>>
-----------------------------------------------------------------------------
Main ==
    \/ Begin \/ Ext_Flash_Turn_On \/ TurnedOn \/ Ext_Flash_Turn_Off \/ StayOn
    \/ StartCommand \/ Ext_Flash_Read_Status_Reg \/ Polled
    \/ TransferRead \/ TransferProgram \/ CheckError

Next == Main \/ Wake \/ Finish

Spec == Init /\ [][Next]_vars
-----------------------------------------------------------------------------
CommandTaken ==
    pc = "transfer" =>
        CASE Head(calls) = "reads"     -> chip \in {"readable", "ready"}
          [] Head(calls) \in Programs  -> chip = "ready"
          [] Head(calls) = "strays"    -> chip = "off"

NotCutOff == Called({"off"}) => chip # "busy"

ErrorIsFresh == pc = "check" => erase_or_program_error = failed

OffWhenIdle == calls = <<>> => (ext_flash_on <=> abandoned)

\* However the operations that turn the chip on and off are nested, every command
\* reaches a chip that is on, awake for it and not busy, except where the address
\* for the next track is looked for (memory_organization.c:155); no programming
\* is cut off, its result is the chip's, and between two operations the chip is
\* off unless a track was sent up to the end of the memory
\* (memory_organization.c:661).
Powered == CommandTaken /\ NotCutOff /\ ErrorIsFresh /\ OffWhenIdle
=============================================================================
