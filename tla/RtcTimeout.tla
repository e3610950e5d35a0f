----------------------------- MODULE RtcTimeout -----------------------------
(***************************************************************************)
(* The one timeout of RTC.c (compare register 1), the delay beside it      *)
(* (compare register 0), and everything that uses them: the battery        *)
(* measurement of adc.c, the waits of ble_uart.c and the searches and      *)
(* transfers of memory_organization.c.  The main loop runs one of these at *)
(* a time.  A notification sent by the UART handler interrupts it anywhere *)
(* and waits with the same timeout.                                        *)
(*                                                                         *)
(* Time is not kept as a counter value but as the distance to each compare *)
(* value: it is all that the code compares.                                *)
(***************************************************************************)
EXTENDS Naturals

CONSTANTS
    Wrap,           \* ticks after which the counter is back at a value (2^24)
    Duration        \* ticks asked for by each user of a timeout or delay

\* "ble" and "note" are the waits for an indication and for a notification.
Users == {"adc", "ble", "search", "list", "track", "note", "delay"}

ASSUME WrapAssumption == Wrap \in Nat \ {0}
ASSUME DurationAssumption == Duration \in [Users -> 1..(Wrap - 1)]

VARIABLES
    left0, left1,                   \* CC[0] - COUNTER and CC[1] - COUNTER
    inten0, inten1,                 \* the compare bits of INTENSET
    wait_flag, timeout_flag,
    converting,                     \* the ADC runs (external)
    adc_conversion_in_progress,
    ble_tx_in_progress,
    pc,                             \* where the main loop is
    user,                           \* who called RTC_Timeout last
    outer,                          \* the transfer a wait is nested in
    loaded,                         \* INTENSET as RTC_Wait read it
    handler,                        \* the UART handler: "idle" or "waiting"
    elapsed,                        \* ticks since the timeout was asked for,
                                    \* up to Wrap
    inherited,                      \* it had been started by someone else
    robbed                          \* the handler cancelled it

timers == <<left0, left1, inten0, inten1, wait_flag, timeout_flag>>
flags  == <<converting, adc_conversion_in_progress, ble_tx_in_progress>>
ghosts == <<elapsed, inherited, robbed>>
vars   == <<timers, flags, pc, user, outer, loaded, handler, ghosts>>

\* The main loop is inside Mem_Org_Find_Key, reading the flash.
KeyReading == {"read", "aim", "load", "store", "delaying", "delayed"}
Waiting    == {"wait"}
Relying    == Waiting \cup KeyReading \cup {"key"}
Starting   == {"mark", "test", "clear", "compare", "enable"}

TypeOK ==
    /\ left0 \in 0..(Wrap - 1) /\ left1 \in 0..(Wrap - 1)
    /\ inten0 \in BOOLEAN /\ inten1 \in BOOLEAN /\ loaded \in BOOLEAN
    /\ wait_flag \in BOOLEAN /\ timeout_flag \in BOOLEAN
    /\ converting \in BOOLEAN
    /\ adc_conversion_in_progress \in BOOLEAN
    /\ ble_tx_in_progress \in BOOLEAN
    /\ pc \in {"idle", "send", "loop"} \cup Starting \cup Relying
    /\ user \in Users \ {"note", "delay"}
    /\ outer \in {"none", "list", "track"}
    /\ handler \in {"idle", "waiting"}
    /\ elapsed \in 0..Wrap
    /\ inherited \in BOOLEAN /\ robbed \in BOOLEAN

Init ==
    /\ left0 = 0 /\ left1 = 0
    /\ inten0 = FALSE /\ inten1 = FALSE /\ loaded = FALSE
    /\ wait_flag = FALSE /\ timeout_flag = FALSE
    /\ converting = FALSE
    /\ adc_conversion_in_progress = FALSE /\ ble_tx_in_progress = FALSE
    /\ pc = "idle" /\ user = "adc" /\ outer = "none"
    /\ handler = "idle"
    /\ elapsed = 0 /\ inherited = FALSE /\ robbed = FALSE
-----------------------------------------------------------------------------
(* The counter and the RTC interrupt, which nothing of the application     *)
(* holds up: a match and its handling are one step.  A compare event is    *)
(* raised only while its interrupt is enabled.  The handler leaves the     *)
(* interrupt enabled, so an expired timeout strikes again after a wrap.    *)

Before_Unwrapped(left) == IF left = 0 THEN Wrap ELSE left - 1

Before(left) == IF left = 0 THEN Wrap - 1 ELSE left - 1

Struck(left, inten) == inten /\ left = 0

Tick ==
    /\ left0' = Before(left0)
    /\ left1' = Before(left1)
    /\ wait_flag' = (wait_flag \/ Struck(left0', inten0))
    /\ timeout_flag' = (timeout_flag \/ Struck(left1', inten1))
    /\ elapsed' = IF elapsed < Wrap THEN elapsed + 1 ELSE Wrap
    /\ UNCHANGED <<inten0, inten1, flags, pc, user, outer, loaded, handler,
                   inherited, robbed>>
-----------------------------------------------------------------------------
(* RTC_Timeout, step by step, as the main loop runs it.                    *)

Main(here) == handler = "idle" /\ pc = here

AfterStart == IF user = "search" THEN "read"
              ELSE IF user \in {"list", "track"} THEN "send" ELSE "wait"

\* Nothing is started while the interrupt is enabled: the caller goes on with
\* the time, and the flag, of whoever enabled it.
TestStarted ==
    /\ Main("test")
    /\ pc' = IF inten1 THEN AfterStart ELSE "clear"
    /\ inherited' = inten1
    /\ elapsed' = 0
    /\ robbed' = FALSE
    /\ UNCHANGED <<timers, flags, user, outer, loaded, handler>>

ClearFlag_Skipped ==
    /\ Main("clear")
    /\ pc' = "compare"
    /\ UNCHANGED <<timers, flags, user, outer, loaded, handler, ghosts>>

ClearFlag ==
    /\ Main("clear")
    /\ pc' = "compare"
    /\ timeout_flag' = FALSE
    /\ UNCHANGED <<left0, left1, inten0, inten1, wait_flag, flags, user, outer,
                   loaded, handler, ghosts>>

SetCompare ==
    /\ Main("compare")
    /\ pc' = "enable"
    /\ left1' = Duration[user]
    /\ elapsed' = 0
    /\ UNCHANGED <<left0, inten0, inten1, wait_flag, timeout_flag, flags, user,
                   outer, loaded, handler, inherited, robbed>>

EnableTimeout ==
    /\ Main("enable")
    /\ pc' = AfterStart
    /\ inten1' = TRUE
    /\ UNCHANGED <<left0, left1, inten0, wait_flag, timeout_flag, flags, user,
                   outer, loaded, handler, ghosts>>
-----------------------------------------------------------------------------
(* ADC_Get_Bat_Voltage, once a display pass.  The conversion is started    *)
(* before the flag that says so is raised.                                 *)

StartConversion ==
    /\ Main("idle")
    /\ pc' = "mark" /\ user' = "adc" /\ outer' = "none"
    /\ converting' = TRUE
    /\ UNCHANGED <<timers, adc_conversion_in_progress, ble_tx_in_progress,
                   loaded, handler, ghosts>>

MarkConversion ==
    /\ Main("mark")
    /\ pc' = "test"
    /\ adc_conversion_in_progress' = TRUE
    /\ UNCHANGED <<timers, converting, ble_tx_in_progress, user, outer, loaded,
                   handler, ghosts>>

AdcInterrupt_KeepsFlag ==
    /\ handler = "idle" /\ converting
    /\ converting' = FALSE
    /\ inten1' = FALSE
    /\ UNCHANGED <<left0, left1, inten0, wait_flag, timeout_flag,
                   adc_conversion_in_progress, ble_tx_in_progress, pc, user,
                   outer, loaded, handler, ghosts>>

\* ADC_IRQHandler has the priority of the UART handler: it waits for its end.
AdcInterrupt ==
    /\ handler = "idle" /\ converting
    /\ converting' = FALSE
    /\ adc_conversion_in_progress' = FALSE
    /\ inten1' = FALSE
    /\ UNCHANGED <<left0, left1, inten0, wait_flag, timeout_flag,
                   ble_tx_in_progress, pc, user, outer, loaded, handler, ghosts>>

AdcWaitOver ==
    /\ Main("wait") /\ user = "adc"
    /\ ~adc_conversion_in_progress \/ timeout_flag
    /\ pc' = "idle"
    /\ inten1' = (inten1 /\ ~timeout_flag)
    /\ timeout_flag' = FALSE
    /\ adc_conversion_in_progress' = FALSE
    /\ converting' = FALSE
    /\ UNCHANGED <<left0, left1, inten0, wait_flag, ble_tx_in_progress, user,
                   outer, loaded, handler, ghosts>>
-----------------------------------------------------------------------------
(* Ble_Uart_Wait_For_Transmission_End, after a message of its own or within *)
(* a transfer, whose timeout it cancels with its own.                      *)

SendMessage ==
    /\ Main("idle") \/ Main("send")
    /\ pc' = "test" /\ user' = "ble"
    /\ outer' = IF pc = "send" THEN outer ELSE "none"
    /\ ble_tx_in_progress' = TRUE
    /\ UNCHANGED <<timers, converting, adc_conversion_in_progress, loaded,
                   handler, ghosts>>

\* The central confirms the last packet, or the connection is lost.
MessageConfirmed ==
    /\ handler = "idle" /\ ble_tx_in_progress
    /\ ble_tx_in_progress' = FALSE
    /\ UNCHANGED <<timers, converting, adc_conversion_in_progress, pc, user,
                   outer, loaded, handler, ghosts>>

CancelTimeout == inten1' = FALSE /\ timeout_flag' = FALSE

BleWaitOver ==
    /\ Main("wait") /\ user = "ble"
    /\ ~ble_tx_in_progress \/ timeout_flag
    /\ CancelTimeout
    /\ pc' = IF outer = "none" THEN "idle" ELSE "loop"
    /\ UNCHANGED <<left0, left1, inten0, wait_flag, flags, user, outer, loaded,
                   handler, ghosts>>
-----------------------------------------------------------------------------
(* Mem_Org_List_Tracks_Through_BLE and Mem_Org_Send_Track_Via_BLE: messages *)
(* under a timeout of the whole transfer.                                  *)

StartTransfer ==
    /\ Main("idle")
    /\ pc' = "test"
    /\ \E u \in {"list", "track"} : user' = u /\ outer' = u
    /\ UNCHANGED <<timers, flags, loaded, handler, ghosts>>

NextMessage ==
    /\ Main("loop") /\ ~timeout_flag
    /\ pc' = "send"
    /\ UNCHANGED <<timers, flags, user, outer, loaded, handler, ghosts>>

\* A transfer that timed out cancels; of those that are done a listing cancels,
\* a track, sent to its end or found to reach past the memory, does not.
TransferEnds ==
    /\ Main("loop")
    /\ pc' = "idle"
    /\ IF timeout_flag
       THEN CancelTimeout
       ELSE /\ inten1' = (inten1 /\ outer # "list")
            /\ UNCHANGED timeout_flag
    /\ UNCHANGED <<left0, left1, inten0, wait_flag, flags, user, outer, loaded,
                   handler, ghosts>>
-----------------------------------------------------------------------------
(* Mem_Org_Find_Key.  Every key is read with a delay in between, RTC_Wait,  *)
(* which loads INTENSET and writes it back with its own bit.               *)

StartSearch ==
    /\ Main("idle")
    /\ pc' = "test" /\ user' = "search" /\ outer' = "none"
    /\ UNCHANGED <<timers, flags, loaded, handler, ghosts>>

StartDelay ==
    /\ Main("read")
    /\ pc' = "aim"
    /\ wait_flag' = FALSE
    /\ UNCHANGED <<left0, left1, inten0, inten1, timeout_flag, flags, user,
                   outer, loaded, handler, ghosts>>

AimDelay ==
    /\ Main("aim")
    /\ pc' = "load"
    /\ left0' = Duration["delay"]
    /\ UNCHANGED <<left1, inten0, inten1, wait_flag, timeout_flag, flags, user,
                   outer, loaded, handler, ghosts>>

LoadEnabled ==
    /\ Main("load")
    /\ pc' = "store"
    /\ loaded' = inten1
    /\ UNCHANGED <<timers, flags, user, outer, handler, ghosts>>

StoreEnabled ==
    /\ Main("store")
    /\ pc' = "delaying"
    /\ inten0' = TRUE
    /\ inten1' = (inten1 \/ loaded)
    /\ UNCHANGED <<left0, left1, wait_flag, timeout_flag, flags, user, outer,
                   loaded, handler, ghosts>>

DelayOver_ClearsAll ==
    /\ Main("delaying") /\ wait_flag
    /\ pc' = "delayed"
    /\ inten0' = FALSE /\ inten1' = FALSE
    /\ UNCHANGED <<left0, left1, wait_flag, timeout_flag, flags, user, outer,
                   loaded, handler, ghosts>>

DelayOver ==
    /\ Main("delaying") /\ wait_flag
    /\ pc' = "delayed"
    /\ inten0' = FALSE
    /\ UNCHANGED <<left0, left1, inten1, wait_flag, timeout_flag, flags, user,
                   outer, loaded, handler, ghosts>>

EndDelay ==
    /\ Main("delayed")
    /\ pc' = "key"
    /\ wait_flag' = FALSE
    /\ UNCHANGED <<left0, left1, inten0, inten1, timeout_flag, flags, user,
                   outer, loaded, handler, ghosts>>

\* Found: the timeout is cancelled, its flag left as it is.
KeyFound ==
    /\ Main("key")
    /\ pc' = "idle"
    /\ inten1' = FALSE
    /\ UNCHANGED <<left0, left1, inten0, wait_flag, timeout_flag, flags, user,
                   outer, loaded, handler, ghosts>>

\* An empty key ends the search and leaves the timeout running.
KeyMissing ==
    /\ Main("key")
    /\ pc' = "idle"
    /\ UNCHANGED <<timers, flags, user, outer, loaded, handler, ghosts>>

\* Any other key: up or down a slot.
OtherKey ==
    /\ Main("key") /\ ~timeout_flag
    /\ pc' = "read"
    /\ UNCHANGED <<timers, flags, user, outer, loaded, handler, ghosts>>

SearchTimesOut ==
    /\ Main("key") /\ timeout_flag
    /\ pc' = "idle"
    /\ CancelTimeout
    /\ UNCHANGED <<left0, left1, inten0, wait_flag, flags, user, outer, loaded,
                   handler, ghosts>>
-----------------------------------------------------------------------------
(* The UART handler sends a notification and waits for an event of its own *)
(* priority, so only the timeout can end its wait.                         *)

Notify ==
    /\ handler = "idle"
    /\ handler' = "waiting"
    /\ IF inten1
       THEN UNCHANGED <<left1, inten1, timeout_flag>>
       ELSE /\ left1' = Duration["note"]
            /\ inten1' = TRUE
            /\ timeout_flag' = FALSE
    /\ UNCHANGED <<left0, inten0, wait_flag, flags, pc, user, outer, loaded,
                   ghosts>>

NotifyTimesOut ==
    /\ handler = "waiting" /\ timeout_flag
    /\ handler' = "idle"
    /\ CancelTimeout
    /\ robbed' = (robbed \/ pc \in Relying)
    /\ UNCHANGED <<left0, left1, inten0, wait_flag, flags, pc, user, outer,
                   loaded, elapsed, inherited>>
-----------------------------------------------------------------------------
RtcTimeoutCall == TestStarted \/ ClearFlag \/ SetCompare \/ EnableTimeout
RtcWaitCall == StartDelay \/ AimDelay \/ LoadEnabled \/ StoreEnabled
               \/ DelayOver \/ EndDelay

\* What the main loop does once it has begun something.
GoOn ==
    \/ RtcTimeoutCall \/ RtcWaitCall
    \/ MarkConversion \/ AdcWaitOver
    \/ (pc = "send" /\ SendMessage) \/ BleWaitOver
    \/ NextMessage \/ TransferEnds
    \/ KeyFound \/ KeyMissing \/ OtherKey \/ SearchTimesOut

Begin == StartConversion \/ SendMessage \/ StartTransfer \/ StartSearch

Next ==
    \/ Tick \/ AdcInterrupt \/ MessageConfirmed
    \/ Begin \/ GoOn
    \/ Notify \/ NotifyTimesOut

\* The counter runs, a conversion ends, and the handler leaves the processor to
\* the main loop between two notifications, again and again.
Fairness ==
    /\ WF_vars(Tick) /\ WF_vars(AdcInterrupt) /\ WF_vars(NotifyTimesOut)
    /\ SF_vars(GoOn)

Spec == Init /\ [][Next]_vars /\ Fairness
-----------------------------------------------------------------------------
\* What the main loop waits for has happened.
MainDone ==
    \/ user = "adc" /\ ~adc_conversion_in_progress
    \/ user = "ble" /\ ~ble_tx_in_progress

\* Whenever the main loop waits (adc.c:62, ble_uart.c:280) or searches
\* (memory_organization.c:364) for something that has not happened, the timeout
\* is running or has struck, unless the handler took it away; a delay (RTC.c:126)
\* is always running or over.
WaitGuarded ==
    /\ (pc \in Relying /\ ~MainDone /\ ~robbed) => (inten1 \/ timeout_flag)
    /\ pc = "delaying" => (inten0 \/ wait_flag)

\* A wait or search of the main loop is told of a timeout before its time only
\* if it was started while somebody else's timeout ran (RTC.c:143).
NoEarlyTimeout ==
    (pc \in Relying /\ timeout_flag /\ handler = "idle" /\ ~inherited)
        => elapsed >= Duration[user]

\* Every wait and search of the main loop ends, and so does every delay and the
\* handler's wait, unless the handler took the timeout away (ble_uart.c:263).
WaitsEnd ==
    /\ (pc = "wait") ~> (pc # "wait" \/ robbed)
    /\ (pc \in KeyReading) ~> (pc = "idle" \/ robbed)
    /\ (pc = "delaying") ~> (pc # "delaying")
    /\ (handler = "waiting") ~> (handler = "idle")
=============================================================================
