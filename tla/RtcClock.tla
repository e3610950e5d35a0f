------------------------------ MODULE RtcClock ------------------------------
(***************************************************************************)
(* The clock of RTC.c: rtc_timestamp counts the seconds up to the last     *)
(* overflow of the counter of the RTC, the counter the time since then.    *)
(* The main loop reads it, the BLE handler sets it, between any two loads  *)
(* of the main loop, and the overflow interrupt comes between any two      *)
(* loads of either.                                                        *)
(*                                                                         *)
(* RtcTimeout is the other half of RTC.c.  What both have is named for the *)
(* clock here, so that a module can extend both.                           *)
(***************************************************************************)
EXTENDS Naturals

CONSTANTS
    Second,         \* ticks of a second (2^15)
    Overflow,       \* seconds to an overflow of the counter (RTC_OVERFLOW_TIME)
    Range,          \* values of a timestamp (2^32)
    Slack           \* ticks that a call of RTC_Set_Timestamp may last

\* Half a second, less a tick, is a time.
ASSUME SecondAssumption   == Second \in Nat /\ Second > 3
ASSUME OverflowAssumption == Overflow \in Nat \ {0}
ASSUME RangeAssumption    == Range \in Nat /\ Range > Overflow
ASSUME SlackAssumption    == Slack \in Nat

Timestamps == 0..(Range - 1)

\* RTC_COUNTER_HALF_SECOND.
HalfSecond == Second \div 2 - 1

VARIABLES
    counter, rtc_timestamp,
    reader,                         \* RTC_Get_Timestamp in the main loop
    high, low,                      \* what it has loaded
    setter,                         \* RTC_Set_Timestamp in the BLE handler
    timestamp, timestamp_buffer,
    ideal,                          \* ticks, as if set exactly when asked, or 0
    spent,                          \* ticks since the setter was called
    slipped,                        \* the counter passed on between its loads
    seen,                           \* what the clock showed during a reading
    torn,                           \* an overflow between the loads of a reading
    reset                           \* a setting between them

reading == <<reader, high, low>>
setting == <<setter, timestamp, timestamp_buffer>>
clock_vars == <<counter, rtc_timestamp, reading, setting, ideal, spent, slipped,
                seen, torn, reset>>

IntSec == counter \div Second
SubSec == counter % Second

Clock == (rtc_timestamp + IntSec) % Range

ClockTypeOK ==
    /\ counter \in 0..(Overflow * Second - 1)
    /\ rtc_timestamp \in Timestamps
    /\ reader \in {"idle", "counter", "high", "done"}
    /\ high \in Timestamps /\ low \in 0..(Overflow - 1)
    /\ setter \in {"idle", "round", "store"}
    /\ timestamp \in Timestamps /\ timestamp_buffer \in Timestamps
    /\ ideal \in 0..(Range * Second - 1)
    /\ spent \in 0..Slack
    /\ slipped \in BOOLEAN /\ torn \in BOOLEAN /\ reset \in BOOLEAN
    /\ seen \subseteq Timestamps

ClockInit ==
    /\ counter = 0 /\ rtc_timestamp = 0
    /\ reader = "idle" /\ high = 0 /\ low = 0
    /\ setter = "idle" /\ timestamp = 0 /\ timestamp_buffer = 0
    /\ ideal = 0 /\ spent = 0 /\ slipped = FALSE
    /\ seen = {} /\ torn = FALSE /\ reset = FALSE
-----------------------------------------------------------------------------
(* The counter, and with its overflow the interrupt, which nothing of the  *)
(* application holds up.                                                   *)

\* A reading is under way: what the clock shows next is seen too.
Seen == IF reader \in {"counter", "high"} THEN seen \cup {Clock'} ELSE seen

ClockTick_OneTooMany ==
    LET overflow == counter = Overflow * Second - 1
    IN  /\ counter' = IF overflow THEN 0 ELSE counter + 1
        /\ rtc_timestamp' = IF overflow
                            THEN (rtc_timestamp + Overflow + 1) % Range
                            ELSE rtc_timestamp
        /\ setter # "idle" => spent < Slack
        /\ spent' = IF setter = "idle" THEN spent ELSE spent + 1
        /\ slipped' = (slipped \/ (setter = "round" /\ SubSec = Second - 1)
                               \/ (setter = "store" /\ overflow))
        /\ ideal' = IF slipped' THEN 0 ELSE (ideal + 1) % (Range * Second)
        /\ torn' = (torn \/ (reader \in {"counter", "high"} /\ overflow))
        /\ seen' = Seen
        /\ UNCHANGED <<reading, setting, reset>>

ClockTick ==
    LET overflow == counter = Overflow * Second - 1
    IN  /\ counter' = IF overflow THEN 0 ELSE counter + 1
        /\ rtc_timestamp' = IF overflow
                            THEN (rtc_timestamp + Overflow) % Range
                            ELSE rtc_timestamp
        /\ setter # "idle" => spent < Slack
        /\ spent' = IF setter = "idle" THEN spent ELSE spent + 1
        /\ slipped' = (slipped \/ (setter = "round" /\ SubSec = Second - 1)
                               \/ (setter = "store" /\ overflow))
        /\ ideal' = IF slipped' THEN 0 ELSE (ideal + 1) % (Range * Second)
        /\ torn' = (torn \/ (reader \in {"counter", "high"} /\ overflow))
        /\ seen' = Seen
        /\ UNCHANGED <<reading, setting, reset>>
-----------------------------------------------------------------------------
(* RTC_Get_Timestamp: two loads, in the order the compiler chooses.        *)

ReaderAt(here) == setter = "idle" /\ reader = here

\* The compiler keeps the high part in a register, as if it were not volatile.
LoadFirst_Cached ==
    /\ ReaderAt("idle")
    /\ \/ reader' = "counter" /\ UNCHANGED <<high, low>>
       \/ reader' = "high" /\ low' = IntSec /\ UNCHANGED high
    /\ seen' = {Clock}
    /\ torn' = FALSE /\ reset' = FALSE
    /\ UNCHANGED <<counter, rtc_timestamp, setting, ideal, spent, slipped>>

LoadFirst ==
    /\ ReaderAt("idle")
    /\ \/ reader' = "counter" /\ high' = rtc_timestamp /\ UNCHANGED low
       \/ reader' = "high" /\ low' = IntSec /\ UNCHANGED high
    /\ seen' = {Clock}
    /\ torn' = FALSE /\ reset' = FALSE
    /\ UNCHANGED <<counter, rtc_timestamp, setting, ideal, spent, slipped>>

LoadSecond ==
    /\ \/ ReaderAt("counter") /\ low' = IntSec /\ UNCHANGED high
       \/ ReaderAt("high") /\ high' = rtc_timestamp /\ UNCHANGED low
    /\ reader' = "done"
    /\ UNCHANGED <<counter, rtc_timestamp, setting, ideal, spent, slipped, seen,
                   torn, reset>>

Reading == (high + low) % Range

UseReading ==
    /\ ReaderAt("done")
    /\ reader' = "idle" /\ high' = 0 /\ low' = 0
    /\ seen' = {} /\ torn' = FALSE /\ reset' = FALSE
    /\ UNCHANGED <<counter, rtc_timestamp, setting, ideal, spent, slipped>>
-----------------------------------------------------------------------------
(* RTC_Set_Timestamp: the seconds are loaded, then the fraction, and the   *)
(* difference, an unsigned one, is stored.  It is never below zero: the    *)
(* guard in between lets every timestamp pass.                             *)

LoadSeconds_Signed ==
    /\ setter = "idle"
    /\ setter' = "round"
    /\ timestamp' \in Timestamps
    /\ timestamp_buffer' = timestamp' - IntSec
    /\ ideal' = timestamp' * Second
    /\ spent' = 0 /\ slipped' = FALSE
    /\ UNCHANGED <<counter, rtc_timestamp, reading, seen, torn, reset>>

LoadSeconds ==
    /\ setter = "idle"
    /\ setter' = "round"
    /\ timestamp' \in Timestamps
    /\ timestamp_buffer' = (timestamp' + Range - IntSec) % Range
    /\ ideal' = timestamp' * Second
    /\ spent' = 0 /\ slipped' = FALSE
    /\ UNCHANGED <<counter, rtc_timestamp, reading, seen, torn, reset>>

RoundFraction ==
    /\ setter = "round"
    /\ setter' = "store"
    /\ timestamp_buffer' = IF SubSec >= HalfSecond
                           THEN (timestamp_buffer + Range - 1) % Range
                           ELSE timestamp_buffer
    /\ UNCHANGED <<counter, rtc_timestamp, reading, timestamp, ideal, spent,
                   slipped, seen, torn, reset>>

StoreTimestamp ==
    /\ setter = "store"
    /\ setter' = "idle"
    /\ rtc_timestamp' = timestamp_buffer
    /\ timestamp' = 0 /\ timestamp_buffer' = 0
    /\ reset' = (reset \/ reader \in {"counter", "high"})
    /\ UNCHANGED <<counter, reading, ideal, spent, slipped, torn>>
    /\ seen' = Seen
-----------------------------------------------------------------------------
ClockNext ==
    \/ ClockTick
    \/ LoadFirst \/ LoadSecond \/ UseReading
    \/ LoadSeconds \/ RoundFraction \/ StoreTimestamp

ClockSpec == ClockInit /\ [][ClockNext]_clock_vars
-----------------------------------------------------------------------------
\* The clock runs as it was set, within half a second, a tick and the time the
\* call took, over every overflow of the counter (RTC.c:52) and of the timestamp,
\* unless the counter passed a second, or overflowed, within the call
\* (RTC.c:88-95).
Error == (Clock * Second + SubSec + Range * Second - ideal) % (Range * Second)

ClockRight ==
    (setter = "idle" /\ ~slipped) =>
        \/ Error < HalfSecond
        \/ Error >= Range * Second - (Second - HalfSecond + Slack)

\* What the main loop reads is what the clock showed at some moment of the
\* reading.  An overflow between its two loads makes it wrong by one overflow,
\* forwards or backwards (RTC.c:76); a setting between them leaves it neither on
\* the old time nor on the new one.
ReadingRight ==
    (reader = "done" /\ ~reset) =>
        \E t \in seen :
            \/ Reading = t
            \/ torn /\ Reading = (t + Overflow) % Range
            \/ torn /\ t = (Reading + Overflow) % Range
=============================================================================
