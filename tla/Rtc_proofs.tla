----------------------------- MODULE Rtc_proofs -----------------------------
(***************************************************************************)
(* Theorems about the two halves of RTC.c, the clock and the timeout.      *)
(*                                                                         *)
(* RtcClock, for every second, overflow time, range of a timestamp and     *)
(* duration of a call: types, that the clock runs as it was set, and what  *)
(* a reading can be.  A reading may last for any number of overflows.  It  *)
(* is right by one overflow because the clock shows all seconds between    *)
(* two overflows, so that those that the reading is off by have been seen  *)
(* too.  That the clock is right is counted in ticks, up to whole turns of *)
(* the timestamp, an equivalence that every step respects.                 *)
(*                                                                         *)
(* RtcTimeout, for every wrap of the counter and all durations below it:   *)
(* types, that no wait is left without a timeout unless the handler took   *)
(* it, and that no timeout of one's own is early.  The last rests on the   *)
(* distance to the next match: from the moment the compare register is     *)
(* set, the ticks already counted and those to come make up the duration.  *)
(***************************************************************************)
EXTENDS RtcClock, RtcTimeout, Integers, TLAPS

-----------------------------------------------------------------------------
(* Arithmetic of the clock                                                 *)

LEMMA Quotient ==
  ASSUME NEW n \in Nat, NEW d \in Nat \ {0}
  PROVE  /\ n \div d \in Nat /\ n % d \in 0 .. d - 1
         /\ n = d * (n \div d) + (n % d)
<1>1. n % d \in 0 .. d - 1
  OBVIOUS
<1>2. n = d * (n \div d) + (n % d)
  OBVIOUS
<1>3. n \div d \in Nat
  OBVIOUS
<1> QED
  BY <1>1, <1>2, <1>3

LEMMA QuotientIs ==
  ASSUME NEW n \in Nat, NEW d \in Nat \ {0},
         NEW q \in Int, NEW r \in 0 .. (d - 1), n = d * q + r
  PROVE  n \div d = q /\ n % d = r
<1> DEFINE p == n \div d
           s == n % d
<1>1. p \in Nat /\ s \in 0 .. d - 1 /\ n = d * p + s
  BY Quotient
<1> HIDE DEF p, s
<1>2. d * (p - q) = r - s /\ r - s < d /\ r - s > - d
  BY <1>1
<1>3. ~(p - q >= 1)
  <2> SUFFICES ASSUME p - q >= 1 PROVE FALSE
    OBVIOUS
  <2>1. d * (p - q) >= d
    BY <1>1
  <2> QED
    BY <1>1, <1>2, <2>1
<1>4. ~(q - p >= 1)
  <2> SUFFICES ASSUME q - p >= 1 PROVE FALSE
    OBVIOUS
  <2>1. d * (q - p) >= d
    BY <1>1
  <2>2. d * (q - p) = -(d * (p - q))
    BY <1>1
  <2> QED
    BY <1>1, <1>2, <2>1, <2>2
<1>5. p = q
  BY <1>1, <1>3, <1>4
<1>6. s = r
  BY <1>1, <1>5
<1> QED
  BY <1>5, <1>6 DEF p, s

LEMMA Shifted ==
  ASSUME NEW n \in Nat, NEW m \in Nat, NEW d \in Nat \ {0}, NEW k \in Int,
         n = d * k + m
  PROVE  n % d = m % d
<1> DEFINE p == m \div d
           r == m % d
<1>1. p \in Nat /\ r \in 0 .. (d - 1) /\ m = d * p + r
  BY Quotient
<1> HIDE DEF p, r
<1>2. n = d * (k + p) + r /\ k + p \in Int
  BY <1>1
<1>3. n % d = r
  BY <1>1, <1>2, QuotientIs
<1> QED
  BY <1>3 DEF r

\* The seconds since the overflow.
LEMMA SecondsIn ==
  ASSUME NEW n \in 0 .. (Overflow * Second - 1)
  PROVE  /\ n \div Second \in 0 .. (Overflow - 1)
         /\ n % Second \in 0 .. (Second - 1)
         /\ n = Second * (n \div Second) + (n % Second)
<1> DEFINE i == n \div Second
           s == n % Second
<1>1. /\ Second \in Nat \ {0} /\ Overflow \in Nat \ {0}
      /\ Overflow * Second \in Nat
  BY SecondAssumption, OverflowAssumption
<1>2. n \in Nat /\ n < Overflow * Second
  BY <1>1
<1>3. i \in Nat /\ s \in 0 .. (Second - 1) /\ n = Second * i + s
  BY <1>1, <1>2, Quotient
<1> HIDE DEF i, s
<1>4. i < Overflow
  <2> SUFFICES ASSUME i >= Overflow PROVE FALSE
    BY <1>1, <1>3
  <2>1. i * Second >= Overflow * Second
    BY <1>1, <1>3
  <2>2. Second * i = i * Second
    BY <1>1, <1>3
  <2> QED
    BY <1>1, <1>2, <1>3, <2>1, <2>2
<1>5. i \in 0 .. (Overflow - 1)
  BY <1>1, <1>3, <1>4
<1> QED
  BY <1>3, <1>5 DEF i, s

LEMMA Seconds ==
  ASSUME counter \in 0 .. (Overflow * Second - 1)
  PROVE  /\ IntSec \in 0 .. (Overflow - 1) /\ SubSec \in 0 .. (Second - 1)
         /\ counter = Second * IntSec + SubSec
BY SecondsIn DEF IntSec, SubSec

\* The seconds before and after a tick.
LEMMA SecondsPass ==
  ASSUME counter \in 0 .. (Overflow * Second - 1), ClockTick
  PROVE  /\ counter' \in 0 .. (Overflow * Second - 1)
         /\ counter = Overflow * Second - 1 =>
              IntSec = Overflow - 1 /\ IntSec' = 0
         /\ counter # Overflow * Second - 1 =>
              IntSec' = IntSec \/ IntSec' = IntSec + 1
<1> DEFINE P == Overflow * Second
           i == IntSec
           s == SubSec
<1>1. /\ Second \in Nat /\ Second > 1 /\ Overflow \in Nat \ {0} /\ P \in Nat
      /\ P > 0
  BY SecondAssumption, OverflowAssumption
<1>2. counter \in Nat /\ counter < P
  BY <1>1
<1>3. counter' = IF counter = P - 1 THEN 0 ELSE counter + 1
  BY DEF ClockTick
<1>4. /\ i \in 0 .. Overflow - 1 /\ s \in 0 .. Second - 1
      /\ counter = Second * i + s
  BY Seconds
<1>5. counter' \in 0 .. P - 1
  BY <1>1, <1>2, <1>3
<1>6. IntSec' = counter' \div Second /\ i = counter \div Second
      /\ IntSec = i
  BY DEF IntSec
<1>7. P = Second * (Overflow - 1) + Second
  BY <1>1
<1> HIDE DEF i, s, P
<1>8. ASSUME counter = P - 1
      PROVE  i = Overflow - 1 /\ IntSec' = 0
  <2>1. counter = Second * (Overflow - 1) + (Second - 1)
    BY <1>1, <1>7, <1>8
  <2>2. counter \div Second = Overflow - 1
    <3>1. Overflow - 1 \in Int /\ Second - 1 \in 0 .. (Second - 1)
      BY <1>1
    <3> QED
      BY <1>1, <1>2, <2>1, <3>1, QuotientIs
  <2>3. counter' = Second * 0 + 0
    BY <1>1, <1>3, <1>8
  <2>4. IntSec' = 0
    BY <1>1, <1>6, <2>3, QuotientIs
  <2> QED
    BY <1>6, <2>2, <2>4
<1>9. ASSUME counter # P - 1
      PROVE  IntSec' = i \/ IntSec' = i + 1
  <2>1. counter' = counter + 1 /\ counter' \in Nat
    BY <1>2, <1>3, <1>9
  <2>2. CASE s = Second - 1
    <3>1. Second * (i + 1) = Second * i + Second
      BY <1>1, <1>4
    <3>2. counter' = Second * (i + 1) + 0
      BY <1>1, <1>4, <2>1, <2>2, <3>1
    <3>3. i + 1 \in Int /\ 0 \in 0 .. (Second - 1)
      BY <1>1, <1>4
    <3>4. counter' \div Second = i + 1
      BY <1>1, <2>1, <3>2, <3>3, QuotientIs
    <3> QED
      BY <1>6, <3>4
  <2>3. CASE s # Second - 1
    <3>1. counter' = Second * i + (s + 1) /\ s + 1 \in 0 .. Second - 1
      BY <1>1, <1>4, <2>1, <2>3
    <3>2. counter' \div Second = i
      BY <1>1, <1>4, <2>1, <3>1, QuotientIs
    <3> QED
      BY <1>6, <3>2
  <2> QED
    BY <2>2, <2>3
<1> QED
  BY <1>5, <1>6, <1>8, <1>9 DEF P

\* Seconds of a timestamp may be added before or after the wrap.
LEMMA Wrapped ==
  ASSUME NEW a \in Nat, NEW b \in Nat
  PROVE  /\ a % Range \in Timestamps
         /\ ((a % Range) + b) % Range = (a + b) % Range
<1>1. Range \in Nat \ {0}
  BY RangeAssumption, OverflowAssumption
<1> DEFINE R == Range
<1> HIDE DEF R
<1>2. R \in Nat \ {0}
  BY <1>1 DEF R
<1> DEFINE q == a \div R
           r == a % R
<1>3. q \in Nat /\ r \in 0 .. (R - 1) /\ a = R * q + r
  BY <1>2, Quotient
<1> HIDE DEF q, r
<1> DEFINE x == a + b
           y == r + b
<1>4. x = R * q + y /\ x \in Nat /\ y \in Nat /\ q \in Int
  BY <1>2, <1>3
<1>5. x % R = y % R
  <2> HIDE DEF x, y
  <2> QED
    BY <1>2, <1>4, Shifted
<1> QED
  BY <1>3, <1>5 DEF R, r, Timestamps

-----------------------------------------------------------------------------
(* Types                                                                   *)

LEMMA Sizes ==
    /\ Second \in Nat \ {0} /\ Overflow \in Nat \ {0} /\ Range \in Nat \ {0}
    /\ Overflow < Range /\ Slack \in Nat
    /\ Range * Second \in Nat \ {0}
<1>1. Second \in Nat /\ Second >= 1 /\ Range \in Nat /\ Range >= 1
  BY SecondAssumption, OverflowAssumption, RangeAssumption
<1>2. Range * Second \in Nat /\ Range * Second >= Range
  BY <1>1
<1> QED
  BY <1>1, <1>2, OverflowAssumption, RangeAssumption, SlackAssumption

\* Sums and differences of a timestamp and the seconds since an overflow.
LEMMA Sums ==
  ASSUME NEW t \in Timestamps, NEW i \in 0 .. (Overflow - 1)
  PROVE  /\ t \in Nat /\ i \in Nat
         /\ (t + i) % Range \in Timestamps
         /\ (t + Range - i) % Range \in Timestamps
         /\ t * Second \in 0 .. (Range * Second - 1)
<1>1. /\ t \in Nat /\ i \in Nat /\ t + i \in Nat /\ t + Range - i \in Nat
      /\ 0 \in Nat /\ t + 1 <= Range
  BY Sizes DEF Timestamps
<1>2. t * Second \in 0 .. (Range * Second - 1)
  <2>1. Second \in Nat /\ Second >= 1 /\ Range \in Nat
    BY Sizes
  <2>2. (t + 1) * Second <= Range * Second
    BY <1>1, <2>1
  <2>3. (t + 1) * Second = t * Second + Second
    BY <1>1, <2>1
  <2>4. t * Second \in Nat /\ Range * Second \in Nat
    BY <1>1, <2>1
  <2> QED
    BY <2>1, <2>2, <2>3, <2>4
<1> QED
  BY <1>1, <1>2, Wrapped

\* What the clock shows is a timestamp.
LEMMA ShownType ==
  ASSUME ClockTypeOK
  PROVE  Clock \in Timestamps /\ IntSec \in 0 .. (Overflow - 1)
BY Seconds, Sums DEF ClockTypeOK, Clock

LEMMA ShownTypeNext ==
  ASSUME rtc_timestamp' \in Timestamps, IntSec' \in 0 .. (Overflow - 1)
  PROVE  Clock' \in Timestamps
<1>1. (rtc_timestamp' + IntSec') % Range \in Timestamps
  BY Sums
<1> QED
  BY <1>1 DEF Clock

LEMMA ClockTypeInit == ClockInit => ClockTypeOK
<1> SUFFICES ASSUME ClockInit PROVE ClockTypeOK
  OBVIOUS
<1>1. Overflow * Second \in Nat /\ Overflow * Second >= 1
  <2>1. Second \in Nat /\ Second >= 1 /\ Overflow \in Nat /\ Overflow >= 1
    BY Sizes
  <2>2. Overflow * Second >= Overflow
    BY <2>1
  <2> QED
    BY <2>1, <2>2
<1>2. 0 \in 0 .. (Overflow * Second - 1) /\ 0 \in 0 .. (Range * Second - 1)
  BY <1>1, Sizes
<1>3. 0 \in Timestamps /\ 0 \in 0 .. (Overflow - 1) /\ 0 \in 0 .. Slack
  BY Sizes DEF Timestamps
<1> QED
  BY <1>2, <1>3 DEF ClockInit, ClockTypeOK

LEMMA TickType == ClockTypeOK /\ ClockTick => ClockTypeOK'
<1> SUFFICES ASSUME ClockTypeOK, ClockTick PROVE ClockTypeOK'
  OBVIOUS
<1>1. counter' \in 0 .. (Overflow * Second - 1)
  BY SecondsPass DEF ClockTypeOK
<1>2. IntSec' \in 0 .. (Overflow - 1)
  BY <1>1, SecondsIn DEF IntSec
<1>3. rtc_timestamp' \in Timestamps
  <2>1. rtc_timestamp \in Nat /\ Overflow \in Nat
    BY Sizes DEF ClockTypeOK, Timestamps
  <2>2. (rtc_timestamp + Overflow) % Range \in Timestamps
    <3>1. rtc_timestamp + Overflow \in Nat /\ 0 \in Nat
      BY <2>1
    <3> QED
      BY <3>1, Wrapped
  <2> QED
    BY <2>2 DEF ClockTick, ClockTypeOK
<1>4. ideal' \in 0 .. (Range * Second - 1)
  <2> DEFINE M == Range * Second
  <2>1. M \in Nat \ {0} /\ ideal \in 0 .. (M - 1)
    BY Sizes DEF ClockTypeOK
  <2>2. ideal' = IF slipped' THEN 0 ELSE (ideal + 1) % M
    BY DEF ClockTick
  <2> HIDE DEF M
  <2>3. (ideal + 1) % M \in 0 .. (M - 1) /\ 0 \in 0 .. (M - 1)
    BY <2>1
  <2>4. ideal' \in 0 .. (M - 1)
    BY <2>2, <2>3
  <2> QED
    BY <2>4 DEF M
<1>5. spent' \in 0 .. Slack
  <2>1. setter # "idle" => spent < Slack
    BY DEF ClockTick
  <2>2. spent' = IF setter = "idle" THEN spent ELSE spent + 1
    BY DEF ClockTick
  <2> QED
    BY <2>1, <2>2, Sizes DEF ClockTypeOK
<1>6. slipped' \in BOOLEAN /\ torn' \in BOOLEAN
  BY DEF ClockTick, ClockTypeOK
<1>7. seen' \subseteq Timestamps
  <2>1. Clock' \in Timestamps
    BY <1>1, <1>2, <1>3, ShownTypeNext
  <2> QED
    BY <2>1 DEF ClockTick, Seen, ClockTypeOK
<1>8. UNCHANGED <<reading, setting, reset>>
  BY DEF ClockTick
<1> QED
  BY <1>1, <1>3, <1>4, <1>5, <1>6, <1>7, <1>8 DEF ClockTypeOK, reading, setting

LEMMA ClockTypeNext == ClockTypeOK /\ [ClockNext]_clock_vars => ClockTypeOK'
<1> SUFFICES ASSUME ClockTypeOK, [ClockNext]_clock_vars PROVE ClockTypeOK'
  OBVIOUS
<1>1. CASE ClockTick
  BY <1>1, TickType
<1>2. CASE LoadFirst
  <2>1. Clock \in Timestamps /\ IntSec \in 0 .. (Overflow - 1)
    BY ShownType
  <2> QED
    BY <1>2, <2>1 DEF LoadFirst, ReaderAt, ClockTypeOK, setting
<1>3. CASE LoadSecond
  <2>1. IntSec \in 0 .. (Overflow - 1)
    BY ShownType
  <2> QED
    BY <1>3, <2>1 DEF LoadSecond, ReaderAt, ClockTypeOK, setting
<1>4. CASE UseReading
  <2>1. 0 \in Timestamps /\ 0 \in 0 .. (Overflow - 1)
    BY Sizes DEF Timestamps
  <2> QED
    BY <1>4, <2>1 DEF UseReading, ReaderAt, ClockTypeOK, setting
<1>5. CASE LoadSeconds
  <2>1. timestamp' \in Timestamps
    BY <1>5 DEF LoadSeconds
  <2>2. /\ (timestamp' + Range - IntSec) % Range \in Timestamps
        /\ timestamp' * Second \in 0 .. (Range * Second - 1)
    BY <2>1, ShownType, Sums
  <2>3. /\ timestamp_buffer' \in Timestamps
        /\ ideal' \in 0 .. (Range * Second - 1)
    BY <1>5, <2>2 DEF LoadSeconds
  <2>4. spent' \in 0 .. Slack
    BY <1>5, Sizes DEF LoadSeconds
  <2> QED
    BY <1>5, <2>1, <2>3, <2>4 DEF LoadSeconds, ClockTypeOK, reading
<1>6. CASE RoundFraction
  <2>1. timestamp_buffer' \in Timestamps
    <3>1. timestamp_buffer + Range - 1 \in Nat /\ 0 \in Nat
      BY Sizes DEF ClockTypeOK, Timestamps
    <3>2. (timestamp_buffer + Range - 1) % Range \in Timestamps
      BY <3>1, Wrapped
    <3> QED
      BY <1>6, <3>2 DEF RoundFraction, ClockTypeOK
  <2> QED
    BY <1>6, <2>1 DEF RoundFraction, ClockTypeOK, reading
<1>7. CASE StoreTimestamp
  <2>1. /\ counter' = counter /\ rtc_timestamp' \in Timestamps
        /\ IntSec' = IntSec
    BY <1>7 DEF StoreTimestamp, ClockTypeOK, IntSec
  <2>2. Clock' \in Timestamps
    BY <2>1, ShownType, ShownTypeNext DEF ClockTypeOK
  <2>3. 0 \in Timestamps
    BY Sizes DEF Timestamps
  <2> QED
    BY <1>7, <2>1, <2>2, <2>3 DEF StoreTimestamp, Seen, ClockTypeOK, reading
<1>8. CASE UNCHANGED clock_vars
  BY <1>8 DEF clock_vars, reading, setting, ClockTypeOK
<1> QED
  BY <1>1, <1>2, <1>3, <1>4, <1>5, <1>6, <1>7, <1>8 DEF ClockNext

\* Type correctness of the clock, a reading and a setting (RTC.c:46-100).
THEOREM ClockTypeCorrect == ClockSpec => []ClockTypeOK
BY ClockTypeInit, ClockTypeNext, PTL DEF ClockSpec

-----------------------------------------------------------------------------
(* Readings                                                                *)

Shown(n) == n % Range \in seen

\* The high part has been loaded.  Since then the clock has shown all that the
\* counter can be added to, except what it is about to show for the first time.
HighLoaded ==
    /\ ~torn => rtc_timestamp = high /\ Clock \in seen
    /\ torn => \A j \in 0 .. (Overflow - 1) :
                   \/ Shown(high + Overflow + j)
                   \/ /\ rtc_timestamp = (high + Overflow) % Range
                      /\ j > IntSec

\* The counter has been loaded.  Behind the last overflow the clock has shown
\* all up to now, and before it the seconds that have been loaded.
LowLoaded ==
    /\ ~torn => Shown(rtc_timestamp + low)
    /\ torn => /\ \E t \in seen : (rtc_timestamp + low) % Range
                                      = (t + Overflow) % Range
               /\ \A j \in 0 .. IntSec : Shown(rtc_timestamp + j)

ReadInv ==
    /\ reader = "counter" /\ ~reset => HighLoaded
    /\ reader = "high" /\ ~reset => LowLoaded
    /\ ReadingRight

IInv == ClockTypeOK /\ ReadInv

\* What the clock shows in a step stays, and is added to, during a reading.
LEMMA TickShows ==
  ASSUME ClockTypeOK, ClockTick, reader \in {"counter", "high"}
  PROVE  /\ seen \subseteq seen' /\ Clock' \in seen'
         /\ UNCHANGED <<reader, high, low, reset>>
         /\ Clock' = (rtc_timestamp' + IntSec') % Range
         /\ IntSec \in 0 .. (Overflow - 1)
         /\ rtc_timestamp \in Nat /\ high \in Nat /\ low \in 0 .. (Overflow - 1)
<1>1. seen' = seen \cup {Clock'}
  BY DEF ClockTick, Seen
<1>2. UNCHANGED <<reader, high, low, reset>>
  BY DEF ClockTick, reading
<1>3. /\ IntSec \in 0 .. (Overflow - 1)
      /\ rtc_timestamp \in Nat /\ high \in Nat /\ low \in 0 .. (Overflow - 1)
  BY ShownType, Sizes DEF ClockTypeOK, Timestamps
<1> QED
  BY <1>1, <1>2, <1>3 DEF Clock

LEMMA HighLoadedTick ==
  ASSUME ClockTypeOK, ClockTick, reader = "counter", HighLoaded
  PROVE  HighLoaded'
<1>1. /\ seen \subseteq seen' /\ Clock' \in seen' /\ high' = high
      /\ Clock' = (rtc_timestamp' + IntSec') % Range
      /\ IntSec \in 0 .. (Overflow - 1)
      /\ rtc_timestamp \in Nat /\ high \in Nat
  BY TickShows
<1>2. Overflow \in Nat \ {0}
  BY Sizes
<1>3. CASE counter # Overflow * Second - 1
  <2>1. rtc_timestamp' = rtc_timestamp /\ torn' = torn
    BY <1>3 DEF ClockTick, ClockTypeOK
  <2>2. IntSec' = IntSec \/ IntSec' = IntSec + 1
    BY <1>3, SecondsPass DEF ClockTypeOK
  <2>3. ASSUME torn, NEW j \in 0 .. (Overflow - 1)
        PROVE  \/ (high + Overflow + j) % Range \in seen'
               \/ rtc_timestamp = (high + Overflow) % Range /\ j > IntSec'
    <3>1. CASE Shown(high + Overflow + j)
      BY <1>1, <3>1 DEF Shown
    <3>2. CASE /\ rtc_timestamp = (high + Overflow) % Range
               /\ j > IntSec
      <4>1. CASE j = IntSec'
        <5>1. high + Overflow \in Nat /\ j \in Nat
          BY <1>1, <1>2
        <5>2. (((high + Overflow) % Range) + j) % Range
                = (high + Overflow + j) % Range
          BY <5>1, Wrapped
        <5> QED
          BY <1>1, <2>1, <3>2, <4>1, <5>2
      <4>2. CASE j # IntSec'
        <5>1. j > IntSec'
          BY <1>1, <1>2, <2>2, <3>2, <4>2
        <5> QED
          BY <3>2, <5>1
      <4> QED
        BY <4>1, <4>2
    <3> QED
      BY <2>3, <3>1, <3>2 DEF HighLoaded
  <2> QED
    BY <1>1, <2>1, <2>3 DEF HighLoaded, Shown
<1>4. CASE counter = Overflow * Second - 1
  <2>1. rtc_timestamp' = (rtc_timestamp + Overflow) % Range /\ torn'
    BY <1>4 DEF ClockTick
  <2>2. IntSec = Overflow - 1 /\ IntSec' = 0
    BY <1>4, SecondsPass DEF ClockTypeOK
  <2>3. ASSUME NEW j \in 0 .. (Overflow - 1)
        PROVE  \/ (high + Overflow + j) % Range \in seen'
               \/ rtc_timestamp' = (high + Overflow) % Range /\ j > IntSec'
    <3>1. CASE torn
      <4>1. ~(j > IntSec)
        BY <1>2, <2>2
      <4>2. Shown(high + Overflow + j)
        BY <3>1, <4>1 DEF HighLoaded
      <4> QED
        BY <1>1, <4>2 DEF Shown
    <3>2. CASE ~torn
      <4>1. rtc_timestamp' = (high + Overflow) % Range
        BY <2>1, <3>2 DEF HighLoaded
      <4>2. CASE j = 0
        <5>1. high + Overflow \in Nat /\ 0 \in Nat
          BY <1>1, <1>2
        <5>2. (((high + Overflow) % Range) + 0) % Range
                = (high + Overflow + 0) % Range
          BY <5>1, Wrapped
        <5> QED
          BY <1>1, <2>2, <4>1, <4>2, <5>2
      <4>3. CASE j # 0
        BY <2>2, <4>1, <4>3
      <4> QED
        BY <4>2, <4>3
    <3> QED
      BY <3>1, <3>2
  <2> QED
    BY <1>1, <2>1, <2>3 DEF HighLoaded, Shown
<1> QED
  BY <1>3, <1>4

LEMMA LowLoadedTick ==
  ASSUME ClockTypeOK, ClockTick, reader = "high", LowLoaded
  PROVE  LowLoaded'
<1>1. /\ seen \subseteq seen' /\ Clock' \in seen' /\ low' = low
      /\ Clock' = (rtc_timestamp' + IntSec') % Range
      /\ IntSec \in 0 .. (Overflow - 1)
      /\ rtc_timestamp \in Nat /\ low \in 0 .. (Overflow - 1)
  BY TickShows
<1>2. Overflow \in Nat \ {0}
  BY Sizes
<1>3. CASE counter # Overflow * Second - 1
  <2>1. rtc_timestamp' = rtc_timestamp /\ torn' = torn
    BY <1>3 DEF ClockTick, ClockTypeOK
  <2>2. IntSec' = IntSec \/ IntSec' = IntSec + 1
    BY <1>3, SecondsPass DEF ClockTypeOK
  <2>3. ASSUME torn, NEW j \in 0 .. IntSec'
        PROVE  (rtc_timestamp + j) % Range \in seen'
    <3>1. CASE j = IntSec'
      BY <1>1, <2>1, <3>1
    <3>2. CASE j # IntSec'
      <4>1. j \in 0 .. IntSec
        BY <1>1, <1>2, <2>2, <3>2
      <4> QED
        BY <1>1, <2>3, <4>1 DEF LowLoaded, Shown
    <3> QED
      BY <3>1, <3>2
  <2> QED
    BY <1>1, <2>1, <2>3 DEF LowLoaded, Shown
<1>4. CASE counter = Overflow * Second - 1
  <2>1. rtc_timestamp' = (rtc_timestamp + Overflow) % Range /\ torn'
    BY <1>4 DEF ClockTick
  <2>2. IntSec = Overflow - 1 /\ IntSec' = 0
    BY <1>4, SecondsPass DEF ClockTypeOK
  <2> DEFINE t == (rtc_timestamp + low) % Range
  <2>3. t \in seen
    <3>1. low \in 0 .. IntSec
      BY <1>1, <2>2
    <3> QED
      BY <3>1 DEF LowLoaded, Shown
  <2>4. (rtc_timestamp' + low) % Range = (t + Overflow) % Range
    <3>1. /\ rtc_timestamp + Overflow \in Nat /\ rtc_timestamp + low \in Nat
          /\ low \in Nat /\ Overflow \in Nat
          /\ rtc_timestamp + Overflow + low = rtc_timestamp + low + Overflow
      BY <1>1, <1>2
    <3>2. (((rtc_timestamp + Overflow) % Range) + low) % Range
            = (rtc_timestamp + Overflow + low) % Range
      BY <3>1, Wrapped
    <3>3. (t + Overflow) % Range = (rtc_timestamp + low + Overflow) % Range
      BY <3>1, Wrapped
    <3> QED
      BY <2>1, <3>1, <3>2, <3>3
  <2>5. \A j \in 0 .. IntSec' : (rtc_timestamp' + j) % Range \in seen'
    <3>1. \A j \in 0 .. 0 : j = 0
      OBVIOUS
    <3> QED
      BY <1>1, <2>2, <3>1
  <2>6. \E u \in seen' : (rtc_timestamp' + low) % Range = (u + Overflow) % Range
    BY <1>1, <2>3, <2>4
  <2> QED
    BY <1>1, <2>1, <2>5, <2>6 DEF LowLoaded, Shown
<1> QED
  BY <1>3, <1>4

LEMMA ReadInit == ClockInit => ReadInv
BY DEF ClockInit, ReadInv, ReadingRight

\* A reading that is done is left alone until it is used.
LEMMA DoneStays ==
  ASSUME ReadingRight, UNCHANGED <<reader, high, low>>, reset => reset',
         reader = "done" => UNCHANGED <<seen, torn>>
  PROVE  ReadingRight'
BY DEF ReadingRight, Reading

LEMMA TickReads ==
  ASSUME IInv, ClockTick
  PROVE  ReadInv'
<1>1. UNCHANGED <<reader, high, low, reset>>
  BY DEF ClockTick, reading
<1>2. ASSUME reader = "done"
      PROVE  UNCHANGED <<seen, torn>>
  BY <1>2 DEF ClockTick, Seen, IInv, ClockTypeOK
<1>3. ReadingRight'
  BY <1>1, <1>2, DoneStays DEF IInv, ReadInv
<1>4. reader = "counter" /\ ~reset => HighLoaded'
  BY HighLoadedTick DEF IInv, ReadInv
<1>5. reader = "high" /\ ~reset => LowLoaded'
  BY LowLoadedTick DEF IInv, ReadInv
<1> QED
  BY <1>1, <1>3, <1>4, <1>5 DEF ReadInv

LEMMA LoadFirstReads ==
  ASSUME IInv, LoadFirst
  PROVE  ReadInv'
<1>1. /\ reader' \in {"counter", "high"} /\ seen' = {Clock} /\ ~torn'
      /\ UNCHANGED <<counter, rtc_timestamp>>
      /\ reader' = "counter" => high' = rtc_timestamp
      /\ reader' = "high" => low' = IntSec
  BY DEF LoadFirst
<1>2. Clock' = Clock
  BY <1>1 DEF Clock, IntSec
<1>3. Clock = (rtc_timestamp + IntSec) % Range
  BY DEF Clock
<1>4. reader' = "counter" => HighLoaded'
  BY <1>1, <1>2 DEF HighLoaded
<1>5. reader' = "high" => LowLoaded'
  BY <1>1, <1>3 DEF LowLoaded, Shown
<1> QED
  BY <1>1, <1>4, <1>5 DEF ReadInv, ReadingRight

LEMMA LoadSecondReads ==
  ASSUME IInv, LoadSecond
  PROVE  ReadInv'
<1>1. reader' = "done" /\ UNCHANGED <<rtc_timestamp, seen, torn, reset>>
  BY DEF LoadSecond
<1>2. /\ IntSec \in 0 .. (Overflow - 1) /\ IntSec \in Nat /\ Overflow \in Nat
      /\ rtc_timestamp \in Nat /\ high \in Nat /\ low \in Nat
  <2>1. IntSec \in 0 .. (Overflow - 1)
    BY ShownType DEF IInv
  <2> QED
    BY <2>1, Sizes DEF IInv, ClockTypeOK, Timestamps
<1>3. ASSUME ~reset
      PROVE  \E t \in seen :
                 \/ Reading' = t
                 \/ torn /\ Reading' = (t + Overflow) % Range
                 \/ torn /\ t = (Reading' + Overflow) % Range
  <2>1. CASE ReaderAt("counter") /\ low' = IntSec /\ UNCHANGED high
    <3>1. HighLoaded
      BY <1>3, <2>1 DEF IInv, ReadInv, ReaderAt
    <3>2. Reading' = (high + IntSec) % Range
      BY <2>1 DEF Reading
    <3>3. CASE ~torn
      <4>1. Clock = (high + IntSec) % Range /\ Clock \in seen
        BY <3>1, <3>3 DEF HighLoaded, Clock
      <4> QED
        BY <3>2, <4>1
    <3>4. CASE torn
      <4>1. ~(IntSec > IntSec)
        BY <1>2
      <4>2. Shown(high + Overflow + IntSec)
        BY <1>2, <3>1, <3>4, <4>1 DEF HighLoaded
      <4>3. (Reading' + Overflow) % Range = (high + Overflow + IntSec) % Range
        <5>1. /\ high + IntSec \in Nat
              /\ high + IntSec + Overflow = high + Overflow + IntSec
          BY <1>2
        <5>2. (((high + IntSec) % Range) + Overflow) % Range
                = (high + IntSec + Overflow) % Range
          BY <1>2, <5>1, Wrapped
        <5> QED
          BY <3>2, <5>1, <5>2
      <4> QED
        BY <3>4, <4>2, <4>3 DEF Shown
    <3> QED
      BY <3>3, <3>4
  <2>2. CASE ReaderAt("high") /\ high' = rtc_timestamp /\ UNCHANGED low
    <3>1. LowLoaded
      BY <1>3, <2>2 DEF IInv, ReadInv, ReaderAt
    <3>2. Reading' = (rtc_timestamp + low) % Range
      BY <2>2 DEF Reading
    <3> QED
      BY <3>1, <3>2 DEF LowLoaded, Shown
  <2> QED
    BY <2>1, <2>2 DEF LoadSecond
<1> QED
  BY <1>1, <1>3 DEF ReadInv, ReadingRight

LEMMA ReadNext == IInv /\ [ClockNext]_clock_vars => ReadInv'
<1> SUFFICES ASSUME IInv, [ClockNext]_clock_vars PROVE ReadInv'
  OBVIOUS
<1>1. CASE ClockTick
  BY <1>1, TickReads
<1>2. CASE LoadFirst
  BY <1>2, LoadFirstReads
<1>3. CASE LoadSecond
  BY <1>3, LoadSecondReads
<1>4. CASE UseReading
  BY <1>4 DEF UseReading, ReadInv, ReadingRight
<1>5. CASE StoreTimestamp
  <2>1. /\ UNCHANGED <<reader, high, low, torn>>
        /\ reset' = (reset \/ reader \in {"counter", "high"})
        /\ reader = "done" => UNCHANGED seen
    BY <1>5 DEF StoreTimestamp, Seen, reading
  <2>2. ReadingRight'
    BY <2>1, DoneStays DEF IInv, ReadInv
  <2> QED
    BY <2>1, <2>2 DEF ReadInv
<1>6. CASE LoadSeconds \/ RoundFraction \/ UNCHANGED clock_vars
  <2>1. UNCHANGED <<counter, rtc_timestamp, reader, high, low, seen, torn,
                    reset>>
    BY <1>6 DEF LoadSeconds, RoundFraction, clock_vars, reading
  <2>2. Clock' = Clock /\ IntSec' = IntSec
    BY <2>1 DEF Clock, IntSec
  <2>3. HighLoaded' = HighLoaded /\ LowLoaded' = LowLoaded
    BY <2>1, <2>2 DEF HighLoaded, LowLoaded, Shown
  <2>4. ReadingRight'
    BY <2>1, DoneStays DEF IInv, ReadInv
  <2> QED
    BY <2>1, <2>3, <2>4 DEF IInv, ReadInv
<1> QED
  BY <1>1, <1>2, <1>3, <1>4, <1>5, <1>6 DEF ClockNext

\* What is read is what the clock showed at some moment of the reading, or one
\* overflow off when one came between the loads (RTC.c:76), however many came.
THEOREM ReadingsRight == ClockSpec => []ReadingRight
<1>1. ClockInit => IInv
  BY ClockTypeInit, ReadInit DEF IInv
<1>2. IInv /\ [ClockNext]_clock_vars => IInv'
  BY ClockTypeNext, ReadNext DEF IInv
<1>3. IInv => ReadingRight
  BY DEF IInv, ReadInv
<1> QED
  BY <1>1, <1>2, <1>3, PTL DEF ClockSpec

-----------------------------------------------------------------------------
(* The clock against the time that was set.  All is counted in ticks, and  *)
(* up to whole turns of the timestamp.                                     *)

Turn == Range * Second

Same(a, b) == \E k \in Int : a = b + k * Turn

LEMMA TurnType == Turn \in Nat \ {0}
BY Sizes DEF Turn

LEMMA SameSelf ==
  ASSUME NEW a \in Int
  PROVE  Same(a, a) /\ Same(a + Turn, a)
<1>1. a = a + 0 * Turn /\ a + Turn = a + 1 * Turn
  BY TurnType
<1> QED
  BY <1>1 DEF Same

LEMMA SameBack ==
  ASSUME NEW a \in Int, NEW b \in Int, Same(a, b)
  PROVE  Same(b, a)
<1>1. PICK k \in Int : a = b + k * Turn
  BY DEF Same
<1>2. b = a + (-k) * Turn /\ -k \in Int
  <2> DEFINE T == Turn
  <2>1. T \in Int
    BY TurnType
  <2> HIDE DEF T
  <2>2. a = b + k * T
    BY <1>1 DEF T
  <2>3. (-k) * T = -(k * T) /\ k * T \in Int
    BY <2>1
  <2>4. b = a + (-k) * T
    BY <2>1, <2>2, <2>3
  <2> QED
    BY <2>4 DEF T
<1> QED
  BY <1>2 DEF Same

LEMMA SameChain ==
  ASSUME NEW a \in Int, NEW b \in Int, NEW c \in Int, Same(a, b), Same(b, c)
  PROVE  Same(a, c)
<1> DEFINE T == Turn
<1>1. PICK k \in Int : a = b + k * T
  BY DEF Same
<1>2. PICK l \in Int : b = c + l * T
  BY DEF Same
<1>3. T \in Int
  BY TurnType
<1>4. ASSUME NEW t \in Int, a = b + k * t, b = c + l * t
      PROVE  a = c + (k + l) * t
  <2>1. (k + l) * t = k * t + l * t /\ k * t \in Int /\ l * t \in Int
    OBVIOUS
  <2> QED
    BY <1>4, <2>1
<1>5. a = c + (k + l) * T /\ k + l \in Int
  BY <1>1, <1>2, <1>3, <1>4
<1> QED
  BY <1>5 DEF Same

LEMMA SamePlus ==
  ASSUME NEW a \in Int, NEW b \in Int, NEW c \in Int, Same(a, b)
  PROVE  Same(a + c, b + c)
<1>1. PICK k \in Int : a = b + k * Turn
  BY DEF Same
<1>2. Turn \in Int /\ k * Turn \in Int
  BY TurnType
<1>3. ASSUME NEW t \in Int, a = b + t
      PROVE  a + c = (b + c) + t
  BY <1>3
<1>4. a + c = (b + c) + k * Turn
  BY <1>1, <1>2, <1>3
<1> QED
  BY <1>4 DEF Same

LEMMA SameModulo ==
  ASSUME NEW a \in Nat
  PROVE  Same(a % Turn, a)
<1> DEFINE T == Turn
           q == a \div T
           r == a % T
<1>1. T \in Nat \ {0}
  BY TurnType
<1>2. q \in Nat /\ r \in 0 .. (T - 1) /\ a = T * q + r
  BY <1>1, Quotient
<1> HIDE DEF T, q, r
<1>3. r = a + (-q) * T
  BY <1>1, <1>2
<1>4. -q \in Int
  BY <1>2
<1> QED
  BY <1>3, <1>4 DEF Same, r, T

\* Whole seconds modulo the range are whole seconds up to turns.
LEMMA SameSeconds ==
  ASSUME NEW n \in Nat
  PROVE  /\ Same((n % Range) * Second, n * Second)
         /\ (n % Range) * Second \in Nat /\ n * Second \in Nat
<1> DEFINE R == Range
           S == Second
           q == n \div R
           r == n % R
<1>1. R \in Nat \ {0} /\ S \in Nat
  BY Sizes
<1>2. q \in Nat /\ r \in 0 .. (R - 1) /\ n = R * q + r
  BY <1>1, Quotient
<1> HIDE DEF R, S, q, r
<1>3. n * S = (R * q) * S + r * S
  BY <1>1, <1>2
<1>4. (R * q) * S = q * (R * S)
  BY <1>1, <1>2
<1>5. (-q) * (R * S) = -(q * (R * S))
  BY <1>1, <1>2
<1>6. r * S \in Nat /\ n * S \in Nat /\ q * (R * S) \in Nat
  BY <1>1, <1>2
<1>7. r * S = n * S + (-q) * (R * S) /\ -q \in Int
  BY <1>2, <1>3, <1>4, <1>5, <1>6
<1> QED
  BY <1>6, <1>7 DEF Same, Turn, R, S, r

\* How far the clock may be off.
Allowed == {e \in Int : e < HalfSecond /\ e >= -(Second - HalfSecond + Slack)}

LEMMA HalfType ==
    HalfSecond \in Nat \ {0} /\ HalfSecond < Second /\ 0 \in Allowed
<1>1. Second \in Nat /\ Second > 3 /\ Slack \in Nat
  BY SecondAssumption, SlackAssumption
<1>2. HalfSecond \in Nat \ {0} /\ HalfSecond < Second
  BY <1>1 DEF HalfSecond
<1>3. 0 \in Allowed
  BY <1>1, <1>2 DEF Allowed
<1> QED
  BY <1>2, <1>3

\* Off by an amount that is allowed.
Near(seconds) ==
    \E e \in Allowed : Same(seconds * Second + counter, ideal + e)

\* What is going to be stored is right by the time since the call began: in
\* front of the rounding it lags by the fraction that was not spent in the call.
ClockInv ==
    ~slipped =>
        /\ setter = "idle" => Near(rtc_timestamp)
        /\ setter = "round" => /\ spent <= SubSec
                               /\ Same(timestamp_buffer * Second + counter,
                                       ideal + (SubSec - spent))
        /\ setter = "store" => Near(timestamp_buffer)

\* A number that is e up to turns leaves the remainder that e allows.
LEMMA Remainder ==
  ASSUME NEW x \in Nat, NEW e \in Allowed, Same(x, e)
  PROVE  \/ x % Turn < HalfSecond
         \/ x % Turn >= Turn - (Second - HalfSecond + Slack)
<1> DEFINE T == Turn
           H == HalfSecond
           L == Second - HalfSecond + Slack
<1>1. T \in Nat \ {0} /\ H \in Nat /\ L \in Nat /\ H < T
  <2>1. Range >= 1 /\ Range \in Nat /\ Second \in Nat /\ Slack \in Nat
    BY Sizes
  <2>2. Range * Second >= Second /\ Range * Second \in Nat
    BY <2>1
  <2> QED
    BY <2>1, <2>2, HalfType, TurnType DEF Turn
<1>2. e \in Int /\ e < H /\ e >= -L
  BY DEF Allowed
<1>3. PICK k \in Int : x = e + k * T
  BY DEF Same
<1> HIDE DEF T, H, L
<1>4. k * T = T * k /\ T * k \in Int /\ T * (k - 1) = T * k - T /\ k - 1 \in Int
  BY <1>1
<1>5. CASE e >= 0
  <2>1. x = T * k + e /\ e \in 0 .. (T - 1)
    BY <1>1, <1>2, <1>3, <1>4, <1>5
  <2>2. x % T = e
    BY <1>1, <2>1, QuotientIs
  <2>3. x % T < H
    BY <1>2, <2>2
  <2> QED
    BY <2>3 DEF T, H
<1>6. CASE e < 0 /\ e >= -T
  <2>1. x = T * (k - 1) + (T + e) /\ T + e \in 0 .. (T - 1)
    BY <1>1, <1>2, <1>3, <1>4, <1>6
  <2>2. x % T = T + e
    BY <1>1, <1>4, <2>1, QuotientIs
  <2>3. x % T >= T - L
    BY <1>1, <1>2, <2>2
  <2> QED
    BY <2>3 DEF T, L
<1>7. CASE e < -T
  <2>1. x % T \in 0 .. (T - 1)
    BY <1>1, Quotient
  <2>2. x % T >= T - L
    BY <1>1, <1>2, <1>7, <2>1
  <2> QED
    BY <2>2 DEF T, L
<1> QED
  BY <1>2, <1>1, <1>5, <1>6, <1>7

\* Numbers of ticks that the steps below are about.
LEMMA TickTypes ==
  ASSUME ClockTypeOK
  PROVE  /\ counter \in Nat /\ ideal \in Nat /\ ideal < Turn
         /\ rtc_timestamp \in Nat /\ timestamp_buffer \in Nat
         /\ rtc_timestamp * Second \in Nat /\ timestamp_buffer * Second \in Nat
         /\ IntSec \in Nat /\ SubSec \in Nat /\ SubSec < Second
         /\ counter = Second * IntSec + SubSec
<1>1. /\ counter \in Nat /\ rtc_timestamp \in Nat /\ timestamp_buffer \in Nat
      /\ ideal \in Nat /\ ideal < Turn
  BY Sizes, TurnType DEF ClockTypeOK, Timestamps, Turn
<1>2. /\ IntSec \in Nat /\ SubSec \in Nat /\ SubSec < Second
      /\ counter = Second * IntSec + SubSec
  BY Seconds, Sizes DEF ClockTypeOK
<1>3. \A n \in Nat : n * Second \in Nat
  BY SameSeconds
<1> QED
  BY <1>1, <1>2, <1>3

LEMMA NearIsRight ==
  ASSUME ClockTypeOK, Near(rtc_timestamp)
  PROVE  \/ Error < HalfSecond
         \/ Error >= Range * Second - (Second - HalfSecond + Slack)
<1> DEFINE c == Clock * Second
           d == (rtc_timestamp + IntSec) * Second
           w == rtc_timestamp * Second
           f == SubSec + Turn - ideal
<1>1. PICK e \in Allowed : Same(w + counter, ideal + e)
  BY DEF Near
<1>2. rtc_timestamp + IntSec \in Nat
  BY TickTypes
<1>3. Same(c, d) /\ c \in Nat /\ d \in Nat
  BY <1>2, SameSeconds DEF Clock
<1>4. d = w + Second * IntSec /\ w \in Nat
  <2>1. rtc_timestamp \in Nat /\ IntSec \in Nat /\ Second \in Nat
    BY TickTypes, Sizes
  <2> QED
    BY <2>1
<1>5. /\ counter \in Nat /\ ideal \in Nat /\ ideal < Turn /\ Turn \in Nat
      /\ SubSec \in Nat /\ counter = Second * IntSec + SubSec
      /\ Second * IntSec \in Nat /\ e \in Int
  BY TickTypes, TurnType, Sizes DEF Allowed
<1> HIDE DEF c, d, w
<1>6. f \in Int /\ c \in Int /\ d \in Int /\ f \in Nat
  BY <1>3, <1>5
<1>7. Same(c + f, d + f)
  <2> HIDE DEF f
  <2> QED
    BY <1>3, <1>6, SamePlus
<1>8. d + f = (w + counter) + (Turn - ideal) /\ Turn - ideal \in Int
  BY <1>4, <1>5
<1>9. Same(d + f, e + Turn)
  <2>1. Same((w + counter) + (Turn - ideal), (ideal + e) + (Turn - ideal))
    <3> DEFINE u == w + counter
               v == ideal + e
               g == Turn - ideal
    <3>1. u \in Int /\ v \in Int /\ g \in Int /\ Same(u, v)
      BY <1>1, <1>4, <1>5
    <3> HIDE DEF u, v, g
    <3>2. Same(u + g, v + g)
      BY <3>1, SamePlus
    <3> QED
      BY <3>2 DEF u, v, g
  <2>2. (ideal + e) + (Turn - ideal) = e + Turn
    BY <1>5
  <2> QED
    BY <1>8, <2>1, <2>2
<1>10. Same(e + Turn, e)
  BY <1>5, SameSelf
<1>11. c + f \in Nat /\ d + f \in Int /\ e + Turn \in Int
  BY <1>3, <1>5, <1>6
<1>12. Same(c + f, e)
  BY <1>5, <1>7, <1>9, <1>10, <1>11, SameChain
<1>13. Error = (c + f) % Turn
  <2>1. Error = (c + SubSec + Turn - ideal) % Turn
    BY DEF Error, Turn, c
  <2>2. c + SubSec + Turn - ideal = c + f
    BY <1>3, <1>5
  <2> QED
    BY <2>1, <2>2
<1> QED
  BY <1>11, <1>12, <1>13, Remainder DEF Turn

\* A tick moves the clock and the time it should show on alike.
LEMMA BothTick ==
  ASSUME ClockTypeOK, ClockTick, ~slipped', NEW a \in Int, NEW b \in Int, NEW e \in Int,
         Same(a, ideal + e), Same(b, a + 1)
  PROVE  Same(b, ideal' + e)
<1> DEFINE i == ideal
           j == ideal'
<1>1. i \in Nat /\ i + 1 \in Nat
  BY TickTypes
<1>2. j = (i + 1) % Turn
  BY DEF ClockTick, Turn
<1>3. Same(j, i + 1) /\ j \in Int
  <2>1. (i + 1) % Turn \in Int
    BY <1>1, TurnType, Quotient
  <2> QED
    BY <1>1, <1>2, <2>1, SameModulo
<1> HIDE DEF i, j
<1>4. Same(a + 1, (i + e) + 1)
  <2> DEFINE v == i + e
  <2>1. v \in Int /\ Same(a, v)
    BY <1>1 DEF i
  <2> HIDE DEF v
  <2>2. Same(a + 1, v + 1)
    BY <2>1, SamePlus
  <2> QED
    BY <2>2 DEF v
<1>5. Same((i + 1) + e, j + e)
  <2> DEFINE v == i + 1
  <2>1. v \in Int /\ Same(j, v)
    BY <1>1, <1>3
  <2> HIDE DEF v
  <2>2. Same(v, j)
    BY <1>3, <2>1, SameBack
  <2>3. Same(v + e, j + e)
    BY <1>3, <2>1, <2>2, SamePlus
  <2> QED
    BY <2>3 DEF v
<1>6. (i + e) + 1 = (i + 1) + e /\ (i + e) + 1 \in Int /\ j + e \in Int
  BY <1>1, <1>3
<1>7. Same(a + 1, j + e)
  BY <1>4, <1>5, <1>6, SameChain
<1>8. Same(b, j + e)
  BY <1>6, <1>7, SameChain
<1> QED
  BY <1>8 DEF j

LEMMA TickClock ==
  ASSUME ClockTypeOK, ClockInv, ClockTick
  PROVE  ClockInv'
<1> SUFFICES ASSUME ~slipped' PROVE ClockInv'
  BY DEF ClockInv
<1> DEFINE w == rtc_timestamp * Second
           x == timestamp_buffer * Second
<1>1. /\ counter \in Nat /\ w \in Nat /\ x \in Nat /\ Overflow \in Nat
      /\ rtc_timestamp \in Nat /\ Second \in Nat \ {0}
      /\ Overflow * Second \in Nat
  BY TickTypes, Sizes
<1>2. /\ ~slipped /\ UNCHANGED <<setter, timestamp_buffer>>
      /\ setter = "round" => SubSec # Second - 1
      /\ setter = "store" => counter # Overflow * Second - 1
      /\ counter' = IF counter = Overflow * Second - 1 THEN 0 ELSE counter + 1
  BY DEF ClockTick, setting
<1>3. CASE setter = "idle"
  <2>1. PICK e \in Allowed : Same(w + counter, ideal + e)
    BY <1>2, <1>3 DEF ClockInv, Near
  <2>2. Same(rtc_timestamp' * Second + counter', (w + counter) + 1)
    <3>1. CASE counter # Overflow * Second - 1
      <4>1. rtc_timestamp' = rtc_timestamp /\ counter' = counter + 1
        BY <3>1 DEF ClockTick
      <4>2. rtc_timestamp' * Second + counter' = (w + counter) + 1
        BY <1>1, <4>1
      <4>3. (w + counter) + 1 \in Int
        BY <1>1
      <4> QED
        BY <4>2, <4>3, SameSelf
    <3>2. CASE counter = Overflow * Second - 1
      <4>1. /\ rtc_timestamp' = (rtc_timestamp + Overflow) % Range
            /\ counter' = 0
        BY <3>2 DEF ClockTick
      <4>2. rtc_timestamp + Overflow \in Nat
        BY <1>1
      <4>3. /\ Same(rtc_timestamp' * Second,
                    (rtc_timestamp + Overflow) * Second)
            /\ rtc_timestamp' * Second \in Nat
        BY <4>1, <4>2, SameSeconds
      <4>4. (rtc_timestamp + Overflow) * Second = w + Overflow * Second
        BY <1>1
      <4>5. w + Overflow * Second = (w + counter) + 1
        BY <1>1, <3>2
      <4>6. rtc_timestamp' * Second + counter' = rtc_timestamp' * Second
        BY <4>1, <4>3
      <4> QED
        BY <4>3, <4>4, <4>5, <4>6
    <3> QED
      BY <3>1, <3>2
  <2>3. rtc_timestamp' * Second + counter' \in Int
    <3>1. rtc_timestamp' \in Nat
      BY TickType, Sizes DEF ClockTypeOK, Timestamps
    <3>2. rtc_timestamp' * Second \in Nat
      BY <3>1, SameSeconds
    <3> QED
      BY <1>1, <1>2, <3>2
  <2>4. w + counter \in Int /\ e \in Int
    BY <1>1 DEF Allowed
  <2>5. Same(rtc_timestamp' * Second + counter', ideal' + e)
    BY <2>1, <2>2, <2>3, <2>4, BothTick
  <2>6. Near(rtc_timestamp)'
    BY <2>5 DEF Near, Allowed, HalfSecond
  <2> QED
    BY <1>2, <1>3, <2>6 DEF ClockInv
<1>4. CASE setter \in {"round", "store"}
  <2>1. counter # Overflow * Second - 1
    <3>1. counter = Overflow * Second - 1 => SubSec = Second - 1
      <4> SUFFICES ASSUME counter = Overflow * Second - 1
                   PROVE  SubSec = Second - 1
        OBVIOUS
      <4>1. counter = Second * (Overflow - 1) + (Second - 1)
        BY <1>1
      <4>2. Overflow - 1 \in Int /\ Second - 1 \in 0 .. (Second - 1)
        BY <1>1
      <4>3. counter % Second = Second - 1
        BY <1>1, <4>1, <4>2, QuotientIs
      <4> QED
        BY <4>3 DEF SubSec
    <3> QED
      BY <1>2, <1>4, <3>1
  <2>2. counter' = counter + 1
    BY <1>2, <2>1
  <2>3. Same(x + counter', (x + counter) + 1)
    <3>1. x + counter' = (x + counter) + 1 /\ (x + counter) + 1 \in Int
      BY <1>1, <2>2
    <3> QED
      BY <3>1, SameSelf
  <2>4. x + counter \in Int /\ x + counter' \in Int
    BY <1>1, <2>2
  <2>5. CASE setter = "store"
    <3>1. PICK e \in Allowed : Same(x + counter, ideal + e)
      BY <1>2, <2>5 DEF ClockInv, Near
    <3>2. e \in Int
      BY DEF Allowed
    <3>3. Same(x + counter', ideal' + e)
      BY <2>3, <2>4, <3>1, <3>2, BothTick
    <3>4. Near(timestamp_buffer)'
      BY <1>2, <3>3 DEF Near, Allowed, HalfSecond
    <3> QED
      BY <1>2, <2>5, <3>4 DEF ClockInv
  <2>6. CASE setter = "round"
    <3>1. spent <= SubSec /\ Same(x + counter, ideal + (SubSec - spent))
      BY <1>2, <2>6 DEF ClockInv
    <3>2. /\ spent \in Nat /\ SubSec \in Nat /\ SubSec < Second
          /\ IntSec \in Nat /\ counter = Second * IntSec + SubSec
      BY TickTypes, Sizes DEF ClockTypeOK
    <3>3. SubSec' = SubSec + 1
      <4>1. /\ counter' = Second * IntSec + (SubSec + 1)
            /\ SubSec + 1 \in 0 .. (Second - 1) /\ counter' \in Nat
        BY <1>1, <1>2, <2>2, <2>6, <3>2
      <4>2. counter' % Second = SubSec + 1
        <5> DEFINE c == counter'
                   i == IntSec
                   r == SubSec + 1
        <5>1. /\ c = Second * i + r /\ i \in Int /\ c \in Nat
              /\ r \in 0 .. (Second - 1)
          BY <3>2, <4>1
        <5> HIDE DEF c, i, r
        <5>2. c % Second = r
          BY <1>1, <5>1, QuotientIs
        <5> QED
          BY <5>2 DEF c, r
      <4> QED
        BY <4>2 DEF SubSec
    <3>4. spent' = spent + 1
      BY <2>6 DEF ClockTick
    <3>5. SubSec - spent \in Int
      BY <3>2
    <3>6. Same(x + counter', ideal' + (SubSec - spent))
      BY <2>3, <2>4, <3>1, <3>5, BothTick
    <3>7. SubSec' - spent' = SubSec - spent /\ spent' <= SubSec'
      BY <3>1, <3>2, <3>3, <3>4
    <3> QED
      BY <1>2, <2>6, <3>6, <3>7 DEF ClockInv
  <2> QED
    BY <1>4, <2>5, <2>6
<1> QED
  BY <1>3, <1>4 DEF ClockTypeOK

\* With the seconds since the overflow taken off, the clock would show t and the
\* fraction of a second.
LEMMA SecondsTakenOff ==
  ASSUME ClockTypeOK, NEW t \in Timestamps
  PROVE  Same(((t + Range - IntSec) % Range) * Second + counter,
              t * Second + SubSec)
<1> DEFINE i == IntSec
           s == SubSec
           c == counter
           m == t + Range - i
           y == (m % Range) * Second
           z == m * Second
           v == t * Second + s
<1>1. /\ i \in Nat /\ s \in Nat /\ c \in Nat /\ c = Second * i + s
      /\ i < Range
  BY ShownType, TickTypes, Sizes
<1>2. Second \in Nat /\ Range \in Nat /\ t \in Nat
  BY Sizes DEF Timestamps
<1> HIDE DEF i, s, c
<1>3. m \in Nat
  BY <1>1, <1>2
<1>4. Same(y, z) /\ y \in Nat /\ z \in Nat
  BY <1>3, SameSeconds
<1>5. z + c = v + Turn /\ v \in Nat
  <2>1. z = t * Second + Range * Second - i * Second
    BY <1>1, <1>2
  <2>2. /\ t * Second \in Nat /\ i * Second = Second * i /\ i * Second \in Nat
        /\ Range * Second \in Nat
    BY <1>1, <1>2
  <2> QED
    BY <1>1, <2>1, <2>2 DEF Turn
<1>6. Same(v + Turn, v)
  BY <1>5, SameSelf
<1>7. Same(y + c, z + c) /\ y + c \in Int /\ v + Turn \in Int
  <2> HIDE DEF y, z, v
  <2>1. /\ y \in Int /\ z \in Int /\ c \in Int
        /\ y + c \in Int /\ v + Turn \in Int
    BY <1>1, <1>4, <1>5, TurnType
  <2>2. Same(y + c, z + c)
    BY <1>4, <2>1, SamePlus
  <2> QED
    BY <2>1, <2>2
<1>8. Same(y + c, v)
  <2> HIDE DEF y, z, v
  <2> QED
    BY <1>5, <1>6, <1>7, SameChain
<1> QED
  BY <1>8 DEF i, s, c

LEMMA LoadSecondsClock ==
  ASSUME ClockTypeOK, LoadSeconds
  PROVE  ClockInv'
<1>1. /\ setter' = "round" /\ spent' = 0 /\ counter' = counter
      /\ timestamp_buffer' = (timestamp' + Range - IntSec) % Range
      /\ ideal' = timestamp' * Second /\ timestamp' \in Timestamps
      /\ SubSec' = SubSec
  BY DEF LoadSeconds, SubSec
<1>2. Same(timestamp_buffer' * Second + counter', ideal' + SubSec')
  BY <1>1, SecondsTakenOff
<1>3. SubSec' - spent' = SubSec' /\ spent' <= SubSec'
  <2>1. SubSec \in Nat
    BY TickTypes
  <2> QED
    BY <1>1, <2>1
<1> QED
  BY <1>1, <1>2, <1>3 DEF ClockInv

LEMMA RoundFractionClock ==
  ASSUME ClockTypeOK, ClockInv, RoundFraction
  PROVE  ClockInv'
<1> SUFFICES ASSUME ~slipped' PROVE ClockInv'
  BY DEF ClockInv
<1> DEFINE x == timestamp_buffer * Second
           y == timestamp_buffer' * Second
           f == SubSec - spent
<1>1. /\ setter = "round" /\ setter' = "store" /\ ~slipped
      /\ UNCHANGED <<counter, ideal>>
  BY DEF RoundFraction
<1>2. spent <= SubSec /\ Same(x + counter, ideal + f)
  BY <1>1 DEF ClockInv
<1>3. /\ counter \in Nat /\ ideal \in Nat /\ x \in Nat /\ Slack \in Nat
      /\ timestamp_buffer \in Nat
      /\ SubSec \in Nat /\ SubSec < Second /\ spent \in Nat /\ spent <= Slack
      /\ Second \in Nat \ {0} /\ Range \in Nat \ {0}
      /\ HalfSecond \in Nat \ {0} /\ HalfSecond < Second
  BY TickTypes, Sizes, HalfType DEF ClockTypeOK
<1>4. f \in Int /\ 0 <= f /\ f <= SubSec
  BY <1>2, <1>3
<1>5. CASE SubSec < HalfSecond
  <2>1. y = x
    BY <1>3, <1>5 DEF RoundFraction
  <2>2. f \in Allowed
    BY <1>3, <1>4, <1>5 DEF Allowed
  <2>3. Same(y + counter, ideal + f)
    BY <1>2, <2>1
  <2>4. Near(timestamp_buffer)'
    BY <1>1, <2>2, <2>3 DEF Near, Allowed, HalfSecond
  <2> QED
    BY <1>1, <2>4 DEF ClockInv
<1>6. CASE SubSec >= HalfSecond
  <2> DEFINE m == timestamp_buffer + Range - 1
             e == f - Second
  <2>1. timestamp_buffer' = m % Range /\ m \in Nat
    BY <1>3, <1>6 DEF RoundFraction
  <2>2. Same(y, m * Second) /\ y \in Nat /\ m * Second \in Nat
    BY <2>1, SameSeconds
  <2>3. m * Second = (x - Second) + Turn
    <3>1. Range * Second \in Nat
      BY Sizes
    <3>2. m * Second = x + Range * Second - Second
      BY <1>3
    <3> QED
      BY <1>3, <3>1, <3>2 DEF Turn
  <2>4. e \in Allowed /\ e \in Int
    BY <1>3, <1>4, <1>6 DEF Allowed
  <2> DEFINE v == (x + counter) - Second
  <2>5. v \in Int /\ v + Turn \in Int /\ y + counter \in Int
    BY <1>3, <2>2, TurnType
  <2>6. Same(y + counter, v)
    <3>1. Same(y + counter, m * Second + counter)
      <4> DEFINE z == m * Second
      <4>1. Same(y, z) /\ y \in Int /\ z \in Int /\ counter \in Int
        BY <1>3, <2>2
      <4> HIDE DEF y, z
      <4>2. Same(y + counter, z + counter)
        BY <4>1, SamePlus
      <4> QED
        BY <4>2 DEF z
    <3>2. m * Second + counter = v + Turn
      BY <1>3, <2>3, TurnType
    <3>3. Same(v + Turn, v)
      BY <2>5, SameSelf
    <3> HIDE DEF v, y
    <3> QED
      BY <2>5, <3>1, <3>2, <3>3, SameChain
  <2>7. Same(v, ideal + e)
    <3> DEFINE a == x + counter
               b == ideal + f
               c == 0 - Second
    <3>1. a \in Int /\ b \in Int /\ c \in Int /\ Same(a, b)
      BY <1>2, <1>3, <1>4
    <3>2. v = a + c /\ ideal + e = b + c
      BY <1>3, <1>4
    <3> HIDE DEF a, b, c
    <3>3. Same(a + c, b + c)
      BY <3>1, SamePlus
    <3> QED
      BY <3>2, <3>3
  <2>8. Same(y + counter, ideal + e)
    <3>1. ideal + e \in Int
      BY <1>3, <2>4
    <3> HIDE DEF v, y, e
    <3> QED
      BY <2>5, <2>6, <2>7, <3>1, SameChain
  <2>9. Near(timestamp_buffer)'
    BY <1>1, <2>4, <2>8 DEF Near, Allowed, HalfSecond
  <2> QED
    BY <1>1, <2>9 DEF ClockInv
<1> QED
  BY <1>3, <1>5, <1>6

LEMMA NearNext == ClockTypeOK /\ ClockInv /\ [ClockNext]_clock_vars => ClockInv'
<1> SUFFICES ASSUME ClockTypeOK, ClockInv, [ClockNext]_clock_vars PROVE ClockInv'
  OBVIOUS
<1>1. CASE ClockTick
  BY <1>1, TickClock
<1>2. CASE LoadSeconds
  BY <1>2, LoadSecondsClock
<1>3. CASE RoundFraction
  BY <1>3, RoundFractionClock
<1>4. CASE StoreTimestamp
  <2>1. /\ setter = "store" /\ setter' = "idle"
        /\ rtc_timestamp' = timestamp_buffer
        /\ UNCHANGED <<counter, ideal, slipped>>
    BY <1>4 DEF StoreTimestamp
  <2>2. ~slipped => Near(timestamp_buffer)
    BY <2>1 DEF ClockInv
  <2>3. ~slipped => Near(rtc_timestamp)'
    BY <2>1, <2>2 DEF Near, Allowed, HalfSecond
  <2> QED
    BY <2>1, <2>3 DEF ClockInv
<1>5. CASE LoadFirst \/ LoadSecond \/ UseReading \/ UNCHANGED clock_vars
  <2>1. UNCHANGED <<counter, rtc_timestamp, setting, ideal, spent, slipped>>
    BY <1>5 DEF LoadFirst, LoadSecond, UseReading, clock_vars
  <2>2. SubSec' = SubSec /\ UNCHANGED <<setter, timestamp_buffer>>
    BY <2>1 DEF SubSec, setting
  <2> QED
    BY <2>1, <2>2 DEF ClockInv, Near, Allowed, HalfSecond
<1> QED
  BY <1>1, <1>2, <1>3, <1>4, <1>5 DEF ClockNext

\* The clock runs as it was set, within half a second, a tick and the time the
\* call took, over all overflows of the counter (RTC.c:52) and of the timestamp,
\* unless the counter passed a second, or overflowed, within the call
\* (RTC.c:88-95).
THEOREM ClockAlwaysRight == ClockSpec => []ClockRight
<1>1. ClockInit => ClockInv
  <2> SUFFICES ASSUME ClockInit PROVE Near(rtc_timestamp)
    BY DEF ClockInit, ClockInv
  <2>1. rtc_timestamp = 0 /\ counter = 0 /\ ideal = 0
    BY DEF ClockInit
  <2>2. rtc_timestamp * Second + counter = 0 /\ ideal + 0 = 0
    BY <2>1, Sizes
  <2>3. Same(rtc_timestamp * Second + counter, ideal + 0)
    BY <2>2, SameSelf
  <2> QED
    BY <2>3, HalfType DEF Near
<1>2. ClockTypeOK /\ ClockInv => ClockRight
  BY NearIsRight DEF ClockInv, ClockRight
<1> QED
  BY <1>1, <1>2, ClockTypeInit, ClockTypeNext, NearNext, PTL DEF ClockSpec


\* The values of the distances and of the ghost count: sets to the steps below,
\* which move such values and do not compute with them.
Ticks  == 0..(Wrap - 1)
Counts == 0..Wrap

LEMMA ConstantFacts ==
    /\ Wrap \in Nat /\ Wrap > 0
    /\ \A u \in Users : Duration[u] \in 0..(Wrap - 1) /\ Duration[u] < Wrap
BY WrapAssumption, DurationAssumption

LEMMA TickFacts ==
    /\ 0 \in Ticks /\ 0 \in Counts
    /\ \A u \in Users : Duration[u] \in Ticks
BY ConstantFacts DEF Ticks, Counts

-----------------------------------------------------------------------------
(* Types, and who is where                                                 *)

\* A conversion runs only while the main loop measures; a search is the only
\* one that reads keys, and only a measurement or a message waits.
Place ==
    /\ pc \in KeyReading \cup {"key"} => user = "search"
    /\ pc = "wait" => user \in {"adc", "ble"}
    /\ pc = "mark" => user = "adc"
    /\ converting => user = "adc" /\ pc \in Starting \cup Waiting

Numbers == left0 \in Ticks /\ left1 \in Ticks /\ elapsed \in Counts

Booleans ==
    /\ inten0 \in BOOLEAN /\ inten1 \in BOOLEAN /\ loaded \in BOOLEAN
    /\ wait_flag \in BOOLEAN /\ timeout_flag \in BOOLEAN
    /\ converting \in BOOLEAN
    /\ adc_conversion_in_progress \in BOOLEAN
    /\ ble_tx_in_progress \in BOOLEAN
    /\ inherited \in BOOLEAN /\ robbed \in BOOLEAN

Names ==
    /\ pc \in {"idle", "send", "loop"} \cup Starting \cup Relying
    /\ user \in {"adc", "ble", "search", "list", "track"}
    /\ outer \in {"none", "list", "track"}
    /\ handler \in {"idle", "waiting"}

TypeInv == Numbers /\ Booleans /\ Names /\ Place

LEMMA TypeInvTypeOK == TypeInv => TypeOK
BY DEF TypeInv, TypeOK, Numbers, Booleans, Names, Ticks, Counts, Users

LEMMA TypeInit == Init => TypeInv
<1>1. Init => Numbers
  BY TickFacts DEF Init, Numbers
<1>2. Init => Booleans /\ Names /\ Place
  BY DEF Init, Booleans, Names, Place, Starting, Relying, Waiting, KeyReading
<1> QED
  BY <1>1, <1>2 DEF TypeInv

LEMMA NumbersNext == Numbers /\ Names /\ [Next]_vars => Numbers'
<1> SUFFICES ASSUME Numbers, Names, [Next]_vars PROVE Numbers'
  OBVIOUS
<1> USE TickFacts DEF Numbers, Names, timers, flags, ghosts, Main, Users
<1>1. CASE Tick
  BY <1>1, ConstantFacts DEF Tick, Before, Ticks, Counts
<1>2. CASE RtcTimeoutCall
  BY <1>2 DEF RtcTimeoutCall, TestStarted, ClearFlag, SetCompare, EnableTimeout
<1>3. CASE RtcWaitCall
  BY <1>3 DEF RtcWaitCall, StartDelay, AimDelay, LoadEnabled, StoreEnabled,
              DelayOver, EndDelay
<1>4. CASE StartConversion \/ MarkConversion \/ AdcInterrupt \/ AdcWaitOver
  BY <1>4 DEF StartConversion, MarkConversion, AdcInterrupt, AdcWaitOver
<1>5. CASE SendMessage \/ MessageConfirmed \/ BleWaitOver
  BY <1>5 DEF SendMessage, MessageConfirmed, BleWaitOver
<1>6. CASE StartTransfer \/ NextMessage \/ TransferEnds
  BY <1>6 DEF StartTransfer, NextMessage, TransferEnds
<1>7. CASE StartSearch \/ KeyFound \/ KeyMissing \/ OtherKey \/ SearchTimesOut
  BY <1>7 DEF StartSearch, KeyFound, KeyMissing, OtherKey, SearchTimesOut
<1>8. CASE Notify \/ NotifyTimesOut
  BY <1>8 DEF Notify, NotifyTimesOut
<1>9. CASE UNCHANGED vars
  BY <1>9 DEF vars
<1> QED
  BY <1>1, <1>2, <1>3, <1>4, <1>5, <1>6, <1>7, <1>8, <1>9 DEF Next, GoOn, Begin

LEMMA BooleansNext == Booleans /\ [Next]_vars => Booleans'
<1> SUFFICES ASSUME Booleans, [Next]_vars PROVE Booleans'
  OBVIOUS
<1> USE DEF Booleans, timers, flags, ghosts, Main, CancelTimeout
<1>1. CASE Tick
  BY <1>1 DEF Tick, Struck
<1>2. CASE RtcTimeoutCall
  <2>1. CASE TestStarted \/ ClearFlag
    BY <2>1, ZenonT(60) DEF TestStarted, ClearFlag
  <2>2. CASE SetCompare \/ EnableTimeout
    BY <2>2, ZenonT(60) DEF SetCompare, EnableTimeout
  <2> QED
    BY <1>2, <2>1, <2>2 DEF RtcTimeoutCall
<1>3. CASE RtcWaitCall
  <2>1. CASE StartDelay
    BY <2>1, ZenonT(60) DEF StartDelay
  <2>2. CASE AimDelay
    BY <2>2, ZenonT(60) DEF AimDelay
  <2>3. CASE LoadEnabled
    BY <2>3, ZenonT(60) DEF LoadEnabled
  <2>4. CASE StoreEnabled
    BY <2>4, ZenonT(60) DEF StoreEnabled
  <2>5. CASE DelayOver
    BY <2>5, ZenonT(60) DEF DelayOver
  <2>6. CASE EndDelay
    BY <2>6, ZenonT(60) DEF EndDelay
  <2> QED
    BY <1>3, <2>1, <2>2, <2>3, <2>4, <2>5, <2>6 DEF RtcWaitCall
<1>4. CASE StartConversion \/ MarkConversion \/ AdcInterrupt \/ AdcWaitOver
  <2>1. CASE StartConversion
    BY <2>1, ZenonT(60) DEF StartConversion
  <2>2. CASE MarkConversion
    BY <2>2, ZenonT(60) DEF MarkConversion
  <2>3. CASE AdcInterrupt
    BY <2>3, ZenonT(60) DEF AdcInterrupt
  <2>4. CASE AdcWaitOver
    BY <2>4, ZenonT(60) DEF AdcWaitOver
  <2> QED
    BY <1>4, <2>1, <2>2, <2>3, <2>4
<1>5. CASE SendMessage \/ MessageConfirmed \/ BleWaitOver
  <2>1. CASE SendMessage
    BY <2>1, ZenonT(60) DEF SendMessage
  <2>2. CASE MessageConfirmed
    BY <2>2, ZenonT(60) DEF MessageConfirmed
  <2>3. CASE BleWaitOver
    BY <2>3, ZenonT(60) DEF BleWaitOver
  <2> QED
    BY <1>5, <2>1, <2>2, <2>3
<1>6. CASE StartTransfer \/ NextMessage \/ TransferEnds
  <2>1. CASE StartTransfer
    BY <2>1, ZenonT(60) DEF StartTransfer
  <2>2. CASE NextMessage
    BY <2>2, ZenonT(60) DEF NextMessage
  <2>3. CASE TransferEnds
    BY <2>3, ZenonT(60) DEF TransferEnds
  <2> QED
    BY <1>6, <2>1, <2>2, <2>3
<1>7. CASE StartSearch \/ KeyFound \/ KeyMissing \/ OtherKey \/ SearchTimesOut
  <2>1. CASE StartSearch
    BY <2>1, ZenonT(60) DEF StartSearch
  <2>2. CASE KeyFound
    BY <2>2, ZenonT(60) DEF KeyFound
  <2>3. CASE KeyMissing
    BY <2>3, ZenonT(60) DEF KeyMissing
  <2>4. CASE OtherKey
    BY <2>4, ZenonT(60) DEF OtherKey
  <2>5. CASE SearchTimesOut
    BY <2>5, ZenonT(60) DEF SearchTimesOut
  <2> QED
    BY <1>7, <2>1, <2>2, <2>3, <2>4, <2>5
<1>8. CASE Notify \/ NotifyTimesOut
  <2>1. CASE Notify
    BY <2>1, ZenonT(60) DEF Notify
  <2>2. CASE NotifyTimesOut
    BY <2>2, ZenonT(60) DEF NotifyTimesOut
  <2> QED
    BY <1>8, <2>1, <2>2
<1>9. CASE UNCHANGED vars
  BY <1>9 DEF vars
<1> QED
  BY <1>1, <1>2, <1>3, <1>4, <1>5, <1>6, <1>7, <1>8, <1>9 DEF Next, GoOn, Begin

LEMMA NamesNext == Booleans /\ Names /\ Place /\ [Next]_vars => Names' /\ Place'
<1> SUFFICES ASSUME Booleans, Names, Place, [Next]_vars
             PROVE  Names' /\ Place'
  OBVIOUS
<1> USE DEF Booleans, Names, Place, Starting, Relying, Waiting, KeyReading,
        timers, flags, ghosts, Main, AfterStart
<1>1. CASE Tick
  BY <1>1 DEF Tick
<1>2. CASE RtcTimeoutCall
  BY <1>2 DEF RtcTimeoutCall, TestStarted, ClearFlag, SetCompare, EnableTimeout
<1>3. CASE RtcWaitCall
  BY <1>3 DEF RtcWaitCall, StartDelay, AimDelay, LoadEnabled, StoreEnabled,
              DelayOver, EndDelay
<1>4. CASE StartConversion \/ MarkConversion \/ AdcInterrupt \/ AdcWaitOver
  BY <1>4 DEF StartConversion, MarkConversion, AdcInterrupt, AdcWaitOver
<1>5. CASE SendMessage \/ MessageConfirmed \/ BleWaitOver
  BY <1>5 DEF SendMessage, MessageConfirmed, BleWaitOver
<1>6. CASE StartTransfer \/ NextMessage \/ TransferEnds
  BY <1>6 DEF StartTransfer, NextMessage, TransferEnds
<1>7. CASE StartSearch \/ KeyFound \/ KeyMissing \/ OtherKey \/ SearchTimesOut
  BY <1>7 DEF StartSearch, KeyFound, KeyMissing, OtherKey, SearchTimesOut
<1>8. CASE Notify \/ NotifyTimesOut
  BY <1>8 DEF Notify, NotifyTimesOut
<1>9. CASE UNCHANGED vars
  BY <1>9 DEF vars
<1> QED
  BY <1>1, <1>2, <1>3, <1>4, <1>5, <1>6, <1>7, <1>8, <1>9 DEF Next, GoOn, Begin

LEMMA TypeNext == TypeInv /\ [Next]_vars => TypeInv'
BY NumbersNext, BooleansNext, NamesNext DEF TypeInv

\* Every variable keeps its type, for every wrap and all durations.
THEOREM TypeCorrect == Spec => []TypeOK
BY TypeInvTypeOK, TypeInit, TypeNext, PTL DEF Spec

-----------------------------------------------------------------------------
(* No wait without a timeout                                               *)

LEMMA GuardedInit == Init => WaitGuarded
BY DEF Init, WaitGuarded, Relying, Waiting, KeyReading

LEMMA GuardedNext == TypeInv /\ WaitGuarded /\ [Next]_vars => WaitGuarded'
<1> SUFFICES ASSUME TypeInv, WaitGuarded, [Next]_vars PROVE WaitGuarded'
  OBVIOUS
<1> USE DEF TypeInv, Booleans, Names, Place, WaitGuarded, MainDone, Starting,
        Relying, Waiting, KeyReading, timers, flags, ghosts, Main, CancelTimeout
<1>1. CASE Tick
  BY <1>1 DEF Tick
<1>2. CASE RtcTimeoutCall
  BY <1>2 DEF RtcTimeoutCall, TestStarted, ClearFlag, SetCompare,
              EnableTimeout, AfterStart
<1>3. CASE RtcWaitCall
  BY <1>3 DEF RtcWaitCall, StartDelay, AimDelay, LoadEnabled, StoreEnabled,
              DelayOver, EndDelay
<1>4. CASE StartConversion \/ MarkConversion \/ AdcInterrupt \/ AdcWaitOver
  BY <1>4 DEF StartConversion, MarkConversion, AdcInterrupt, AdcWaitOver
<1>5. CASE SendMessage \/ MessageConfirmed \/ BleWaitOver
  BY <1>5 DEF SendMessage, MessageConfirmed, BleWaitOver
<1>6. CASE StartTransfer \/ NextMessage \/ TransferEnds
  BY <1>6 DEF StartTransfer, NextMessage, TransferEnds
<1>7. CASE StartSearch \/ KeyFound \/ KeyMissing \/ OtherKey \/ SearchTimesOut
  BY <1>7 DEF StartSearch, KeyFound, KeyMissing, OtherKey, SearchTimesOut
<1>8. CASE Notify \/ NotifyTimesOut
  BY <1>8 DEF Notify, NotifyTimesOut
<1>9. CASE UNCHANGED vars
  BY <1>9 DEF vars
<1> QED
  BY <1>1, <1>2, <1>3, <1>4, <1>5, <1>6, <1>7, <1>8, <1>9 DEF Next, GoOn, Begin

\* No wait of the main loop is left without a timeout unless the handler took it
\* away.
THEOREM WaitAlwaysGuarded == Spec => []WaitGuarded
BY TypeInit, TypeNext, GuardedInit, GuardedNext, PTL DEF Spec

-----------------------------------------------------------------------------
(* No timeout of one's own is early                                        *)

\* Ticks to the next match of compare register 1.
ToMatch == IF left1 = 0 THEN Wrap ELSE left1

\* The main loop relies on a timeout it started, and no handler that could have
\* replaced it runs.  A search or message keeps its timeout under the handler.
Own == pc \in Relying /\ ~inherited /\ (user # "adc" \/ handler = "idle")

\* The timeout has lasted its time; it will have, at the next match.
AtLeast == elapsed >= Duration[user]
Enough  == elapsed + ToMatch >= Duration[user]

EarlyInv ==
    /\ pc \in {"clear", "compare", "enable"} /\ handler = "idle" => ~inten1
    /\ pc \in {"compare", "enable"} /\ handler = "idle" => ~timeout_flag
    /\ pc = "enable" /\ (handler = "idle" \/ timeout_flag) => Enough
    /\ handler = "waiting" => inten1
    /\ Own /\ inten1 => Enough
    /\ Own /\ timeout_flag => AtLeast
    /\ Own /\ ~inten1 /\ user # "adc" => AtLeast

LEMMA EarlyInit == Init => EarlyInv
BY DEF Init, EarlyInv, Own, Relying, Waiting, KeyReading

LEMMA DistanceFacts ==
  TypeInv => /\ left1 \in 0..(Wrap - 1) /\ elapsed \in 0..Wrap
             /\ user \in Users /\ Duration[user] \in 0..(Wrap - 1)
BY ConstantFacts DEF TypeInv, Numbers, Names, Ticks, Counts, Users

LEMMA LastedEnough == TypeInv /\ AtLeast => Enough
<1> SUFFICES ASSUME TypeInv, AtLeast PROVE Enough
  OBVIOUS
<1>1. ToMatch \in Nat
  BY DistanceFacts, ConstantFacts DEF ToMatch
<1> QED
  BY <1>1, DistanceFacts, ConstantFacts DEF AtLeast, Enough

LEMMA SameDistance ==
  UNCHANGED <<left1, elapsed, user>>
      => (AtLeast' <=> AtLeast) /\ (Enough' <=> Enough)
BY DEF AtLeast, Enough, ToMatch

\* A tick brings the match one nearer; at the match the time has been lasted.
LEMMA TickDistance ==
  TypeInv /\ Tick =>
    /\ AtLeast => AtLeast'
    /\ Enough => Enough'
    /\ left1' = 0 => Enough' /\ (Enough => AtLeast')
<1> SUFFICES ASSUME TypeInv, Tick
             PROVE  /\ AtLeast => AtLeast'
                    /\ Enough => Enough'
                    /\ left1' = 0 => Enough' /\ (Enough => AtLeast')
  OBVIOUS
<1> DEFINE D == Duration[user]
<1>1. left1 \in 0..(Wrap - 1) /\ elapsed \in 0..Wrap /\ D \in 0..(Wrap - 1)
  BY DistanceFacts
<1>2. /\ left1' = (IF left1 = 0 THEN Wrap - 1 ELSE left1 - 1)
      /\ elapsed' = (IF elapsed < Wrap THEN elapsed + 1 ELSE Wrap)
      /\ user' = user
  BY DEF Tick, Before
<1>3. D' = D
  BY <1>2
<1> HIDE DEF D
<1>4. elapsed >= D => elapsed' >= D
  BY <1>1, <1>2, ConstantFacts
<1>5. elapsed + ToMatch >= D => elapsed' + ToMatch' >= D
  BY <1>1, <1>2, ConstantFacts DEF ToMatch
<1>6. left1' = 0 => /\ elapsed' + ToMatch' >= D
                    /\ elapsed + ToMatch >= D => elapsed' >= D
  BY <1>1, <1>2, ConstantFacts DEF ToMatch
<1>7. /\ AtLeast <=> elapsed >= D
      /\ Enough <=> elapsed + ToMatch >= D
      /\ AtLeast' <=> elapsed' >= D
      /\ Enough' <=> elapsed' + ToMatch' >= D
  BY <1>2 DEF AtLeast, Enough, D
<1> QED
  BY <1>4, <1>5, <1>6, <1>7

LEMMA SetDistance == TypeInv /\ SetCompare => Enough'
<1> SUFFICES ASSUME TypeInv, SetCompare PROVE Enough'
  OBVIOUS
<1>1. left1' = Duration[user] /\ elapsed' = 0 /\ user' = user
  BY DEF SetCompare
<1>2. Duration[user] \in 0..(Wrap - 1)
  BY DistanceFacts
<1> QED
  BY <1>1, <1>2, ConstantFacts DEF Enough, ToMatch

LEMMA NotifyDistance ==
  TypeInv /\ Notify => (AtLeast' <=> AtLeast) /\ (AtLeast => Enough')
<1> SUFFICES ASSUME TypeInv, Notify
             PROVE  (AtLeast' <=> AtLeast) /\ (AtLeast => Enough')
  OBVIOUS
<1>1. elapsed' = elapsed /\ user' = user /\ left1' \in {left1, Duration["note"]}
  BY DEF Notify, ghosts
<1>2. left1' \in Nat
  BY <1>1, DistanceFacts, ConstantFacts DEF Users
<1>3. ToMatch' \in Nat
  BY <1>2, ConstantFacts DEF ToMatch
<1>4. Duration[user] \in Nat /\ elapsed \in Nat
  BY DistanceFacts, ConstantFacts
<1> QED
  BY <1>1, <1>3, <1>4 DEF AtLeast, Enough

LEMMA EarlyNext == TypeInv /\ EarlyInv /\ [Next]_vars => EarlyInv'
<1> SUFFICES ASSUME TypeInv, EarlyInv, [Next]_vars PROVE EarlyInv'
  OBVIOUS
<1> USE DEF TypeInv, Booleans, Names, EarlyInv, Own, Starting, Relying,
        Waiting, KeyReading, timers, flags, ghosts, Main, CancelTimeout
<1>1. CASE Tick
  BY <1>1, TickDistance DEF Tick, Struck
<1>2. CASE RtcTimeoutCall
  <2>1. CASE TestStarted
    BY <2>1 DEF TestStarted, AfterStart
  <2>2. CASE ClearFlag
    BY <2>2 DEF ClearFlag
  <2>3. CASE SetCompare
    BY <2>3, SetDistance DEF SetCompare
  <2>4. CASE EnableTimeout
    BY <2>4, SameDistance DEF EnableTimeout, AfterStart
  <2> QED
    BY <1>2, <2>1, <2>2, <2>3, <2>4 DEF RtcTimeoutCall
<1>3. CASE RtcWaitCall
  BY <1>3, SameDistance, LastedEnough
  DEF RtcWaitCall, Place, StartDelay, AimDelay, LoadEnabled, StoreEnabled,
      DelayOver, EndDelay
<1>4. CASE StartConversion \/ MarkConversion \/ AdcInterrupt \/ AdcWaitOver
  BY <1>4, SameDistance
  DEF Place, StartConversion, MarkConversion, AdcInterrupt, AdcWaitOver
<1>5. CASE SendMessage \/ MessageConfirmed \/ BleWaitOver
  BY <1>5, SameDistance DEF SendMessage, MessageConfirmed, BleWaitOver
<1>6. CASE StartTransfer \/ NextMessage \/ TransferEnds
  BY <1>6, SameDistance DEF StartTransfer, NextMessage, TransferEnds
<1>7. CASE StartSearch \/ KeyFound \/ KeyMissing \/ OtherKey \/ SearchTimesOut
  BY <1>7, SameDistance DEF StartSearch, KeyFound, KeyMissing, OtherKey,
              SearchTimesOut
<1>8. CASE Notify \/ NotifyTimesOut
  BY <1>8, SameDistance, NotifyDistance DEF Notify, NotifyTimesOut
<1>9. CASE UNCHANGED vars
  BY <1>9, SameDistance DEF vars
<1> QED
  BY <1>1, <1>2, <1>3, <1>4, <1>5, <1>6, <1>7, <1>8, <1>9 DEF Next, GoOn, Begin

\* Nobody who started the timeout is told of it before its time.
THEOREM NeverEarly == Spec => []NoEarlyTimeout
<1>1. EarlyInv => NoEarlyTimeout
  BY DEF EarlyInv, Own, AtLeast, NoEarlyTimeout
<1> QED
  BY <1>1, TypeInit, TypeNext, EarlyInit, EarlyNext, PTL DEF Spec

=============================================================================
