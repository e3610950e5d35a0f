---------------------------- MODULE GpsSampling ----------------------------
(***************************************************************************)
(* Which fixes become samples of a track.  The GPS parser, in the UART     *)
(* interrupt, stores the fix, a timestamp and a number for each sentence   *)
(* and raises a flag (hardware/GPS.c).  The main loop tests flag, number   *)
(* and interval, copies timestamp and position one after the other and     *)
(* lowers the flag when the sample is in the flash (main.c, libraries/     *)
(* memory_organization.c).  The central sets the interval in the handler   *)
(* of stack events and has recording started and stopped by the main loop. *)
(*                                                                         *)
(* A handler is one step; the main loop is interrupted between any two of  *)
(* its accesses to what handlers share with it.  Timestamps and positions  *)
(* are told apart by the sentence they are from.  How the sample is kept   *)
(* in the flash is in TrackMemory, how the byte stream becomes sentences   *)
(* in GpsReceiver.                                                         *)
(***************************************************************************)
EXTENDS Integers, Sequences

CONSTANTS
    Intervals,          \* values of mem_org_gps_sample_storage_interval
    DefaultInterval,    \* its first value, 15
    MaxSentences,       \* bound: sentences parsed
    MaxTracks           \* bound: tracks started

ASSUME IntervalAssumption ==
    /\ Intervals \subseteq Nat
    /\ DefaultInterval \in Intervals \ {0}
    /\ MaxSentences \in Nat
    /\ MaxTracks \in Nat

VARIABLES
    gga_message,                \* the sentence the position is from, 0 at first
    gps_sample_timestamp,       \* the sentence the timestamp is from
    gps_sample_nr,
    gps_message_sample_storage_time,
    interval,                   \* mem_org_gps_sample_storage_interval
    storage_enabled,            \* mem_org_track_samples_storage_enabled
    pc,                         \* where the main loop is
    number,                     \* the gps_sample_nr it tests
    sample,                     \* the sample it puts together
    \* Ghost variables.
    sentences,                  \* sentences parsed
    fixes,                      \* those with a position, since the module was off
    track,                      \* tracks started
    interval_changed,           \* since the track was started
    log                         \* what was stored

parsed == <<gga_message, gps_sample_timestamp, gps_sample_nr,
            gps_message_sample_storage_time, sentences, fixes>>
vars == <<parsed, interval, storage_enabled, pc, number, sample, track,
          interval_changed, log>>

NoSample == [timestamp |-> 0, latitude |-> 0, longtitude |-> 0]

Init ==
    /\ gga_message = 0
    /\ gps_sample_timestamp = 0
    /\ gps_sample_nr = 0
    /\ gps_message_sample_storage_time = FALSE
    /\ interval = DefaultInterval
    /\ storage_enabled = FALSE
    /\ pc = "flag"
    /\ number = 0
    /\ sample = NoSample
    /\ sentences = 0
    /\ fixes = {}
    /\ track = 0
    /\ interval_changed = FALSE
    /\ log = <<>>

-----------------------------------------------------------------------------
(* Handlers                                                                *)

\* The end of GPS_Parse_GGA_Message.  A sentence without a fix has empty fields
\* and leaves the position alone.
ParseSentence ==
    /\ sentences < MaxSentences
    /\ sentences' = sentences + 1
    /\ \/ /\ gga_message' = sentences'
          /\ fixes' = fixes \cup {sentences'}
       \/ UNCHANGED <<gga_message, fixes>>
    /\ gps_sample_timestamp' = sentences'
    /\ gps_sample_nr' = gps_sample_nr + 1
    /\ gps_message_sample_storage_time' = TRUE
    /\ UNCHANGED <<interval, storage_enabled, pc, number, sample, track,
                   interval_changed, log>>

\* BLE_SET_STORAGE_INTERVAL, in Ble_Uart_Rx_Handler
SetInterval ==
    /\ interval' \in Intervals
    /\ interval' # interval
    /\ interval_changed' = TRUE
    /\ UNCHANGED <<parsed, storage_enabled, pc, number, sample, track, log>>

-----------------------------------------------------------------------------
(* The main loop: the sample                                               *)

MainStep(from, to) ==
    /\ pc = from
    /\ pc' = to

TestFlag_AnySentence ==
    /\ MainStep("flag", IF storage_enabled THEN "number" ELSE "requests")
    /\ UNCHANGED <<parsed, interval, storage_enabled, number, sample, track,
                   interval_changed, log>>

\* main.c:100, its three conditions in their order
TestFlag ==
    /\ MainStep("flag", IF gps_message_sample_storage_time /\ storage_enabled
                        THEN "number" ELSE "requests")
    /\ UNCHANGED <<parsed, interval, storage_enabled, number, sample, track,
                   interval_changed, log>>

LoadNumber ==
    /\ MainStep("number", "interval")
    /\ number' = gps_sample_nr
    /\ UNCHANGED <<parsed, interval, storage_enabled, sample, track,
                   interval_changed, log>>

\* A remainder of a division by zero may be anything.
Remainder == IF interval = 0 THEN {0, 1} ELSE {number % interval}

TestInterval ==
    /\ \E r \in Remainder :
           MainStep("interval", IF r = 0 THEN "timestamp" ELSE "requests")
    /\ UNCHANGED <<parsed, interval, storage_enabled, number, sample, track,
                   interval_changed, log>>

\* The argument of Mem_Org_Store_Sample
LoadTimestamp ==
    /\ MainStep("timestamp", "latitude")
    /\ sample' = [sample EXCEPT !.timestamp = gps_sample_timestamp]
    /\ UNCHANGED <<parsed, interval, storage_enabled, number, track,
                   interval_changed, log>>

CopyLatitude ==
    /\ MainStep("latitude", "longtitude")
    /\ sample' = [sample EXCEPT !.latitude = gga_message]
    /\ UNCHANGED <<parsed, interval, storage_enabled, number, track,
                   interval_changed, log>>

CopyLongtitude ==
    /\ MainStep("longtitude", "store")
    /\ sample' = [sample EXCEPT !.longtitude = gga_message]
    /\ UNCHANGED <<parsed, interval, storage_enabled, number, track,
                   interval_changed, log>>

StoreSample_LatestTimestamp ==
    /\ MainStep("store", "clear")
    /\ log' = Append(log, [of |-> [sample EXCEPT !.timestamp = gps_sample_timestamp],
                            track |-> track, number |-> number, interval |-> 1])
    /\ sample' = NoSample
    /\ UNCHANGED <<parsed, interval, storage_enabled, number, track, interval_changed>>

\* The rest of Mem_Org_Store_Sample.  When the memory is full, the track is
\* stopped instead.
StoreSample ==
    /\ MainStep("store", "clear")
    /\ \/ /\ log' = Append(log, [of |-> sample, track |-> track, number |-> number,
                                 interval |-> IF interval_changed \/ interval = 0
                                                THEN 1 ELSE interval])
          /\ UNCHANGED storage_enabled
       \/ /\ storage_enabled' = FALSE
          /\ UNCHANGED log
    /\ sample' = NoSample
    /\ UNCHANGED <<parsed, interval, number, track, interval_changed>>

ClearFlag_Not ==
    /\ MainStep("clear", "requests")
    /\ UNCHANGED <<parsed, interval, storage_enabled, number, sample, track,
                   interval_changed, log>>

\* main.c:104, after the sample and a message without contents were sent
ClearFlag ==
    /\ MainStep("clear", "requests")
    /\ gps_message_sample_storage_time' = FALSE
    /\ UNCHANGED <<gga_message, gps_sample_timestamp, gps_sample_nr, sentences, fixes,
                   interval, storage_enabled, number, sample, track, interval_changed,
                   log>>

-----------------------------------------------------------------------------
(* The main loop: requests                                                 *)

PrepareToSamplingStart_BeforeTheFirst ==
    /\ ~storage_enabled
    /\ track < MaxTracks
    /\ MainStep("requests", "start")
    /\ gps_sample_nr' = -1
    /\ UNCHANGED <<gga_message, gps_sample_timestamp, gps_message_sample_storage_time,
                   sentences, fixes, interval, storage_enabled, number, sample, track,
                   interval_changed, log>>

\* BLE_ENABLE_GPS_SAMPLES_STORAGE: GPS_Prepare_To_Sampling_Start
PrepareToSamplingStart ==
    /\ ~storage_enabled
    /\ track < MaxTracks
    /\ MainStep("requests", "start")
    /\ gps_sample_nr' = 0
    /\ UNCHANGED <<gga_message, gps_sample_timestamp, gps_message_sample_storage_time,
                   sentences, fixes, interval, storage_enabled, number, sample, track,
                   interval_changed, log>>

\* and Mem_Org_Track_Start_Storage, which enables the storage at its end
TrackStartStorage ==
    /\ MainStep("start", "requests")
    /\ storage_enabled' = TRUE
    /\ track' = track + 1
    /\ interval_changed' = FALSE
    /\ UNCHANGED <<parsed, interval, number, sample, log>>

\* BLE_DISABLE_GPS_SAMPLES_STORAGE: Mem_Org_Track_Stop_Storage
TrackStopStorage ==
    /\ storage_enabled
    /\ MainStep("requests", "requests")
    /\ storage_enabled' = FALSE
    /\ UNCHANGED <<parsed, interval, number, sample, track, interval_changed, log>>

\* BLE_GPS_OFF: GPS_Turn_Off forgets the fix, but not the flag.
TurnOff ==
    /\ MainStep("requests", "requests")
    /\ gga_message' = 0
    /\ fixes' = {}
    /\ UNCHANGED <<gps_sample_timestamp, gps_sample_nr, gps_message_sample_storage_time,
                   sentences, interval, storage_enabled, number, sample, track,
                   interval_changed, log>>

\* No request is left.
NextPass ==
    /\ MainStep("requests", "flag")
    /\ number' = 0
    /\ UNCHANGED <<parsed, interval, storage_enabled, sample, track,
                   interval_changed, log>>

Main ==
    \/ TestFlag \/ LoadNumber \/ TestInterval \/ LoadTimestamp \/ CopyLatitude
    \/ CopyLongtitude \/ StoreSample \/ ClearFlag \/ PrepareToSamplingStart
    \/ TrackStartStorage \/ TrackStopStorage \/ TurnOff \/ NextPass

-----------------------------------------------------------------------------
Next == ParseSentence \/ SetInterval \/ Main

Spec == Init /\ [][Next]_vars

-----------------------------------------------------------------------------
Sentence == 0 .. MaxSentences
Samples == [timestamp : Sentence, latitude : Sentence, longtitude : Sentence]

TypeOK ==
    /\ gga_message \in Sentence
    /\ gps_sample_timestamp \in Sentence
    /\ gps_sample_nr \in Sentence
    /\ gps_message_sample_storage_time \in BOOLEAN
    /\ interval \in Intervals
    /\ storage_enabled \in BOOLEAN
    /\ pc \in {"flag", "number", "interval", "timestamp", "latitude", "longtitude",
               "store", "clear", "requests", "start"}
    /\ number \in Sentence
    /\ sample \in Samples
    /\ sentences \in Sentence
    /\ fixes \subseteq 1 .. sentences
    /\ track \in 0 .. MaxTracks
    /\ interval_changed \in BOOLEAN
    /\ log \in Seq([of : Samples, track : Nat, number : Sentence, interval : Nat])

\* No sentence becomes two samples, and samples are in the order of their
\* sentences, over all tracks: whenever sentences arrive, lowering the flag only
\* after the sample is stored may lose one, but never takes one twice.
NoSentenceTwice ==
    \A i, j \in DOMAIN log : i < j => log[i].of.timestamp < log[j].of.timestamp

\* As long as the interval is not changed, the samples of a track have different
\* multiples of it as numbers, however the numbers move on while the main loop
\* tests and stores.  (The first one may be of a sentence from before the start.)
Spaced ==
    \A i, j \in DOMAIN log :
        i < j /\ log[i].track = log[j].track =>
            log[j].number - log[i].number \in {n * log[j].interval : n \in 1 .. MaxSentences}

\* The position of a sample may be newer than its timestamp, and its longtitude
\* newer than its latitude, when a sentence arrives between the copies; it is
\* never older than the last fix known at the time of the timestamp, unless the
\* module has been off since.  (Then there may be no position in it at all.)
PositionIsUpToDate ==
    \A i \in DOMAIN log :
        LET s == log[i].of
        IN  /\ \A f \in fixes : f <= s.timestamp => f <= s.latitude
            /\ s.latitude <= s.longtitude
=============================================================================
