------------------------ MODULE GpsSampling_proofs ------------------------
(***************************************************************************)
(* Theorems about GpsSampling, for every set of intervals and every number *)
(* of sentences and tracks: types, that no sentence becomes two samples,   *)
(* that the parts of a sample are not older than its timestamp, and that   *)
(* the samples of a track keep the interval.                               *)
(*                                                                         *)
(* The argument of the first is where the flag is up: from its test to the *)
(* stored sample it stays up, and while it is up and the last pass is done *)
(* with it, the last sentence has not been stored.                         *)
(***************************************************************************)
EXTENDS GpsSampling, TLAPS, SequenceTheorems

\* Where the main loop is in a pass that found the flag.
Storing == {"number", "interval", "timestamp", "latitude", "longtitude", "store"}

\* The sample that is being put together has its timestamp.
Stamped == {"latitude", "longtitude", "store"}

-----------------------------------------------------------------------------
(* Types                                                                   *)

LEMMA SentenceFacts ==
    /\ MaxSentences \in Nat
    /\ MaxTracks \in Nat
    /\ 0 \in Sentence
    /\ NoSample \in Samples
    /\ \A n \in Sentence : n \in Nat
BY IntervalAssumption DEF Sentence, Samples, NoSample

\* The numbers of a track start again at 0, so they are at most as many as the
\* sentences, and a track is started only when the bound allows one more.
TypeInv ==
    /\ TypeOK
    /\ gps_sample_nr <= sentences
    /\ pc = "start" => track < MaxTracks

LEMMA TypeInit == Init => TypeInv
<1> SUFFICES ASSUME Init PROVE TypeInv
  OBVIOUS
<1>1. interval \in Intervals
  BY IntervalAssumption DEF Init
<1>2. log \in Seq([of : Samples, track : Nat, number : Sentence, interval : Nat])
  BY EmptySeq DEF Init
<1>3. fixes \subseteq 1 .. sentences /\ track \in 0 .. MaxTracks
  BY SentenceFacts DEF Init
<1>4. gps_sample_nr <= sentences /\ pc # "start"
  BY DEF Init
<1>5. TypeOK
  BY <1>1, <1>2, <1>3, SentenceFacts DEF Init, TypeOK
<1> QED
  BY <1>4, <1>5 DEF TypeInv

\* A stored sample has the types of the parts it was made of.
LEMMA TypeStore ==
    ASSUME TypeInv, StoreSample
    PROVE  log' \in Seq([of : Samples, track : Nat, number : Sentence, interval : Nat])
<1> DEFINE entry == [of |-> sample, track |-> track, number |-> number,
                     interval |-> IF interval_changed \/ interval = 0
                                    THEN 1 ELSE interval]
           Entry == [of : Samples, track : Nat, number : Sentence, interval : Nat]
<1>1. interval \in Nat /\ track \in Nat
  BY IntervalAssumption, SentenceFacts DEF TypeInv, TypeOK
<1>2. (IF interval_changed \/ interval = 0 THEN 1 ELSE interval) \in Nat
  BY <1>1
<1>3. entry \in Entry
  BY <1>1, <1>2 DEF TypeInv, TypeOK
<1>4. log' = Append(log, entry) \/ log' = log
  BY DEF StoreSample
<1> HIDE DEF entry, Entry
<1>5. log \in Seq(Entry)
  BY DEF TypeInv, TypeOK, Entry
<1>6. log' \in Seq(Entry)
  BY <1>3, <1>4, <1>5, AppendProperties
<1> QED
  BY <1>6 DEF Entry

LEMMA TypeNext == TypeInv /\ [Next]_vars => TypeInv'
<1> SUFFICES ASSUME TypeInv, [Next]_vars PROVE TypeInv'
  OBVIOUS
<1> USE SentenceFacts
<1>1. CASE ParseSentence
  <2>1. sentences' \in Sentence /\ sentences \in Nat /\ sentences' = sentences + 1
    BY <1>1 DEF ParseSentence, TypeInv, TypeOK, Sentence
  <2>2. gga_message' \in Sentence
    BY <1>1, <2>1 DEF ParseSentence, TypeInv, TypeOK
  <2>3. fixes' \subseteq 1 .. sentences'
    <3>1. fixes' \subseteq fixes \cup {sentences'}
      BY <1>1 DEF ParseSentence
    <3>2. fixes \subseteq 1 .. sentences
      BY DEF TypeInv, TypeOK
    <3> QED
      BY <2>1, <3>1, <3>2
  <2>4. gps_sample_nr' \in Sentence /\ gps_sample_nr' <= sentences'
    BY <1>1, <2>1 DEF ParseSentence, TypeInv, TypeOK, Sentence
  <2> QED
    BY <1>1, <2>1, <2>2, <2>3, <2>4 DEF ParseSentence, TypeInv, TypeOK
<1>2. CASE SetInterval
  BY <1>2 DEF SetInterval, parsed, TypeInv, TypeOK
<1>3. CASE TestFlag
  BY <1>3 DEF TestFlag, MainStep, parsed, TypeInv, TypeOK
<1>4. CASE LoadNumber
  BY <1>4 DEF LoadNumber, MainStep, parsed, TypeInv, TypeOK
<1>5. CASE TestInterval
  BY <1>5 DEF TestInterval, MainStep, parsed, TypeInv, TypeOK
<1>6. CASE LoadTimestamp
  <2>1. sample' \in Samples
    BY <1>6 DEF LoadTimestamp, TypeInv, TypeOK, Samples
  <2> QED
    BY <1>6, <2>1 DEF LoadTimestamp, MainStep, parsed, TypeInv, TypeOK
<1>7. CASE CopyLatitude
  <2>1. sample' \in Samples
    BY <1>7 DEF CopyLatitude, TypeInv, TypeOK, Samples
  <2> QED
    BY <1>7, <2>1 DEF CopyLatitude, MainStep, parsed, TypeInv, TypeOK
<1>8. CASE CopyLongtitude
  <2>1. sample' \in Samples
    BY <1>8 DEF CopyLongtitude, TypeInv, TypeOK, Samples
  <2> QED
    BY <1>8, <2>1 DEF CopyLongtitude, MainStep, parsed, TypeInv, TypeOK
<1>9. CASE StoreSample
  BY <1>9, TypeStore DEF StoreSample, MainStep, parsed, TypeInv, TypeOK
<1>10. CASE ClearFlag
  BY <1>10 DEF ClearFlag, MainStep, TypeInv, TypeOK
<1>11. CASE PrepareToSamplingStart
  <2>1. sentences \in Nat
    BY DEF TypeInv, TypeOK
  <2> QED
    BY <1>11, <2>1 DEF PrepareToSamplingStart, MainStep, TypeInv, TypeOK
<1>12. CASE TrackStartStorage
  <2>1. track' \in 0 .. MaxTracks
    BY <1>12 DEF TrackStartStorage, MainStep, TypeInv, TypeOK
  <2> QED
    BY <1>12, <2>1 DEF TrackStartStorage, MainStep, parsed, TypeInv, TypeOK
<1>13. CASE TrackStopStorage
  BY <1>13 DEF TrackStopStorage, MainStep, parsed, TypeInv, TypeOK
<1>14. CASE TurnOff
  BY <1>14 DEF TurnOff, MainStep, TypeInv, TypeOK
<1>15. CASE NextPass
  BY <1>15 DEF NextPass, MainStep, parsed, TypeInv, TypeOK
<1>16. CASE UNCHANGED vars
  BY <1>16 DEF vars, parsed, TypeInv, TypeOK
<1> QED
  BY <1>1, <1>2, <1>3, <1>4, <1>5, <1>6, <1>7, <1>8, <1>9, <1>10, <1>11, <1>12,
     <1>13, <1>14, <1>15, <1>16 DEF Next, Main

\* Type correctness, for every set of intervals and every bound.
THEOREM TypeCorrect == Spec => []TypeOK
<1>1. TypeInv => TypeOK
  BY DEF TypeInv
<1> QED
  BY <1>1, TypeInit, TypeNext, PTL DEF Spec

-----------------------------------------------------------------------------
(* One sample of a sentence                                                *)

Before(s) == \A i \in DOMAIN log : log[i].of.timestamp < s

OnceInv ==
    /\ gps_sample_timestamp = sentences
    /\ Before(sentences + 1)
    /\ pc \in Storing => gps_message_sample_storage_time
    /\ gps_message_sample_storage_time /\ pc # "clear" => Before(sentences)
    /\ pc \in Stamped => Before(sample.timestamp) /\ sample.timestamp <= sentences
    /\ NoSentenceTwice

LEMMA OnceInit == Init => OnceInv
BY DEF Init, OnceInv, Before, NoSentenceTwice, Storing, Stamped

\* A sample whose timestamp is above all others is appended in order.
LEMMA OnceStore ==
    ASSUME TypeInv, OnceInv, StoreSample
    PROVE  NoSentenceTwice' /\ Before(sentences + 1)'
<1>1. CASE log' = log
  BY <1>1 DEF StoreSample, parsed, OnceInv, NoSentenceTwice, Before
<1>2. CASE log' # log
  <2> DEFINE entry == [of |-> sample, track |-> track, number |-> number,
                       interval |-> IF interval_changed \/ interval = 0
                                      THEN 1 ELSE interval]
  <2>1. log' = Append(log, entry)
    BY <1>2 DEF StoreSample
  <2>2. entry.of.timestamp = sample.timestamp
    OBVIOUS
  <2> HIDE DEF entry
  <2>3. /\ Len(log) \in Nat
        /\ DOMAIN log = 1 .. Len(log)
        /\ DOMAIN log' = 1 .. Len(log) + 1
        /\ \A i \in 1 .. Len(log) : log'[i] = log[i]
        /\ log'[Len(log) + 1] = entry
    BY <2>1, LenProperties, AppendProperties DEF TypeInv, TypeOK
  <2>4. Before(sample.timestamp) /\ sample.timestamp <= sentences /\ Before(sentences + 1)
    BY DEF StoreSample, MainStep, OnceInv, Stamped
  <2>5. sentences' = sentences /\ sentences \in Nat /\ sample.timestamp \in Nat
    BY SentenceFacts DEF StoreSample, parsed, TypeInv, TypeOK, Samples
  <2>6. Before(sentences + 1)'
    BY <2>2, <2>3, <2>4, <2>5 DEF Before
  <2>7. NoSentenceTwice'
    <3> SUFFICES ASSUME NEW i \in DOMAIN log', NEW j \in DOMAIN log', i < j
                 PROVE  log'[i].of.timestamp < log'[j].of.timestamp
      BY DEF NoSentenceTwice
    <3>1. i \in 1 .. Len(log)
      BY <2>3
    <3>2. CASE j \in 1 .. Len(log)
      BY <2>3, <3>1, <3>2 DEF OnceInv, NoSentenceTwice
    <3>3. CASE j = Len(log) + 1
      BY <2>2, <2>3, <2>4, <3>1, <3>3 DEF Before
    <3> QED
      BY <2>3, <3>2, <3>3
  <2> QED
    BY <2>6, <2>7
<1> QED
  BY <1>1, <1>2

LEMMA OnceNext == TypeInv /\ OnceInv /\ [Next]_vars => OnceInv'
<1> SUFFICES ASSUME TypeInv, OnceInv, [Next]_vars PROVE OnceInv'
  OBVIOUS
<1> USE DEF Storing, Stamped
<1>0. sentences \in Nat /\ \A i \in DOMAIN log : log[i].of.timestamp \in Nat
  <2>1. \A i \in DOMAIN log : log[i] \in [of : Samples, track : Nat, number : Sentence,
                                         interval : Nat]
    BY ElementOfSeq, LenProperties DEF TypeInv, TypeOK
  <2> QED
    BY <2>1, SentenceFacts DEF TypeInv, TypeOK, Samples
<1>1. CASE ParseSentence
  <2>1. sentences' = sentences + 1 /\ gps_sample_timestamp' = sentences'
    BY <1>1 DEF ParseSentence
  <2>2. log' = log /\ pc' = pc /\ sample' = sample /\ gps_message_sample_storage_time'
    BY <1>1 DEF ParseSentence
  <2>3. Before(sentences)' /\ Before(sentences + 1)'
    BY <1>0, <2>1, <2>2 DEF OnceInv, Before
  <2>4. pc' \in Stamped => Before(sample.timestamp)' /\ sample'.timestamp <= sentences'
    <3> SUFFICES ASSUME pc' \in Stamped
                 PROVE  Before(sample.timestamp)' /\ sample'.timestamp <= sentences'
      OBVIOUS
    <3>1. sample.timestamp \in Nat
      BY SentenceFacts DEF TypeInv, TypeOK, Samples
    <3>2. Before(sample.timestamp) /\ sample.timestamp <= sentences
      BY <2>2 DEF OnceInv
    <3> QED
      BY <1>0, <2>1, <2>2, <3>1, <3>2 DEF Before
  <2>5. NoSentenceTwice'
    BY <2>2 DEF OnceInv, NoSentenceTwice
  <2> QED
    BY <2>1, <2>2, <2>3, <2>4, <2>5 DEF OnceInv
<1>2. CASE SetInterval
  BY <1>2 DEF SetInterval, parsed, OnceInv, Before, NoSentenceTwice
<1>3. CASE TestFlag
  BY <1>3 DEF TestFlag, MainStep, parsed, OnceInv, Before, NoSentenceTwice
<1>4. CASE LoadNumber
  BY <1>4 DEF LoadNumber, MainStep, parsed, OnceInv, Before, NoSentenceTwice
<1>5. CASE TestInterval
  BY <1>5 DEF TestInterval, MainStep, parsed, OnceInv, Before, NoSentenceTwice
<1>6. CASE LoadTimestamp
  <2>1. sample'.timestamp = sentences
    BY <1>6 DEF LoadTimestamp, OnceInv, TypeInv, TypeOK, Samples
  <2> QED
    BY <1>0, <1>6, <2>1 DEF LoadTimestamp, MainStep, parsed, OnceInv, Before, NoSentenceTwice
<1>7. CASE CopyLatitude
  <2>1. sample'.timestamp = sample.timestamp
    BY <1>7 DEF CopyLatitude, TypeInv, TypeOK, Samples
  <2> QED
    BY <1>7, <2>1 DEF CopyLatitude, MainStep, parsed, OnceInv, Before, NoSentenceTwice
<1>8. CASE CopyLongtitude
  <2>1. sample'.timestamp = sample.timestamp
    BY <1>8 DEF CopyLongtitude, TypeInv, TypeOK, Samples
  <2> QED
    BY <1>8, <2>1 DEF CopyLongtitude, MainStep, parsed, OnceInv, Before, NoSentenceTwice
<1>9. CASE StoreSample
  BY <1>9, OnceStore DEF StoreSample, MainStep, parsed, OnceInv
<1>10. CASE ClearFlag
  BY <1>10 DEF ClearFlag, MainStep, OnceInv, Before, NoSentenceTwice
<1>11. CASE PrepareToSamplingStart
  BY <1>11 DEF PrepareToSamplingStart, MainStep, OnceInv, Before, NoSentenceTwice
<1>12. CASE TrackStartStorage
  BY <1>12 DEF TrackStartStorage, MainStep, parsed, OnceInv, Before, NoSentenceTwice
<1>13. CASE TrackStopStorage
  BY <1>13 DEF TrackStopStorage, MainStep, parsed, OnceInv, Before, NoSentenceTwice
<1>14. CASE TurnOff
  BY <1>14 DEF TurnOff, MainStep, OnceInv, Before, NoSentenceTwice
<1>15. CASE NextPass
  BY <1>15 DEF NextPass, MainStep, parsed, OnceInv, Before, NoSentenceTwice
<1>16. CASE UNCHANGED vars
  BY <1>16 DEF vars, parsed, OnceInv, Before, NoSentenceTwice
<1> QED
  BY <1>1, <1>2, <1>3, <1>4, <1>5, <1>6, <1>7, <1>8, <1>9, <1>10, <1>11, <1>12,
     <1>13, <1>14, <1>15, <1>16 DEF Next, Main

\* No sentence becomes two samples, whatever is parsed between the accesses of
\* the main loop.
THEOREM SampledOnce == Spec => []NoSentenceTwice
<1>1. OnceInv => NoSentenceTwice
  BY DEF OnceInv
<1> QED
  BY <1>1, TypeInit, TypeNext, OnceInit, OnceNext, PTL DEF Spec

-----------------------------------------------------------------------------
(* The position of a sample                                                *)

\* A fix of the module's present period is not newer than the position, and the
\* sample has got the position of a time after that of its timestamp.
PositionInv ==
    /\ gga_message <= sentences
    /\ \A f \in fixes : f <= gga_message
    /\ pc \in {"longtitude", "store"} =>
           \A f \in fixes : f <= sample.timestamp => f <= sample.latitude
    /\ pc = "longtitude" => sample.latitude <= gga_message
    /\ pc = "store" => sample.latitude <= sample.longtitude
    /\ PositionIsUpToDate

LEMMA PositionInit == Init => PositionInv
BY DEF Init, PositionInv, PositionIsUpToDate

\* What is known of the numbers that the steps below compare.
LEMMA PositionTypes ==
    ASSUME TypeInv
    PROVE  /\ sentences \in Nat /\ gga_message \in Nat
           /\ fixes \subseteq Nat /\ \A f \in fixes : f <= sentences
           /\ sample \in Samples
           /\ \A s \in Samples : /\ s.timestamp \in Nat
                                 /\ s.latitude \in Nat
                                 /\ s.longtitude \in Nat
           /\ \A i \in DOMAIN log : log[i].of \in Samples
<1>1. \A i \in DOMAIN log : log[i] \in [of : Samples, track : Nat, number : Sentence,
                                       interval : Nat]
  BY ElementOfSeq, LenProperties DEF TypeInv, TypeOK
<1>2. \A i \in DOMAIN log : log[i].of \in Samples
  BY <1>1
<1>3. \A s \in Samples : s.timestamp \in Nat /\ s.latitude \in Nat /\ s.longtitude \in Nat
  BY SentenceFacts DEF Samples
<1>4. sentences \in Nat /\ gga_message \in Nat
  BY SentenceFacts DEF TypeInv, TypeOK
<1>5. fixes \subseteq Nat /\ \A f \in fixes : f <= sentences
  BY <1>4 DEF TypeInv, TypeOK
<1> QED
  BY <1>2, <1>3, <1>4, <1>5 DEF TypeInv, TypeOK

\* The new sentence is newer than every timestamp, so it asks nothing of them.
LEMMA PositionParse ==
    ASSUME TypeInv, OnceInv, PositionInv, ParseSentence
    PROVE  PositionInv'
<1> USE PositionTypes
<1>1. /\ sentences' = sentences + 1
      /\ pc' = pc /\ sample' = sample /\ log' = log
  BY DEF ParseSentence
<1>2. \/ gga_message' = sentences' /\ fixes' = fixes \cup {sentences'}
      \/ gga_message' = gga_message /\ fixes' = fixes
  BY DEF ParseSentence
<1>3. gga_message' \in Nat /\ gga_message <= gga_message' /\ gga_message' <= sentences'
  BY <1>1, <1>2 DEF PositionInv
<1>4. \A f \in fixes' : f <= gga_message'
  BY <1>1, <1>2, <1>3 DEF PositionInv
<1>5. \A f \in fixes' : f \in fixes \/ f = sentences + 1
  BY <1>1, <1>2
<1>6. pc' \in {"longtitude", "store"} =>
          \A f \in fixes' : f <= sample'.timestamp => f <= sample'.latitude
  BY <1>1, <1>5 DEF PositionInv, OnceInv, Stamped
<1>7. pc' = "longtitude" => sample'.latitude <= gga_message'
  BY <1>1, <1>3 DEF PositionInv
<1>8. PositionIsUpToDate'
  BY <1>1, <1>5 DEF PositionInv, PositionIsUpToDate, OnceInv, Before
<1> QED
  BY <1>1, <1>3, <1>4, <1>6, <1>7, <1>8 DEF PositionInv

LEMMA PositionStore ==
    ASSUME TypeInv, OnceInv, PositionInv, StoreSample
    PROVE  PositionIsUpToDate'
<1>1. fixes' = fixes
  BY DEF StoreSample, parsed
<1>2. CASE log' = log
  BY <1>1, <1>2 DEF PositionInv, PositionIsUpToDate
<1>3. CASE log' # log
  <2> DEFINE entry == [of |-> sample, track |-> track, number |-> number,
                       interval |-> IF interval_changed \/ interval = 0
                                      THEN 1 ELSE interval]
  <2>1. log' = Append(log, entry)
    BY <1>3 DEF StoreSample
  <2>2. entry.of = sample
    OBVIOUS
  <2> HIDE DEF entry
  <2>3. /\ DOMAIN log = 1 .. Len(log)
        /\ DOMAIN log' = 1 .. Len(log) + 1
        /\ \A i \in 1 .. Len(log) : log'[i] = log[i]
        /\ log'[Len(log) + 1] = entry
        /\ Len(log) \in Nat
    BY <2>1, LenProperties, AppendProperties DEF TypeInv, TypeOK
  <2>4. /\ \A f \in fixes : f <= sample.timestamp => f <= sample.latitude
        /\ sample.latitude <= sample.longtitude
    BY DEF StoreSample, MainStep, PositionInv
  <2> SUFFICES ASSUME NEW i \in DOMAIN log'
               PROVE  /\ \A f \in fixes : f <= log'[i].of.timestamp => f <= log'[i].of.latitude
                      /\ log'[i].of.latitude <= log'[i].of.longtitude
    BY <1>1 DEF PositionIsUpToDate
  <2>5. CASE i \in 1 .. Len(log)
    BY <2>3, <2>5 DEF PositionInv, PositionIsUpToDate
  <2>6. CASE i = Len(log) + 1
    BY <2>2, <2>3, <2>4, <2>6
  <2> QED
    BY <2>3, <2>5, <2>6
<1> QED
  BY <1>2, <1>3

LEMMA PositionNext ==
    TypeInv /\ OnceInv /\ PositionInv /\ [Next]_vars => PositionInv'
<1> SUFFICES ASSUME TypeInv, OnceInv, PositionInv, [Next]_vars PROVE PositionInv'
  OBVIOUS
<1>1. CASE ParseSentence
  BY <1>1, PositionParse
<1>2. CASE SetInterval
  BY <1>2 DEF SetInterval, parsed, PositionInv, PositionIsUpToDate
<1>3. CASE TestFlag
  BY <1>3 DEF TestFlag, MainStep, parsed, PositionInv, PositionIsUpToDate
<1>4. CASE LoadNumber
  BY <1>4 DEF LoadNumber, MainStep, parsed, PositionInv, PositionIsUpToDate
<1>5. CASE TestInterval
  BY <1>5 DEF TestInterval, MainStep, parsed, PositionInv, PositionIsUpToDate
<1>6. CASE LoadTimestamp
  BY <1>6 DEF LoadTimestamp, MainStep, parsed, PositionInv, PositionIsUpToDate
<1>7. CASE CopyLatitude
  <2>1. sample' = [sample EXCEPT !.latitude = gga_message] /\ sample \in Samples
    BY <1>7, PositionTypes DEF CopyLatitude
  <2>2. sample'.latitude = gga_message
    BY <2>1 DEF Samples
  <2> QED
    BY <1>7, <2>2, PositionTypes
    DEF CopyLatitude, MainStep, parsed, PositionInv, PositionIsUpToDate
<1>8. CASE CopyLongtitude
  <2>1. sample' = [sample EXCEPT !.longtitude = gga_message] /\ sample \in Samples
    BY <1>8, PositionTypes DEF CopyLongtitude
  <2>2. /\ sample'.timestamp = sample.timestamp
        /\ sample'.latitude = sample.latitude
        /\ sample'.longtitude = gga_message
    BY <2>1 DEF Samples
  <2> QED
    BY <1>8, <2>2 DEF CopyLongtitude, MainStep, parsed, PositionInv, PositionIsUpToDate
<1>9. CASE StoreSample
  BY <1>9, PositionStore DEF StoreSample, MainStep, parsed, PositionInv
<1>10. CASE ClearFlag
  BY <1>10 DEF ClearFlag, MainStep, PositionInv, PositionIsUpToDate
<1>11. CASE PrepareToSamplingStart
  BY <1>11 DEF PrepareToSamplingStart, MainStep, PositionInv, PositionIsUpToDate
<1>12. CASE TrackStartStorage
  BY <1>12 DEF TrackStartStorage, MainStep, parsed, PositionInv, PositionIsUpToDate
<1>13. CASE TrackStopStorage
  BY <1>13 DEF TrackStopStorage, MainStep, parsed, PositionInv, PositionIsUpToDate
<1>14. CASE TurnOff
  BY <1>14, PositionTypes DEF TurnOff, MainStep, PositionInv, PositionIsUpToDate
<1>15. CASE NextPass
  BY <1>15 DEF NextPass, MainStep, parsed, PositionInv, PositionIsUpToDate
<1>16. CASE UNCHANGED vars
  BY <1>16 DEF vars, parsed, PositionInv, PositionIsUpToDate
<1> QED
  BY <1>1, <1>2, <1>3, <1>4, <1>5, <1>6, <1>7, <1>8, <1>9, <1>10, <1>11, <1>12,
     <1>13, <1>14, <1>15, <1>16 DEF Next, Main

\* A stored position is not older than the last fix at the time of its timestamp,
\* and its longtitude not older than its latitude, whatever is parsed between the
\* three copies.
THEOREM PositionCorrect == Spec => []PositionIsUpToDate
<1>1. PositionInv => PositionIsUpToDate
  BY DEF PositionInv
<1> QED
  BY <1>1, TypeInit, TypeNext, OnceInit, OnceNext, PositionInit, PositionNext, PTL DEF Spec

-----------------------------------------------------------------------------
(* The interval                                                            *)

\* Two multiples of an interval differ by a multiple of it.
LEMMA Multiples ==
    ASSUME NEW a \in Nat, NEW b \in Nat, NEW k \in Nat \ {0},
           a % k = 0, b % k = 0, a < b, b <= MaxSentences
    PROVE  b - a \in {n * k : n \in 1 .. MaxSentences}
<1> DEFINE p == a \div k
           q == b \div k
<1>1. p \in Nat /\ q \in Nat /\ a = p * k /\ b = q * k
  OBVIOUS
<1> HIDE DEF p, q
<1>2. b - a = (q - p) * k
  BY <1>1
<1>3. q > p
  <2> SUFFICES ASSUME q <= p PROVE FALSE
    BY <1>1
  <2>1. q * k <= p * k
    BY <1>1
  <2> QED
    BY <1>1, <2>1
<1>4. q - p <= (q - p) * k
  BY <1>1, <1>3
<1>5. q - p \in 1 .. MaxSentences
  BY <1>1, <1>2, <1>3, <1>4, SentenceFacts
<1> QED
  BY <1>2, <1>5

\* The indices of the samples of the present track.
Present == {i \in DOMAIN log : log[i].track = track}

Unchanged == ~interval_changed /\ interval # 0

\* While a track is recorded: its numbers are below that of a sentence not yet
\* stored, and multiples of an interval that was not changed.
SpacedInv ==
    /\ \A i \in DOMAIN log : log[i].track <= track
    /\ pc \in Storing => storage_enabled
    /\ pc = "start" => ~storage_enabled
    /\ storage_enabled => \A i \in Present : log[i].number <= gps_sample_nr
    /\ storage_enabled /\ gps_message_sample_storage_time /\ pc # "clear" =>
           \A i \in Present : log[i].number < gps_sample_nr
    /\ pc \in Storing \ {"number"} =>
           /\ number <= gps_sample_nr
           /\ \A i \in Present : log[i].number < number
    /\ pc \in Stamped \cup {"timestamp"} /\ Unchanged => number % interval = 0
    /\ \A i \in Present : Unchanged => log[i].number % interval = 0
    /\ Spaced

LEMMA SpacedInit == Init => SpacedInv
BY DEF Init, SpacedInv, Spaced, Present, Storing, Stamped

\* What is known of the numbers that the steps below compare.
LEMMA SpacedTypes ==
    ASSUME TypeInv
    PROVE  /\ gps_sample_nr \in Nat /\ track \in Nat /\ interval \in Nat
           /\ number \in Nat /\ number <= MaxSentences /\ MaxSentences \in Nat
           /\ \A i \in DOMAIN log : /\ log[i].number \in Nat
                                    /\ log[i].track \in Nat
                                    /\ log[i].interval \in Nat
<1>1. \A i \in DOMAIN log : log[i] \in [of : Samples, track : Nat, number : Sentence,
                                       interval : Nat]
  BY ElementOfSeq, LenProperties DEF TypeInv, TypeOK
<1>2. \A i \in DOMAIN log : log[i].number \in Nat /\ log[i].track \in Nat /\ log[i].interval \in Nat
  BY <1>1, SentenceFacts
<1>3. interval \in Nat /\ track \in Nat
  BY IntervalAssumption, SentenceFacts DEF TypeInv, TypeOK
<1>4. number \in Nat /\ number <= MaxSentences /\ gps_sample_nr \in Nat
  BY SentenceFacts DEF TypeInv, TypeOK, Sentence
<1> QED
  BY <1>2, <1>3, <1>4, SentenceFacts

\* The stored number is above those of the track, and a multiple as they are.
LEMMA SpacedStore ==
    ASSUME TypeInv, SpacedInv, StoreSample
    PROVE  SpacedInv'
<1> USE SpacedTypes
<1>1. /\ pc = "store" /\ pc' = "clear"
      /\ number' = number /\ track' = track /\ interval' = interval
      /\ interval_changed' = interval_changed /\ gps_sample_nr' = gps_sample_nr
  BY DEF StoreSample, MainStep, parsed
<1>2. CASE log' = log
  BY <1>1, <1>2 DEF SpacedInv, Spaced, Present, Storing, Stamped, Unchanged
<1>3. CASE log' # log
  <2> DEFINE every == IF interval_changed \/ interval = 0 THEN 1 ELSE interval
             entry == [of |-> sample, track |-> track, number |-> number,
                       interval |-> every]
  <2>1. log' = Append(log, entry)
    BY <1>3 DEF StoreSample
  <2>2. entry.track = track /\ entry.number = number /\ entry.interval = every
    OBVIOUS
  <2> HIDE DEF entry
  <2>3. /\ DOMAIN log = 1 .. Len(log)
        /\ DOMAIN log' = 1 .. Len(log) + 1
        /\ \A i \in 1 .. Len(log) : log'[i] = log[i]
        /\ log'[Len(log) + 1] = entry
        /\ Len(log) \in Nat
    BY <2>1, LenProperties, AppendProperties DEF TypeInv, TypeOK
  <2>4. /\ number <= gps_sample_nr
        /\ \A i \in Present : log[i].number < number
        /\ Unchanged => number % interval = 0
        /\ \A i \in Present : Unchanged => log[i].number % interval = 0
    BY <1>1 DEF SpacedInv, Storing, Stamped
  <2>5. \A i \in DOMAIN log' : \/ i \in DOMAIN log /\ log'[i] = log[i]
                               \/ i = Len(log) + 1 /\ log'[i] = entry
    BY <2>3
  <2>6. \A i \in DOMAIN log' : log'[i].track <= track
    BY <2>2, <2>5 DEF SpacedInv
  <2>7. \A i \in Present' : \/ i \in Present /\ log'[i] = log[i]
                            \/ log'[i] = entry
    BY <1>1, <2>5 DEF Present
  <2>8. \A i \in Present' : log'[i].number <= gps_sample_nr
    BY <2>2, <2>4, <2>7 DEF Present
  <2>9. \A i \in Present' : Unchanged => log'[i].number % interval = 0
    BY <2>2, <2>4, <2>7
  <2>10. Spaced'
    <3> SUFFICES ASSUME NEW i \in DOMAIN log', NEW j \in DOMAIN log', i < j,
                        log'[i].track = log'[j].track
                 PROVE  log'[j].number - log'[i].number
                            \in {n * log'[j].interval : n \in 1 .. MaxSentences}
      BY DEF Spaced
    <3>1. i \in DOMAIN log /\ log'[i] = log[i]
      BY <2>3
    <3>2. CASE j \in DOMAIN log
      BY <2>3, <3>1, <3>2 DEF SpacedInv, Spaced
    <3>3. CASE j = Len(log) + 1
      <4>1. i \in Present
        BY <2>2, <2>3, <3>1, <3>3 DEF Present
      <4>2. log[i].number < number /\ log[i].number \in Nat
        BY <2>4, <3>1, <4>1
      <4>3. CASE Unchanged
        <5>1. every = interval /\ interval \in Nat \ {0}
          BY <4>3 DEF Unchanged
        <5>2. log[i].number % interval = 0 /\ number % interval = 0
          BY <2>4, <4>1, <4>3
        <5>3. number - log[i].number \in {n * interval : n \in 1 .. MaxSentences}
          BY <4>2, <5>1, <5>2, Multiples
        <5> QED
          BY <2>2, <2>3, <3>1, <3>3, <5>1, <5>3
      <4>4. CASE ~Unchanged
        <5>1. every = 1
          BY <4>4 DEF Unchanged
        <5>2. number - log[i].number \in 1 .. MaxSentences
          BY <4>2
        <5>3. number - log[i].number = (number - log[i].number) * 1
          BY <5>2
        <5> QED
          BY <2>2, <2>3, <3>1, <3>3, <5>1, <5>2, <5>3
      <4> QED
        BY <4>3, <4>4
    <3> QED
      BY <2>3, <3>2, <3>3
  <2> QED
    BY <1>1, <2>6, <2>8, <2>9, <2>10 DEF SpacedInv, Storing, Stamped, Unchanged
<1> QED
  BY <1>2, <1>3

LEMMA SpacedNext ==
    TypeInv /\ OnceInv /\ SpacedInv /\ [Next]_vars => SpacedInv'
<1> SUFFICES ASSUME TypeInv, OnceInv, SpacedInv, [Next]_vars PROVE SpacedInv'
  OBVIOUS
<1> USE SpacedTypes DEF Storing, Stamped
<1>1. CASE ParseSentence
  BY <1>1 DEF ParseSentence, SpacedInv, Spaced, Present, Unchanged
<1>2. CASE SetInterval
  BY <1>2 DEF SetInterval, parsed, SpacedInv, Spaced, Present, Unchanged
<1>3. CASE TestFlag
  BY <1>3 DEF TestFlag, MainStep, parsed, SpacedInv, Spaced, Present, Unchanged
<1>4. CASE LoadNumber
  <2>1. \A i \in Present : log[i].number < gps_sample_nr
    BY <1>4 DEF LoadNumber, MainStep, SpacedInv, OnceInv
  <2> QED
    BY <1>4, <2>1 DEF LoadNumber, MainStep, parsed, SpacedInv, Spaced, Present, Unchanged
<1>5. CASE TestInterval
  <2>1. pc' = "timestamp" /\ Unchanged => number % interval = 0
    BY <1>5 DEF TestInterval, MainStep, Remainder, Unchanged
  <2> QED
    BY <1>5, <2>1 DEF TestInterval, MainStep, parsed, SpacedInv, Spaced, Present, Unchanged
<1>6. CASE LoadTimestamp
  BY <1>6 DEF LoadTimestamp, MainStep, parsed, SpacedInv, Spaced, Present, Unchanged
<1>7. CASE CopyLatitude
  BY <1>7 DEF CopyLatitude, MainStep, parsed, SpacedInv, Spaced, Present, Unchanged
<1>8. CASE CopyLongtitude
  BY <1>8 DEF CopyLongtitude, MainStep, parsed, SpacedInv, Spaced, Present, Unchanged
<1>9. CASE StoreSample
  BY <1>9, SpacedStore
<1>10. CASE ClearFlag
  BY <1>10 DEF ClearFlag, MainStep, SpacedInv, Spaced, Present, Unchanged
<1>11. CASE PrepareToSamplingStart
  BY <1>11 DEF PrepareToSamplingStart, MainStep, SpacedInv, Spaced, Present, Unchanged
<1>12. CASE TrackStartStorage
  <2>1. /\ track' = track + 1 /\ log' = log /\ pc' = "requests"
        /\ pc = "start"
    BY <1>12 DEF TrackStartStorage, MainStep
  <2>2. \A i \in DOMAIN log : log[i].track < track + 1
    BY DEF SpacedInv
  <2>3. Present' = {}
    BY <2>1, <2>2 DEF Present
  <2>4. Spaced'
    BY <2>1 DEF SpacedInv, Spaced
  <2> QED
    BY <2>1, <2>2, <2>3, <2>4 DEF SpacedInv
<1>13. CASE TrackStopStorage
  BY <1>13 DEF TrackStopStorage, MainStep, parsed, SpacedInv, Spaced, Present, Unchanged
<1>14. CASE TurnOff
  BY <1>14 DEF TurnOff, MainStep, SpacedInv, Spaced, Present, Unchanged
<1>15. CASE NextPass
  BY <1>15 DEF NextPass, MainStep, parsed, SpacedInv, Spaced, Present, Unchanged
<1>16. CASE UNCHANGED vars
  BY <1>16 DEF vars, parsed, SpacedInv, Spaced, Present, Unchanged
<1> QED
  BY <1>1, <1>2, <1>3, <1>4, <1>5, <1>6, <1>7, <1>8, <1>9, <1>10, <1>11, <1>12,
     <1>13, <1>14, <1>15, <1>16 DEF Next, Main

\* The samples of a track keep the interval as long as it is not changed, for every
\* set of intervals.
THEOREM IntervalKept == Spec => []Spaced
<1>1. SpacedInv => Spaced
  BY DEF SpacedInv
<1> QED
  BY <1>1, TypeInit, TypeNext, OnceInit, OnceNext, SpacedInit, SpacedNext, PTL DEF Spec

=============================================================================
