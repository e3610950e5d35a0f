---------------------------- MODULE MCRtcTimeout ----------------------------
EXTENDS RtcTimeout

MCWrap == 5

\* The proportions of the code: a delay and a conversion take milliseconds, the
\* waits of ble_uart.c a second, a listing and a search two, a track five.
MCDuration == [adc |-> 1, delay |-> 1, ble |-> 2, note |-> 2,
               list |-> 3, search |-> 3, track |-> 4]
=============================================================================
