----------------------------- MODULE TrackStore -----------------------------
(***************************************************************************)
(* What memory_organization.c promises whoever records tracks and asks for *)
(* them: a list of tracks, of which the last may be growing.  TrackMemory  *)
(* implements it.                                                          *)
(***************************************************************************)
EXTENDS Naturals, Sequences

CONSTANT Samples

VARIABLES
    tracks,                         \* the samples of each track
    recording,
    restarted,                      \* since the last erasure
    void                            \* a limit of the format has been met

vars == <<tracks, recording, restarted, void>>

Init == tracks = <<>> /\ ~recording /\ ~restarted /\ ~void

Start ==
    /\ ~recording /\ ~restarted
    /\ tracks' = Append(tracks, <<>>)
    /\ recording' = TRUE
    /\ UNCHANGED restarted

\* After an erasure in mid-track the samples belong to no track.
Store ==
    /\ recording /\ recording'
    /\ IF tracks = <<>> THEN tracks' = <<>>
       ELSE \E s \in Samples :
                tracks' = [tracks EXCEPT ![Len(tracks)] = Append(@, s)]
    /\ UNCHANGED restarted

Stop ==
    /\ recording
    /\ recording' = FALSE
    /\ UNCHANGED <<tracks, restarted>>

\* Power is lost: what was finished stays, what was recorded is kept in part, or
\* not at all.
Restart ==
    LET finished == IF recording /\ tracks # <<>>
                    THEN SubSeq(tracks, 1, Len(tracks) - 1) ELSE tracks
    IN  /\ \/ tracks' = finished
           \/ /\ recording
              /\ Len(tracks') = Len(finished) + 1
              /\ SubSeq(tracks', 1, Len(finished)) = finished
        /\ recording' = FALSE
        /\ restarted' = TRUE

Clear ==
    /\ tracks' = <<>>
    /\ restarted' = FALSE /\ void' = FALSE
    /\ UNCHANGED recording

\* Nothing is promised beyond the limits, nor of a track started after a restart.
GiveUp == void' = TRUE

Next ==
    \/ GiveUp
    \/ ~void /\ ~void' /\ (Start \/ Store \/ Stop \/ Restart)
    \/ Clear

Spec == Init /\ [][Next]_vars
=============================================================================
