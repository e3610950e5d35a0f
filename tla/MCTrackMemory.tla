--------------------------- MODULE MCTrackMemory ---------------------------
(***************************************************************************)
(* TrackMemory on a small flash.  Searches stay in the key area, which     *)
(* holds nothing but keys, so that what Misread gives does not matter.     *)
(***************************************************************************)
EXTENDS TrackMemory

MCMisread == [word \in OtherWords |-> Key(0, 0, TRUE)]
=============================================================================
