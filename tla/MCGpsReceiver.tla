--------------------------- MODULE MCGpsReceiver ---------------------------
(* GpsReceiver with a field of given width, one of any width and a checksum. *)
EXTENDS GpsReceiver

MCWidths == <<2, 0, 1>>
=============================================================================
