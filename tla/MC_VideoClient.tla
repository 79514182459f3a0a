--------------------------- MODULE MC_VideoClient ----------------------------
(* An audio and a video stream.  Six events let a stall of each stream      *)
(* begin and end after the start of playback.                               *)
EXTENDS VideoClient
=============================================================================
