--------------------------- MODULE MCChannelQueue ---------------------------
(* A queue of four jobs; the clock shows two times. *)
EXTENDS ChannelQueue

MCKey == <<3, 1, 2, 4>>
=============================================================================
