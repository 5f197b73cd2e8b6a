----------------------- MODULE MC_VideoToolboxDecoder -----------------------
(* Two frames in flight, so a delivery can be pending while another is      *)
(* queued; a queue of two; three format descriptions, so a decoder can be  *)
(* created, destroyed on new parameter sets and created again.             *)
EXTENDS VideoToolboxDecoder
=============================================================================
