--------------------------- MODULE MCFrameBuffer ---------------------------
(* Instances of FrameBuffer for TLC.                                       *)
EXTENDS FrameBuffer
=============================================================================
