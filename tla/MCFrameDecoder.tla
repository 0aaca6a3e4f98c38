--------------------------- MODULE MCFrameDecoder ---------------------------
(* Instances of FrameDecoder for TLC; a run gives its constants in a .cfg. *)
EXTENDS FrameDecoder
=============================================================================
