----------------------------- MODULE MCFrameTop -----------------------------
(* Three slots behind two selector bits: 0 and 1 registered, 2 empty, and the  *)
(* value 3 outside the frame.                                                  *)
EXTENDS FrameTop
MCPresent == {0, 1}
=============================================================================
