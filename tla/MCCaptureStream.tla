--------------------------- MODULE MCCaptureStream ---------------------------
(* CaptureStream for TLC: periods of 3 frames, a ramp of 5, reads of less   *)
(* than a period, of a period, and of more.                                *)
EXTENDS CaptureStream

MCRequests == {2, 3, 4}
MayFail == BOOLEAN
=============================================================================
