---------------------------- MODULE MCRilClient ----------------------------
(* RilClient for TLC: the device's thread and one stream. *)
EXTENDS RilClient, TLC

CONSTANTS stream, low, left

OneStream == {stream}
OneLeft == {left}
MCVolumes == {low, FullVolume}
MCModes == {"NORMAL", "RINGTONE", "IN_CALL"}
=============================================================================
