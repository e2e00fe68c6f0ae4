----------------------------- MODULE MCAudioHw -----------------------------
(* Values of the constants of AudioHw for TLC.                             *)
EXTENDS AudioHw

CONSTANT i1

OneInput == {i1}

SpeakerOrSco == {{"SPEAKER"}, {"SCO_HEADSET"}}

MicOrSco == {"BUILTIN_MIC", "SCO_HEADSET"}
OnlyMicSource == {"MIC"}

\* the code tells a call from the rest only
Calls == {"NORMAL", "IN_CALL"}
NoCalls == {"NORMAL"}

EitherNrec == {TRUE, FALSE}

\* the preset is accepted and the RIL client there; VoiceCapture and RilClient
\* are about those that are not
Outcome(pcm, tx) ==
  [preset |-> TRUE, ril |-> TRUE, pcm |-> pcm, rx |-> TRUE, tx |-> tx]
AllWell == Outcome(TRUE, TRUE)
\* the PCM of a stream does not open
StreamFailure == Outcome(FALSE, TRUE)
\* the second PCM of the call or of SCO does not
CallFailure == Outcome(TRUE, FALSE)
Failures == {AllWell, StreamFailure, CallFailure}

\* the view of the run AudioHw: all but the pointers to the PCMs of the streams,
\* which no guard and no property of the run looks at (TransfersAreSafe is
\* proved), so that states that differ in them only have the same future
WithoutPcm(streams) == [s \in DOMAIN streams |-> [streams[s] EXCEPT !.pcm = "null"]]
view == <<adev, WithoutPcm(outs), WithoutPcm(ins), io_handle>>

=============================================================================
