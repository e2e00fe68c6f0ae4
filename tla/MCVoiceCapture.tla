--------------------------- MODULE MCVoiceCapture ---------------------------
(* Values of the constants of VoiceCapture for TLC.                        *)
EXTENDS VoiceCapture

CONSTANT h1

OneHandle == {h1}
NsAndAec == {"NS", "AEC"}

\* presets of all kinds, CURRENT (both outputs) and none
SomeOutputs == {{}, {"SPEAKER"}, {"HEADSET"}, {"SPEAKER", "HEADSET"}}
MicOrSco == {"BUILTIN_MIC", "SCO_HEADSET"}
SomeSources == {"MIC", "VOICE_RECOGNITION", "VOICE_COMMUNICATION"}

\* every control opens; one that a recording needs does not, or the sleep node
SomeFailures == {{}, {"vp"}, {"preset"}, {"ns"}, {"sleep"}}

=============================================================================
