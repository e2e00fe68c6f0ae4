---------------------------- MODULE AudioRouting ----------------------------
(***************************************************************************)
(* What the audio HAL derives from its devices and its input source: the   *)
(* identifiers that index the route table, the row of the table, the path  *)
(* the modem is told of.  A device mask is a set of device names; an input *)
(* device has lost AUDIO_DEVICE_BIT_IN, and is a name or "NONE".           *)
(***************************************************************************)
EXTENDS Naturals

ScoOutDevices == {"SCO", "SCO_HEADSET", "SCO_CARKIT"}
OutDevices == ScoOutDevices \cup {"SPEAKER", "EARPIECE", "HEADSET", "HEADPHONE"}
InDevices == {"BUILTIN_MIC", "HEADSET", "SCO_HEADSET"}

TabSources == {"MIC", "CAMCORDER", "VOICE_RECOGNITION", "VOICE_COMMUNICATION",
               "VOICE_CALL"}
Sources == TabSources \cup {"DEFAULT"}
SourceIds == TabSources \cup {"NONE"}

\* the device masks that have an identifier
MasksOf ==
  [SPEAKER |-> {{"SPEAKER"}}, EARPIECE |-> {{"EARPIECE"}},
   HEADSET |-> {{"HEADSET"}}, HEADPHONES |-> {{"HEADPHONE"}},
   BT_SCO |-> {{d} : d \in ScoOutDevices},
   SPEAKER_AND_HEADSET |-> {{"SPEAKER", "HEADSET"}, {"SPEAKER", "HEADPHONE"}},
   SPEAKER_AND_EARPIECE |-> {{"SPEAKER", "EARPIECE"}}]

get_output_device_id(device) ==
  IF \E id \in DOMAIN MasksOf : device \in MasksOf[id]
  THEN CHOOSE id \in DOMAIN MasksOf : device \in MasksOf[id]
  ELSE "NONE"
OutIds == DOMAIN MasksOf \cup {"NONE"}

get_input_source_id(source) == IF source \in TabSources THEN source ELSE "NONE"

\* struct route_config; es325_mode is ES325_MODE_LEVEL for good, so that only
\* the second of the two presets is ever read
Config(output, input, preset) ==
  [output_route |-> output, input_route |-> input, es325_preset |-> preset]

media_speaker == Config("media-speaker", "media-main-mic", "OFF")
media_headphones == Config("media-headphones", "media-main-mic", "OFF")
media_earpiece == Config("media-earpiece", "media-main-mic", "OFF")
media_headset == Config("media-headphones", "media-headset-mic", "OFF")
camcorder_speaker == Config("media-speaker", "media-second-mic", "CAMCORDER")
camcorder_headphones == Config("media-headphones", "media-second-mic", "CAMCORDER")
voice_rec_speaker == Config("voice-rec-speaker", "voice-rec-main-mic", "ASRA_DESKTOP")
voice_rec_headphones ==
  Config("voice-rec-headphones", "voice-rec-main-mic", "ASRA_DESKTOP")
voice_rec_headset ==
  Config("voice-rec-headphones", "voice-rec-headset-mic", "ASRA_HEADSET")
communication_speaker ==
  Config("communication-speaker", "communication-main-mic", "VOIP_DESKTOP")
communication_earpiece ==
  Config("communication-earpiece", "communication-main-mic", "OFF")
communication_headphones ==
  Config("communication-headphones", "communication-main-mic", "VOIP_HP_DESKTOP")
communication_headset ==
  Config("communication-headphones", "communication-headset-mic", "VOIP_HEADSET")
voice_speaker == Config("voice-speaker", "voice-main-mic", "OFF")
voice_earpiece == Config("voice-earpiece", "voice-main-mic", "OFF")
voice_headphones == Config("voice-headphones", "voice-main-mic", "OFF")
voice_headset == Config("voice-headphones", "voice-headset-mic", "OFF")
speaker_and_headphones == Config("speaker-and-headphones", "main-mic", "CURRENT")
bluetooth_sco == Config("bt-sco-headset", "bt-sco-mic", "OFF")
none == Config("none", "none", "OFF")

\* a line of the table; only VOICE_CALL has a row of its own for both outputs
Line(speaker, earpiece, headset, headphones, both, speakerAndEarpiece) ==
  [SPEAKER |-> speaker, EARPIECE |-> earpiece, HEADSET |-> headset,
   HEADPHONES |-> headphones, BT_SCO |-> bluetooth_sco,
   SPEAKER_AND_HEADSET |-> both, SPEAKER_AND_EARPIECE |-> speakerAndEarpiece]

route_configs ==
  [MIC |-> Line(media_speaker, media_earpiece, media_headset, media_headphones,
                speaker_and_headphones, media_speaker),
   CAMCORDER |-> Line(camcorder_speaker, none, camcorder_headphones,
                      camcorder_headphones, speaker_and_headphones, camcorder_speaker),
   VOICE_RECOGNITION |-> Line(voice_rec_speaker, none, voice_rec_headset,
                              voice_rec_headphones, speaker_and_headphones,
                              voice_rec_speaker),
   VOICE_COMMUNICATION |-> Line(communication_speaker, communication_earpiece,
                                communication_headset, communication_headphones,
                                speaker_and_headphones, communication_earpiece),
   VOICE_CALL |-> Line(voice_speaker, voice_earpiece, voice_headset, voice_headphones,
                       voice_headphones, voice_earpiece)]

\* the output that stands in for none when only an input is routed
OutIdForInput(in_device) ==
  IF in_device = "HEADSET" THEN "HEADSET"
  ELSE IF in_device = "SCO_HEADSET" THEN "BT_SCO" ELSE "SPEAKER"

\* "reset": the path is left as audio_route_reset makes it
RouteFor(in, out, in_device) ==
  LET source == IF in = "NONE" THEN "MIC" ELSE in
      output == IF out = "NONE" THEN OutIdForInput(in_device) ELSE out
      row == route_configs[source][output]
  IN  Config(IF out = "NONE" THEN "reset" ELSE row.output_route,
             IF in = "NONE" THEN "reset" ELSE row.input_route,
             IF in = "NONE" THEN "OFF" ELSE row.es325_preset)

\* adev_set_call_audio_path: the handset for whatever is not one known device;
\* nrec is what the framework last said of the Bluetooth headset
call_audio_path(out_device, nrec) ==
  IF out_device \in {{d} : d \in ScoOutDevices}
  THEN IF nrec THEN "BLUETOOTH" ELSE "BLUETOOTH_NO_NR"
  ELSE IF out_device \in {{"SPEAKER"}, {"HEADSET"}, {"HEADPHONE"}}
       THEN CHOOSE d \in out_device : TRUE
       ELSE "EARPIECE"

\* what the operators above can return
ConfigsOf(line) == {line[out] : out \in DOMAIN line}
Configs == UNION {ConfigsOf(route_configs[s]) : s \in TabSources}
Paths == {c.output_route : c \in Configs} \cup {c.input_route : c \in Configs}
           \cup {"reset"}
Presets == {c.es325_preset : c \in Configs} \cup {"INIT", "OFF"}
CallPaths == {"SPEAKER", "HEADSET", "HEADPHONE", "EARPIECE", "BLUETOOTH",
              "BLUETOOTH_NO_NR"}

=============================================================================
