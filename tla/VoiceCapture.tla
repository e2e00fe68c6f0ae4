---------------------------- MODULE VoiceCapture ----------------------------
(***************************************************************************)
(* The input streams of the audio HAL together with the eS325 bundle.      *)
(* AudioHw takes an entry point of the HAL as one action and knows nothing *)
(* of the bundle but whether it accepts a preset; ES325 takes any sequence *)
(* of calls.  Here the HAL makes the calls: an entry point that calls the  *)
(* bundle twice is two actions, and the effects framework, which calls the *)
(* bundle without adev->lock, comes between them.                          *)
(*                                                                         *)
(* No call is under way (AudioHw).  Closing a stream is, for the bundle,   *)
(* its standby.                                                            *)
(***************************************************************************)
EXTENDS AudioRouting

CONSTANTS
  Handles,      \* the input streams, identified by their IO handle
  NoHandle,     \* ES325_IO_HANDLE_NONE
  NumSessions,  \* ADNC_PFX_NUM_SESSION
  Effects,      \* the effects the framework creates from the bundle
  OutMasks,     \* the output devices the framework routes to
  InDevs,       \* the input devices the framework routes to
  InSources,    \* the sources the framework records from
  OpenFailures  \* the sets of controls that may fail to open in one call

NoRoute == <<"none", "none">>   \* cur_route_id = 0
NoDevice == "NONE"

VARIABLES
  dev, tab,  \* the bundle
  adev,      \* what routing looks at in struct audio_device
  ins,       \* the input streams
  pending,   \* the second call to the bundle that an entry point still makes
  answer     \* of eS325_UsePreset: a failure stands until a call succeeds.  A
             \* history variable

vars == <<dev, tab, adev, ins, pending, answer>>

Bundle == INSTANCE ES325 WITH
  Presets <- Presets \ {"INIT", "CURRENT"}, ForeignTypes <- {}, VeqInputs <- {}

ASSUME CaptureAssumption ==
  /\ NumSessions \in Nat \ {0}
  /\ NoHandle \notin Handles
  /\ Effects \subseteq Bundle!ProcIds
  /\ OutMasks \subseteq SUBSET OutDevices
  /\ InDevs \subseteq InDevices
  /\ InSources \subseteq TabSources \ {"VOICE_CALL"}
  /\ OpenFailures \subseteq SUBSET Bundle!Ctrls
  /\ OpenFailures # {}

-----------------------------------------------------------------------------
(* Routing.                                                                *)

RouteId(a) == <<get_input_source_id(a.input_source),
                get_output_device_id(a.out_device)>>
PresetOf(a) == RouteFor(RouteId(a)[1], RouteId(a)[2], a.in_device).es325_preset

\* the preset that a change to a asks the eS325 for, {} if none
PresetsToAsk(a) ==
  IF RouteId(a) = a.cur_route THEN {} ELSE {PresetOf(a)} \ {"CURRENT", a.es325_preset}

\* select_devices: the route is cached before the preset is asked for, and the
\* preset once eS325_UsePreset succeeds
NothingToAsk(a) ==
  /\ PresetsToAsk(a) = {}
  /\ adev' = [a EXCEPT !.cur_route = RouteId(a)]
  /\ UNCHANGED <<dev, answer>>

\* broken: a preset that was turned down is taken for the one in use
PresetRefusedUnseen(a) ==
  \E p \in PresetsToAsk(a) :
    /\ Bundle!UsePresetRefused(dev, p)
    /\ adev' = [a EXCEPT !.cur_route = RouteId(a), !.es325_preset = p]
    /\ answer' = IF answer = "failed" THEN answer ELSE "refused"
    /\ UNCHANGED dev

PresetRefused(a) ==
  \E p \in PresetsToAsk(a) :
    /\ Bundle!UsePresetRefused(dev, p)
    /\ adev' = [a EXCEPT !.cur_route = RouteId(a)]
    /\ answer' = IF answer = "failed" THEN answer ELSE "refused"
    /\ UNCHANGED dev

PresetTried(a) ==
  \E p \in PresetsToAsk(a), bad \in OpenFailures :
    LET asked == [dev EXCEPT !.requested_preset = p]
        ok == Bundle!ReevaluateOk(asked, tab, dev.ioHandle, bad)
    IN  /\ ~Bundle!UsePresetRefused(dev, p)
        /\ dev' = Bundle!Reevaluate(asked, tab, dev.ioHandle, bad)
        /\ adev' = [a EXCEPT !.cur_route = RouteId(a),
                             !.es325_preset = IF ok THEN p ELSE @]
        /\ answer' = IF ok THEN "ok" ELSE "failed"

select_devices(a) == NothingToAsk(a) \/ PresetRefused(a) \/ PresetTried(a)

-----------------------------------------------------------------------------
(* The entry points of the HAL.                                            *)

ClosedIn == [standby |-> TRUE, source |-> "DEFAULT", device |-> NoDevice]

\* adev_open_input_stream sets the device, and the source comes by
\* in_set_parameters before the stream is first read
OpenInput(h, source, device) ==
  /\ pending = "none" /\ ins[h] = ClosedIn
  /\ ins' = [ins EXCEPT ![h] = [standby |-> TRUE, source |-> source, device |-> device]]
  /\ UNCHANGED <<dev, tab, adev, pending, answer>>

Recorded(a, in) == [a EXCEPT !.input_source = in.source, !.in_device = in.device]

\* in_read on a stream in standby: start_input_stream.  The framework records
\* one input at a time.
StartInput(h) ==
  /\ pending = "none" /\ ins[h] # ClosedIn /\ \A i \in Handles : ins[i].standby
  /\ ins' = [ins EXCEPT ![h].standby = FALSE]
  /\ adev' = Recorded(adev, ins[h])
  /\ Bundle!SetActiveIoHandle(h)
  /\ pending' = "select"
  /\ UNCHANGED answer
StartInputSelect ==
  /\ pending = "select"
  /\ select_devices(adev)
  /\ pending' = "none"
  /\ UNCHANGED <<tab, ins>>

\* broken: the source of the recording is kept, and with it its route
StoppedKeepSource(a) == [a EXCEPT !.in_device = NoDevice]

Stopped(a) == [a EXCEPT !.input_source = "DEFAULT", !.in_device = NoDevice]

\* do_in_standby, of a stream that records: the devices first, then the handle
StandbyInput(h) ==
  /\ pending = "none" /\ ~ins[h].standby
  /\ ins' = [ins EXCEPT ![h].standby = TRUE]
  /\ select_devices(Stopped(adev))
  /\ pending' = "clear"
  /\ UNCHANGED tab
StandbyInputClear ==
  /\ \/ pending = "clear"
     \/ pending = "none" /\ \E h \in Handles : ins[h] # ClosedIn /\ ins[h].standby
  /\ Bundle!SetActiveIoHandle(NoHandle)
  /\ pending' = "none"
  /\ UNCHANGED <<adev, ins, answer>>

\* broken: a new source waits for the next recording
in_set_parameters_source_waits(h, source) ==
  /\ pending = "none" /\ ins[h] # ClosedIn /\ ins[h].source # source
  /\ ins' = [ins EXCEPT ![h].source = source]
  /\ UNCHANGED <<dev, tab, adev, pending, answer>>

\* in_set_parameters: the source, or the device, which stops a recording when
\* SCO starts or stops
in_set_parameters(h, source) ==
  LET in == [ins[h] EXCEPT !.source = source]
  IN  /\ pending = "none" /\ ins[h] # ClosedIn /\ ins[h].source # source
      /\ ins' = [ins EXCEPT ![h] = in]
      /\ IF in.standby THEN UNCHANGED <<dev, adev, answer>>
         ELSE select_devices(Recorded(adev, in))
      /\ UNCHANGED <<tab, pending>>
in_set_parameters_routing(h, device) ==
  LET sco == "SCO_HEADSET" \in {device, ins[h].device}
      in == [ins[h] EXCEPT !.device = device, !.standby = @ \/ sco]
  IN  /\ pending = "none" /\ ins[h] # ClosedIn /\ ins[h].device # device
      /\ ins' = [ins EXCEPT ![h] = in]
      /\ IF ins[h].standby THEN UNCHANGED <<dev, adev, answer>>
         ELSE IF sco THEN select_devices(Stopped(adev))
         ELSE select_devices(Recorded(adev, in))
      /\ pending' = IF sco THEN "clear" ELSE "none"
      /\ UNCHANGED tab

\* The outputs route to a mask, or the last of them stops
\* (AudioHw!out_set_parameters, DoOutStandby)
RouteOutputs(mask) ==
  /\ pending = "none" /\ mask # adev.out_device
  /\ IF mask = {} THEN adev' = [adev EXCEPT !.out_device = {}] /\ UNCHANGED <<dev, answer>>
     ELSE select_devices([adev EXCEPT !.out_device = mask])
  /\ UNCHANGED <<tab, ins, pending>>

\* in_add_audio_effect, in_remove_audio_effect, under adev->lock
ChangeEffect(h, type) ==
  /\ pending = "none" /\ ins[h] # ClosedIn
  /\ Bundle!AddEffect(h, type) \/ Bundle!RemoveEffect(h, type)
  /\ UNCHANGED <<adev, ins, pending, answer>>

-----------------------------------------------------------------------------
(* The effects framework.                                                  *)

CallEffects ==
  /\ \/ \E h \in Handles, p \in Effects : ins[h] # ClosedIn /\ Bundle!AdncCreate(h, p)
     \/ \E s \in Bundle!Sessions, p \in Effects : Bundle!AdncRelease(s, p)
  /\ UNCHANGED <<adev, ins, pending, answer>>

-----------------------------------------------------------------------------

Init ==
  /\ Bundle!Init
  /\ adev = [out_device |-> {}, in_device |-> NoDevice, input_source |-> "DEFAULT",
             cur_route |-> NoRoute, es325_preset |-> "INIT"]
  /\ ins = [h \in Handles |-> ClosedIn]
  /\ pending = "none"
  /\ answer = "ok"

Next ==
  \/ \E h \in Handles, s \in InSources, d \in InDevs : OpenInput(h, s, d)
  \/ \E h \in Handles : StartInput(h)
  \/ StartInputSelect
  \/ \E h \in Handles : StandbyInput(h)
  \/ StandbyInputClear
  \/ \E h \in Handles, s \in InSources : in_set_parameters(h, s)
  \/ \E h \in Handles, d \in InDevs : in_set_parameters_routing(h, d)
  \/ \E mask \in OutMasks : RouteOutputs(mask)
  \/ \E h \in Handles, type \in Effects : ChangeEffect(h, type)
  \/ CallEffects

Spec == Init /\ [][Next]_vars

-----------------------------------------------------------------------------
(* Properties.                                                             *)

\* The two caches of the preset, the HAL's (adev->es325_preset) and the
\* bundle's (requested_preset), agree: a refusal leaves both as they were, and
\* what a failed call did to them ends with the next one that succeeds.
CachesAgree == answer = "failed" \/ adev.es325_preset = dev.requested_preset

\* A recording runs on the preset that its own source and the output call for
\* if it has effects in use, whatever changed last, in the HAL or in the bundle,
\* and else the chip sleeps.  Only a change from one ASRA route to another is
\* turned down, and what that left ends with the recording.
RecordedOnItsPreset ==
  /\ \A h \in Handles :
       LET p == PresetOf(Recorded(adev, ins[h]))
           allowed == IF answer = "refused" THEN Bundle!AsraPresets ELSE {p}
           opened == dev.fd["vp"] = "open" /\ dev.fd["preset"] = "open"
       IN  /\ pending = "none" /\ dev.ioHandle = h /\ answer # "failed"
           /\ RouteId(adev)[2] # "NONE" /\ p # "CURRENT"
           => /\ p \in allowed
              /\ IF h \in Bundle!Users /\ opened THEN dev.current_preset \in allowed
                 ELSE dev.current_preset = "OFF"
  /\ answer = "refused" => dev.ioHandle # NoHandle

\* eS325_SetActiveIoHandle evaluates the usage before it stores the handle, and
\* so leaves the effects of a new recording aside; because the HAL selects the
\* devices right after it, the recording has the noise suppression its effects
\* call for all the same ("apply the settings of the session associated with
\* the handle (if any)").
RecordingIsTuned ==
  /\ pending = "none" /\ answer # "failed"
  /\ dev.requested_preset # "INIT" /\ dev.fd["ns"] = "open"
  => Bundle!RecordingIsTuned

\* While a stream is recorded and keeps effects in use, with a preset asked
\* for, nothing puts the chip to sleep.
RecordingKeepsPreset == Bundle!RecordingKeepsPreset

=============================================================================
