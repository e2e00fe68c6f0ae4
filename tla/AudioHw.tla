------------------------------ MODULE AudioHw ------------------------------
(***************************************************************************)
(* The audio HAL: routing, voice calls, SCO and the output and input       *)
(* streams.  An entry point holds adev->lock while it changes anything     *)
(* here, so each is one action; only closing an output stream takes the    *)
(* lock twice, and is two.  The transfers made once adev->lock is          *)
(* released change nothing here.                                           *)
(*                                                                         *)
(* A PCM pointer is "null", "open", or "stale": the PCM was closed and the *)
(* pointer kept.  The rates of the PCMs are left out.                      *)
(***************************************************************************)
EXTENDS AudioRouting

CONSTANTS
  Inputs,      \* the input streams, identified by their IO handle
  NoHandle,    \* ES325_IO_HANDLE_NONE
  OutMasks,    \* the output devices the framework routes to
  InDevs,      \* the input devices the framework routes to
  InSources,   \* the sources the framework records from
  Modes,       \* the modes that the telephony framework sets
  NrecValues,  \* what it says of the noise reduction of a Bluetooth headset
  Env          \* what the calls out of one entry point may bring: is the preset
               \* accepted, is the RIL client connected, do the stream's PCM and
               \* the two PCMs of a call or of SCO open

NoRoute == <<"none", "none">>   \* cur_route_id = 0
NoDevice == "NONE"      \* AUDIO_DEVICE_NONE, and a routing key not given

ASSUME ConstantsAssumption ==
  /\ NoHandle \notin Inputs
  /\ OutMasks \subseteq (SUBSET OutDevices) \ {{}}
  /\ InDevs \subseteq InDevices
  /\ InSources \subseteq TabSources
  /\ Modes \subseteq {"NORMAL", "RINGTONE", "IN_CALL", "IN_COMMUNICATION"}
  /\ NrecValues \subseteq BOOLEAN
  /\ Env \subseteq [preset : BOOLEAN, ril : BOOLEAN, pcm : BOOLEAN,
                    rx : BOOLEAN, tx : BOOLEAN]

Outputs == {"DEEP_BUF", "LOW_LATENCY"}

VARIABLES
  adev,       \* struct audio_device, with the mixer (ar) and the modem (ril)
  outs,       \* adev->outputs and the streams in it
  ins,        \* the input streams
  io_handle   \* the last argument of eS325_SetActiveIoHandle

vars == <<adev, outs, ins, io_handle>>

-----------------------------------------------------------------------------
(* Routing.                                                                *)

RouteId(a) == <<get_input_source_id(a.input_source),
                get_output_device_id(a.out_device)>>

UsesPreset(a, preset, e) == e.preset /\ preset \notin {"CURRENT", a.es325_preset}

NewRoute(a, e) ==
  LET route == RouteFor(RouteId(a)[1], RouteId(a)[2], a.in_device)
  IN  [a EXCEPT
         !.cur_route = RouteId(a),
         !.ar = [output_route |-> route.output_route,
                 input_route |-> route.input_route],
         !.es325_preset = IF UsesPreset(a, route.es325_preset, e)
                          THEN route.es325_preset ELSE @,
         !.path = IF e.ril THEN call_audio_path(a.out_device, a.bluetooth_nrec)
                  ELSE @]

\* broken: a route is new only if its output is
select_devices_by_output(a, e) ==
  IF RouteId(a)[2] = a.cur_route[2] THEN a ELSE NewRoute(a, e)

\* broken: the modem is told of a path in calls only
select_devices_in_call(a, e) ==
  IF RouteId(a) = a.cur_route THEN a
  ELSE [NewRoute(a, e) EXCEPT !.path = IF a.in_call THEN @ ELSE a.path]

select_devices(a, e) == IF RouteId(a) = a.cur_route THEN a ELSE NewRoute(a, e)

-----------------------------------------------------------------------------
(* The PCMs of SCO and of a call.                                          *)

\* broken: a failure of the second PCM leaves the first one open
start_bt_sco_keep_rx(a, e) ==
  IF a.sco_rx # "null" \/ a.sco_tx # "null" THEN a
  ELSE [a EXCEPT !.sco_rx = IF e.rx THEN "open" ELSE "stale",
                 !.sco_tx = IF ~e.rx THEN @ ELSE IF e.tx THEN "open" ELSE "stale"]

\* the error paths close what they opened and keep the pointers
start_bt_sco(a, e) ==
  IF a.sco_rx # "null" \/ a.sco_tx # "null" THEN a
  ELSE [a EXCEPT !.sco_rx = IF e.rx /\ e.tx THEN "open" ELSE "stale",
                 !.sco_tx = IF ~e.rx THEN @ ELSE IF e.tx THEN "open" ELSE "stale"]

end_bt_sco(a) == [a EXCEPT !.sco_rx = "null", !.sco_tx = "null"]

\* here the error paths clear the pointers
start_voice_call(a, e) ==
  IF a.voice_rx # "null" \/ a.voice_tx # "null" \/ ~(e.rx /\ e.tx) THEN a
  ELSE [a EXCEPT !.voice_rx = "open", !.voice_tx = "open"]

\* broken: one of the two directions is left open
end_voice_call_rx(a) == [a EXCEPT !.voice_rx = "null"]
end_voice_call(a) == [a EXCEPT !.voice_rx = "null", !.voice_tx = "null"]

-----------------------------------------------------------------------------
(* Output streams.                                                         *)

OnSco(device) == device \cap ScoOutDevices # {}
Opened(o) == o.st # "closed"

ClosedOut == [st |-> "closed", standby |-> TRUE, device |-> {}, pcm |-> "null"]

\* the devices of the active streams other than t
output_devices(t) ==
  UNION {outs[u].device :
           u \in {v \in Outputs \ {t} : Opened(outs[v]) /\ ~outs[v].standby}}

\* broken: forgets the other stream
DoOutStandbyAlone(a, t, e) ==
  IF outs[t].standby THEN a ELSE [a EXCEPT !.out_device = {}]

\* what do_out_standby does to the device and to the stream
DoOutStandby(a, t, e) ==
  LET b == IF OnSco(outs[t].device) THEN end_bt_sco(a) ELSE a
      c == [b EXCEPT !.out_device = output_devices(t)]
  IN  IF outs[t].standby THEN a
      ELSE IF c.out_device = {} THEN c ELSE select_devices(c, e)
StandbyOut(o) == IF o.standby THEN o ELSE [o EXCEPT !.standby = TRUE, !.pcm = "null"]

\* adev_open_output_stream: -EBUSY while the slot is taken
OpenOutput(t, devices) ==
  /\ outs[t].st = "closed"
  /\ outs' = [outs EXCEPT ![t] =
                [st |-> "open", standby |-> TRUE, pcm |-> "null",
                 device |-> IF devices = {} THEN {"SPEAKER"} ELSE devices]]
  /\ UNCHANGED <<adev, ins, io_handle>>

out_standby(t) ==
  /\ outs[t].st = "open"
  /\ adev' \in {DoOutStandby(adev, t, e) : e \in Env}
  /\ outs' = [outs EXCEPT ![t] = StandbyOut(@)]
  /\ UNCHANGED <<ins, io_handle>>

\* adev_close_output_stream: standby, and under a second lock the slot
CloseOutputStandby(t) ==
  /\ outs[t].st = "open"
  /\ adev' \in {DoOutStandby(adev, t, e) : e \in Env}
  /\ outs' = [outs EXCEPT ![t] = [StandbyOut(@) EXCEPT !.st = "closing"]]
  /\ UNCHANGED <<ins, io_handle>>
CloseOutputUnlink(t) ==
  /\ outs[t].st = "closing"
  /\ outs' = [outs EXCEPT ![t] = ClosedOut]
  /\ UNCHANGED <<adev, ins, io_handle>>

\* out_write on a stream in standby: start_output_stream
StartOutputOk(t, e) ==
  LET a == IF adev.in_call THEN adev
           ELSE select_devices([adev EXCEPT !.out_device = @ \cup outs[t].device], e)
  IN  /\ adev' = IF OnSco(outs[t].device) THEN start_bt_sco(a, e) ELSE a
      /\ outs' = [outs EXCEPT ![t].standby = FALSE, ![t].pcm = "open"]
StartOutputFails(t) ==
  /\ outs' = [outs EXCEPT ![t].pcm = "stale"]
  /\ UNCHANGED adev

out_write(t) ==
  /\ outs[t].st = "open" /\ outs[t].standby
  /\ \E e \in Env : \/ e.pcm /\ StartOutputOk(t, e)
                    \/ ~e.pcm /\ StartOutputFails(t)
  /\ UNCHANGED <<ins, io_handle>>

\* out_set_parameters, routing key: standby first when the SCO devices differ
out_set_parameters(t, val) ==
  LET stop == (val \cap ScoOutDevices) # (outs[t].device \cap ScoOutDevices)
      o == IF stop THEN StandbyOut(outs[t]) ELSE outs[t]
  IN  /\ outs[t].st = "open"
      /\ adev.out_device # val
      /\ \E a \in IF stop THEN {DoOutStandby(adev, t, d) : d \in Env} ELSE {adev}, e \in Env :
           LET b == select_devices([a EXCEPT !.out_device = val], e)
           IN  adev' = IF OnSco(val) THEN start_bt_sco(b, e) ELSE b
      /\ outs' = [outs EXCEPT ![t] = [o EXCEPT !.device = val]]
      /\ UNCHANGED <<ins, io_handle>>

-----------------------------------------------------------------------------
(* Input streams.                                                          *)

ClosedIn == [open |-> FALSE, standby |-> TRUE, device |-> NoDevice,
             source |-> "DEFAULT", pcm |-> "null"]

\* what do_in_standby does to the device and to the stream; it clears the
\* handle of the eS325 for a stream already in standby too
DoInStandby(a, i, e) ==
  LET b == IF ins[i].device = "SCO_HEADSET" THEN end_bt_sco(a) ELSE a
  IN  IF ins[i].standby THEN a
      ELSE select_devices([b EXCEPT !.input_source = "DEFAULT",
                                    !.in_device = NoDevice], e)
StandbyIn(s) == IF s.standby THEN s ELSE [s EXCEPT !.standby = TRUE, !.pcm = "null"]

\* adev_open_input_stream: a request that is not stereo, or that nothing can
\* resample, changes nothing
OpenInput(i, device) ==
  /\ ~ins[i].open
  /\ ins' = [ins EXCEPT ![i] = [ClosedIn EXCEPT !.open = TRUE, !.device = device]]
  /\ UNCHANGED <<adev, outs, io_handle>>

in_standby(i) ==
  /\ ins[i].open
  /\ adev' \in {DoInStandby(adev, i, e) : e \in Env}
  /\ ins' = [ins EXCEPT ![i] = StandbyIn(@)]
  /\ io_handle' = NoHandle
  /\ UNCHANGED outs

\* broken: the handle of the eS325 is not cleared
CloseInputKeepHandle(i) ==
  /\ ins[i].open
  /\ adev' \in {DoInStandby(adev, i, e) : e \in Env}
  /\ ins' = [ins EXCEPT ![i] = ClosedIn]
  /\ UNCHANGED <<outs, io_handle>>

\* adev_close_input_stream
CloseInput(i) ==
  /\ ins[i].open
  /\ adev' \in {DoInStandby(adev, i, e) : e \in Env}
  /\ ins' = [ins EXCEPT ![i] = ClosedIn]
  /\ io_handle' = NoHandle
  /\ UNCHANGED outs

\* in_read on a stream in standby: start_input_stream.  The framework starts
\* one input at a time.
StartInputOk(i, e) ==
  LET a == IF adev.in_call THEN adev
           ELSE select_devices([adev EXCEPT !.input_source = ins[i].source,
                                            !.in_device = ins[i].device], e)
  IN  /\ adev' = IF ins[i].device = "SCO_HEADSET" THEN start_bt_sco(a, e) ELSE a
      /\ ins' = [ins EXCEPT ![i].standby = FALSE, ![i].pcm = "open"]
      /\ io_handle' = IF adev.in_call THEN io_handle ELSE i
StartInputFails(i) ==
  /\ ins' = [ins EXCEPT ![i].pcm = "stale"]
  /\ UNCHANGED <<adev, io_handle>>
in_read(i) ==
  /\ ins[i].open /\ \A j \in Inputs : ins[j].standby
  /\ \E e \in Env : \/ e.pcm /\ StartInputOk(i, e)
                    \/ ~e.pcm /\ StartInputFails(i)
  /\ UNCHANGED outs

\* broken: a new source is applied only when it comes with a new device
in_set_parameters_source_waits(i, source, device) ==
  LET newDev == device \notin {NoDevice, ins[i].device}
      s == [ins[i] EXCEPT !.source = IF source = "DEFAULT" THEN @ ELSE source,
                          !.device = IF newDev THEN device ELSE @]
  IN  /\ ins[i].open
      /\ \E e \in Env :
           adev' = IF newDev /\ ~s.standby
                   THEN select_devices([adev EXCEPT !.input_source = s.source,
                                                    !.in_device = s.device], e)
                   ELSE adev
      /\ ins' = [ins EXCEPT ![i] = s]
      /\ UNCHANGED <<io_handle, outs>>

\* in_set_parameters: a source ("DEFAULT": not given) and a device (NoDevice:
\* not given); standby first when SCO starts or stops
in_set_parameters(i, source, device) ==
  LET newSource == source \notin {"DEFAULT", ins[i].source}
      newDev == device \notin {NoDevice, ins[i].device}
      stop == newDev /\ "SCO_HEADSET" \in {device, ins[i].device}
      s == [(IF stop THEN StandbyIn(ins[i]) ELSE ins[i]) EXCEPT
             !.source = IF newSource THEN source ELSE @,
             !.device = IF newDev THEN device ELSE @]
  IN  /\ ins[i].open
      /\ \E a \in IF stop THEN {DoInStandby(adev, i, d) : d \in Env} ELSE {adev} :
           adev' \in IF (newSource \/ newDev) /\ ~s.standby
                     THEN {select_devices([a EXCEPT !.input_source = s.source,
                                                    !.in_device = s.device], e) : e \in Env}
                     ELSE {a}
      /\ ins' = [ins EXCEPT ![i] = s]
      /\ io_handle' = IF stop THEN NoHandle ELSE io_handle
      /\ UNCHANGED outs

-----------------------------------------------------------------------------
(* The mode.                                                               *)

EnterCall(a, e) ==
  LET b == [a EXCEPT
             !.out_device = IF @ \in {{}, {"SPEAKER"}} THEN {"EARPIECE"} ELSE @,
             !.input_source = "VOICE_CALL"]
  IN  [start_voice_call(select_devices(b, e), e)
         EXCEPT !.clock = IF e.ril THEN "START" ELSE @, !.in_call = TRUE]

\* SCO is closed, whichever stream it was opened for
LeaveCall(a, e) ==
  LET b == [end_voice_call(a) EXCEPT !.in_call = FALSE,
                                     !.clock = IF e.ril THEN "STOP" ELSE @]
      c == IF OnSco(b.out_device) THEN end_bt_sco(b) ELSE b
  IN  select_devices([c EXCEPT !.input_source = "DEFAULT"], e)

adev_set_mode(mode) ==
  /\ adev.mode # mode
  /\ LET a == [adev EXCEPT !.mode = mode]
     IN  adev' \in IF mode = "IN_CALL" /\ ~a.in_call THEN {EnterCall(a, e) : e \in Env}
                   ELSE IF mode # "IN_CALL" /\ a.in_call THEN {LeaveCall(a, e) : e \in Env}
                   ELSE {a}
  /\ UNCHANGED <<outs, ins, io_handle>>

\* adev_set_parameters, the nrec key: only the next route tells the modem.  The
\* other key is a request to the modem alone (RilClient)
adev_set_parameters(nrec) ==
  /\ adev' = [adev EXCEPT !.bluetooth_nrec = nrec]
  /\ UNCHANGED <<outs, ins, io_handle>>

-----------------------------------------------------------------------------

\* adev_open
InitDevice ==
  [out_device |-> {}, in_device |-> NoDevice, input_source |-> "DEFAULT",
   cur_route |-> NoRoute, es325_preset |-> "INIT", mode |-> "NORMAL",
   in_call |-> FALSE, voice_rx |-> "null", voice_tx |-> "null",
   sco_rx |-> "null", sco_tx |-> "null",
   ar |-> [output_route |-> "reset", input_route |-> "reset"],
   path |-> "unknown", clock |-> "STOP", bluetooth_nrec |-> FALSE]

Init ==
  /\ adev = InitDevice
  /\ outs = [t \in Outputs |-> ClosedOut]
  /\ ins = [i \in Inputs |-> ClosedIn]
  /\ io_handle = NoHandle

Next ==
  \/ \E t \in Outputs, m \in OutMasks \cup {{}} : OpenOutput(t, m)
  \/ \E t \in Outputs : out_standby(t)
  \/ \E t \in Outputs : CloseOutputStandby(t)
  \/ \E t \in Outputs : CloseOutputUnlink(t)
  \/ \E t \in Outputs : out_write(t)
  \/ \E t \in Outputs, m \in OutMasks : out_set_parameters(t, m)
  \/ \E i \in Inputs, d \in InDevs : OpenInput(i, d)
  \/ \E i \in Inputs : in_standby(i)
  \/ \E i \in Inputs : CloseInput(i)
  \/ \E i \in Inputs : in_read(i)
  \/ \E i \in Inputs, s \in InSources \cup {"DEFAULT"}, d \in InDevs \cup {NoDevice} :
       in_set_parameters(i, s, d)
  \/ \E mode \in Modes : adev_set_mode(mode)
  \/ \E nrec \in NrecValues : adev_set_parameters(nrec)

Spec == Init /\ [][Next]_vars

-----------------------------------------------------------------------------
(* Properties.                                                             *)

PcmStates == {"null", "open", "stale"}
DeviceType ==
  [out_device : SUBSET OutDevices, in_device : InDevs \cup {NoDevice},
   input_source : Sources, cur_route : (SourceIds \X OutIds) \cup {NoRoute},
   es325_preset : Presets \ {"CURRENT"}, mode : Modes \cup {"NORMAL"}, in_call : BOOLEAN,
   voice_rx : PcmStates, voice_tx : PcmStates, sco_rx : PcmStates, sco_tx : PcmStates,
   ar : [output_route : Paths, input_route : Paths], path : CallPaths \cup {"unknown"},
   clock : {"START", "STOP"}, bluetooth_nrec : BOOLEAN]
OutType ==
  [st : {"closed", "open", "closing"}, standby : BOOLEAN, device : SUBSET OutDevices,
   pcm : PcmStates]
InType ==
  [open : BOOLEAN, standby : BOOLEAN, device : InDevs \cup {NoDevice},
   source : Sources, pcm : PcmStates]

\* The device and the streams hold values of their types.
TypeOK ==
  /\ adev \in DeviceType
  /\ outs \in [Outputs -> OutType]
  /\ ins \in [Inputs -> InType]
  /\ io_handle \in Inputs \cup {NoHandle}

\* The PCMs of a call are open together or not at all, never left as pointers
\* to closed PCMs by a start that failed, and never outlive the call, whichever
\* modes the telephony framework goes through (adev_set_mode, start_voice_call).
VoiceFollowsCall ==
  /\ adev.in_call <=> adev.mode = "IN_CALL"
  /\ adev.voice_rx = adev.voice_tx
  /\ adev.voice_rx # "stale"
  /\ adev.voice_rx = "open" => adev.in_call

\* The two directions of SCO are open together or not at all: no failure and no
\* order of streams, routes and calls leaves one running alone.
ScoBothOrNeither == adev.sco_rx = "open" <=> adev.sco_tx = "open"

\* A stream that is out of standby, so that the next transfer goes to its PCM
\* without another look, has an open PCM; this covers a start that failed and a
\* standby that a change of routing forced (out_write, in_read).
TransferOnOpenPcm ==
  /\ \A t \in Outputs : ~outs[t].standby => outs[t].pcm = "open"
  /\ \A i \in Inputs : ~ins[i].standby => ins[i].pcm = "open"

\* The route cache never loses a change: whatever the order in which streams,
\* sources, devices and modes changed, the mixer is on the paths that the
\* current output device and input source call for.  (Without an output the
\* code leaves the mixer as it was.)
MixerRouted ==
  LET id == RouteId(adev)
      route == RouteFor(id[1], id[2], adev.in_device)
  IN  id[2] # "NONE" => /\ adev.ar.output_route = route.output_route
                        /\ adev.ar.input_route = route.input_route

\* While the RIL client is connected, the modem was told of the path of the
\* current output device, the one for a headset that reduces noise or the one
\* for a headset that does not: nrec may have changed since (adev_set_parameters
\* leaves it to the next route).
ModemRouted ==
  RouteId(adev)[2] # "NONE" =>
    \E nrec \in BOOLEAN : adev.path = call_audio_path(adev.out_device, nrec)

\* An active output never loses its route, in calls or outside: one stream that
\* goes to standby, is closed or rerouted takes the device from no other
\* ("re-calculate the set of active devices from other streams"), nor does the
\* start or the end of a call.  The one way to play to no device is to start in
\* a call that has none, as start_output_stream routes nothing then.
OutputsKeepRoute ==
  [][\A t \in Outputs :
       ~outs'[t].standby /\ adev'.out_device = {} =>
         /\ adev.out_device = {}
         /\ outs[t].standby => adev.in_call]_vars

\* What is routed follows the active input, in calls or outside: its source and
\* device may both change while it records (in_set_parameters), and other
\* streams start, stop and are rerouted.  A stream that starts in a call is
\* routed by nobody (start_input_stream), and a call takes the source when it
\* starts and when it ends (adev_set_mode).
RecordingKeepsRoute ==
  [][\A i \in Inputs :
       LET started == ins[i].standby /\ ~adev.in_call
           onDevice == ~ins[i].standby /\ adev.in_device = ins[i].device
           onSource == ~ins[i].standby /\ adev.input_source = ins[i].source
       IN  ~ins'[i].standby =>
             /\ started \/ onDevice => adev'.in_device = ins'[i].device
             /\ started \/ (onSource /\ adev'.in_call = adev.in_call)
                  => adev'.input_source = ins'[i].source]_vars

\* The eS325 never works for a stream that is in standby or closed ("when
\* stream is stopped", eS325VoiceProcessing.h).
HandleIsActive == io_handle # NoHandle => ~ins[io_handle].standby

-----------------------------------------------------------------------------
(* A claim of the source that the code does not keep.                      *)

\* "SCO PCMs already open!": SCO PCMs whose pointers are set are open.
ScoSetIsOpen == adev.sco_rx # "null" => adev.sco_rx = "open"

=============================================================================
