------------------------ MODULE VoiceCapture_proofs ------------------------
(***************************************************************************)
(* Theorems about VoiceCapture, for any outputs, devices and sources the   *)
(* framework asks for, any effects, any number of sessions and any         *)
(* failures, and, where nothing else is assumed, any number of streams.    *)
(*                                                                         *)
(* Every step of VoiceCapture is a step of the bundle or leaves it alone,  *)
(* so that what ES325_proofs shows of the bundle holds here.  Thms is that *)
(* module for a bundle whose sleep node always opens, which the bundle of  *)
(* the HAL is as good as: nothing here closes the node.  The lemmas Same   *)
(* say that the operators of Thms are those of Bundle.                     *)
(***************************************************************************)
EXTENDS VoiceCapture, TLAPS

\* The failures of a call, but for those of the sleep node
OtherFailures == {bad \ {"sleep"} : bad \in OpenFailures}

Thms == INSTANCE ES325_proofs WITH
  Presets <- Presets \ {"INIT", "CURRENT"}, ForeignTypes <- {}, VeqInputs <- {},
  OpenFailures <- OtherFailures

-----------------------------------------------------------------------------
(* The operators of the two instances.                                     *)

LEMMA SameWrite ==
  ASSUME NEW d, NEW c, NEW v, NEW bad
  PROVE  Thms!Write(d, c, v, bad) = Bundle!Write(d, c, v, bad)
  BY DEF Thms!Write, Bundle!Write, Thms!CanWrite, Bundle!CanWrite, Thms!Tuned,
      Bundle!Tuned, Thms!Ctrls, Bundle!Ctrls

LEMMA SameSleep ==
  ASSUME NEW d, NEW bad
  PROVE  /\ Thms!Sleep(d, bad) = Bundle!Sleep(d, bad)
         /\ Thms!SleepOk(d, bad) <=> Bundle!SleepOk(d, bad)
  BY SameWrite DEF Thms!Sleep, Bundle!Sleep, Thms!SleepOk, Bundle!SleepOk,
      Thms!CanWrite, Bundle!CanWrite, Thms!SetVoiceProcessing,
      Bundle!SetVoiceProcessing, Thms!Bit, Bundle!Bit

LEMMA SameApply ==
  ASSUME NEW d, NEW bad
  PROVE  /\ Thms!ApplyPreset(d, bad) = Bundle!ApplyPreset(d, bad)
         /\ Thms!ApplyPresetOk(d, bad) <=> Bundle!ApplyPresetOk(d, bad)
  BY SameWrite, SameSleep DEF Thms!ApplyPreset, Bundle!ApplyPreset,
      Thms!ApplyPresetOk, Bundle!ApplyPresetOk, Thms!CanWrite, Bundle!CanWrite,
      Thms!SetVoiceProcessing, Bundle!SetVoiceProcessing, Thms!Bit, Bundle!Bit

LEMMA SameSettings ==
  ASSUME NEW d, NEW ssn, NEW bad
  PROVE  /\ Thms!ApplySettingsFromSession(d, ssn, bad) = Bundle!ApplySettingsFromSession(d, ssn, bad)
         /\ Thms!ApplySettingsOk(d, ssn, bad) <=> Bundle!ApplySettingsOk(d, ssn, bad)
  BY SameWrite DEF Thms!ApplySettingsFromSession,
      Bundle!ApplySettingsFromSession, Thms!ApplySettingsOk,
      Bundle!ApplySettingsOk, Thms!CanWrite, Bundle!CanWrite,
      Thms!SetNoiseSuppression, Bundle!SetNoiseSuppression, Thms!NsLevel,
      Bundle!NsLevel, Thms!SetEchoCancellation, Bundle!SetEchoCancellation,
      Thms!SetAutomaticGainControl, Bundle!SetAutomaticGainControl, Thms!Bit,
      Bundle!Bit

LEMMA SameScan ==
  ASSUME NEW t, NEW h
  PROVE  /\ Thms!SessionsOf(t, h) = Bundle!SessionsOf(t, h)
         /\ Thms!SessionNumberForHandle(t, h) = Bundle!SessionNumberForHandle(t, h)
         /\ Thms!GetSession(t, h) = Bundle!GetSession(t, h)
  BY DEF Thms!SessionNumberForHandle, Bundle!SessionNumberForHandle,
      Thms!GetSession, Bundle!GetSession, Thms!FirstOf, Bundle!FirstOf,
      Thms!Min, Bundle!Min, Thms!SessionsOf, Bundle!SessionsOf, Thms!Sessions,
      Bundle!Sessions, Thms!NoSession, Bundle!NoSession

LEMMA SameReevaluate ==
  ASSUME NEW d, NEW t, NEW h, NEW bad
  PROVE  /\ Thms!Reevaluate(d, t, h, bad) = Bundle!Reevaluate(d, t, h, bad)
         /\ Thms!ReevaluateOk(d, t, h, bad) <=> Bundle!ReevaluateOk(d, t, h, bad)
  BY SameSleep, SameApply, SameSettings, SameScan DEF Thms!Reevaluate,
      Bundle!Reevaluate, Thms!ReevaluateOk, Bundle!ReevaluateOk, Thms!MustSleep,
      Bundle!MustSleep, Thms!NoSession, Bundle!NoSession

LEMMA SameInit ==
  Thms!Init <=> Bundle!Init
  BY DEF Thms!Init, Bundle!Init, Thms!InitDev, Bundle!InitDev, Thms!FreeSession,
      Bundle!FreeSession, Thms!Sessions, Bundle!Sessions, Thms!Ctrls,
      Bundle!Ctrls, Thms!ProcIds, Bundle!ProcIds

LEMMA SameClaimed ==
  ASSUME NEW t, NEW s, NEW h
  PROVE  Thms!Claimed(t, s, h) = Bundle!Claimed(t, s, h)
  BY DEF Thms!Claimed, Bundle!Claimed

LEMMA SameCreate ==
  ASSUME NEW h, NEW p
  PROVE  Thms!AdncCreate(h, p) <=> Bundle!AdncCreate(h, p)
  BY SameScan, SameClaimed DEF Thms!AdncCreate, Bundle!AdncCreate,
      Thms!CanSetState, Bundle!CanSetState, Thms!Sessions, Bundle!Sessions

-----------------------------------------------------------------------------
(* The route table and the presets.                                        *)

\* Every row of the table has a preset that the bundle knows (routing.h).
LEMMA RowPreset ==
  ASSUME NEW s \in TabSources, NEW out \in DOMAIN MasksOf
  PROVE  /\ route_configs[s][out].es325_preset \in Bundle!PresetIds \ {"INIT"}
         /\ out \in DOMAIN route_configs[s]
<1> DEFINE Known(c) == c.es325_preset \in Bundle!PresetIds \ {"INIT"}
<1>1. /\ Known(media_speaker) /\ Known(media_headphones) /\ Known(media_earpiece)
      /\ Known(media_headset) /\ Known(camcorder_speaker) /\ Known(camcorder_headphones)
      /\ Known(voice_rec_speaker) /\ Known(voice_rec_headphones) /\ Known(voice_rec_headset)
      /\ Known(communication_speaker) /\ Known(communication_earpiece)
      /\ Known(communication_headphones) /\ Known(communication_headset)
      /\ Known(voice_speaker) /\ Known(voice_earpiece) /\ Known(voice_headphones)
      /\ Known(voice_headset) /\ Known(speaker_and_headphones) /\ Known(bluetooth_sco)
      /\ Known(none)
  BY DEF Bundle!PresetIds, Bundle!AsraPresets, Config, media_speaker, media_headphones,
         media_earpiece, media_headset, camcorder_speaker, camcorder_headphones,
         voice_rec_speaker, voice_rec_headphones, voice_rec_headset,
         communication_speaker, communication_earpiece, communication_headphones,
         communication_headset, voice_speaker, voice_earpiece, voice_headphones,
         voice_headset, speaker_and_headphones, bluetooth_sco, none
<1> HIDE DEF Known
<1>2. \A a, b, c, d, e, f :
        Known(a) /\ Known(b) /\ Known(c) /\ Known(d) /\ Known(e) /\ Known(f)
          => Known(Line(a, b, c, d, e, f)[out])
  BY <1>1 DEF MasksOf, Line
<1>3. Known(route_configs[s][out])
  BY <1>1, <1>2 DEF TabSources, route_configs
<1>4. out \in DOMAIN route_configs[s]
  BY DEF TabSources, MasksOf, route_configs, Line
<1> QED
  BY <1>3, <1>4 DEF Known

LEMMA PresetsKnown ==
  /\ Presets \ {"INIT", "CURRENT"} \subseteq Bundle!PresetIds \ {"INIT", "CURRENT"}
  /\ \A s \in TabSources, out \in DOMAIN MasksOf : route_configs[s][out].es325_preset \in Presets
<1>1. ASSUME NEW c \in Configs PROVE c.es325_preset \in Bundle!PresetIds
  <2>1. PICK s \in TabSources :
          \E out \in DOMAIN route_configs[s] : c = route_configs[s][out]
    BY DEF Configs, ConfigsOf
  <2>2. DOMAIN route_configs[s] \subseteq DOMAIN MasksOf
    BY DEF TabSources, MasksOf, route_configs, Line
  <2> QED
    BY <2>1, <2>2, RowPreset
<1>2. "OFF" \in Bundle!PresetIds
  BY DEF Bundle!PresetIds
<1>3. \A s \in TabSources, out \in DOMAIN MasksOf : route_configs[s][out] \in Configs
  BY RowPreset DEF Configs, ConfigsOf
<1> QED
  BY <1>1, <1>2, <1>3 DEF Presets

LEMMA OthersFail ==
  /\ OtherFailures \subseteq SUBSET Bundle!Ctrls /\ OtherFailures # {}
  /\ \A bad \in OpenFailures : bad \ {"sleep"} \in OtherFailures
  /\ \A bad \in OtherFailures : "sleep" \notin bad
<1>1. \A bad \in OpenFailures : bad \ {"sleep"} \in OtherFailures
  BY DEF OtherFailures
<1>2. ASSUME NEW bad \in OtherFailures PROVE bad \in SUBSET Bundle!Ctrls /\ "sleep" \notin bad
  <2>1. PICK b \in OpenFailures : bad = b \ {"sleep"}
    BY DEF OtherFailures
  <2>2. b \in SUBSET Bundle!Ctrls
    BY CaptureAssumption
  <2> QED
    BY <2>1, <2>2
<1>3. OtherFailures # {}
  BY <1>1, CaptureAssumption
<1> QED
  BY <1>1, <1>2, <1>3

LEMMA BundleConstants == Thms!ConstantsAssumption
  BY CaptureAssumption, PresetsKnown, OthersFail
  DEF Thms!ConstantsAssumption, Thms!PresetIds, Bundle!PresetIds, Thms!AsraPresets,
      Bundle!AsraPresets, Thms!ProcIds, Bundle!ProcIds, Thms!Ctrls, Bundle!Ctrls

\* What the bundle does in one call is what it does if the sleep node opens.
LEMMA HeldEvaluation ==
  ASSUME NEW d, Thms!SleepHeld(d), NEW t, NEW h, NEW bad
  PROVE  LET fewer == bad \ {"sleep"}
         IN  /\ Thms!ReevaluateOk(d, t, h, fewer) <=> Bundle!ReevaluateOk(d, t, h, bad)
             /\ Thms!Reevaluate(d, t, h, fewer) = Bundle!Reevaluate(d, t, h, bad)
             /\ Thms!SleepHeld(Bundle!Reevaluate(d, t, h, bad))
             /\ Bundle!MustSleep(d, t, h) => Bundle!ReevaluateOk(d, t, h, bad)
<1>1. /\ Thms!ReevaluateOk(d, t, h, Thms!Without(bad)) <=> Thms!ReevaluateOk(d, t, h, bad)
      /\ Thms!Reevaluate(d, t, h, Thms!Without(bad)) = Thms!Reevaluate(d, t, h, bad)
      /\ Thms!SleepHeld(Thms!Reevaluate(d, t, h, bad))
      /\ Thms!SleepOk(d, bad)
  BY BundleConstants, Thms!HeldReevaluate, Thms!HeldSleep
<1>2. Bundle!MustSleep(d, t, h) => Bundle!ReevaluateOk(d, t, h, bad)
  BY <1>1, SameSleep DEF Bundle!ReevaluateOk
<1> QED
  BY <1>1, <1>2, SameReevaluate DEF Thms!Without

LEMMA AskedHeld ==
  ASSUME Thms!SleepHeld(dev), NEW p \in Presets \ {"INIT", "CURRENT"}
  PROVE  LET asked == [dev EXCEPT !.requested_preset = p]
         IN  /\ Thms!SleepHeld(asked) /\ asked \in Thms!DevType
             /\ asked.requested_preset = p /\ asked.ioHandle = dev.ioHandle
  BY PresetsKnown DEF Thms!SleepHeld, Thms!DevType, Thms!PresetIds, Bundle!PresetIds,
     Thms!AsraPresets, Bundle!AsraPresets

LEMMA SameRelease ==
  ASSUME Thms!SleepHeld(dev), NEW s, NEW p, Bundle!AdncRelease(s, p)
  PROVE  Thms!AdncRelease(s, p)
<1>1. Thms!FreeSession = Bundle!FreeSession
  BY DEF Thms!FreeSession, Bundle!FreeSession, Thms!ProcIds, Bundle!ProcIds
<1>2. ASSUME NEW ssn PROVE Thms!ReleaseEffect(ssn, p) = Bundle!ReleaseEffect(ssn, p)
  BY DEF Thms!ReleaseEffect, Bundle!ReleaseEffect
<1>3. [tab EXCEPT ![s] = Thms!ReleaseEffect(@, p)]
        = [tab EXCEPT ![s] = Bundle!ReleaseEffect(@, p)]
  BY <1>2
<1> QED
  BY <1>1, <1>3, HeldEvaluation, OthersFail DEF Thms!AdncRelease, Bundle!AdncRelease

LEMMA SameMarks ==
  ASSUME Thms!SleepHeld(dev), NEW h, NEW type
  PROVE  /\ Bundle!AddEffect(h, type) => Thms!AddEffect(h, type)
         /\ Bundle!RemoveEffect(h, type) => Thms!RemoveEffect(h, type)
<1>1. Thms!EffectOnStream(h, type) <=> Bundle!EffectOnStream(h, type)
  BY SameScan DEF Thms!EffectOnStream, Bundle!EffectOnStream
<1>2. Thms!Sessions = Bundle!Sessions
  BY DEF Thms!Sessions, Bundle!Sessions
<1>3. ASSUME NEW s, NEW msk, Bundle!MarkEffects(s, h, msk) PROVE Thms!MarkEffects(s, h, msk)
  BY <1>3, SameClaimed, HeldEvaluation, OthersFail DEF Thms!MarkEffects, Bundle!MarkEffects
<1>4. Bundle!AddEffect(h, type) => Thms!AddEffect(h, type)
  BY <1>1, <1>2, <1>3, SameScan DEF Thms!AddEffect, Bundle!AddEffect
<1>5. Bundle!RemoveEffect(h, type) => Thms!RemoveEffect(h, type)
  BY <1>1, <1>2, <1>3, SameScan DEF Thms!RemoveEffect, Bundle!RemoveEffect
<1> QED
  BY <1>4, <1>5

LEMMA SameHalCalls ==
  ASSUME Thms!SleepHeld(dev)
  PROVE  /\ \A preset \in Presets \ {"INIT", "CURRENT"} :
              Bundle!UsePreset(preset) => Thms!UsePreset(preset)
         /\ \A h : Bundle!SetActiveIoHandle(h) => Thms!SetActiveIoHandle(h)
<1>1. ASSUME NEW preset \in Presets \ {"INIT", "CURRENT"}, Bundle!UsePreset(preset)
      PROVE  Thms!UsePreset(preset)
  <2> DEFINE asked == [dev EXCEPT !.requested_preset = preset]
  <2>1. Thms!SleepHeld(asked)
    BY AskedHeld
  <2>2. PICK bad \in OpenFailures : dev' = Bundle!Reevaluate(asked, tab, dev.ioHandle, bad)
    BY <1>1 DEF Bundle!UsePreset
  <2> HIDE DEF asked
  <2>3. dev' = Thms!Reevaluate(asked, tab, dev.ioHandle, bad \ {"sleep"})
    BY <2>1, <2>2, HeldEvaluation
  <2>4. ~Thms!UsePresetRefused(dev, preset) /\ UNCHANGED tab
    BY <1>1 DEF Bundle!UsePreset, Thms!UsePresetRefused, Bundle!UsePresetRefused,
                Thms!AsraPresets, Bundle!AsraPresets
  <2> QED
    BY <2>2, <2>3, <2>4, OthersFail DEF Thms!UsePreset, asked
<1>2. ASSUME NEW h, Bundle!SetActiveIoHandle(h) PROVE Thms!SetActiveIoHandle(h)
  BY <1>2, HeldEvaluation, OthersFail DEF Thms!SetActiveIoHandle, Bundle!SetActiveIoHandle
<1> QED
  BY <1>1, <1>2

\* A route has a preset that a caller may ask for, or CURRENT; without an input
\* it is OFF, and with an output it does not depend on the input device.
LEMMA RoutePresets ==
  ASSUME NEW a
  PROVE  /\ PresetOf(a) \in Presets \ {"INIT"}
         /\ a.input_source \notin TabSources => PresetOf(a) = "OFF"
<1> DEFINE in == RouteId(a)[1]
           out == RouteId(a)[2]
           source == IF in = "NONE" THEN "MIC" ELSE in
           output == IF out = "NONE" THEN OutIdForInput(a.in_device) ELSE out
<1>1. in \in SourceIds /\ out \in OutIds /\ (a.input_source \notin TabSources => in = "NONE")
  BY DEF RouteId, get_input_source_id, get_output_device_id, SourceIds, OutIds
<1>2. PresetOf(a) = IF in = "NONE" THEN "OFF" ELSE route_configs[source][output].es325_preset
  BY DEF PresetOf, RouteFor, Config
<1>3. source \in TabSources
  BY <1>1 DEF SourceIds, TabSources
<1>4. OutIdForInput(a.in_device) \in DOMAIN MasksOf
  BY DEF OutIdForInput, MasksOf
<1>5. output \in DOMAIN MasksOf
  BY <1>1, <1>4 DEF OutIds
<1>6. route_configs[source][output].es325_preset \in Presets \ {"INIT"}
  BY <1>3, <1>5, RowPreset, PresetsKnown
<1>7. "OFF" \in Presets
  BY DEF Presets
<1> QED
  BY <1>1, <1>2, <1>6, <1>7


-----------------------------------------------------------------------------
(* The HAL and the framework use the bundle as ES325 lets them.            *)

\* What select_devices does to the bundle
LEMMA SelectMoves ==
  ASSUME NEW a, select_devices(a), UNCHANGED tab
  PROVE  \/ dev' = dev
         \/ /\ PresetOf(a) \in Presets \ {"INIT", "CURRENT"}
            /\ Bundle!UsePreset(PresetOf(a))
  BY RoutePresets
  DEF select_devices, NothingToAsk, PresetRefused, PresetTried, PresetsToAsk,
      Bundle!UsePreset

\* The calls to the bundle that a step of VoiceCapture makes: for the effects of a
\* stream, and for the recording
EffectMove ==
  \/ dev' = dev /\ tab' = tab
  \/ \E h \in Handles, type \in Effects : Bundle!AddEffect(h, type) \/ Bundle!RemoveEffect(h, type)
  \/ \E h \in Handles, p \in Effects : Bundle!AdncCreate(h, p)
  \/ \E s \in Bundle!Sessions, p \in Effects : Bundle!AdncRelease(s, p)
BundleMove ==
  \/ EffectMove
  \/ \E h \in Handles \cup {NoHandle} : Bundle!SetActiveIoHandle(h)
  \/ \E p \in Presets \ {"INIT", "CURRENT"} : Bundle!UsePreset(p)

LEMMA StepMoves ==
  ASSUME [Next]_vars
  PROVE  BundleMove
<1>1. ASSUME NEW a, select_devices(a), UNCHANGED tab PROVE BundleMove
  BY <1>1, SelectMoves DEF BundleMove, EffectMove
<1>2. ASSUME NEW h \in Handles, NEW s, NEW d, OpenInput(h, s, d) PROVE BundleMove
  BY <1>2 DEF OpenInput, BundleMove, EffectMove
<1>3. ASSUME NEW h \in Handles, StartInput(h) PROVE BundleMove
  BY <1>3 DEF StartInput, BundleMove, EffectMove
<1>4. CASE StartInputSelect
  BY <1>1, <1>4 DEF StartInputSelect
<1>5. ASSUME NEW h, StandbyInput(h) PROVE BundleMove
  BY <1>1, <1>5 DEF StandbyInput
<1>6. CASE StandbyInputClear
  BY <1>6 DEF StandbyInputClear, BundleMove, EffectMove
<1>7. ASSUME NEW h, NEW s, in_set_parameters(h, s) PROVE BundleMove
  <2>1. dev' = dev \/ \E a : select_devices(a)
    BY <1>7 DEF in_set_parameters
  <2> QED
    BY <1>1, <1>7, <2>1 DEF in_set_parameters, BundleMove, EffectMove
<1>8. ASSUME NEW h, NEW d, in_set_parameters_routing(h, d) PROVE BundleMove
  <2>1. dev' = dev \/ \E a : select_devices(a)
    BY <1>8 DEF in_set_parameters_routing
  <2> QED
    BY <1>1, <1>8, <2>1 DEF in_set_parameters_routing, BundleMove, EffectMove
<1>9. ASSUME NEW mask, RouteOutputs(mask) PROVE BundleMove
  <2>1. dev' = dev \/ \E a : select_devices(a)
    BY <1>9 DEF RouteOutputs
  <2> QED
    BY <1>1, <1>9, <2>1 DEF RouteOutputs, BundleMove, EffectMove
<1>10. ASSUME NEW h \in Handles, NEW type \in Effects, ChangeEffect(h, type) PROVE BundleMove
  BY <1>10 DEF ChangeEffect, BundleMove, EffectMove
<1>11. CASE CallEffects
  BY <1>11 DEF CallEffects, BundleMove, EffectMove
<1>12. CASE UNCHANGED vars
  BY <1>12 DEF vars, BundleMove, EffectMove
<1> QED
  BY <1>2, <1>3, <1>4, <1>5, <1>6, <1>7, <1>8, <1>9, <1>10, <1>11, <1>12 DEF Next

LEMMA MoveIsBundleStep == BundleMove => [Bundle!Next]_(Bundle!vars)
<1>1. Effects \subseteq Bundle!ProcIds
  BY CaptureAssumption
<1> QED
  BY <1>1 DEF BundleMove, EffectMove, Bundle!Next, Bundle!vars

\* The HAL and the effects framework together are one of the callers that ES325 is
\* about, in whatever order the framework calls while an entry point of the HAL is
\* between its two calls to the bundle.
THEOREM CaptureUsesBundle == Spec => Bundle!Spec
<1>1. Init => Bundle!Init
  BY DEF Init
<1>2. [Next]_vars => [Bundle!Next]_(Bundle!vars)
  BY StepMoves, MoveIsBundleStep
<1> QED
  BY <1>1, <1>2, PTL DEF Spec, Bundle!Spec

LEMMA InitHeld == Bundle!Init => Thms!Init /\ Thms!SleepHeld(dev)
<1> SUFFICES ASSUME Bundle!Init PROVE Thms!Init /\ Thms!SleepHeld(dev)
  OBVIOUS
<1>1. Thms!Init
  BY SameInit
<1>2. dev \in Thms!DevType /\ dev.fd["sleep"] # "closed"
  BY <1>1 DEF Thms!Init, Thms!InitDev, Thms!DevType, Thms!Ctrls, Thms!NodeValues, Thms!PresetIds
<1> QED
  BY <1>1, <1>2 DEF Thms!SleepHeld

LEMMA MoveHeld ==
  ASSUME Thms!SleepHeld(dev), BundleMove
  PROVE  /\ [Thms!Next]_(Thms!vars)
         /\ Thms!SleepHeld(dev')
<1>0. /\ Effects \subseteq Thms!ProcIds /\ Effects \subseteq Thms!ProcIds \cup {Thms!Other}
      /\ Bundle!Sessions = Thms!Sessions
  BY CaptureAssumption DEF Bundle!ProcIds, Thms!ProcIds, Bundle!Sessions, Thms!Sessions
<1> DEFINE Held == [Thms!Next]_(Thms!vars) /\ Thms!SleepHeld(dev')
<1>1. CASE dev' = dev /\ tab' = tab
  BY <1>1 DEF Thms!vars
<1>2. ASSUME NEW h \in Handles, NEW type \in Effects,
             Bundle!AddEffect(h, type) \/ Bundle!RemoveEffect(h, type)
      PROVE  Held
  <2>1. Thms!AddEffect(h, type) \/ Thms!RemoveEffect(h, type)
    BY <1>2, SameMarks
  <2>2. \E s, msk : Bundle!MarkEffects(s, h, msk)
    BY <1>2 DEF Bundle!AddEffect, Bundle!RemoveEffect
  <2>3. \E bad : dev' = Bundle!Reevaluate(dev, tab', h, bad)
    BY <2>2 DEF Bundle!MarkEffects
  <2>4. Thms!SleepHeld(dev')
    BY <2>3, HeldEvaluation
  <2> QED
    BY <1>0, <2>1, <2>4 DEF Thms!Next
<1>3. ASSUME NEW h \in Handles, NEW p \in Effects, Bundle!AdncCreate(h, p) PROVE Held
  <2>1. Thms!AdncCreate(h, p) /\ dev' = dev
    BY <1>3, SameCreate DEF Bundle!AdncCreate
  <2> QED
    BY <2>1 DEF Thms!Next
<1>4. ASSUME NEW s \in Bundle!Sessions, NEW p \in Effects, Bundle!AdncRelease(s, p)
      PROVE  Held
  <2>1. Thms!AdncRelease(s, p)
    BY <1>4, SameRelease
  <2>2. Thms!SleepHeld(dev')
    BY <1>4, HeldEvaluation DEF Bundle!AdncRelease
  <2> QED
    BY <1>0, <2>1, <2>2 DEF Thms!Next
<1>5. ASSUME NEW h \in Handles \cup {NoHandle}, Bundle!SetActiveIoHandle(h) PROVE Held
  <2>1. Thms!SetActiveIoHandle(h)
    BY <1>5, SameHalCalls
  <2>2. PICK bad \in OpenFailures :
          dev' = [Bundle!Reevaluate(dev, tab, h, bad) EXCEPT
                    !.ioHandle = IF Bundle!ReevaluateOk(dev, tab, h, bad) THEN h ELSE @]
    BY <1>5 DEF Bundle!SetActiveIoHandle
  <2> DEFINE e == Bundle!Reevaluate(dev, tab, h, bad)
             ok == Bundle!ReevaluateOk(dev, tab, h, bad)
  <2>3. Thms!SleepHeld(e)
    BY HeldEvaluation
  <2>4. dev' = [e EXCEPT !.ioHandle = IF ok THEN h ELSE @]
    BY <2>2
  <2> HIDE DEF e, ok
  <2>5. Thms!SleepHeld(dev')
    BY <2>3, <2>4 DEF Thms!SleepHeld, Thms!DevType
  <2> QED
    BY <2>1, <2>5 DEF Thms!Next
<1>6. ASSUME NEW p \in Presets \ {"INIT", "CURRENT"}, Bundle!UsePreset(p) PROVE Held
  <2>1. Thms!UsePreset(p)
    BY <1>6, SameHalCalls
  <2>2. PICK bad \in OpenFailures :
          dev' = Bundle!Reevaluate([dev EXCEPT !.requested_preset = p], tab, dev.ioHandle, bad)
    BY <1>6 DEF Bundle!UsePreset
  <2>3. Thms!SleepHeld(dev')
    BY <2>2, AskedHeld, HeldEvaluation
  <2> QED
    BY <2>1, <2>3 DEF Thms!Next
<1> QED
  BY <1>1, <1>2, <1>3, <1>4, <1>5, <1>6 DEF BundleMove, EffectMove

\* No call of the HAL or of the framework closes the sleep node.
LEMMA SleepStaysHeld == Spec => []Thms!SleepHeld(dev)
<1>1. Init => Thms!SleepHeld(dev)
  BY InitHeld DEF Init
<1>2. Thms!SleepHeld(dev) /\ [Next]_vars => Thms!SleepHeld(dev)'
  BY StepMoves, MoveHeld
<1> QED
  BY <1>1, <1>2, PTL DEF Spec

\* So the theorems about ES325 are theorems about VoiceCapture.
LEMMA BundleTheorems == Spec => Thms!Spec
<1>1. Init => Thms!Init
  BY InitHeld DEF Init
<1>2. Thms!SleepHeld(dev) /\ [Next]_vars => [Thms!Next]_(Thms!vars)
  BY StepMoves, MoveHeld
<1> QED
  BY <1>1, <1>2, SleepStaysHeld, PTL DEF Spec, Thms!Spec

LEMMA SleepOpensInThms == Thms!SleepNodeOpens
  BY OthersFail DEF Thms!SleepNodeOpens

-----------------------------------------------------------------------------
(* The types of the HAL's variables.                                       *)

AdevType ==
  [out_device : SUBSET OutDevices, in_device : InDevices \cup {NoDevice},
   input_source : Sources, cur_route : (SourceIds \X OutIds) \cup {NoRoute},
   es325_preset : Presets \ {"CURRENT"}]
InType == [standby : BOOLEAN, source : Sources, device : InDevices \cup {NoDevice}]
HalType ==
  /\ adev \in AdevType
  /\ ins \in [Handles -> InType]
  /\ pending \in {"none", "select", "clear"}
  /\ answer \in {"ok", "refused", "failed"}

SameRoute(a, b) == a.cur_route = b.cur_route /\ a.es325_preset = b.es325_preset

LEMMA ArgumentTypes ==
  ASSUME HalType
  PROVE  /\ Stopped(adev) \in AdevType /\ SameRoute(adev, Stopped(adev))
         /\ Stopped(adev).input_source = "DEFAULT"
         /\ Stopped(adev).out_device = adev.out_device
         /\ \A in \in InType :
              LET a == Recorded(adev, in)
              IN  /\ a \in AdevType /\ SameRoute(adev, a) /\ a.out_device = adev.out_device
                  /\ a.input_source = in.source /\ a.in_device = in.device
         /\ \A mask \in OutMasks \cup {{}} :
              LET a == [adev EXCEPT !.out_device = mask]
              IN  /\ a \in AdevType /\ SameRoute(adev, a) /\ a.out_device = mask
                  /\ a.input_source = adev.input_source /\ a.in_device = adev.in_device
<1>1. /\ Stopped(adev) \in AdevType /\ SameRoute(adev, Stopped(adev))
      /\ Stopped(adev).input_source = "DEFAULT"
      /\ Stopped(adev).out_device = adev.out_device
  BY DEF HalType, AdevType, Stopped, SameRoute, Sources
<1>2. ASSUME NEW in \in InType
      PROVE  LET a == Recorded(adev, in)
             IN  /\ a \in AdevType /\ SameRoute(adev, a) /\ a.out_device = adev.out_device
                 /\ a.input_source = in.source /\ a.in_device = in.device
  BY DEF HalType, AdevType, InType, Recorded, SameRoute
<1>3. ASSUME NEW mask \in OutMasks \cup {{}}
      PROVE  LET a == [adev EXCEPT !.out_device = mask]
             IN  /\ a \in AdevType /\ SameRoute(adev, a) /\ a.out_device = mask
                 /\ a.input_source = adev.input_source /\ a.in_device = adev.in_device
  BY CaptureAssumption DEF HalType, AdevType, SameRoute
<1> QED
  BY <1>1, <1>2, <1>3

LEMMA RouteIdType ==
  ASSUME NEW a
  PROVE  RouteId(a) \in SourceIds \X OutIds
  BY DEF RouteId, get_input_source_id, get_output_device_id, SourceIds, OutIds

\* The three outcomes of select_devices
Nothing(a) ==
  /\ PresetOf(a) \in {"CURRENT", a.es325_preset} \/ RouteId(a) = a.cur_route
  /\ adev'.es325_preset = a.es325_preset
  /\ UNCHANGED <<dev, answer>>
Refused(a) ==
  /\ Bundle!UsePresetRefused(dev, PresetOf(a))
  /\ PresetOf(a) \notin {"CURRENT", a.es325_preset}
  /\ adev'.es325_preset = a.es325_preset
  /\ answer' = IF answer = "failed" THEN answer ELSE "refused"
  /\ UNCHANGED dev
Tried(a) ==
  \E bad \in OpenFailures :
    LET p == PresetOf(a)
        asked == [dev EXCEPT !.requested_preset = p]
        ok == Bundle!ReevaluateOk(asked, tab, dev.ioHandle, bad)
    IN  /\ p \in Presets \ {"INIT", "CURRENT"}
        /\ Bundle!UsePreset(p) 
        /\ dev' = Bundle!Reevaluate(asked, tab, dev.ioHandle, bad)
        /\ adev'.es325_preset = IF ok THEN p ELSE a.es325_preset
        /\ answer' = IF ok THEN "ok" ELSE "failed"

LEMMA SelectOutcome ==
  ASSUME NEW a \in AdevType, select_devices(a), tab' = tab
  PROVE  /\ adev' \in AdevType /\ adev'.out_device = a.out_device
         /\ adev'.in_device = a.in_device /\ adev'.input_source = a.input_source
         /\ adev'.cur_route = RouteId(a)
         /\ answer' \in {answer, "ok", "refused", "failed"}
         /\ Nothing(a) \/ Refused(a) \/ Tried(a)
<1>1. /\ RouteId(a) \in SourceIds \X OutIds
      /\ PresetsToAsk(a) \subseteq {PresetOf(a)} \cap (Presets \ {"INIT", "CURRENT"})
      /\ PresetsToAsk(a) = {} => PresetOf(a) \in {"CURRENT", a.es325_preset}
                                  \/ RouteId(a) = a.cur_route
      /\ PresetOf(a) \in PresetsToAsk(a) => PresetOf(a) \notin {"CURRENT", a.es325_preset}
  BY RouteIdType, RoutePresets DEF PresetsToAsk
<1>2. \A p \in Presets \ {"CURRENT"} :
        LET b == [a EXCEPT !.cur_route = RouteId(a), !.es325_preset = p]
        IN  /\ b \in AdevType /\ b.out_device = a.out_device /\ b.in_device = a.in_device
            /\ b.input_source = a.input_source /\ b.cur_route = RouteId(a)
            /\ b.es325_preset = p
  BY <1>1 DEF AdevType
<1>3. LET b == [a EXCEPT !.cur_route = RouteId(a)]
      IN  /\ b \in AdevType /\ b.out_device = a.out_device /\ b.in_device = a.in_device
          /\ b.input_source = a.input_source /\ b.cur_route = RouteId(a)
          /\ b.es325_preset = a.es325_preset
  BY <1>1 DEF AdevType
<1>4. a.es325_preset \in Presets \ {"CURRENT"}
  BY DEF AdevType
<1>5. CASE NothingToAsk(a)
  BY <1>1, <1>3, <1>5 DEF NothingToAsk, Nothing
<1>6. CASE PresetRefused(a)
  BY <1>1, <1>3, <1>6 DEF PresetRefused, Refused
<1>7. CASE PresetTried(a)
  <2>1. PICK p \in PresetsToAsk(a), bad \in OpenFailures :
          LET asked == [dev EXCEPT !.requested_preset = p]
              ok == Bundle!ReevaluateOk(asked, tab, dev.ioHandle, bad)
          IN  /\ ~Bundle!UsePresetRefused(dev, p)
              /\ dev' = Bundle!Reevaluate(asked, tab, dev.ioHandle, bad)
              /\ adev' = [a EXCEPT !.cur_route = RouteId(a),
                                   !.es325_preset = IF ok THEN p ELSE @]
              /\ answer' = IF ok THEN "ok" ELSE "failed"
    BY <1>7 DEF PresetTried
  <2> DEFINE ok == Bundle!ReevaluateOk([dev EXCEPT !.requested_preset = p], tab,
                                       dev.ioHandle, bad)
             q == IF ok THEN p ELSE a.es325_preset
  <2>2. p = PresetOf(a) /\ p \in Presets \ {"INIT", "CURRENT"}
    BY <1>1
  <2>3. q \in Presets \ {"CURRENT"} /\ adev' = [a EXCEPT !.cur_route = RouteId(a),
                                                         !.es325_preset = q]
    BY <1>4, <2>1, <2>2
  <2>4. Bundle!UsePreset(p)
    BY <2>1 DEF Bundle!UsePreset
  <2>5. answer' \in {"ok", "failed"}
    BY <2>1
  <2>6. adev'.es325_preset = q
    BY <1>2, <2>3
  <2>7. Tried(a)
    BY <2>1, <2>2, <2>4, <2>6 DEF Tried
  <2> HIDE DEF q
  <2> QED
    BY <1>2, <2>3, <2>5, <2>7
<1> QED
  BY <1>5, <1>6, <1>7 DEF select_devices


\* Every step leaves the route alone, or selects the devices.
RouteLeft ==
  /\ \/ EffectMove /\ (pending' = "none" => pending = "none")
     \/ pending' = "select" /\ \E h \in Handles : Bundle!SetActiveIoHandle(h)
     \/ Bundle!SetActiveIoHandle(NoHandle)
  /\ answer' = answer
  /\ adev' \in AdevType /\ SameRoute(adev, adev')

LEMMA StepShape ==
  ASSUME HalType, [Next]_vars
  PROVE  /\ ins' \in [Handles -> InType] /\ pending' \in {"none", "select", "clear"}
         /\ \/ RouteLeft
            \/ /\ pending # "clear" /\ tab' = tab
               /\ \E a \in AdevType : SameRoute(adev, a) /\ select_devices(a)
<1> DEFINE Selected == /\ pending # "clear" /\ tab' = tab
                       /\ \E a \in AdevType : SameRoute(adev, a) /\ select_devices(a)
           Types == ins' \in [Handles -> InType] /\ pending' \in {"none", "select", "clear"}
<1>0. /\ adev \in AdevType /\ SameRoute(adev, adev)
      /\ ins \in [Handles -> InType] /\ pending \in {"none", "select", "clear"}
      /\ InDevs \subseteq InDevices /\ InSources \subseteq Sources
  BY CaptureAssumption DEF HalType, SameRoute, Sources
<1>a. dev' = dev /\ tab' = tab => EffectMove
  BY DEF EffectMove
<1>b. \A h \in Handles : ins[h] \in InType
  BY <1>0
<1> HIDE DEF Selected
<1>1. ASSUME NEW h \in Handles, NEW s \in InSources, NEW d \in InDevs, OpenInput(h, s, d)
      PROVE  Types /\ RouteLeft
  BY <1>0, <1>a, <1>1 DEF OpenInput, InType, RouteLeft
<1>2. ASSUME NEW h \in Handles, StartInput(h) PROVE Types /\ RouteLeft
  <2>1. adev' \in AdevType /\ SameRoute(adev, adev')
    BY <1>b, <1>2, ArgumentTypes DEF StartInput
  <2>2. Types
    BY <1>0, <1>2 DEF StartInput, InType
  <2> QED
    BY <1>2, <2>1, <2>2 DEF StartInput, RouteLeft
<1>3. CASE StartInputSelect
  BY <1>0, <1>3 DEF StartInputSelect, Selected
<1>4. ASSUME NEW h \in Handles, StandbyInput(h) PROVE Types /\ Selected
  <2>1. Types
    BY <1>0, <1>4 DEF StandbyInput, InType
  <2> QED
    BY <1>4, <2>1, ArgumentTypes DEF StandbyInput, Selected
<1>5. CASE StandbyInputClear
  BY <1>0, <1>5 DEF StandbyInputClear, RouteLeft
<1>6. ASSUME NEW h \in Handles, NEW s \in InSources, in_set_parameters(h, s)
      PROVE  Types /\ (RouteLeft \/ Selected)
  <2> DEFINE in == [ins[h] EXCEPT !.source = s]
  <2>1. in \in InType
    BY <1>0, <1>b DEF InType
  <2>2. ins' = [ins EXCEPT ![h] = in] /\ pending' = pending /\ tab' = tab
        /\ pending = "none"
    BY <1>6 DEF in_set_parameters
  <2>3. \/ UNCHANGED <<dev, adev, answer>>
        \/ select_devices(Recorded(adev, in))
    BY <1>6 DEF in_set_parameters
  <2> HIDE DEF in
  <2>4. Types
    BY <1>0, <2>1, <2>2
  <2>5. Recorded(adev, in) \in AdevType /\ SameRoute(adev, Recorded(adev, in))
    BY <2>1, ArgumentTypes
  <2> QED
    BY <1>0, <1>a, <2>2, <2>3, <2>4, <2>5 DEF RouteLeft, Selected
<1>7. ASSUME NEW h \in Handles, NEW d \in InDevs, in_set_parameters_routing(h, d)
      PROVE  Types /\ (RouteLeft \/ Selected)
  <2> DEFINE sco == "SCO_HEADSET" \in {d, ins[h].device}
             in == [ins[h] EXCEPT !.device = d, !.standby = @ \/ sco]
  <2>1. in \in InType
    BY <1>0, <1>b DEF InType
  <2>2. /\ ins' = [ins EXCEPT ![h] = in] /\ tab' = tab /\ pending = "none"
        /\ pending' = IF sco THEN "clear" ELSE "none"
    BY <1>7 DEF in_set_parameters_routing
  <2>3. \/ UNCHANGED <<dev, adev, answer>>
        \/ select_devices(Stopped(adev))
        \/ select_devices(Recorded(adev, in))
    BY <1>7 DEF in_set_parameters_routing
  <2> HIDE DEF in
  <2>4. Types
    BY <1>0, <2>1, <2>2
  <2>5. /\ Recorded(adev, in) \in AdevType /\ SameRoute(adev, Recorded(adev, in))
        /\ Stopped(adev) \in AdevType /\ SameRoute(adev, Stopped(adev))
    BY <2>1, ArgumentTypes
  <2> QED
    BY <1>0, <1>a, <2>2, <2>3, <2>4, <2>5 DEF RouteLeft, Selected
<1>8. ASSUME NEW mask \in OutMasks, RouteOutputs(mask) PROVE Types /\ (RouteLeft \/ Selected)
  <2> DEFINE a == [adev EXCEPT !.out_device = mask]
  <2>1. a \in AdevType /\ SameRoute(adev, a)
    BY ArgumentTypes
  <2>2. \/ adev' = a /\ UNCHANGED <<dev, answer>>
        \/ select_devices(a)
    BY <1>8 DEF RouteOutputs
  <2> HIDE DEF a
  <2>3. tab' = tab /\ ins' = ins /\ pending = "none" /\ pending' = pending
    BY <1>8 DEF RouteOutputs
  <2> QED
    BY <1>0, <1>a, <2>1, <2>2, <2>3 DEF RouteLeft, Selected
<1>9. ASSUME NEW h \in Handles, NEW type \in Effects, ChangeEffect(h, type) PROVE Types /\ RouteLeft
  <2>1. EffectMove
    BY <1>9 DEF ChangeEffect, EffectMove
  <2> QED
    BY <1>0, <1>9, <2>1 DEF ChangeEffect, RouteLeft
<1>10. CASE CallEffects
  <2>1. EffectMove
    BY <1>10 DEF CallEffects, EffectMove
  <2> QED
    BY <1>0, <1>10, <2>1 DEF CallEffects, RouteLeft
<1>11. CASE UNCHANGED vars
  BY <1>0, <1>a, <1>11 DEF vars, RouteLeft
<1> QED
  BY <1>1, <1>2, <1>3, <1>4, <1>5, <1>6, <1>7, <1>8, <1>9, <1>10, <1>11
  DEF Next, Selected

LEMMA InitTypes == Init => HalType
<1> SUFFICES ASSUME Init PROVE HalType
  OBVIOUS
<1>1. "INIT" \in Presets \ {"CURRENT"}
  BY DEF Presets
<1>2. ClosedIn \in InType
  BY DEF ClosedIn, InType, Sources
<1> QED
  BY <1>1, <1>2 DEF Init, HalType, AdevType, Sources

LEMMA HalTypeCorrect == Spec => []HalType
<1>1. HalType /\ [Next]_vars => HalType'
  <2> SUFFICES ASSUME HalType, [Next]_vars PROVE HalType'
    OBVIOUS
  <2>1. CASE tab' = tab /\ \E a \in AdevType : SameRoute(adev, a) /\ select_devices(a)
    BY <2>1, StepShape, SelectOutcome DEF HalType
  <2> QED
    BY <2>1, StepShape DEF HalType, RouteLeft
<1> QED
  BY <1>1, InitTypes, PTL DEF Spec

-----------------------------------------------------------------------------
(* The caches of the preset.                                               *)

LEMMA EffectMovesKeep ==
  ASSUME dev \in Thms!DevType, EffectMove
  PROVE  dev'.requested_preset = dev.requested_preset /\ dev'.ioHandle = dev.ioHandle
<1> DEFINE Kept == dev'.requested_preset = dev.requested_preset /\ dev'.ioHandle = dev.ioHandle
<1>1. ASSUME NEW t, NEW h, NEW bad, dev' = Bundle!Reevaluate(dev, t, h, bad) PROVE Kept
  BY <1>1, BundleConstants, SameReevaluate, Thms!ReevaluateKeeps
<1>2. ASSUME NEW h \in Handles, NEW type,
             Bundle!AddEffect(h, type) \/ Bundle!RemoveEffect(h, type)
      PROVE  Kept
  <2>1. \E s, msk : Bundle!MarkEffects(s, h, msk)
    BY <1>2 DEF Bundle!AddEffect, Bundle!RemoveEffect
  <2>2. \E bad : dev' = Bundle!Reevaluate(dev, tab', h, bad)
    BY <2>1 DEF Bundle!MarkEffects
  <2> QED
    BY <1>1, <2>2
<1>3. ASSUME NEW h, NEW p, Bundle!AdncCreate(h, p) PROVE Kept
  BY <1>3 DEF Bundle!AdncCreate
<1>4. ASSUME NEW s, NEW p, Bundle!AdncRelease(s, p) PROVE Kept
  BY <1>1, <1>4 DEF Bundle!AdncRelease
<1> QED
  BY <1>2, <1>3, <1>4 DEF EffectMove

\* The handle of the recording changes only with eS325_SetActiveIoHandle, and
\* clearing it does not fail.
LEMMA SetHandle ==
  ASSUME Thms!SleepHeld(dev), NEW h, Bundle!SetActiveIoHandle(h)
  PROVE  /\ dev'.requested_preset = dev.requested_preset
         /\ dev'.ioHandle \in {h, dev.ioHandle}
         /\ h = NoHandle => dev'.ioHandle = NoHandle
<1>1. PICK bad \in OpenFailures :
        dev' = [Bundle!Reevaluate(dev, tab, h, bad) EXCEPT
                  !.ioHandle = IF Bundle!ReevaluateOk(dev, tab, h, bad) THEN h ELSE @]
  BY DEF Bundle!SetActiveIoHandle
<1> DEFINE e == Bundle!Reevaluate(dev, tab, h, bad)
           ok == Bundle!ReevaluateOk(dev, tab, h, bad)
<1>2. e \in Thms!DevType /\ e.ioHandle = dev.ioHandle /\ e.requested_preset = dev.requested_preset
  BY BundleConstants, SameReevaluate, Thms!ReevaluateType, Thms!ReevaluateKeeps
  DEF Thms!SleepHeld
<1>3. h = NoHandle => ok
  BY HeldEvaluation DEF Bundle!MustSleep
<1> HIDE DEF e, ok
<1>4. dev' = [e EXCEPT !.ioHandle = IF ok THEN h ELSE @]
  BY <1>1 DEF e, ok
<1> QED
  BY <1>2, <1>3, <1>4 DEF Thms!DevType

LEMMA TriedRequest ==
  ASSUME Thms!SleepHeld(dev), NEW a, Tried(a)
  PROVE  dev'.requested_preset = PresetOf(a) /\ dev'.ioHandle = dev.ioHandle
<1> DEFINE p == PresetOf(a)
           asked == [dev EXCEPT !.requested_preset = p]
<1>1. PICK bad \in OpenFailures : dev' = Bundle!Reevaluate(asked, tab, dev.ioHandle, bad)
  BY DEF Tried
<1>2. p \in Presets \ {"INIT", "CURRENT"}
  BY DEF Tried
<1>3. /\ asked \in Thms!DevType /\ asked.requested_preset = p
      /\ asked.ioHandle = dev.ioHandle
  BY <1>2, AskedHeld
<1> HIDE DEF asked
<1> QED
  BY <1>1, <1>3, BundleConstants, SameReevaluate, Thms!ReevaluateKeeps

\* With any number of streams, sessions and failures, the HAL's cache of the preset
\* and the bundle's agree, but for a call that failed until one succeeds
\* (select_devices, eS325_UsePreset).
THEOREM TwoCaches == Spec => []CachesAgree
<1>1. Init => CachesAgree
  BY DEF Init, CachesAgree, Bundle!Init, Bundle!InitDev
<1>2. HalType /\ Thms!SleepHeld(dev) /\ CachesAgree /\ [Next]_vars => CachesAgree'
  <2> SUFFICES ASSUME HalType, Thms!SleepHeld(dev), CachesAgree, [Next]_vars PROVE CachesAgree'
    OBVIOUS
  <2>0. dev \in Thms!DevType
    BY DEF Thms!SleepHeld
  <2>1. CASE RouteLeft
    BY <2>0, <2>1, EffectMovesKeep, SetHandle DEF RouteLeft, CachesAgree, SameRoute
  <2>2. ASSUME NEW a \in AdevType, SameRoute(adev, a), select_devices(a), tab' = tab
        PROVE  CachesAgree'
    <3>1. CASE Nothing(a)
      BY <2>2, <3>1 DEF Nothing, CachesAgree, SameRoute
    <3>2. CASE Refused(a)
      BY <2>2, <3>2 DEF Refused, CachesAgree, SameRoute
    <3>3. CASE Tried(a)
      BY <3>3, TriedRequest DEF Tried, CachesAgree
    <3> QED
      BY <2>2, <3>1, <3>2, <3>3, SelectOutcome
  <2> QED
    BY <2>1, <2>2, StepShape
<1> QED
  BY <1>1, <1>2, HalTypeCorrect, SleepStaysHeld, PTL DEF Spec


-----------------------------------------------------------------------------
(* One stream (ES325_proofs says why two do not do): the preset of a       *)
(* recording.  What the HAL knows of the route, beside the two caches.     *)

\* No recording, or one whose devices are still to be selected
Idle == pending = "select" \/ adev.input_source = "DEFAULT"

\* The one stream and what routing was told of it
InputInv ==
  \A h \in Handles :
    /\ ins[h] = ClosedIn \/ ins[h].source \in TabSources
    /\ IF ins[h].standby THEN pending # "select" /\ adev.input_source = "DEFAULT"
       ELSE /\ pending # "clear" /\ ins[h].source \in TabSources
            /\ adev.input_source = ins[h].source /\ adev.in_device = ins[h].device
    /\ pending = "none" /\ dev.ioHandle = h => ~ins[h].standby

RoutePreset(r) == RouteFor(r[1], r[2], NoDevice).es325_preset

\* The route that was cached is the one selected last, and the preset in use is
\* that of the route, or an ASRA preset if the change to it was turned down.
RouteInv ==
  /\ pending # "select" /\ RouteId(adev)[2] # "NONE" => adev.cur_route = RouteId(adev)
  /\ IF Idle THEN adev.cur_route[1] \notin TabSources
     ELSE adev.cur_route[1] = adev.input_source /\ adev.input_source \in TabSources
  /\ Idle => adev.es325_preset \in {"INIT", "OFF"}
  /\ answer = "ok" /\ adev.cur_route # NoRoute /\ adev.cur_route[2] # "NONE" =>
       RoutePreset(adev.cur_route) \in {"CURRENT", adev.es325_preset}
  /\ answer = "refused" =>
       /\ dev.ioHandle # NoHandle /\ pending = "none"
       /\ adev.es325_preset \in Bundle!AsraPresets
       /\ adev.cur_route[2] # "NONE" =>
            RoutePreset(adev.cur_route) \in Bundle!AsraPresets \cup {"CURRENT"}

\* What is known of the bundle (ES325_proofs)
BundleInv ==
  /\ Thms!SleepHeld(dev)
  /\ Thms!PresetInv /\ Thms!AwakeOnlyForEffect /\ Thms!OnRequest

LEMMA BundleInvariant ==
  ASSUME Thms!OneStream
  PROVE  Spec => []BundleInv
<1>1. Thms!Spec => []Thms!PresetInv
  BY BundleConstants, SleepOpensInThms, Thms!PresetInvariant
<1>2. Thms!Spec => []Thms!AwakeOnlyForEffect
  BY BundleConstants, SleepOpensInThms, Thms!AwakeForEffects
<1>3. Thms!Spec => []Thms!OnRequest
  BY BundleConstants, SleepOpensInThms, Thms!OnRequestInvariant
<1> QED
  BY <1>1, <1>2, <1>3, BundleTheorems, SleepStaysHeld, PTL DEF BundleInv

LEMMA RoutePresetOf ==
  ASSUME NEW a, RouteId(a)[2] # "NONE"
  PROVE  RoutePreset(RouteId(a)) = PresetOf(a)
  BY DEF RoutePreset, PresetOf, RouteFor

LEMMA SourceOfRoute ==
  ASSUME NEW a
  PROVE  /\ a.input_source \in TabSources => RouteId(a)[1] = a.input_source
         /\ a.input_source \notin TabSources => RouteId(a)[1] = "NONE"
         /\ "NONE" \notin TabSources /\ "DEFAULT" \notin TabSources
         /\ RouteId(a) # NoRoute
  BY DEF RouteId, get_input_source_id, TabSources, NoRoute

\* A request for OFF does not fail.
LEMMA OffSucceeds ==
  ASSUME NEW d, Thms!SleepHeld(d), NEW t, NEW h, NEW bad, d.requested_preset = "OFF"
  PROVE  Bundle!ReevaluateOk(d, t, h, bad)
  BY HeldEvaluation DEF Bundle!MustSleep

\* Selecting the devices, for a recording or for none, brings the route up to date.
LEMMA SelectKeepsRoute ==
  ASSUME HalType, BundleInv, RouteInv, CachesAgree,
         NEW a \in AdevType, SameRoute(adev, a), select_devices(a), tab' = tab,
         \/ a.input_source = "DEFAULT" /\ pending' # "select"
         \/ a.input_source \in TabSources /\ pending' = "none"
  PROVE  RouteInv'
<1>0. /\ dev \in Thms!DevType
      /\ adev' \in AdevType /\ adev'.out_device = a.out_device
      /\ adev'.in_device = a.in_device /\ adev'.input_source = a.input_source
      /\ adev'.cur_route = RouteId(a)
      /\ answer \in {"ok", "refused", "failed"}
      /\ answer' \in {answer, "ok", "refused", "failed"}
      /\ Nothing(a) \/ Refused(a) \/ Tried(a)
  BY SelectOutcome DEF HalType, BundleInv, Thms!PresetInv, Thms!TableInv, Thms!TypeOK
<1> DEFINE p == PresetOf(a)
           Awake == a.input_source \in TabSources
<1>1. /\ RouteId(adev') = RouteId(a)
      /\ Idle' <=> ~Awake
      /\ Awake => RouteId(a)[1] = a.input_source
      /\ ~Awake => RouteId(a)[1] \notin TabSources /\ p = "OFF"
      /\ RouteId(a)[2] # "NONE" => RoutePreset(RouteId(a)) = p
  BY <1>0, RoutePresetOf, SourceOfRoute, RoutePresets DEF RouteId, Idle
<1>2. a.cur_route = adev.cur_route /\ a.es325_preset = adev.es325_preset
  BY DEF SameRoute
<1>3. adev'.cur_route = RouteId(adev')
  BY <1>0, <1>1
<1>4. IF Idle' THEN adev'.cur_route[1] \notin TabSources
      ELSE adev'.cur_route[1] = adev'.input_source /\ adev'.input_source \in TabSources
  BY <1>0, <1>1
<1>5. ASSUME Idle' PROVE adev'.es325_preset \in {"INIT", "OFF"} /\ answer' # "refused"
  <2>1. p = "OFF" /\ RouteId(a)[1] \notin TabSources
    BY <1>1, <1>5
  <2>2. "OFF" \notin Bundle!AsraPresets /\ "INIT" \notin Bundle!AsraPresets
    BY DEF Bundle!AsraPresets
  <2>3. CASE Nothing(a)
    <3>1. adev.es325_preset = "OFF" \/ Idle
      BY <1>2, <2>1, <2>3 DEF Nothing, RouteInv
    <3> QED
      BY <1>2, <2>2, <2>3, <3>1 DEF Nothing, RouteInv
  <2>4. CASE Refused(a)
    BY <2>1, <2>2, <2>4 DEF Refused, Bundle!UsePresetRefused
  <2>5. CASE Tried(a)
    <3>1. Thms!SleepHeld([dev EXCEPT !.requested_preset = p])
          /\ [dev EXCEPT !.requested_preset = p].requested_preset = "OFF"
      BY <2>1, <2>5, AskedHeld DEF Tried, BundleInv
    <3> QED
      BY <2>1, <2>5, <3>1, OffSucceeds DEF Tried
  <2> QED
    BY <1>0, <2>3, <2>4, <2>5
<1>6. answer' = "ok" => p \in {"CURRENT", adev'.es325_preset} \/ RouteId(a)[2] = "NONE"
  <2>1. CASE Nothing(a)
    BY <1>1, <1>2, <2>1, SourceOfRoute DEF Nothing, RouteInv
  <2>2. CASE Refused(a)
    BY <2>2 DEF Refused
  <2>3. CASE Tried(a)
    BY <2>3 DEF Tried
  <2> QED
    BY <1>0, <2>1, <2>2, <2>3
<1>7. ASSUME answer' = "refused"
      PROVE  /\ dev'.ioHandle # NoHandle /\ pending' = "none"
             /\ adev'.es325_preset \in Bundle!AsraPresets
             /\ RouteId(a)[2] # "NONE" => p \in Bundle!AsraPresets \cup {"CURRENT"}
  <2>0. pending' = "none"
    BY <1>1, <1>5, <1>7, SourceOfRoute
  <2>1. CASE Nothing(a)
    BY <1>1, <1>2, <1>7, <2>0, <2>1 DEF Nothing, RouteInv
  <2>2. CASE Refused(a)
    <3>1. answer # "failed"
      BY <1>7, <2>2 DEF Refused
    <3>2. /\ dev.ioHandle # NoHandle /\ p \in Bundle!AsraPresets
          /\ dev.current_preset \in Bundle!AsraPresets
      BY <2>2 DEF Refused, Bundle!UsePresetRefused
    <3>3. dev.current_preset = dev.requested_preset
      BY <3>2 DEF BundleInv, Thms!OnRequest, Bundle!AsraPresets
    <3> QED
      BY <1>2, <2>0, <2>2, <3>1, <3>2, <3>3 DEF Refused, CachesAgree
  <2>3. CASE Tried(a)
    BY <1>7, <2>3 DEF Tried
  <2> QED
    BY <1>0, <2>1, <2>2, <2>3
<1> HIDE DEF p
<1> QED
  BY <1>0, <1>1, <1>3, <1>4, <1>5, <1>6, <1>7 DEF RouteInv


LEMMA SelectKeepsHandle ==
  ASSUME Thms!SleepHeld(dev), NEW a \in AdevType, select_devices(a), tab' = tab
  PROVE  dev'.ioHandle = dev.ioHandle
  BY SelectOutcome, TriedRequest DEF Nothing, Refused

\* No mask of devices that has an identifier is empty.
LEMMA NoOutputId == get_output_device_id({}) = "NONE"
<1>1. ASSUME NEW id \in DOMAIN MasksOf PROVE {} \notin MasksOf[id]
  <2>1. /\ {} \notin {{d} : d \in ScoOutDevices}
        /\ \A x : {} # {x}
        /\ \A x, y : {} # {x, y}
    OBVIOUS
  <2>2. {} \notin MasksOf.BT_SCO
    BY <2>1 DEF MasksOf
  <2>3. /\ {} \notin MasksOf.SPEAKER /\ {} \notin MasksOf.EARPIECE
        /\ {} \notin MasksOf.HEADSET /\ {} \notin MasksOf.HEADPHONES
        /\ {} \notin MasksOf.SPEAKER_AND_HEADSET /\ {} \notin MasksOf.SPEAKER_AND_EARPIECE
    BY <2>1 DEF MasksOf
  <2>4. id \in {"SPEAKER", "EARPIECE", "HEADSET", "HEADPHONES", "BT_SCO",
                "SPEAKER_AND_HEADSET", "SPEAKER_AND_EARPIECE"}
    BY DEF MasksOf
  <2> HIDE DEF MasksOf
  <2> QED
    BY <2>2, <2>3, <2>4
<1> QED
  BY <1>1 DEF get_output_device_id

HalInv == HalType /\ CachesAgree /\ BundleInv /\ InputInv /\ RouteInv

LEMMA RouteStep ==
  ASSUME Thms!OneStream, HalInv, [Next]_vars
  PROVE  InputInv' /\ RouteInv'
<1>0. /\ dev \in Thms!DevType /\ adev \in AdevType /\ ins \in [Handles -> InType]
      /\ \A g, h \in Handles : g = h
      /\ InSources \subseteq TabSources /\ "DEFAULT" \notin TabSources
      /\ adev.input_source = "DEFAULT" \/ adev.input_source \in TabSources
      /\ dev.ioHandle \in Handles \cup {NoHandle} /\ NoHandle \notin Handles
      /\ Thms!SleepHeld(dev) /\ HalType /\ BundleInv /\ RouteInv /\ CachesAgree /\ InputInv
      /\ SameRoute(adev, adev)
  BY CaptureAssumption, SourceOfRoute
  DEF HalInv, HalType, BundleInv, Thms!PresetInv, Thms!TableInv, Thms!TypeOK, Thms!DevType,
      Thms!OneStream, AdevType, Sources, SameRoute
\* only a recording has a preset turned down
<1>a. ASSUME NEW h \in Handles, ins[h].standby PROVE answer # "refused"
  BY <1>0, <1>a DEF InputInv, RouteInv
<1>b. ASSUME NEW a \in AdevType, SameRoute(adev, a), select_devices(a), tab' = tab,
             \/ a.input_source = "DEFAULT" /\ pending' # "select"
             \/ a.input_source \in TabSources /\ pending' = "none"
      PROVE  /\ RouteInv' /\ adev'.input_source = a.input_source
             /\ adev'.in_device = a.in_device /\ dev'.ioHandle = dev.ioHandle
  BY <1>0, <1>b, SelectKeepsRoute, SelectOutcome, SelectKeepsHandle
<1>1. ASSUME NEW h \in Handles, NEW s \in InSources, NEW d \in InDevs, OpenInput(h, s, d)
      PROVE  InputInv' /\ RouteInv'
  <2>1. RouteInv'
    BY <1>0, <1>1 DEF OpenInput, RouteInv, Idle
  <2>2. InputInv'
    BY <1>0, <1>1 DEF OpenInput, InputInv, InType, ClosedIn
  <2> QED
    BY <2>1, <2>2
<1>2. ASSUME NEW h \in Handles, StartInput(h) PROVE InputInv' /\ RouteInv'
  <2>1. /\ adev'.input_source = ins[h].source /\ adev'.in_device = ins[h].device
        /\ SameRoute(adev, adev')
    BY <1>0, <1>2, ArgumentTypes DEF StartInput
  <2>2. InputInv'
    BY <1>0, <1>2, <2>1 DEF StartInput, InputInv, InType
  <2>3. answer # "refused" /\ Idle
    BY <1>0, <1>2, <1>a DEF StartInput, InputInv, Idle
  <2>4. RouteInv'
    BY <1>0, <1>2, <2>1, <2>3 DEF StartInput, RouteInv, SameRoute, Idle
  <2> QED
    BY <2>2, <2>4
<1>3. CASE StartInputSelect
  <2>1. /\ RouteInv' /\ adev'.input_source = adev.input_source
        /\ adev'.in_device = adev.in_device
    BY <1>0, <1>3, <1>b DEF StartInputSelect
  <2>2. InputInv'
    BY <1>0, <1>3, <2>1 DEF StartInputSelect, InputInv
  <2> QED
    BY <2>1, <2>2
<1>4. ASSUME NEW h \in Handles, StandbyInput(h) PROVE InputInv' /\ RouteInv'
  <2>1. RouteInv' /\ adev'.input_source = "DEFAULT"
    BY <1>0, <1>4, <1>b, ArgumentTypes DEF StandbyInput
  <2>2. InputInv'
    BY <1>0, <1>4, <2>1 DEF StandbyInput, InputInv, InType, ClosedIn
  <2> QED
    BY <2>1, <2>2
<1>5. CASE StandbyInputClear
  <2>1. dev'.ioHandle = NoHandle
    BY <1>0, <1>5, SetHandle DEF StandbyInputClear
  <2>2. answer # "refused" /\ pending # "select"
    BY <1>0, <1>5, <1>a DEF StandbyInputClear, RouteInv
  <2>3. InputInv'
    BY <1>0, <1>5, <2>1, <2>2 DEF StandbyInputClear, InputInv
  <2>4. RouteInv'
    BY <1>0, <1>5, <2>2 DEF StandbyInputClear, RouteInv, Idle
  <2> QED
    BY <2>3, <2>4
<1>6. ASSUME NEW h \in Handles, NEW s \in InSources, in_set_parameters(h, s)
      PROVE  InputInv' /\ RouteInv'
  <2> DEFINE in == [ins[h] EXCEPT !.source = s]
             a == Recorded(adev, in)
  <2>1. /\ in \in InType /\ in.source = s /\ in.device = ins[h].device
        /\ in.standby = ins[h].standby
    BY <1>0 DEF InType, Sources
  <2>2. /\ a \in AdevType /\ SameRoute(adev, a)
        /\ a.input_source = s /\ a.in_device = ins[h].device
    BY <1>0, <2>1, ArgumentTypes
  <2>3. /\ pending = "none" /\ pending' = "none" /\ tab' = tab
        /\ ins' = [ins EXCEPT ![h] = in] /\ ins[h] # ClosedIn
        /\ IF in.standby THEN UNCHANGED <<dev, adev, answer>> ELSE select_devices(a)
    BY <1>6 DEF in_set_parameters
  <2> HIDE DEF in, a
  <2>4. CASE in.standby
    <3>1. RouteInv'
      BY <1>0, <2>3, <2>4 DEF RouteInv, Idle
    <3>2. InputInv'
      BY <1>0, <2>1, <2>3, <2>4 DEF InputInv
    <3> QED
      BY <3>1, <3>2
  <2>5. CASE ~in.standby
    <3>1. /\ RouteInv' /\ adev'.input_source = s /\ adev'.in_device = ins[h].device
      BY <1>0, <1>b, <2>2, <2>3, <2>5
    <3>2. InputInv'
      BY <1>0, <2>1, <2>3, <2>5, <3>1 DEF InputInv
    <3> QED
      BY <3>1, <3>2
  <2> QED
    BY <2>4, <2>5
<1>7. ASSUME NEW h \in Handles, NEW d \in InDevs, in_set_parameters_routing(h, d)
      PROVE  InputInv' /\ RouteInv'
  <2> DEFINE sco == "SCO_HEADSET" \in {d, ins[h].device}
             in == [ins[h] EXCEPT !.device = d, !.standby = @ \/ sco]
             a == Recorded(adev, in)
             b == Stopped(adev)
  <2>1. /\ in \in InType /\ in.source = ins[h].source /\ in.device = d
        /\ in.standby <=> ins[h].standby \/ sco
    BY <1>0, CaptureAssumption DEF InType
  <2>2. /\ a \in AdevType /\ SameRoute(adev, a)
        /\ a.input_source = ins[h].source /\ a.in_device = d
        /\ b \in AdevType /\ SameRoute(adev, b) /\ b.input_source = "DEFAULT"
    BY <1>0, <2>1, ArgumentTypes
  <2>3. /\ pending = "none" /\ tab' = tab
        /\ ins' = [ins EXCEPT ![h] = in] /\ ins[h] # ClosedIn
        /\ pending' = IF sco THEN "clear" ELSE "none"
        /\ IF ins[h].standby THEN UNCHANGED <<dev, adev, answer>>
           ELSE IF sco THEN select_devices(b) ELSE select_devices(a)
    BY <1>7 DEF in_set_parameters_routing
  <2> HIDE DEF in, a, b, sco
  <2>4. CASE ins[h].standby
    <3>1. RouteInv'
      BY <1>0, <1>a, <2>3, <2>4 DEF RouteInv, Idle
    <3>2. InputInv'
      BY <1>0, <2>1, <2>3, <2>4 DEF InputInv
    <3> QED
      BY <3>1, <3>2
  <2>5. CASE ~ins[h].standby /\ sco
    <3>1. RouteInv' /\ adev'.input_source = "DEFAULT"
      BY <1>0, <1>b, <2>2, <2>3, <2>5
    <3>2. InputInv'
      BY <1>0, <2>1, <2>3, <2>5, <3>1 DEF InputInv
    <3> QED
      BY <3>1, <3>2
  <2>6. CASE ~ins[h].standby /\ ~sco
    <3>1. ins[h].source \in TabSources
      BY <1>0, <2>6 DEF InputInv
    <3>2. /\ RouteInv' /\ adev'.input_source = ins[h].source /\ adev'.in_device = d
      BY <1>0, <1>b, <2>2, <2>3, <2>6, <3>1
    <3>3. InputInv'
      BY <1>0, <2>1, <2>3, <2>6, <3>1, <3>2 DEF InputInv
    <3> QED
      BY <3>2, <3>3
  <2> QED
    BY <2>4, <2>5, <2>6
<1>8. ASSUME NEW mask \in OutMasks, RouteOutputs(mask) PROVE InputInv' /\ RouteInv'
  <2> DEFINE a == [adev EXCEPT !.out_device = mask]
  <2>1. /\ a \in AdevType /\ SameRoute(adev, a) /\ a.out_device = mask
        /\ a.input_source = adev.input_source /\ a.in_device = adev.in_device
    BY <1>0, ArgumentTypes
  <2>2. /\ pending = "none" /\ pending' = pending /\ tab' = tab /\ ins' = ins
        /\ IF mask = {} THEN adev' = a /\ UNCHANGED <<dev, answer>> ELSE select_devices(a)
    BY <1>8 DEF RouteOutputs
  <2> HIDE DEF a
  <2>3. CASE mask = {}
    <3>1. RouteId(adev')[2] = "NONE"
      BY <2>1, <2>2, <2>3, NoOutputId DEF RouteId
    <3>2. RouteInv'
      BY <1>0, <2>1, <2>2, <2>3, <3>1 DEF RouteInv, Idle, SameRoute
    <3>3. InputInv'
      BY <1>0, <2>1, <2>2, <2>3 DEF InputInv
    <3> QED
      BY <3>2, <3>3
  <2>4. CASE mask # {}
    <3>1. /\ RouteInv' /\ adev'.input_source = adev.input_source
          /\ adev'.in_device = adev.in_device /\ dev'.ioHandle = dev.ioHandle
      BY <1>0, <1>b, <2>1, <2>2, <2>4
    <3>2. InputInv'
      BY <1>0, <2>2, <3>1 DEF InputInv
    <3> QED
      BY <3>1, <3>2
  <2> QED
    BY <2>3, <2>4
<1>9. CASE (\E h \in Handles, type \in Effects : ChangeEffect(h, type)) \/ CallEffects
  <2>1. EffectMove
    BY <1>9 DEF ChangeEffect, CallEffects, EffectMove
  <2>2. UNCHANGED <<adev, ins, pending, answer>> /\ dev'.ioHandle = dev.ioHandle
    BY <1>0, <1>9, <2>1, EffectMovesKeep DEF ChangeEffect, CallEffects
  <2> QED
    BY <1>0, <2>2 DEF InputInv, RouteInv, Idle
<1>10. CASE UNCHANGED vars
  BY <1>0, <1>10 DEF vars, InputInv, RouteInv, Idle
<1> QED
  BY <1>1, <1>2, <1>3, <1>4, <1>5, <1>6, <1>7, <1>8, <1>9, <1>10 DEF Next


LEMMA HalInvariant ==
  ASSUME Thms!OneStream
  PROVE  Spec => []HalInv
<1>1. Init => InputInv /\ RouteInv
  <2> SUFFICES ASSUME Init PROVE InputInv /\ RouteInv
    OBVIOUS
  <2>1. InputInv
    BY CaptureAssumption DEF Init, Bundle!Init, Bundle!InitDev, InputInv, ClosedIn
  <2>2. RouteId(adev)[2] = "NONE"
    BY NoOutputId DEF Init, RouteId
  <2>3. RouteInv
    BY <2>2 DEF Init, RouteInv, Idle, NoRoute, TabSources
  <2> QED
    BY <2>1, <2>3
<1>2. HalInv /\ [Next]_vars => InputInv' /\ RouteInv'
  BY RouteStep
<1>3. InputInv /\ RouteInv /\ HalType /\ CachesAgree /\ BundleInv => HalInv
  BY DEF HalInv
<1> QED
  BY <1>1, <1>2, <1>3, HalTypeCorrect, TwoCaches, BundleInvariant, PTL DEF Spec, HalInv

LEMMA SameUsers ==
  /\ Bundle!Users = Thms!Users
  /\ Bundle!Sessions = Thms!Sessions
  /\ \A s : Bundle!Recording(s) <=> Thms!Recording(s)
  /\ Bundle!RecordingIsTuned <=> Thms!RecordingIsTuned
<1>1. Bundle!Users = Thms!Users
  BY SameScan DEF Bundle!Users, Thms!Users
<1>2. Bundle!Sessions = Thms!Sessions
  BY DEF Bundle!Sessions, Thms!Sessions
<1>3. \A s : Bundle!Recording(s) <=> Thms!Recording(s)
  BY DEF Bundle!Recording, Thms!Recording
<1>4. Bundle!RecordingIsTuned <=> Thms!RecordingIsTuned
  BY <1>2, <1>3 DEF Bundle!RecordingIsTuned, Thms!RecordingIsTuned, Bundle!NsLevel,
                    Thms!NsLevel
<1> QED
  BY <1>1, <1>2, <1>3, <1>4

\* A recording of one stream runs on the preset that its source and the output call
\* for, whatever order the HAL, the framework and failures came in, and else the
\* chip sleeps (select_devices, do_in_standby, eS325_UsePreset).
THEOREM RecordingOnItsPreset ==
  ASSUME Thms!OneStream
  PROVE  Spec => []RecordedOnItsPreset
<1>1. HalInv => RecordedOnItsPreset
  <2> SUFFICES ASSUME HalInv PROVE RecordedOnItsPreset
    OBVIOUS
  <2>0. /\ InputInv /\ RouteInv /\ CachesAgree /\ Thms!OnRequest
        /\ Thms!ChipInv(dev) /\ Thms!AwakeOnlyForEffect /\ Thms!TableInv
        /\ answer \in {"ok", "refused", "failed"} /\ adev \in AdevType
        /\ ins \in [Handles -> InType]
    BY DEF HalInv, HalType, BundleInv, Thms!PresetInv
  <2>1. answer = "refused" => dev.ioHandle # NoHandle
    BY <2>0 DEF RouteInv
  <2> DEFINE p(h) == PresetOf(Recorded(adev, ins[h]))
             allowed(h) == IF answer = "refused" THEN Bundle!AsraPresets ELSE {p(h)}
             opened == dev.fd["vp"] = "open" /\ dev.fd["preset"] = "open"
  <2>2. ASSUME NEW h \in Handles, pending = "none", dev.ioHandle = h, answer # "failed",
               RouteId(adev)[2] # "NONE", p(h) # "CURRENT"
        PROVE  /\ p(h) \in allowed(h)
               /\ IF h \in Bundle!Users /\ opened THEN dev.current_preset \in allowed(h)
                  ELSE dev.current_preset = "OFF"
    <3>1. /\ adev.input_source = ins[h].source /\ adev.in_device = ins[h].device
      BY <2>0, <2>2 DEF InputInv
    <3>2. Recorded(adev, ins[h]).input_source = adev.input_source
          /\ Recorded(adev, ins[h]).in_device = adev.in_device
          /\ Recorded(adev, ins[h]).out_device = adev.out_device
      BY <2>0, <3>1 DEF Recorded, AdevType
    <3>3. p(h) = PresetOf(adev)
      BY <3>2 DEF PresetOf, RouteId
    <3>4. adev.cur_route = RouteId(adev) /\ RoutePreset(adev.cur_route) = p(h)
      BY <2>0, <2>2, <3>3, RoutePresetOf DEF RouteInv
    <3> HIDE DEF p
    <3>5. p(h) \in allowed(h) /\ dev.requested_preset \in allowed(h)
      BY <2>0, <2>2, <3>4, SourceOfRoute DEF RouteInv, CachesAgree
    <3>6. CASE h \in Bundle!Users /\ opened
      BY <2>0, <2>2, <3>5, <3>6, SameUsers DEF Thms!OnRequest, Thms!PresetOpens
    <3>7. CASE h \notin Bundle!Users
      <4>1. \A g \in Handles : g = h
        BY DEF Thms!OneStream
      <4>2. Thms!Users = {}
        BY <3>7, <4>1, SameUsers DEF Thms!Users
      <4>3. \A s \in Thms!Sessions : tab[s].active = {}
        BY <2>0, <4>2 DEF Thms!Users, Thms!SessionsOf, Thms!TableInv, Thms!TypeOK,
                          Thms!SessionType, Thms!SessionsConsistent, Thms!FreeSession
      <4> QED
        BY <2>0, <3>5, <3>7, <4>3 DEF Thms!AwakeOnlyForEffect
    <3>8. CASE ~opened
      BY <2>0, <3>5, <3>8 DEF Thms!ChipInv
    <3> QED
      BY <3>5, <3>6, <3>7, <3>8
  <2> QED
    BY <2>1, <2>2 DEF RecordedOnItsPreset
<1> QED
  BY <1>1, HalInvariant, PTL

LEMMA TunedStep ==
  ASSUME Thms!OneStream, HalInv, BundleInv', [Next]_vars,
         RecordingIsTuned
  PROVE  RecordingIsTuned'
<1>0. /\ dev \in Thms!DevType /\ Thms!SleepHeld(dev) /\ Thms!PresetInv /\ Thms!TableInv /\ Thms!TableInv'
      /\ Thms!OnRequest /\ RouteInv /\ CachesAgree /\ HalType
      /\ Thms!ConstantsAssumption /\ Thms!SleepNodeOpens
  BY BundleConstants, SleepOpensInThms DEF HalInv, BundleInv, Thms!PresetInv, Thms!TableInv, Thms!TypeOK
<1> SUFFICES ASSUME NEW s \in Thms!Sessions, Thms!Recording(s)', pending' = "none",
                    answer' # "failed", dev'.requested_preset # "INIT",
                    dev'.fd["ns"] = "open", dev'.current_preset # "OFF"
             PROVE  dev'.node["ns"] = Thms!NsLevel("NS" \in tab'[s].active,
                                                    dev'.requested_preset)
  BY DEF RecordingIsTuned, Bundle!RecordingIsTuned, Bundle!Recording, Thms!Recording,
         Bundle!Sessions, Thms!Sessions, Bundle!NsLevel, Thms!NsLevel
<1>1. Thms!TunedAfter(s) => dev'.node["ns"] = Thms!NsLevel("NS" \in tab'[s].active,
                                                            dev'.requested_preset)
  BY DEF Thms!TunedAfter
<1>2. ASSUME dev' = dev, pending = "none", answer # "failed", Thms!Recording(s),
             tab'[s].active = tab[s].active
      PROVE  Thms!TunedAfter(s)
  BY <1>2, SameUsers DEF RecordingIsTuned, Thms!RecordingIsTuned, Thms!TunedAfter
<1>3. CASE Bundle!SetActiveIoHandle(NoHandle)
  BY <1>0, <1>3, SetHandle DEF Thms!Recording
<1>4. ASSUME EffectMove, pending = "none", answer' = answer PROVE Thms!TunedAfter(s)
  <2>1. dev'.ioHandle = dev.ioHandle
    BY <1>0, <1>4, EffectMovesKeep
  <2>2. CASE dev' = dev /\ tab' = tab
    BY <1>2, <1>4, <2>2 DEF Thms!Recording
  <2>3. ASSUME NEW h \in Handles, NEW p \in Effects, Bundle!AdncCreate(h, p)
        PROVE  Thms!TunedAfter(s)
    <3>1. Thms!Recording(s) /\ tab'[s].active = tab[s].active
      BY <1>0, <2>3, SameCreate, Thms!CreateKeepsRecording
    <3>2. dev' = dev
      BY <2>3 DEF Bundle!AdncCreate
    <3> QED
      BY <1>2, <1>4, <3>1, <3>2
  <2>4. CASE \/ \E h \in Handles, type \in Effects :
                  Bundle!AddEffect(h, type) \/ Bundle!RemoveEffect(h, type)
             \/ \E r \in Bundle!Sessions, p \in Effects : Bundle!AdncRelease(r, p)
    <3>1. \/ \E r \in Thms!Sessions, p \in Effects : Thms!AdncRelease(r, p)
          \/ \E h \in Handles, type \in Effects :
               Thms!AddEffect(h, type) \/ Thms!RemoveEffect(h, type)
      BY <1>0, <2>4, SameMarks, SameRelease, SameUsers
    <3> QED
      BY <1>0, <2>1, <3>1, Thms!OneStreamTunes
  <2> QED
    BY <1>4, <2>2, <2>3, <2>4 DEF EffectMove
<1>5. ASSUME NEW a \in AdevType, SameRoute(adev, a), select_devices(a), tab' = tab,
             pending # "clear"
      PROVE  Thms!TunedAfter(s)
  <2>1. CASE Tried(a)
    <3>1. /\ PresetOf(a) \in Presets \ {"INIT", "CURRENT"}
          /\ Thms!UsePreset(PresetOf(a))
      BY <1>0, <2>1, SameHalCalls DEF Tried
    <3> QED
      BY <1>0, <3>1, Thms!UseTunes
  <2>2. CASE Nothing(a) \/ Refused(a)
    <3>1. dev' = dev /\ answer # "failed"
      BY <2>2 DEF Nothing, Refused
    <3>2. Thms!Recording(s)
      BY <1>5, <3>1 DEF Thms!Recording
    <3>3. pending # "select"
      <4>1. ASSUME pending = "select" PROVE dev.requested_preset = "OFF"
        BY <1>0, <3>1, <4>1 DEF RouteInv, Idle, CachesAgree
      <4> QED
        BY <1>0, <3>1, <4>1 DEF Thms!OnRequest
    <3>4. pending = "none"
      BY <1>0, <1>5, <3>3 DEF HalType
    <3> QED
      BY <1>2, <1>5, <3>1, <3>2, <3>4
  <2> QED
    BY <1>5, <2>1, <2>2, SelectOutcome
<1> QED
  BY <1>0, <1>1, <1>3, <1>4, <1>5, StepShape DEF RouteLeft

\* A recording of one stream has the noise suppression its effects and its preset
\* call for: the selection of the devices makes up for what
\* eS325_SetActiveIoHandle leaves aside (start_input_stream, in_set_parameters).
THEOREM RecordingsAreTuned ==
  ASSUME Thms!OneStream
  PROVE  Spec => []RecordingIsTuned
<1>1. Init => RecordingIsTuned
  BY DEF Init, RecordingIsTuned, Bundle!Init, Bundle!InitDev
<1>2. HalInv /\ BundleInv' /\ RecordingIsTuned /\ [Next]_vars => RecordingIsTuned'
  BY TunedStep
<1> QED
  BY <1>1, <1>2, HalInvariant, BundleInvariant, PTL DEF Spec

\* Nothing puts the chip to sleep under a recording of one stream that keeps its
\* effects in use (ES325_proofs!OneRecordingStaysAwake).
THEOREM RecordingStaysAwake ==
  ASSUME Thms!OneStream
  PROVE  Spec => RecordingKeepsPreset
<1>1. Thms!Spec => Thms!RecordingKeepsPreset
  BY BundleConstants, SleepOpensInThms, Thms!OneRecordingStaysAwake
<1>2. Thms!RecordingKeepsPreset <=> RecordingKeepsPreset
  BY SameUsers DEF RecordingKeepsPreset, Thms!RecordingKeepsPreset,
                   Bundle!RecordingKeepsPreset, Thms!Recording, Bundle!Recording,
                   Thms!Sessions, Bundle!Sessions, Thms!vars, Bundle!vars
<1> QED
  BY <1>1, <1>2, BundleTheorems

-----------------------------------------------------------------------------
(* What ES325_proofs assumes of the bundle's callers holds of the HAL.     *)

\* For any number of streams, the bundle that the HAL uses implements PresetPolicy:
\* here no other library adds effects, and the sleep node does not fail.
THEOREM CaptureImplementsPolicy == Spec => Thms!ImplementsPolicy
<1>1. Thms!Spec => Thms!ImplementsPolicy
  BY BundleConstants, SleepOpensInThms, Thms!BundleImplementsPolicy
<1> QED
  BY <1>1, BundleTheorems

\* And so, for any number of streams, the preset that the bundle believes in is on
\* the chip, which is awake for an effect only, and no recording ever moves from one
\* ASRA preset to another (Adnc_ApplyPreset_l, eS325_UsePreset).
THEOREM ChipFollowsBundle ==
  Spec => /\ []Thms!PresetReachedChip
          /\ []Thms!AwakeOnlyForEffect
          /\ Thms!AsraLocked
<1>1. Thms!Spec => []Thms!PresetReachedChip
  BY BundleConstants, SleepOpensInThms, Thms!PresetIsOnChip
<1>2. Thms!Spec => []Thms!AwakeOnlyForEffect
  BY BundleConstants, SleepOpensInThms, Thms!AwakeForEffects
<1>3. Thms!Spec => Thms!AsraLocked
  BY BundleConstants, SleepOpensInThms, Thms!AsraIsLocked
<1> QED
  BY <1>1, <1>2, <1>3, BundleTheorems

=============================================================================
