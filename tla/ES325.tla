------------------------------- MODULE ES325 -------------------------------
(***************************************************************************)
(* The eS325 voice-processing bundle: the effect library entry points      *)
(* (adnc_create, adnc_release, the effect commands) that the effects       *)
(* framework calls, and the eS325_* calls of the audio HAL.  All of them   *)
(* but the effect commands run under sAdncBundleLock from their first to   *)
(* their last line, and a command only moves the state of one effect, so   *)
(* each entry point is one action.                                         *)
(*                                                                         *)
(* Every entry point first runs AdncBundle_Init_l, which cannot fail and   *)
(* does something only the first time: the table starts initialised here.  *)
(* audioSource and session.state are written and never read: left out.     *)
(*                                                                         *)
(* A sysfs control is opened when it is first needed and stays open; the   *)
(* open may fail.  bad is, in every operator, the set of controls whose    *)
(* open fails during the call.                                             *)
(***************************************************************************)
EXTENDS Naturals, FiniteSetsExt

CONSTANTS
  NumSessions,   \* ADNC_PFX_NUM_SESSION
  Handles,       \* IO handles of the input streams
  NoHandle,      \* ES325_IO_HANDLE_NONE
  Presets,       \* the presets the HAL asks for
  Effects,       \* the effects the framework creates from this bundle
  ForeignTypes,  \* effect types the framework adds from other libraries
  VeqInputs,     \* arguments of eS325_SetVeq
  OpenFailures   \* the sets of controls that may fail to open in one call

ProcIds == {"AEC", "NS", "AGC"}
Other == "OTHER"                          \* PFX_ID_CNT: no UUID matched
AsraPresets == {"ASRA_HANDHELD", "ASRA_DESKTOP", "ASRA_HEADSET"}
PresetIds == AsraPresets \cup
  {"INIT", "CURRENT", "OFF", "VOIP_HANDHELD", "VOIP_DESKTOP", "VOIP_HEADSET",
   "VOIP_HEADPHONES", "VOIP_HP_DESKTOP", "CAMCORDER"}
Ctrls == {"vp", "veq", "preset", "ns", "agc", "aec", "sleep"}
FxStates == {"INIT", "CREATED", "CONFIG", "ACTIVE"}

ASSUME ConstantsAssumption ==
  /\ NumSessions \in Nat \ {0}
  /\ NoHandle \notin Handles
  /\ Presets \subseteq PresetIds \ {"INIT", "CURRENT"}
  /\ Effects \subseteq ProcIds
  /\ ForeignTypes \subseteq ProcIds \cup {Other}
  /\ VeqInputs \subseteq BOOLEAN
  /\ OpenFailures \subseteq SUBSET Ctrls
  /\ OpenFailures # {}

Sessions == 0 .. NumSessions - 1

VARIABLES
  dev,   \* eS325_ctrl, and in dev.node the last value each control received
  tab    \* sAdncSessions

vars == <<dev, tab>>

-----------------------------------------------------------------------------
(* The controls of the chip.                                               *)

\* "default": the value the preset brings; "none": nothing was written yet
NodeValues == PresetIds \cup {"0", "1", "4", "6", "default", "none"}

FreeSession ==
  [ioHandle |-> NoHandle, created |-> {}, active |-> {},
   fx |-> [p \in ProcIds |-> "INIT"]]

\* fd[ES325_CTRL_SLEEP] has no value in the initialiser, which has six values
\* for seven controls, so it is 0: a descriptor that is not the chip's
InitDev ==
  [fd |-> [c \in Ctrls |-> IF c = "sleep" THEN "stray" ELSE "closed"],
   node |-> [c \in Ctrls |-> "none"],
   current_preset |-> "OFF", requested_preset |-> "INIT", ioHandle |-> NoHandle]

CanWrite(d, c, bad) == d.fd[c] # "closed" \/ c \notin bad

\* the controls that a preset brings to its own defaults
Tuned(c) == c \in {"ns", "agc", "aec"}

\* The open-if-needed and write sequence that every Adnc_Set*Int_l repeats.
\* Writing a preset also resets the tuning.
Write(d, c, v, bad) ==
  IF ~CanWrite(d, c, bad) THEN d
  ELSE [d EXCEPT
         !.fd[c] = IF @ = "closed" THEN "open" ELSE @,
         !.node = IF d.fd[c] = "stray" THEN @
                  ELSE [k \in Ctrls |-> IF k = c THEN v
                                        ELSE IF c = "preset" /\ Tuned(k)
                                             THEN "default" ELSE d.node[k]]]

Bit(on) == IF on THEN "1" ELSE "0"

SetVoiceProcessing(d, on, bad) == Write(d, "vp", Bit(on), bad)
SetVeqInt(d, on, bad) == Write(d, "veq", Bit(on), bad)
SetEchoCancellation(d, on, bad) == Write(d, "aec", Bit(on), bad)
SetAutomaticGainControl(d, on, bad) == Write(d, "agc", Bit(on), bad)

\* broken: a level that the chip does not have
NsLevelUnknown(on, preset) ==
  IF preset = "ASRA_HANDHELD" /\ on THEN "9" ELSE "4"

NsLevel(on, preset) ==
  IF ~on \/ preset \in {"ASRA_DESKTOP", "ASRA_HEADSET"} THEN "0"
  ELSE IF preset = "ASRA_HANDHELD" THEN "6" ELSE "4"
SetNoiseSuppression(d, on, bad) ==
  Write(d, "ns", NsLevel(on, d.requested_preset), bad)

SleepOk(d, bad) == d.current_preset = "OFF" \/ CanWrite(d, "sleep", bad)
Sleep(d, bad) ==
  LET quiet == SetVoiceProcessing(d, FALSE, bad)   \* its status is ignored
  IN  IF d.current_preset = "OFF" THEN d
      ELSE IF ~SleepOk(d, bad) THEN quiet
      ELSE [Write(quiet, "sleep", "1", bad) EXCEPT !.current_preset = "OFF"]

-----------------------------------------------------------------------------
(* The session table.                                                      *)

NoSession == NumSessions
SessionsOf(t, h) == {s \in Sessions : t[s].ioHandle = h}

\* the index of the first match of a scan of sAdncSessions, NoSession if none
FirstOf(S) == IF S = {} THEN NoSession ELSE Min(S)

SessionNumberForHandle(t, h) == FirstOf(SessionsOf(t, h))

\* broken: takes a free session before it looks for the one of h
GetSessionFreeFirst(t, h) ==
  IF SessionsOf(t, NoHandle) # {} THEN FirstOf(SessionsOf(t, NoHandle))
  ELSE FirstOf(SessionsOf(t, h))

\* AdncBundle_GetSession_l: the session of h, else the first free one
GetSession(t, h) ==
  IF SessionsOf(t, h) # {} THEN SessionNumberForHandle(t, h)
  ELSE FirstOf(SessionsOf(t, NoHandle))

\* AdncPreProFx_SetState: the moves it accepts
CanSetState(old, new) ==
  \/ new = "INIT"
  \/ new = "CREATED" /\ old = "INIT"
  \/ new = "CONFIG" /\ old # "INIT"
  \/ new = "ACTIVE" /\ old \in {"CONFIG", "ACTIVE"}

-----------------------------------------------------------------------------
(* What the chip does for a recording.                                     *)

ApplyPresetOk(d, bad) ==
  \/ d.requested_preset = d.current_preset
  \/ d.requested_preset = "OFF" /\ SleepOk(d, bad)
  \/ /\ d.requested_preset # "OFF"
     /\ d.current_preset \in {"OFF", "INIT"} => CanWrite(d, "vp", bad)
     /\ CanWrite(d, "preset", bad)

\* broken: voice processing is only turned on the first time
ApplyPresetNoWake(d, bad) ==
  LET on == IF d.current_preset = "INIT" THEN SetVoiceProcessing(d, TRUE, bad) ELSE d
  IN  IF d.requested_preset = d.current_preset THEN d
      ELSE IF d.requested_preset = "OFF" THEN Sleep(d, bad)
      ELSE IF ~ApplyPresetOk(d, bad) THEN on
      ELSE [Write(on, "preset", d.requested_preset, bad)
              EXCEPT !.current_preset = d.requested_preset]

ApplyPreset(d, bad) ==
  LET asleep == d.current_preset \in {"OFF", "INIT"}
      on == IF asleep THEN SetVoiceProcessing(d, TRUE, bad) ELSE d
  IN  IF d.requested_preset = d.current_preset THEN d
      ELSE IF d.requested_preset = "OFF" THEN Sleep(d, bad)
      ELSE IF ~ApplyPresetOk(d, bad) THEN on
      ELSE [Write(on, "preset", d.requested_preset, bad)
              EXCEPT !.current_preset = d.requested_preset]

\* NS follows its effect both ways; AEC and AGC are only ever turned on
ApplySettingsFromSession(d, ssn, bad) ==
  LET both == ssn.created \cap ssn.active
      ns == SetNoiseSuppression(d, "NS" \in ssn.active, bad)
      aec == IF "AEC" \in both THEN SetEchoCancellation(ns, TRUE, bad) ELSE ns
  IN  IF ssn.ioHandle # d.ioHandle THEN d
      ELSE IF "AGC" \in both THEN SetAutomaticGainControl(aec, TRUE, bad) ELSE aec
ApplySettingsOk(d, ssn, bad) ==
  ssn.ioHandle = d.ioHandle => CanWrite(d, "ns", bad)

\* broken: does not look at the effects of the session
MustSleepIgnoringEffects(d, t, h) == d.requested_preset = "OFF" \/ h = NoHandle

\* broken: sleeps as soon as one of the effects of the session is off
MustSleepUnlessAllActive(d, t, h) ==
  LET s == SessionNumberForHandle(t, h)
  IN  \/ d.requested_preset = "OFF" \/ h = NoHandle
      \/ s # NoSession /\ t[s].active # t[s].created

\* Adnc_ReevaluateUsageInt_l: the cases of the call for handle h
MustSleep(d, t, h) ==
  LET s == SessionNumberForHandle(t, h)
  IN  \/ d.requested_preset = "OFF" \/ h = NoHandle
      \/ s # NoSession /\ t[s].active = {}

Reevaluate(d, t, h, bad) ==
  LET s == SessionNumberForHandle(t, h)
      e == ApplyPreset(d, bad)
  IN  IF MustSleep(d, t, h) THEN Sleep(d, bad)
      ELSE IF s = NoSession THEN d
      ELSE IF ApplyPresetOk(d, bad) THEN ApplySettingsFromSession(e, t[s], bad) ELSE e

ReevaluateOk(d, t, h, bad) ==
  LET s == SessionNumberForHandle(t, h)
  IN  IF MustSleep(d, t, h) THEN SleepOk(d, bad)
      ELSE \/ s = NoSession
           \/ /\ ApplyPresetOk(d, bad)
              /\ ApplySettingsOk(ApplyPreset(d, bad), t[s], bad)

-----------------------------------------------------------------------------
(* The entry points.                                                       *)

Init ==
  /\ dev = InitDev
  /\ tab = [s \in Sessions |-> FreeSession]

\* Claiming a session writes its handle before anything else is known
Claimed(t, s, h) == [t EXCEPT ![s].ioHandle = h]

\* adnc_create: a refused state change leaves the session as it was found,
\* unless the session has no effect at all
AdncCreate(h, p) ==
  /\ \E s \in Sessions :
       /\ s = GetSession(tab, h)
       /\ tab' = IF CanSetState(tab[s].fx[p], "CREATED")
                 THEN [Claimed(tab, s, h) EXCEPT ![s].created = @ \cup {p},
                                                 ![s].fx[p] = "CREATED"]
                 ELSE Claimed(tab, s, IF tab[s].created = {} THEN NoHandle ELSE h)
  /\ UNCHANGED dev

\* adnc_release: the framework releases an effect that was created
ReleaseEffect(ssn, p) ==
  [ssn EXCEPT !.created = @ \ {p}, !.active = @ \ {p}]

\* broken: the session keeps its handle when its last effect goes
AdncReleaseNoFree(s, p) ==
  /\ p \in tab[s].created
  /\ tab' = [tab EXCEPT ![s] = ReleaseEffect(@, p)]
  /\ \E bad \in OpenFailures : dev' = Reevaluate(dev, tab', tab[s].ioHandle, bad)

\* broken: frees the session without initialising its effects
AdncReleaseKeepFx(s, p) ==
  /\ p \in tab[s].created
  /\ LET t == [tab EXCEPT ![s] = ReleaseEffect(@, p)]
     IN  /\ \E bad \in OpenFailures :
              dev' = Reevaluate(dev, t, tab[s].ioHandle, bad)
         /\ tab' = IF t[s].created = {} THEN [t EXCEPT ![s].ioHandle = NoHandle] ELSE t

AdncRelease(s, p) ==
  /\ p \in tab[s].created
  /\ LET t == [tab EXCEPT ![s] = ReleaseEffect(@, p)]
     IN  /\ \E bad \in OpenFailures :
              dev' = Reevaluate(dev, t, tab[s].ioHandle, bad)
         /\ tab' = IF t[s].created = {} THEN [t EXCEPT ![s] = FreeSession] ELSE t

\* EFFECT_CMD_SET_CONFIG, which leaves an active effect alone, and
\* EFFECT_CMD_ENABLE and EFFECT_CMD_DISABLE
Command(s, p, state) ==
  /\ p \in tab[s].created
  /\ CanSetState(tab[s].fx[p], state)
  /\ tab' = [tab EXCEPT ![s].fx[p] = state]
  /\ UNCHANGED dev

\* broken: one of the ASRA presets is missing from the inner switch
UsePresetRefusedNoDesktop(d, preset) ==
  /\ d.ioHandle # NoHandle
  /\ d.current_preset \in AsraPresets
  /\ preset \in AsraPresets \ {"ASRA_DESKTOP"}

\* eS325_UsePreset: no move from one ASRA preset to another while recording
UsePresetRefused(d, preset) ==
  /\ d.ioHandle # NoHandle
  /\ d.current_preset \in AsraPresets
  /\ preset \in AsraPresets

\* broken: the usage is evaluated before the request is recorded
UsePresetLate(preset) ==
  /\ ~UsePresetRefused(dev, preset)
  /\ \E bad \in OpenFailures :
       dev' = [Reevaluate(dev, tab, dev.ioHandle, bad)
                 EXCEPT !.requested_preset = preset]
  /\ UNCHANGED tab

UsePreset(preset) ==
  /\ ~UsePresetRefused(dev, preset)
  /\ \E bad \in OpenFailures :
       dev' = Reevaluate([dev EXCEPT !.requested_preset = preset], tab,
                         dev.ioHandle, bad)
  /\ UNCHANGED tab

\* eS325_SetVeq: nothing in the HAL calls it yet
SetVeq(on) ==
  /\ \E bad \in OpenFailures : dev' = SetVeqInt(dev, on, bad)
  /\ UNCHANGED tab

\* eS325_SetActiveIoHandle: the chip is set up first, with the old handle
SetActiveIoHandle(h) ==
  /\ \E bad \in OpenFailures :
       dev' = [Reevaluate(dev, tab, h, bad) EXCEPT
                 !.ioHandle = IF ReevaluateOk(dev, tab, h, bad) THEN h ELSE @]
  /\ UNCHANGED tab

\* The framework adds to a stream, and removes from it, the effects it created
\* on it from this bundle, and those of other libraries
EffectOnStream(h, type) ==
  \/ type \in ForeignTypes
  \/ \E s \in SessionsOf(tab, h) : type \in tab[s].created

\* the session is claimed, if need be, before its mask changes
MarkEffects(s, h, msk) ==
  LET t == [Claimed(tab, s, h) EXCEPT ![s].active = msk]
  IN  /\ tab' = t
      /\ \E bad \in OpenFailures : dev' = Reevaluate(dev, t, h, bad)

\* eS325_AddEffect, eS325_RemoveEffect: the status of the update is dropped
AddEffect(h, type) ==
  /\ EffectOnStream(h, type)
  /\ \E s \in Sessions : /\ s = GetSession(tab, h)
                         /\ MarkEffects(s, h, tab[s].active \cup {type})
RemoveEffect(h, type) ==
  /\ EffectOnStream(h, type)
  /\ \E s \in Sessions : /\ s = GetSession(tab, h)
                         /\ MarkEffects(s, h, tab[s].active \ {type})

\* eS325_Release
Release ==
  /\ \E bad \in OpenFailures :
       dev' = [Sleep(dev, bad) EXCEPT !.fd = [c \in Ctrls |-> "closed"]]
  /\ UNCHANGED tab

Next ==
  \/ \E h \in Handles, p \in Effects : AdncCreate(h, p)
  \/ \E s \in Sessions, p \in Effects : AdncRelease(s, p)
  \/ \E s \in Sessions, p \in Effects, state \in {"CONFIG", "ACTIVE"} :
       Command(s, p, state)
  \/ \E preset \in Presets : UsePreset(preset)
  \/ \E on \in VeqInputs : SetVeq(on)
  \/ \E h \in Handles \cup {NoHandle} : SetActiveIoHandle(h)
  \/ \E h \in Handles, type \in ProcIds \cup {Other} : AddEffect(h, type)
  \/ \E h \in Handles, type \in ProcIds \cup {Other} : RemoveEffect(h, type)
  \/ Release

Spec == Init /\ [][Next]_vars

-----------------------------------------------------------------------------
(* Properties.                                                             *)

DevType ==
  [fd : [Ctrls -> {"closed", "open", "stray"}], node : [Ctrls -> NodeValues],
   current_preset : PresetIds, requested_preset : PresetIds,
   ioHandle : Handles \cup {NoHandle}]
SessionType ==
  [ioHandle : Handles \cup {NoHandle}, created : SUBSET ProcIds,
   active : SUBSET (ProcIds \cup {Other}), fx : [ProcIds -> FxStates]]

\* The control block and the session table hold values of their types.
TypeOK == dev \in DevType /\ tab \in [Sessions -> SessionType]

\* No input stream is ever given two sessions: a scan for its handle finds the
\* one that was claimed for it, in whatever order sessions were freed
\* (AdncBundle_GetSession_l).
OneSessionPerHandle ==
  \A r, s \in Sessions :
    r # s /\ tab[r].ioHandle = tab[s].ioHandle => tab[r].ioHandle = NoHandle

\* A session nobody owns carries nothing over to its next owner, a session
\* without effects can have any effect created again, and an effect that was
\* created accepts commands.
SessionsConsistent ==
  \A s \in Sessions :
    /\ tab[s].ioHandle = NoHandle => tab[s] = FreeSession
    /\ tab[s].created = {} => \A p \in ProcIds : tab[s].fx[p] = "INIT"
    /\ \A p \in tab[s].created : tab[s].fx[p] # "INIT"

\* A session is owned only while it has effects, so that recordings that come
\* and go never use the table up ("free session if it has no more effects").
OwnedSessionHasEffects ==
  \A s \in Sessions :
    tab[s].ioHandle # NoHandle => tab[s].created \cup tab[s].active # {}

\* The chip is awake only on behalf of an active effect ("use the preset only
\* if there is an effect, reset preset to off otherwise").
AwakeOnlyForEffect ==
  dev.current_preset # "OFF" => \E s \in Sessions : tab[s].active # {}

\* The preset the code believes in is the one the chip last received, with
\* voice processing on ("voice processing must be on before setting the
\* preset").
PresetReachedChip ==
  dev.current_preset # "OFF" =>
    dev.node["vp"] = "1" /\ dev.node["preset"] = dev.current_preset

\* What makes PresetReachedChip hold: the two controls it is about stay open
\* while a preset is in use, so that changing the preset cannot fail half way.
ChipInv(d) ==
  /\ d.fd["vp"] # "stray" /\ d.fd["preset"] # "stray"
  /\ d.current_preset # "OFF" =>
       /\ d.fd["vp"] = "open" /\ d.node["vp"] = "1"
       /\ d.fd["preset"] = "open" /\ d.node["preset"] = d.current_preset

\* The session of the stream being recorded, with effects in use.
Recording(s) ==
  /\ dev.ioHandle # NoHandle
  /\ tab[s].ioHandle = dev.ioHandle
  /\ tab[s].active # {}

\* A recording with effects never runs on a preset other than the one last
\* asked for, whichever of the two streams, effects or routes changed last.
RecordingUsesRequested ==
  (\E s \in Sessions : Recording(s)) =>
    dev.current_preset \in {"OFF", dev.requested_preset}

\* During a recording the chip never moves from one ASRA preset to another:
\* neither the refusal in eS325_UsePreset nor a preset asked for earlier and
\* applied late lets it.
AsraLocked ==
  [][ dev.ioHandle # NoHandle /\ {dev.current_preset, dev'.current_preset} \subseteq AsraPresets
        => dev'.current_preset = dev.current_preset ]_vars

\* What makes AsraLocked hold: an ASRA preset in use is never left waiting for
\* another ASRA preset.
AsraRequest ==
  dev.current_preset \in AsraPresets =>
    dev.requested_preset \in {dev.current_preset} \cup (PresetIds \ AsraPresets)

\* While a stream is recorded and keeps effects in use, with a preset asked
\* for, only eS325_Release (which closes the controls) puts the chip to sleep.
RecordingKeepsPreset ==
  [][ \A s \in Sessions :
        /\ Recording(s) /\ Recording(s)'
        /\ dev.current_preset # "OFF" /\ dev'.requested_preset # "OFF"
        /\ dev'.fd["vp"] # "closed"
        => dev'.current_preset # "OFF" ]_vars

\* Whenever the effects of the recorded stream or the preset asked for change,
\* the chip stays awake and the control of noise suppression could be opened,
\* noise suppression is left at the level that the effects and the preset call
\* for.
NsFollowsEffect ==
  [][ \A s \in Sessions :
        /\ Recording(s)' /\ dev'.ioHandle = dev.ioHandle
        /\ dev'.current_preset # "OFF" /\ dev'.fd["ns"] = "open"
        /\ \/ tab'[s].active # tab[s].active
           \/ dev'.requested_preset # dev.requested_preset
        => dev'.node["ns"] = NsLevel("NS" \in tab'[s].active, dev'.requested_preset)
      ]_vars

-----------------------------------------------------------------------------
(* The bundle implements what it promises the HAL.                         *)

Users == {h \in Handles : \E s \in SessionsOf(tab, h) : tab[s].active # {}}

Policy == INSTANCE PresetPolicy WITH
  Streams <- Handles, NoStream <- NoHandle, Requests <- Presets, Asra <- AsraPresets,
  requested <- dev.requested_preset, current <- dev.current_preset,
  stream <- dev.ioHandle, users <- Users

\* Whatever the sessions, the scans, the caches and the order of the calls on
\* several streams, the chip moves between presets only as PresetPolicy lets it:
\* to the preset asked for, for the stream re-evaluated, or to sleep, and awake
\* only while some stream has effects in use.
ImplementsPolicy == Policy!Spec

-----------------------------------------------------------------------------
(* What the bundle keeps only in the order of calls of the audio HAL, with  *)
(* one stream (VoiceCapture).                                              *)

\* "apply the settings of the session associated with the handle (if any)": a
\* recording with effects has the noise suppression level they call for.
RecordingIsTuned ==
  \A s \in Sessions :
    Recording(s) /\ dev.current_preset # "OFF" =>
      dev.node["ns"] = NsLevel("NS" \in tab[s].active, dev.requested_preset)

=============================================================================
