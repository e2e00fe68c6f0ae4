---------------------------- MODULE ES325_proofs ----------------------------
(***************************************************************************)
(* Theorems about ES325, for any number of sessions and any set of         *)
(* streams, presets, effects and failures that ConstantsAssumption allows. *)
(***************************************************************************)
EXTENDS ES325, WellFoundedInduction, TLAPS

TabType == [Sessions -> SessionType]

-----------------------------------------------------------------------------
(* The scan of the session table.                                          *)

\* A scan that has a match returns one (AdncBundle_GetSession_l,
\* Adnc_SessionNumberForHandle_l).
LEMMA FirstOfMatch ==
  ASSUME NEW S \in SUBSET Sessions, S # {}
  PROVE  FirstOf(S) \in S
<1>1. S \subseteq Nat
  BY ConstantsAssumption DEF Sessions
<1>2. PICK x \in S : \A y \in S : ~ (<<y, x>> \in OpToRel(<, Nat))
  BY <1>1, WFMin, NatLessThanWellFounded
<1>3. \A y \in Nat : y < x => <<y, x>> \in OpToRel(<, Nat)
  BY <1>1 DEF OpToRel
<1>4. \A y \in S : x =< y
  <2> SUFFICES ASSUME NEW y \in S PROVE x =< y
    OBVIOUS
  <2>1. ~ (y < x)
    BY <1>1, <1>2, <1>3
  <2> QED
    BY <1>1, <2>1
<1> QED
  BY <1>4 DEF FirstOf, Min

\* The scan for a handle finds a session of it, or none.
LEMMA NumberForHandle ==
  ASSUME NEW t, NEW h
  PROVE  LET s == SessionNumberForHandle(t, h)
         IN  \/ s \in Sessions /\ t[s].ioHandle = h
             \/ s = NoSession /\ SessionsOf(t, h) = {}
<1> USE DEF SessionNumberForHandle, SessionsOf
<1>1. CASE SessionsOf(t, h) = {}
  BY <1>1 DEF FirstOf
<1>2. CASE SessionsOf(t, h) # {}
  BY <1>2, FirstOfMatch
<1> QED
  BY <1>1, <1>2

LEMMA NoSessionNotIn == NoSession \notin Sessions
  BY ConstantsAssumption DEF NoSession, Sessions

\* A session is found for a handle that has one only if it is that one, and is
\* otherwise a free one.
LEMMA GetSessionMatch ==
  ASSUME NEW t, NEW h, NEW s \in Sessions, s = GetSession(t, h)
  PROVE  \/ t[s].ioHandle = h
         \/ t[s].ioHandle = NoHandle /\ SessionsOf(t, h) = {}
<1>1. CASE SessionsOf(t, h) # {}
  BY <1>1, NumberForHandle, NoSessionNotIn DEF GetSession
<1>2. CASE SessionsOf(t, h) = {}
  <2>1. s = FirstOf(SessionsOf(t, NoHandle))
    BY <1>2 DEF GetSession
  <2>2. SessionsOf(t, NoHandle) # {}
    BY <2>1, NoSessionNotIn DEF FirstOf
  <2>3. s \in SessionsOf(t, NoHandle)
    BY <2>1, <2>2, FirstOfMatch DEF SessionsOf
  <2> QED
    BY <1>2, <2>3 DEF SessionsOf
<1> QED
  BY <1>1, <1>2

-----------------------------------------------------------------------------
(* The controls of the chip keep their types.                              *)

LEMMA WriteType ==
  ASSUME NEW d \in DevType, NEW c \in Ctrls, NEW v \in NodeValues, NEW bad
  PROVE  Write(d, c, v, bad) \in DevType
  BY DEF Write, CanWrite, DevType, NodeValues

LEMMA SleepType ==
  ASSUME NEW d \in DevType, NEW bad
  PROVE  Sleep(d, bad) \in DevType
<1> DEFINE quiet == SetVoiceProcessing(d, FALSE, bad)
<1>1. quiet \in DevType
  BY WriteType DEF SetVoiceProcessing, Bit, Ctrls, NodeValues
<1>2. Write(quiet, "sleep", "1", bad) \in DevType
  BY <1>1, WriteType DEF Ctrls, NodeValues
<1>3. [Write(quiet, "sleep", "1", bad) EXCEPT !.current_preset = "OFF"] \in DevType
  BY <1>2 DEF DevType, PresetIds
<1> QED
  BY <1>1, <1>3 DEF Sleep

LEMMA ApplyPresetType ==
  ASSUME NEW d \in DevType, NEW bad
  PROVE  ApplyPreset(d, bad) \in DevType
<1> DEFINE asleep == d.current_preset \in {"OFF", "INIT"}
           on == IF asleep THEN SetVoiceProcessing(d, TRUE, bad) ELSE d
<1>0. d.requested_preset \in PresetIds /\ PresetIds \subseteq NodeValues
  BY DEF DevType, NodeValues
<1>1. on \in DevType
  BY WriteType DEF SetVoiceProcessing, Bit, Ctrls, NodeValues
<1>2. Write(on, "preset", d.requested_preset, bad) \in DevType
  BY <1>0, <1>1, WriteType DEF Ctrls
<1>3. [Write(on, "preset", d.requested_preset, bad)
          EXCEPT !.current_preset = d.requested_preset] \in DevType
  BY <1>0, <1>2 DEF DevType
<1> QED
  BY <1>1, <1>3, SleepType DEF ApplyPreset

LEMMA ApplySettingsType ==
  ASSUME NEW d \in DevType, NEW ssn, NEW bad
  PROVE  ApplySettingsFromSession(d, ssn, bad) \in DevType
<1> DEFINE both == ssn.created \cap ssn.active
           ns == SetNoiseSuppression(d, "NS" \in ssn.active, bad)
           aec == IF "AEC" \in both THEN SetEchoCancellation(ns, TRUE, bad) ELSE ns
           agc == IF "AGC" \in both THEN SetAutomaticGainControl(aec, TRUE, bad) ELSE aec
<1>1. NsLevel("NS" \in ssn.active, d.requested_preset) \in NodeValues
  BY DEF NsLevel, NodeValues
<1>2. ns \in DevType
  BY <1>1, WriteType DEF SetNoiseSuppression, Ctrls
<1>3. aec \in DevType
  BY <1>2, WriteType DEF SetEchoCancellation, Bit, Ctrls, NodeValues
<1>4. agc \in DevType
  BY <1>3, WriteType DEF SetAutomaticGainControl, Bit, Ctrls, NodeValues
<1> QED
  BY <1>4 DEF ApplySettingsFromSession

LEMMA ReevaluateType ==
  ASSUME NEW d \in DevType, NEW t, NEW h, NEW bad
  PROVE  Reevaluate(d, t, h, bad) \in DevType
  BY SleepType, ApplyPresetType, ApplySettingsType DEF Reevaluate

-----------------------------------------------------------------------------
(* What a call does to the preset, when the sleep node always opens.       *)

\* Two states of the controls that agree on all that presets are about
SamePreset(d, e) ==
  /\ e.ioHandle = d.ioHandle
  /\ e.current_preset = d.current_preset
  /\ e.requested_preset = d.requested_preset
  /\ \A c \in {"vp", "preset"} : e.fd[c] = d.fd[c] /\ e.node[c] = d.node[c]

LEMMA WriteTuning ==
  ASSUME NEW d \in DevType, NEW c \in {"ns", "aec", "agc", "veq"},
         NEW v \in NodeValues, NEW bad
  PROVE  SamePreset(d, Write(d, c, v, bad))
  BY DEF Write, SamePreset, DevType, Ctrls

LEMMA SettingsKeepPreset ==
  ASSUME NEW d \in DevType, NEW ssn, NEW bad
  PROVE  SamePreset(d, ApplySettingsFromSession(d, ssn, bad))
<1> DEFINE both == ssn.created \cap ssn.active
           ns == SetNoiseSuppression(d, "NS" \in ssn.active, bad)
           aec == IF "AEC" \in both THEN SetEchoCancellation(ns, TRUE, bad) ELSE ns
           agc == IF "AGC" \in both THEN SetAutomaticGainControl(aec, TRUE, bad) ELSE aec
<1>1. NsLevel("NS" \in ssn.active, d.requested_preset) \in NodeValues
  BY DEF NsLevel, NodeValues
<1>2. ns \in DevType /\ SamePreset(d, ns)
  BY <1>1, WriteType, WriteTuning DEF SetNoiseSuppression, Ctrls
<1>3. aec \in DevType /\ SamePreset(ns, aec)
  <2>1. SamePreset(ns, ns)
    BY DEF SamePreset
  <2>2. Bit(TRUE) \in NodeValues
    BY DEF Bit, NodeValues
  <2> QED
    BY <1>2, <2>1, <2>2, WriteType, WriteTuning DEF SetEchoCancellation, Ctrls
<1>4. SamePreset(aec, agc)
  <2>1. SamePreset(aec, aec)
    BY DEF SamePreset
  <2>2. Bit(TRUE) \in NodeValues
    BY DEF Bit, NodeValues
  <2> QED
    BY <1>3, <2>1, <2>2, WriteTuning DEF SetAutomaticGainControl
<1>5. SamePreset(d, agc)
  BY <1>2, <1>3, <1>4 DEF SamePreset
<1>6. SamePreset(d, d)
  BY DEF SamePreset
<1> QED
  BY <1>5, <1>6 DEF ApplySettingsFromSession

\* Whatever fails, a re-evaluation leaves the request and the handle alone.
LEMMA ReevaluateKeeps ==
  ASSUME NEW d \in DevType, NEW t, NEW h, NEW bad
  PROVE  LET e == Reevaluate(d, t, h, bad)
         IN  e.ioHandle = d.ioHandle /\ e.requested_preset = d.requested_preset
<1> DEFINE Kept(e) == e.ioHandle = d.ioHandle /\ e.requested_preset = d.requested_preset
           quiet == SetVoiceProcessing(d, FALSE, bad)
           gone == Write(quiet, "sleep", "1", bad)
           asleep == d.current_preset \in {"OFF", "INIT"}
           on == IF asleep THEN SetVoiceProcessing(d, TRUE, bad) ELSE d
           set == Write(on, "preset", d.requested_preset, bad)
           ap == ApplyPreset(d, bad)
<1>1. ASSUME NEW e \in DevType, Kept(e), NEW c \in Ctrls, NEW v \in NodeValues
      PROVE  Write(e, c, v, bad) \in DevType /\ Kept(Write(e, c, v, bad))
  <2>1. Write(e, c, v, bad) \in DevType
    BY WriteType
  <2>2. Kept(Write(e, c, v, bad))
    BY <1>1 DEF Write, DevType
  <2> QED
    BY <2>1, <2>2
<1>2. /\ d.requested_preset \in NodeValues /\ Bit(TRUE) \in NodeValues
      /\ Bit(FALSE) \in NodeValues /\ "1" \in NodeValues
      /\ "vp" \in Ctrls /\ "preset" \in Ctrls /\ "sleep" \in Ctrls /\ Kept(d)
  BY DEF DevType, NodeValues, Bit, Ctrls
<1> HIDE DEF Kept
<1>a. quiet \in DevType /\ Kept(quiet) /\ on \in DevType /\ Kept(on)
  BY <1>1, <1>2 DEF SetVoiceProcessing
<1> HIDE DEF quiet, on
<1>3. gone \in DevType /\ Kept(gone) /\ set \in DevType /\ Kept(set)
  BY <1>1, <1>2, <1>a
<1> HIDE DEF gone, set
<1>4. Sleep(d, bad) \in {d, quiet, [gone EXCEPT !.current_preset = "OFF"]}
  BY DEF Sleep, gone, quiet
<1>5. Kept(Sleep(d, bad))
  BY <1>2, <1>a, <1>3, <1>4 DEF DevType, Kept
<1>6. ap \in {d, Sleep(d, bad), on, [set EXCEPT !.current_preset = d.requested_preset]}
  BY DEF ApplyPreset, set, on
<1>7. ap \in DevType /\ Kept(ap)
  BY <1>2, <1>a, <1>3, <1>5, <1>6, ApplyPresetType DEF DevType, Kept
<1> HIDE DEF ap
<1>8. \A ssn : Kept(ApplySettingsFromSession(ap, ssn, bad))
  BY <1>7, SettingsKeepPreset DEF SamePreset, Kept
<1>9. \/ Reevaluate(d, t, h, bad) \in {d, Sleep(d, bad), ap}
      \/ \E ssn : Reevaluate(d, t, h, bad) = ApplySettingsFromSession(ap, ssn, bad)
  BY DEF Reevaluate, ap
<1> QED
  BY <1>2, <1>5, <1>7, <1>8, <1>9 DEF Kept

LEMMA SleepEffect ==
  ASSUME NEW d \in DevType, NEW bad, "sleep" \notin bad, ChipInv(d)
  PROVE  LET e == Sleep(d, bad)
         IN  /\ ChipInv(e) /\ e.current_preset = "OFF"
             /\ e.ioHandle = d.ioHandle /\ e.requested_preset = d.requested_preset
<1> DEFINE quiet == SetVoiceProcessing(d, FALSE, bad)
           gone == Write(quiet, "sleep", "1", bad)
<1>1. quiet \in DevType
  BY WriteType DEF SetVoiceProcessing, Bit, Ctrls, NodeValues
<1>2. /\ quiet.ioHandle = d.ioHandle /\ quiet.requested_preset = d.requested_preset
      /\ quiet.fd["vp"] # "stray" /\ quiet.fd["preset"] # "stray"
  BY DEF SetVoiceProcessing, Write, ChipInv, DevType, Ctrls
<1>3. gone \in DevType
  BY <1>1, WriteType DEF Ctrls, NodeValues
<1>4. /\ gone.ioHandle = d.ioHandle /\ gone.requested_preset = d.requested_preset
      /\ gone.fd["vp"] # "stray" /\ gone.fd["preset"] # "stray"
  BY <1>1, <1>2 DEF Write, DevType, Ctrls
<1>5. SleepOk(d, bad)
  BY DEF SleepOk, CanWrite
<1>6. CASE d.current_preset = "OFF"
  BY <1>6 DEF Sleep
<1>7. CASE d.current_preset # "OFF"
  <2>1. Sleep(d, bad) = [gone EXCEPT !.current_preset = "OFF"]
    BY <1>5, <1>7 DEF Sleep
  <2> QED
    BY <1>3, <1>4, <2>1 DEF ChipInv, DevType
<1> QED
  BY <1>6, <1>7

\* A preset that cannot be applied leaves the chip asleep; the caches and the
\* chip agree in any case.
LEMMA ApplyPresetEffect ==
  ASSUME NEW d \in DevType, NEW bad, "sleep" \notin bad, ChipInv(d)
  PROVE  LET e == ApplyPreset(d, bad)
         IN  /\ ChipInv(e) /\ e.current_preset \in {"OFF", d.requested_preset}
             /\ e.ioHandle = d.ioHandle /\ e.requested_preset = d.requested_preset
<1> DEFINE asleep == d.current_preset \in {"OFF", "INIT"}
           on == IF asleep THEN SetVoiceProcessing(d, TRUE, bad) ELSE d
           set == Write(on, "preset", d.requested_preset, bad)
<1>0. d.requested_preset \in PresetIds /\ PresetIds \subseteq NodeValues
  BY DEF DevType, NodeValues
<1>1. on \in DevType
  BY WriteType DEF SetVoiceProcessing, Bit, Ctrls, NodeValues
<1>2. /\ on.ioHandle = d.ioHandle /\ on.requested_preset = d.requested_preset
      /\ on.current_preset = d.current_preset
      /\ on.fd["vp"] # "stray" /\ on.fd["preset"] = d.fd["preset"]
      /\ on.node["preset"] = d.node["preset"]
      /\ d.current_preset # "OFF" => on.fd["vp"] = "open" /\ on.node["vp"] = "1"
      /\ asleep /\ CanWrite(d, "vp", bad) => on.fd["vp"] = "open" /\ on.node["vp"] = "1"
  BY DEF SetVoiceProcessing, Write, CanWrite, Bit, ChipInv, DevType, Ctrls
<1>3. set \in DevType
  BY <1>0, <1>1, WriteType DEF Ctrls
<1>4. CASE d.requested_preset = d.current_preset
  BY <1>4 DEF ApplyPreset
<1>5. CASE d.requested_preset # d.current_preset /\ d.requested_preset = "OFF"
  BY <1>5, SleepEffect DEF ApplyPreset
<1>6. CASE /\ d.requested_preset # d.current_preset /\ d.requested_preset # "OFF"
           /\ ~ApplyPresetOk(d, bad)
  <2>1. d.current_preset = "OFF"
    BY <1>6 DEF ApplyPresetOk, CanWrite, ChipInv
  <2>2. ApplyPreset(d, bad) = on
    BY <1>6 DEF ApplyPreset
  <2> QED
    BY <1>2, <2>1, <2>2 DEF ChipInv
<1>7. CASE /\ d.requested_preset # d.current_preset /\ d.requested_preset # "OFF"
           /\ ApplyPresetOk(d, bad)
  <2>1. ApplyPreset(d, bad) = [set EXCEPT !.current_preset = d.requested_preset]
    BY <1>7 DEF ApplyPreset
  <2>2. CanWrite(on, "preset", bad)
    BY <1>2, <1>7 DEF ApplyPresetOk, CanWrite
  <2>3. on.fd["vp"] = "open" /\ on.node["vp"] = "1"
    BY <1>2, <1>7 DEF ApplyPresetOk
  <2>4. /\ set.fd["vp"] = "open" /\ set.node["vp"] = "1"
        /\ set.fd["preset"] = "open" /\ set.node["preset"] = d.requested_preset
        /\ set.ioHandle = d.ioHandle /\ set.requested_preset = d.requested_preset
    BY <1>0, <1>1, <1>2, <2>2, <2>3 DEF Write, ChipInv, DevType, Ctrls, Tuned
  <2> QED
    BY <1>3, <2>1, <2>4 DEF ChipInv, DevType
<1> QED
  BY <1>4, <1>5, <1>6, <1>7

\* What a re-evaluation for h can do to the preset: sleep if it must, go to the
\* preset asked for (or fail, asleep) if h has a session, and nothing otherwise.
LEMMA ReevaluateEffect ==
  ASSUME NEW d \in DevType, NEW t, NEW h, NEW bad, "sleep" \notin bad, ChipInv(d)
  PROVE  LET e == Reevaluate(d, t, h, bad)
         IN  /\ ChipInv(e)
             /\ e.ioHandle = d.ioHandle /\ e.requested_preset = d.requested_preset
             /\ h = NoHandle => e.current_preset = "OFF"
             /\ SessionsOf(t, h) # {} => e.current_preset \in {"OFF", d.requested_preset}
             /\ e.current_preset \in {"OFF", d.current_preset, d.requested_preset}
<1> DEFINE s == SessionNumberForHandle(t, h)
           ap == ApplyPreset(d, bad)
           ex == ApplySettingsFromSession(ap, t[s], bad)
<1>1. CASE MustSleep(d, t, h)
  BY <1>1, SleepEffect DEF Reevaluate
<1>2. CASE ~MustSleep(d, t, h) /\ s = NoSession
  <2>1. SessionsOf(t, h) = {}
    BY <1>2, NumberForHandle, NoSessionNotIn
  <2>2. h # NoHandle
    BY <1>2 DEF MustSleep
  <2> QED
    BY <1>2, <2>1, <2>2 DEF Reevaluate
<1>3. CASE ~MustSleep(d, t, h) /\ s # NoSession
  <2>1. h # NoHandle
    BY <1>3 DEF MustSleep
  <2>2. Reevaluate(d, t, h, bad) = IF ApplyPresetOk(d, bad) THEN ex ELSE ap
    BY <1>3 DEF Reevaluate
  <2>3. ap \in DevType
    BY ApplyPresetType
  <2>4. SamePreset(ap, ex)
    BY <2>3, SettingsKeepPreset
  <2>5. ChipInv(ap) => ChipInv(ex)
    BY <2>4 DEF ChipInv, SamePreset
  <2> QED
    BY <2>1, <2>2, <2>4, <2>5, ApplyPresetEffect DEF SamePreset
<1> QED
  BY <1>1, <1>2, <1>3

-----------------------------------------------------------------------------
(* Type correctness.                                                       *)

LEMMA ClaimedType ==
  ASSUME NEW t \in TabType, NEW s \in Sessions, NEW h \in Handles \cup {NoHandle}
  PROVE  Claimed(t, s, h) \in TabType
  BY DEF Claimed, TabType, SessionType

LEMMA FxType ==
  ASSUME NEW t \in TabType, NEW s \in Sessions, NEW p \in ProcIds, NEW x \in FxStates
  PROVE  [t EXCEPT ![s].fx[p] = x] \in TabType
  BY DEF TabType, SessionType

LEMMA MarkType ==
  ASSUME TypeOK, NEW s \in Sessions, NEW h \in Handles,
         NEW msk \in SUBSET (ProcIds \cup {Other}), MarkEffects(s, h, msk)
  PROVE  TypeOK'
<1> DEFINE t == [Claimed(tab, s, h) EXCEPT ![s].active = msk]
<1>1. Claimed(tab, s, h) \in TabType
  BY ClaimedType DEF TypeOK, TabType
<1>2. t \in TabType
  BY <1>1 DEF TabType, SessionType
<1>3. PICK bad \in OpenFailures : dev' = Reevaluate(dev, t, h, bad)
  BY DEF MarkEffects
<1>4. dev' \in DevType
  BY <1>3, ReevaluateType DEF TypeOK
<1> QED
  BY <1>2, <1>4 DEF MarkEffects, TypeOK, TabType

\* Every entry point leaves the control block and the session table in their
\* types, for any set of streams, presets and failures.
THEOREM TypeCorrect == Spec => []TypeOK
<1>1. Init => TypeOK
  BY DEF Init, TypeOK, InitDev, FreeSession, DevType, SessionType, NodeValues,
         PresetIds, FxStates
<1>2. TypeOK /\ [Next]_vars => TypeOK'
  <2> SUFFICES ASSUME TypeOK, [Next]_vars PROVE TypeOK'
    OBVIOUS
  <2> USE DEF TypeOK
  <2>1. ASSUME NEW h \in Handles, NEW p \in Effects, AdncCreate(h, p) PROVE TypeOK'
    <3>1. p \in ProcIds
      BY ConstantsAssumption
    <3>2. PICK s \in Sessions :
            tab' = IF CanSetState(tab[s].fx[p], "CREATED")
                   THEN [Claimed(tab, s, h) EXCEPT ![s].created = @ \cup {p},
                                                   ![s].fx[p] = "CREATED"]
                   ELSE Claimed(tab, s, IF tab[s].created = {} THEN NoHandle ELSE h)
      BY <2>1 DEF AdncCreate
    <3>3. Claimed(tab, s, h) \in TabType /\ Claimed(tab, s, NoHandle) \in TabType
      BY ClaimedType DEF TabType
    <3>4. [Claimed(tab, s, h) EXCEPT ![s].created = @ \cup {p}, ![s].fx[p] = "CREATED"]
             \in TabType
      <4> DEFINE c == Claimed(tab, s, h)
                 u == [c EXCEPT ![s].created = @ \cup {p}]
      <4>1. u \in TabType
        BY <3>1, <3>3 DEF TabType, SessionType
      <4>2. [u EXCEPT ![s].fx[p] = "CREATED"] \in TabType
        <5>1. "CREATED" \in FxStates
          BY DEF FxStates
        <5> HIDE DEF u
        <5> QED
          BY <3>1, <4>1, <5>1, FxType
      <4> QED
        BY <4>2
    <3>5. tab' \in TabType
      BY <3>2, <3>3, <3>4
    <3> QED
      BY <2>1, <3>5 DEF AdncCreate, TabType
  <2>2. ASSUME NEW s \in Sessions, NEW p \in Effects, AdncRelease(s, p) PROVE TypeOK'
    <3> DEFINE t == [tab EXCEPT ![s] = ReleaseEffect(@, p)]
    <3>1. t \in TabType /\ [t EXCEPT ![s] = FreeSession] \in TabType
      BY DEF ReleaseEffect, TabType, SessionType, FreeSession, FxStates
    <3>2. PICK bad \in OpenFailures : dev' = Reevaluate(dev, t, tab[s].ioHandle, bad)
      BY <2>2 DEF AdncRelease
    <3> QED
      BY <2>2, <3>1, <3>2, ReevaluateType DEF AdncRelease, TabType
  <2>3. ASSUME NEW s \in Sessions, NEW p \in Effects, NEW state \in {"CONFIG", "ACTIVE"},
               Command(s, p, state)
        PROVE  TypeOK'
    <3>1. p \in ProcIds /\ state \in FxStates
      BY ConstantsAssumption DEF FxStates
    <3>2. [tab EXCEPT ![s].fx[p] = state] \in TabType
      BY <3>1 DEF TabType, SessionType
    <3> QED
      BY <2>3, <3>2 DEF Command, TabType
  <2>4. ASSUME NEW preset \in Presets, UsePreset(preset) PROVE TypeOK'
    <3>1. [dev EXCEPT !.requested_preset = preset] \in DevType
      BY ConstantsAssumption DEF DevType
    <3> QED
      BY <2>4, <3>1, ReevaluateType DEF UsePreset
  <2>5. ASSUME NEW on \in VeqInputs, SetVeq(on) PROVE TypeOK'
    <3>1. Bit(on) \in NodeValues /\ "veq" \in Ctrls
      BY DEF Bit, NodeValues, Ctrls
    <3> QED
      BY <2>5, <3>1, WriteType DEF SetVeq, SetVeqInt
  <2>6. ASSUME NEW h \in Handles \cup {NoHandle}, SetActiveIoHandle(h) PROVE TypeOK'
    <3>1. PICK bad \in OpenFailures :
            dev' = [Reevaluate(dev, tab, h, bad) EXCEPT
                      !.ioHandle = IF ReevaluateOk(dev, tab, h, bad) THEN h ELSE @]
      BY <2>6 DEF SetActiveIoHandle
    <3>2. Reevaluate(dev, tab, h, bad) \in DevType
      BY ReevaluateType
    <3>3. dev' \in DevType
      BY <3>1, <3>2 DEF DevType
    <3> QED
      BY <2>6, <3>3 DEF SetActiveIoHandle
  <2>7. ASSUME NEW h \in Handles, NEW type \in ProcIds \cup {Other},
               AddEffect(h, type)
        PROVE  TypeOK'
    <3>1. PICK s \in Sessions : MarkEffects(s, h, tab[s].active \cup {type})
      BY <2>7 DEF AddEffect
    <3>2. tab[s].active \cup {type} \in SUBSET (ProcIds \cup {Other})
      BY DEF SessionType
    <3> QED
      BY <3>1, <3>2, MarkType
  <2>8. ASSUME NEW h \in Handles, NEW type \in ProcIds \cup {Other},
               RemoveEffect(h, type)
        PROVE  TypeOK'
    <3>1. PICK s \in Sessions : MarkEffects(s, h, tab[s].active \ {type})
      BY <2>8 DEF RemoveEffect
    <3>2. tab[s].active \ {type} \in SUBSET (ProcIds \cup {Other})
      BY DEF SessionType
    <3> QED
      BY <3>1, <3>2, MarkType
  <2>9. CASE Release
    <3>1. PICK bad \in OpenFailures :
            dev' = [Sleep(dev, bad) EXCEPT !.fd = [c \in Ctrls |-> "closed"]]
      BY <2>9 DEF Release
    <3>2. dev' \in DevType
      BY <3>1, SleepType DEF DevType
    <3> QED
      BY <2>9, <3>2 DEF Release
  <2>10. CASE UNCHANGED vars
    BY <2>10 DEF vars
  <2> QED
    BY <2>1, <2>2, <2>3, <2>4, <2>5, <2>6, <2>7, <2>8, <2>9, <2>10 DEF Next
<1> QED
  BY <1>1, <1>2, PTL DEF Spec

-----------------------------------------------------------------------------
(* The session table.                                                      *)

\* Changing the masks of a session of h keeps the table in order; so does
\* claiming a free session for h first.
TableInv == TypeOK /\ OneSessionPerHandle /\ SessionsConsistent

\* The two parts of the invariant after a change of session s only
LEMMA OneSessionChanges ==
  ASSUME TableInv, NEW s \in Sessions,
         \A r \in Sessions \ {s} : tab'[r] = tab[r],
         tab'[s].ioHandle # NoHandle =>
           \A r \in Sessions \ {s} : tab[r].ioHandle # tab'[s].ioHandle,
         tab'[s].ioHandle = NoHandle => tab'[s] = FreeSession,
         tab'[s].ioHandle # NoHandle =>
           /\ tab'[s].created = {} => \A p \in ProcIds : tab'[s].fx[p] = "INIT"
           /\ \A p \in tab'[s].created : tab'[s].fx[p] # "INIT"
  PROVE  OneSessionPerHandle' /\ SessionsConsistent'
<1>1. OneSessionPerHandle'
  BY DEF TableInv, OneSessionPerHandle
<1>2. SessionsConsistent'
  <2> SUFFICES ASSUME NEW r \in Sessions
               PROVE  /\ tab'[r].ioHandle = NoHandle => tab'[r] = FreeSession
                      /\ tab'[r].created = {} => \A p \in ProcIds : tab'[r].fx[p] = "INIT"
                      /\ \A p \in tab'[r].created : tab'[r].fx[p] # "INIT"
    BY DEF SessionsConsistent
  <2>1. CASE r # s
    BY <2>1 DEF TableInv, SessionsConsistent
  <2>2. CASE r = s
    BY <2>2 DEF FreeSession
  <2> QED
    BY <2>1, <2>2
<1> QED
  BY <1>1, <1>2

LEMMA MarkKeepsTable ==
  ASSUME TableInv, NEW s \in Sessions, NEW h \in Handles, s = GetSession(tab, h),
         NEW msk, MarkEffects(s, h, msk)
  PROVE  OneSessionPerHandle' /\ SessionsConsistent'
<1>1. /\ tab' = [Claimed(tab, s, h) EXCEPT ![s].active = msk]
      /\ tab \in TabType
  BY DEF MarkEffects, TableInv, TypeOK, TabType
<1>2. /\ tab'[s].ioHandle = h /\ tab'[s].created = tab[s].created
      /\ tab'[s].fx = tab[s].fx
      /\ \A r \in Sessions \ {s} : tab'[r] = tab[r]
  BY <1>1 DEF Claimed, TabType, SessionType
<1>3. h # NoHandle
  BY ConstantsAssumption
<1>4. tab[s].ioHandle = h \/ (tab[s].ioHandle = NoHandle /\ SessionsOf(tab, h) = {})
  BY GetSessionMatch
<1>5. \A r \in Sessions \ {s} : tab[r].ioHandle # h
  BY <1>3, <1>4 DEF SessionsOf, TableInv, OneSessionPerHandle
<1>6. OneSessionPerHandle'
  BY <1>2, <1>5 DEF TableInv, OneSessionPerHandle
<1>7. SessionsConsistent'
  BY <1>2, <1>3 DEF TableInv, SessionsConsistent
<1> QED
  BY <1>6, <1>7

LEMMA TableInvariant == Spec => []TableInv
<1>1. Init => OneSessionPerHandle /\ SessionsConsistent
  BY DEF Init, OneSessionPerHandle, SessionsConsistent, FreeSession
<1>2. TableInv /\ TypeOK' /\ [Next]_vars => TableInv'
  <2> SUFFICES ASSUME TableInv, TypeOK', [Next]_vars
               PROVE  OneSessionPerHandle' /\ SessionsConsistent'
    BY DEF TableInv
  <2>0. tab \in TabType
    BY DEF TableInv, TypeOK, TabType
  <2>1. ASSUME NEW h \in Handles, NEW p \in Effects, AdncCreate(h, p)
        PROVE  OneSessionPerHandle' /\ SessionsConsistent'
    <3>1. p \in ProcIds /\ h # NoHandle
      BY ConstantsAssumption
    <3>2. PICK s \in Sessions :
            /\ s = GetSession(tab, h)
            /\ tab' = IF CanSetState(tab[s].fx[p], "CREATED")
                      THEN [Claimed(tab, s, h) EXCEPT ![s].created = @ \cup {p},
                                                      ![s].fx[p] = "CREATED"]
                      ELSE Claimed(tab, s, IF tab[s].created = {} THEN NoHandle ELSE h)
      BY <2>1 DEF AdncCreate
    <3>3. tab[s].ioHandle = h \/ (tab[s].ioHandle = NoHandle /\ SessionsOf(tab, h) = {})
      BY <3>2, GetSessionMatch
    <3>4. \A r \in Sessions \ {s} : tab[r].ioHandle # h /\ tab'[r] = tab[r]
      <4>1. \A r \in Sessions \ {s} : tab[r].ioHandle # h
        BY <3>1, <3>3 DEF SessionsOf, TableInv, OneSessionPerHandle
      <4> QED
        BY <2>0, <3>2, <4>1 DEF Claimed, TabType
    <3>5. CASE CanSetState(tab[s].fx[p], "CREATED")
      <4> DEFINE c == Claimed(tab, s, h)
                 u == [c EXCEPT ![s].created = @ \cup {p}]
      <4>1. c \in [Sessions -> SessionType] /\ c[s] = [tab[s] EXCEPT !.ioHandle = h]
        BY <2>0 DEF Claimed, TabType, SessionType
      <4>2. /\ u \in [Sessions -> SessionType] /\ u[s].ioHandle = h
            /\ u[s].created = tab[s].created \cup {p} /\ u[s].fx = tab[s].fx
        BY <2>0, <3>1, <4>1 DEF TabType, SessionType
      <4>3. tab' = [u EXCEPT ![s].fx[p] = "CREATED"]
        BY <3>2, <3>5
      <4>4. /\ tab'[s].ioHandle = h /\ tab'[s].created = tab[s].created \cup {p}
            /\ tab'[s].fx = [tab[s].fx EXCEPT ![p] = "CREATED"]
        BY <4>2, <4>3 DEF SessionType
      <4>5. tab[s].fx \in [ProcIds -> FxStates]
        BY <2>0 DEF TabType, SessionType
      <4>6. tab'[s].created # {} /\ \A q \in tab'[s].created : tab'[s].fx[q] # "INIT"
        BY <3>1, <4>4, <4>5 DEF TableInv, SessionsConsistent
      <4> QED
        BY <3>1, <3>4, <4>4, <4>5, <4>6, OneSessionChanges
    <3>6. CASE ~CanSetState(tab[s].fx[p], "CREATED")
      <4>1. tab[s].created # {}
        BY <3>1, <3>6 DEF CanSetState, TableInv, SessionsConsistent
      <4>2. tab' = Claimed(tab, s, h)
        BY <3>2, <3>6, <4>1
      <4>3. tab[s].ioHandle = h
        BY <3>3, <4>1 DEF TableInv, SessionsConsistent, FreeSession
      <4>4. tab' = tab
        BY <2>0, <4>2, <4>3 DEF Claimed, TabType, SessionType
      <4> QED
        BY <4>4 DEF TableInv, OneSessionPerHandle, SessionsConsistent
    <3> QED
      BY <3>5, <3>6
  <2>2. ASSUME NEW s \in Sessions, NEW p \in Effects, AdncRelease(s, p)
        PROVE  OneSessionPerHandle' /\ SessionsConsistent'
    <3> DEFINE t == [tab EXCEPT ![s] = ReleaseEffect(@, p)]
    <3>1. /\ t \in TabType /\ t[s].ioHandle = tab[s].ioHandle /\ t[s].fx = tab[s].fx
          /\ t[s].created = tab[s].created \ {p}
          /\ \A r \in Sessions \ {s} : t[r] = tab[r]
      BY <2>0 DEF ReleaseEffect, TabType, SessionType
    <3>2. tab[s].ioHandle # NoHandle
      BY <2>2 DEF AdncRelease, TableInv, SessionsConsistent, FreeSession
    <3>3. CASE t[s].created = {}
      <4>1. tab' = [t EXCEPT ![s] = FreeSession]
        BY <2>2, <3>3 DEF AdncRelease
      <4>2. tab'[s] = FreeSession /\ \A r \in Sessions \ {s} : tab'[r] = tab[r]
        BY <3>1, <4>1 DEF TabType
      <4>3. tab'[s].ioHandle = NoHandle
        BY <4>2 DEF FreeSession
      <4> QED
        BY <4>2, <4>3, OneSessionChanges
    <3>4. CASE t[s].created # {}
      <4>1. tab' = t
        BY <2>2, <3>4 DEF AdncRelease
      <4>2. \A r \in Sessions \ {s} : tab[r].ioHandle # tab'[s].ioHandle
        BY <3>1, <3>2, <4>1 DEF TableInv, OneSessionPerHandle
      <4>3. \A q \in tab'[s].created : tab'[s].fx[q] # "INIT"
        BY <3>1, <4>1 DEF TableInv, SessionsConsistent
      <4>4. /\ tab'[s].ioHandle # NoHandle /\ tab'[s].created # {}
            /\ \A r \in Sessions \ {s} : tab'[r] = tab[r]
        BY <3>1, <3>2, <3>4, <4>1
      <4> QED
        BY <4>2, <4>3, <4>4, OneSessionChanges
    <3> QED
      BY <3>3, <3>4
  <2>3. ASSUME NEW s \in Sessions, NEW p \in Effects, NEW state \in {"CONFIG", "ACTIVE"},
               Command(s, p, state)
        PROVE  OneSessionPerHandle' /\ SessionsConsistent'
    <3>1. /\ tab'[s].ioHandle = tab[s].ioHandle /\ tab'[s].created = tab[s].created
          /\ tab'[s].fx = [tab[s].fx EXCEPT ![p] = state]
          /\ tab[s].fx \in [ProcIds -> FxStates]
          /\ \A r \in Sessions \ {s} : tab'[r] = tab[r]
      BY <2>0, <2>3 DEF Command, TabType, SessionType
    <3>2. p \in tab[s].created /\ tab[s].ioHandle # NoHandle
      BY <2>3 DEF Command, TableInv, SessionsConsistent, FreeSession
    <3>3. \A r \in Sessions \ {s} : tab[r].ioHandle # tab'[s].ioHandle
      BY <3>1, <3>2 DEF TableInv, OneSessionPerHandle
    <3>4. tab'[s].created # {} /\ \A q \in tab'[s].created : tab'[s].fx[q] # "INIT"
      BY <3>1, <3>2 DEF TableInv, SessionsConsistent
    <3> QED
      BY <3>1, <3>2, <3>3, <3>4, OneSessionChanges
  <2>4. ASSUME NEW h \in Handles, NEW type \in ProcIds \cup {Other},
               AddEffect(h, type) \/ RemoveEffect(h, type)
        PROVE  OneSessionPerHandle' /\ SessionsConsistent'
    BY <2>4, MarkKeepsTable DEF AddEffect, RemoveEffect
  <2>5. CASE UNCHANGED tab
    BY <2>5 DEF TableInv, OneSessionPerHandle, SessionsConsistent
  <2> QED
    BY <2>1, <2>2, <2>3, <2>4, <2>5
    DEF Next, vars, UsePreset, SetVeq, SetActiveIoHandle, Release
<1> QED
  BY <1>1, <1>2, TypeCorrect, PTL DEF Spec, TableInv

\* No input stream ever has two sessions of the bundle, whatever the order in
\* which sessions are claimed and freed.
THEOREM SessionsAreUnique == Spec => []OneSessionPerHandle
  BY TableInvariant, PTL DEF TableInv

\* A free session is as AdncSession_Init_l leaves it, and the state of an effect
\* agrees with the session's record of which effects exist.
THEOREM TableConsistent == Spec => []SessionsConsistent
  BY TableInvariant, PTL DEF TableInv

-----------------------------------------------------------------------------
(* The preset.                                                             *)

SleepNodeOpens == \A bad \in OpenFailures : "sleep" \notin bad

PresetInv == TableInv /\ ChipInv(dev) /\ AsraRequest /\ RecordingUsesRequested

AsraStep ==
  dev.ioHandle # NoHandle /\ {dev.current_preset, dev'.current_preset} \subseteq AsraPresets
    => dev'.current_preset = dev.current_preset

\* A step that asks for no other preset: what matters is that a session which
\* records afterwards either did so before or is the one re-evaluated.
LEMMA SameRequestStep ==
  ASSUME PresetInv, TypeOK', ChipInv(dev'),
         dev'.requested_preset = dev.requested_preset,
         dev'.current_preset \in {"OFF", dev.current_preset, dev.requested_preset},
         \A s \in Sessions : Recording(s)' =>
           Recording(s) \/ dev'.current_preset \in {"OFF", dev.requested_preset}
  PROVE  AsraRequest' /\ RecordingUsesRequested' /\ AsraStep
<1>1. AsraRequest'
  BY DEF PresetInv, AsraRequest, TypeOK, DevType, AsraPresets
<1>2. RecordingUsesRequested'
  BY DEF PresetInv, RecordingUsesRequested
<1>3. AsraStep
  BY DEF PresetInv, AsraRequest, AsraStep, AsraPresets
<1> QED
  BY <1>1, <1>2, <1>3

LEMMA MarkKeepsPreset ==
  ASSUME SleepNodeOpens, PresetInv, TypeOK', NEW s \in Sessions, NEW h \in Handles,
         s = GetSession(tab, h), NEW msk, MarkEffects(s, h, msk)
  PROVE  ChipInv(dev') /\ AsraRequest' /\ RecordingUsesRequested' /\ AsraStep
<1>1. tab \in TabType /\ dev \in DevType
  BY DEF PresetInv, TableInv, TypeOK, TabType
<1>2. PICK bad \in OpenFailures : dev' = Reevaluate(dev, tab', h, bad)
  BY DEF MarkEffects
<1>3. /\ tab'[s].ioHandle = h
      /\ \A r \in Sessions \ {s} : tab'[r] = tab[r]
  BY <1>1 DEF MarkEffects, Claimed, TabType, SessionType
<1>4. "sleep" \notin bad /\ ChipInv(dev) /\ SessionsOf(tab', h) # {}
  BY <1>3 DEF SleepNodeOpens, PresetInv, SessionsOf
<1>5. /\ ChipInv(dev') /\ dev'.ioHandle = dev.ioHandle
      /\ dev'.requested_preset = dev.requested_preset
      /\ dev'.current_preset \in {"OFF", dev.requested_preset}
  BY <1>1, <1>2, <1>4, ReevaluateEffect
<1> QED
  BY <1>5, SameRequestStep

\* A step that changes only the table, and starts no recording
LEMMA TableStep ==
  ASSUME PresetInv, TypeOK', UNCHANGED dev,
         \A s \in Sessions : Recording(s)' => Recording(s)
  PROVE  ChipInv(dev') /\ AsraRequest' /\ RecordingUsesRequested' /\ AsraStep
  BY SameRequestStep DEF PresetInv

LEMMA PresetStep ==
  ASSUME SleepNodeOpens, PresetInv, TableInv', [Next]_vars
  PROVE  PresetInv' /\ AsraStep
<1> DEFINE Goal == ChipInv(dev') /\ AsraRequest' /\ RecordingUsesRequested' /\ AsraStep
<1> SUFFICES Goal
  BY DEF PresetInv
<1>0. /\ tab \in TabType /\ dev \in DevType /\ TypeOK' /\ ChipInv(dev) /\ TableInv
      /\ \A bad \in OpenFailures : "sleep" \notin bad
  BY DEF PresetInv, TableInv, TypeOK, TabType, SleepNodeOpens
<1>1. ASSUME NEW h \in Handles, NEW p \in Effects, AdncCreate(h, p) PROVE Goal
  <2>1. PICK s \in Sessions :
          /\ s = GetSession(tab, h)
          /\ tab' = IF CanSetState(tab[s].fx[p], "CREATED")
                    THEN [Claimed(tab, s, h) EXCEPT ![s].created = @ \cup {p},
                                                    ![s].fx[p] = "CREATED"]
                    ELSE Claimed(tab, s, IF tab[s].created = {} THEN NoHandle ELSE h)
    BY <1>1 DEF AdncCreate
  <2>2. /\ tab'[s].active = tab[s].active
        /\ tab'[s].ioHandle \in {h, NoHandle}
        /\ \A r \in Sessions \ {s} : tab'[r] = tab[r]
    <3> DEFINE c == Claimed(tab, s, h)
               u == [c EXCEPT ![s].created = @ \cup {p}]
    <3>1. c \in TabType /\ c[s].active = tab[s].active /\ c[s].ioHandle = h
          /\ \A r \in Sessions \ {s} : c[r] = tab[r]
      BY <1>0 DEF Claimed, TabType, SessionType
    <3>2. u \in TabType /\ u[s].active = tab[s].active /\ u[s].ioHandle = h
          /\ \A r \in Sessions \ {s} : u[r] = tab[r]
      <4>1. p \in ProcIds
        BY ConstantsAssumption
      <4> HIDE DEF c
      <4> QED
        BY <3>1, <4>1 DEF TabType, SessionType
    <3>3. CASE CanSetState(tab[s].fx[p], "CREATED")
      <4>1. tab' = [u EXCEPT ![s].fx[p] = "CREATED"]
        BY <2>1, <3>3
      <4> HIDE DEF u
      <4> QED
        BY <3>2, <4>1 DEF TabType, SessionType
    <3>4. CASE ~CanSetState(tab[s].fx[p], "CREATED")
      BY <1>0, <2>1, <3>4 DEF Claimed, TabType, SessionType
    <3> QED
      BY <3>3, <3>4
  <2>3. tab[s].ioHandle = h \/ tab[s].active = {}
    BY <2>1, GetSessionMatch DEF TableInv, SessionsConsistent, PresetInv, FreeSession
  <2>4. \A r \in Sessions : Recording(r)' => Recording(r)
    BY <1>1, <2>2, <2>3 DEF Recording, AdncCreate
  <2> QED
    BY <1>0, <1>1, <2>4, TableStep DEF AdncCreate
<1>2. ASSUME NEW s \in Sessions, NEW p \in Effects, AdncRelease(s, p) PROVE Goal
  <2> DEFINE t == [tab EXCEPT ![s] = ReleaseEffect(@, p)]
  <2>1. PICK bad \in OpenFailures : dev' = Reevaluate(dev, t, tab[s].ioHandle, bad)
    BY <1>2 DEF AdncRelease
  <2>2. /\ ChipInv(dev') /\ dev'.ioHandle = dev.ioHandle
        /\ dev'.requested_preset = dev.requested_preset
        /\ dev'.current_preset \in {"OFF", dev.current_preset, dev.requested_preset}
    <3> HIDE DEF t
    <3> QED
      BY <1>0, <2>1, ReevaluateEffect
  <2>3. /\ t \in TabType /\ t[s].ioHandle = tab[s].ioHandle
        /\ t[s].active = tab[s].active \ {p}
        /\ \A r \in Sessions \ {s} : t[r] = tab[r]
    BY <1>0 DEF ReleaseEffect, TabType, SessionType
  <2>4. tab' \in {t, [t EXCEPT ![s] = FreeSession]}
    BY <1>2 DEF AdncRelease
  <2>5. /\ tab'[s].active = {} \/ (/\ tab'[s].ioHandle = tab[s].ioHandle
                                   /\ tab'[s].active = tab[s].active \ {p})
        /\ \A r \in Sessions \ {s} : tab'[r] = tab[r]
    <3> HIDE DEF t
    <3> QED
      BY <2>3, <2>4 DEF FreeSession, TabType
  <2>6. \A r \in Sessions : Recording(r)' => Recording(r)
    BY <2>2, <2>5 DEF Recording
  <2> QED
    BY <1>0, <2>2, <2>6, SameRequestStep
<1>3. ASSUME NEW s \in Sessions, NEW p \in Effects, NEW state \in {"CONFIG", "ACTIVE"},
             Command(s, p, state)
      PROVE  Goal
  <2>1. /\ tab'[s].ioHandle = tab[s].ioHandle /\ tab'[s].active = tab[s].active
        /\ \A r \in Sessions \ {s} : tab'[r] = tab[r]
    BY <1>0, <1>3 DEF Command, TabType, SessionType
  <2>2. \A r \in Sessions : Recording(r)' => Recording(r)
    BY <1>3, <2>1 DEF Recording, Command
  <2> QED
    BY <1>0, <1>3, <2>2, TableStep DEF Command
<1>4. ASSUME NEW preset \in Presets, UsePreset(preset) PROVE Goal
  <2> DEFINE d == [dev EXCEPT !.requested_preset = preset]
  <2>1. PICK bad \in OpenFailures : dev' = Reevaluate(d, tab, dev.ioHandle, bad)
    BY <1>4 DEF UsePreset
  <2>2. /\ d \in DevType /\ ChipInv(d) /\ d.ioHandle = dev.ioHandle
        /\ d.current_preset = dev.current_preset /\ d.requested_preset = preset
    BY <1>0, ConstantsAssumption DEF DevType, ChipInv
  <2>3. /\ ChipInv(dev') /\ dev'.ioHandle = dev.ioHandle
        /\ dev'.requested_preset = preset
        /\ dev.ioHandle = NoHandle => dev'.current_preset = "OFF"
        /\ SessionsOf(tab, dev.ioHandle) # {} => dev'.current_preset \in {"OFF", preset}
        /\ dev'.current_preset \in {"OFF", dev.current_preset, preset}
    <3> HIDE DEF d
    <3> QED
      BY <1>0, <2>1, <2>2, ReevaluateEffect
  <2>4. \A s \in Sessions : Recording(s)' => dev'.current_preset \in {"OFF", preset}
    BY <1>4, <2>3 DEF UsePreset, Recording, SessionsOf
  <2>5. RecordingUsesRequested'
    BY <2>3, <2>4 DEF RecordingUsesRequested
  <2>6. ~UsePresetRefused(dev, preset)
    BY <1>4 DEF UsePreset
  <2>7. AsraRequest' /\ AsraStep
    BY <1>0, <2>3, <2>6
    DEF UsePresetRefused, AsraRequest, AsraStep, TypeOK, DevType, AsraPresets
  <2> QED
    BY <2>3, <2>5, <2>7
<1>5. ASSUME NEW on \in VeqInputs, SetVeq(on) PROVE Goal
  <2>1. PICK bad \in OpenFailures : dev' = Write(dev, "veq", Bit(on), bad)
    BY <1>5 DEF SetVeq, SetVeqInt
  <2>2. Bit(on) \in NodeValues
    BY DEF Bit, NodeValues
  <2>3. SamePreset(dev, dev')
    BY <1>0, <2>1, <2>2, WriteTuning
  <2>4. ChipInv(dev') /\ tab' = tab
    BY <1>0, <1>5, <2>3 DEF ChipInv, SamePreset, SetVeq
  <2> QED
    BY <1>0, <2>3, <2>4, SameRequestStep DEF SamePreset, Recording
<1>6. ASSUME NEW h \in Handles \cup {NoHandle}, SetActiveIoHandle(h) PROVE Goal
  <2>1. PICK bad \in OpenFailures :
          dev' = [Reevaluate(dev, tab, h, bad) EXCEPT
                    !.ioHandle = IF ReevaluateOk(dev, tab, h, bad) THEN h ELSE @]
    BY <1>6 DEF SetActiveIoHandle
  <2> DEFINE e == Reevaluate(dev, tab, h, bad)
  <2>2. e \in DevType
    BY <1>0, ReevaluateType
  <2>3. /\ ChipInv(e) /\ e.ioHandle = dev.ioHandle
        /\ e.requested_preset = dev.requested_preset
        /\ SessionsOf(tab, h) # {} => e.current_preset \in {"OFF", dev.requested_preset}
        /\ e.current_preset \in {"OFF", dev.current_preset, dev.requested_preset}
    BY <1>0, ReevaluateEffect
  <2>4. /\ dev'.ioHandle \in {h, dev.ioHandle}
        /\ dev'.current_preset = e.current_preset
        /\ dev'.requested_preset = e.requested_preset
        /\ dev'.fd = e.fd /\ dev'.node = e.node
    <3> HIDE DEF e
    <3> QED
      BY <2>1, <2>2, <2>3 DEF DevType, e
  <2>5. ChipInv(dev')
    BY <2>3, <2>4 DEF ChipInv
  <2>6. tab' = tab
    BY <1>6 DEF SetActiveIoHandle
  <2>7. \A s \in Sessions : Recording(s)' =>
          Recording(s) \/ dev'.current_preset \in {"OFF", dev.requested_preset}
    BY <2>3, <2>4, <2>6 DEF Recording, SessionsOf
  <2> QED
    BY <1>0, <2>3, <2>4, <2>5, <2>7, SameRequestStep
<1>7. ASSUME NEW h \in Handles, NEW type \in ProcIds \cup {Other},
             AddEffect(h, type) \/ RemoveEffect(h, type)
      PROVE  Goal
  BY <1>0, <1>7, MarkKeepsPreset DEF AddEffect, RemoveEffect
<1>8. CASE Release
  <2>1. PICK bad \in OpenFailures :
          dev' = [Sleep(dev, bad) EXCEPT !.fd = [c \in Ctrls |-> "closed"]]
    BY <1>8 DEF Release
  <2>2. /\ Sleep(dev, bad) \in DevType /\ Sleep(dev, bad).current_preset = "OFF"
        /\ Sleep(dev, bad).requested_preset = dev.requested_preset
    BY <1>0, SleepType, SleepEffect
  <2>3. /\ dev'.current_preset = "OFF" /\ dev'.requested_preset = dev.requested_preset
        /\ dev'.fd = [c \in Ctrls |-> "closed"]
    BY <2>1, <2>2 DEF DevType
  <2>4. ChipInv(dev')
    BY <2>3 DEF ChipInv, Ctrls
  <2> QED
    BY <1>0, <2>3, <2>4, SameRequestStep
<1>9. CASE UNCHANGED vars
  <2>1. dev' = dev /\ tab' = tab
    BY <1>9 DEF vars
  <2>2. \A r \in Sessions : Recording(r)' => Recording(r)
    BY <2>1 DEF Recording
  <2> QED
    BY <1>0, <2>1, <2>2, TableStep
<1> QED
  BY <1>1, <1>2, <1>3, <1>4, <1>5, <1>6, <1>7, <1>8, <1>9 DEF Next

LEMMA PresetInvariant ==
  ASSUME SleepNodeOpens
  PROVE  Spec => []PresetInv
<1>1. Init /\ TableInv => PresetInv
  BY DEF Init, InitDev, PresetInv, ChipInv, AsraRequest, AsraPresets,
         RecordingUsesRequested, Recording, Ctrls
<1>2. PresetInv /\ TableInv' /\ [Next]_vars => PresetInv'
  BY PresetStep
<1> QED
  BY <1>1, <1>2, TableInvariant, PTL DEF Spec

\* The preset the code believes in is the one the chip has, with voice
\* processing on, whatever other controls fail to open.
THEOREM PresetIsOnChip ==
  ASSUME SleepNodeOpens
  PROVE  Spec => []PresetReachedChip
<1>1. PresetInv => PresetReachedChip
  BY DEF PresetInv, ChipInv, PresetReachedChip
<1> QED
  BY <1>1, PresetInvariant, PTL

\* A recording with effects is on the preset last asked for, or on none.
THEOREM RecordingOnRequestedPreset ==
  ASSUME SleepNodeOpens
  PROVE  Spec => []RecordingUsesRequested
  BY PresetInvariant, PTL DEF PresetInv

\* No recording moves from one ASRA preset to another in one step.
THEOREM AsraIsLocked ==
  ASSUME SleepNodeOpens
  PROVE  Spec => AsraLocked
<1>1. PresetInv /\ TableInv' /\ [Next]_vars => [AsraStep]_vars
  BY PresetStep
<1>2. Spec => [][AsraStep]_vars
  BY <1>1, PresetInvariant, TableInvariant, PTL DEF Spec
<1> QED
  BY <1>2 DEF AsraLocked, AsraStep

-----------------------------------------------------------------------------
(* The bundle implements PresetPolicy, when effects of other libraries are  *)
(* not added to its streams.                                                *)

\* A session has an owner only while it has effects, and only effects that were
\* created on a stream are in use on it.
EffectInv ==
  \A s \in Sessions :
    /\ tab[s].ioHandle # NoHandle => tab[s].created # {}
    /\ tab[s].active \subseteq tab[s].created

\* Without foreign effects, a change of the effects of a stream finds the
\* session they were created in.
LEMMA MarkFindsSession ==
  ASSUME ForeignTypes = {}, TableInv, NEW h \in Handles, NEW type,
         EffectOnStream(h, type), NEW s \in Sessions, s = GetSession(tab, h)
  PROVE  tab[s].ioHandle = h /\ type \in tab[s].created
<1>1. PICK r \in Sessions : tab[r].ioHandle = h /\ type \in tab[r].created
  BY DEF EffectOnStream, SessionsOf
<1>2. tab[s].ioHandle = h
  BY <1>1, GetSessionMatch DEF SessionsOf
<1>3. r = s
  BY <1>1, <1>2, ConstantsAssumption DEF TableInv, OneSessionPerHandle
<1> QED
  BY <1>1, <1>2, <1>3

\* What a created effect does to the table
LEMMA CreateChanges ==
  ASSUME TableInv, NEW h \in Handles, NEW p \in Effects, AdncCreate(h, p)
  PROVE  \E s \in Sessions :
           /\ tab[s].ioHandle = h \/ tab[s] = FreeSession
           /\ \A r \in Sessions \ {s} : tab'[r] = tab[r]
           /\ tab'[s].active = tab[s].active
           /\ \/ tab'[s].ioHandle = h /\ tab'[s].created = tab[s].created \cup {p}
              \/ tab'[s].ioHandle = tab[s].ioHandle /\ tab'[s].created = tab[s].created
<1>0. tab \in TabType /\ p \in ProcIds
  BY ConstantsAssumption DEF TableInv, TypeOK, TabType
<1>1. PICK s \in Sessions :
        /\ s = GetSession(tab, h)
        /\ tab' = IF CanSetState(tab[s].fx[p], "CREATED")
                  THEN [Claimed(tab, s, h) EXCEPT ![s].created = @ \cup {p},
                                                  ![s].fx[p] = "CREATED"]
                  ELSE Claimed(tab, s, IF tab[s].created = {} THEN NoHandle ELSE h)
  BY DEF AdncCreate
<1>2. tab[s].ioHandle = h \/ tab[s] = FreeSession
  BY <1>1, GetSessionMatch DEF TableInv, SessionsConsistent
<1> DEFINE c == Claimed(tab, s, h)
           u == [c EXCEPT ![s].created = @ \cup {p}]
<1>3. c \in TabType /\ c[s] = [tab[s] EXCEPT !.ioHandle = h]
      /\ \A r \in Sessions \ {s} : c[r] = tab[r]
  BY <1>0 DEF Claimed, TabType, SessionType
<1>4. /\ u \in TabType /\ u[s].ioHandle = h /\ u[s].active = tab[s].active
      /\ u[s].created = tab[s].created \cup {p}
      /\ \A r \in Sessions \ {s} : u[r] = tab[r]
  <2> HIDE DEF c
  <2> QED
    BY <1>0, <1>3 DEF TabType, SessionType
<1>5. CASE CanSetState(tab[s].fx[p], "CREATED")
  <2>1. tab' = [u EXCEPT ![s].fx[p] = "CREATED"]
    BY <1>1, <1>5
  <2> HIDE DEF u
  <2>2. /\ tab'[s].ioHandle = h /\ tab'[s].active = tab[s].active
        /\ tab'[s].created = tab[s].created \cup {p}
        /\ \A r \in Sessions \ {s} : tab'[r] = tab[r]
    BY <1>4, <2>1 DEF TabType, SessionType
  <2> QED
    BY <1>2, <2>2
<1>6. CASE ~CanSetState(tab[s].fx[p], "CREATED")
  <2>1. tab[s].created # {}
    BY <1>0, <1>6 DEF CanSetState, TableInv, SessionsConsistent
  <2>2. tab' = c /\ tab[s].ioHandle = h
    BY <1>1, <1>2, <1>6, <2>1 DEF FreeSession
  <2>3. tab'[s].ioHandle = h /\ tab'[s].active = tab[s].active
        /\ tab'[s].created = tab[s].created
    <3> HIDE DEF c
    <3> QED
      BY <1>0, <1>3, <2>2 DEF TabType, SessionType
  <2> QED
    BY <1>2, <1>3, <2>2, <2>3
<1> QED
  BY <1>5, <1>6

\* What a release does to the table
LEMMA ReleaseChanges ==
  ASSUME tab \in TabType, NEW s \in Sessions, NEW p \in Effects, AdncRelease(s, p)
  PROVE  LET t == [tab EXCEPT ![s] = ReleaseEffect(@, p)]
         IN  /\ t[s].ioHandle = tab[s].ioHandle
             /\ t[s].created = tab[s].created \ {p}
             /\ t[s].active = tab[s].active \ {p}
             /\ \A r \in Sessions \ {s} : t[r] = tab[r] /\ tab'[r] = tab[r]
             /\ t[s].created = {} => tab'[s] = FreeSession
             /\ t[s].created # {} => tab'[s] = t[s]
<1> DEFINE t == [tab EXCEPT ![s] = ReleaseEffect(@, p)]
<1>1. /\ t \in TabType /\ t[s].ioHandle = tab[s].ioHandle
      /\ t[s].created = tab[s].created \ {p} /\ t[s].active = tab[s].active \ {p}
      /\ \A r \in Sessions \ {s} : t[r] = tab[r]
  BY DEF ReleaseEffect, TabType, SessionType
<1>2. tab' = IF t[s].created = {} THEN [t EXCEPT ![s] = FreeSession] ELSE t
  BY DEF AdncRelease
<1> HIDE DEF t
<1>3. /\ t[s].created = {} => tab'[s] = FreeSession
      /\ t[s].created # {} => tab'[s] = t[s]
      /\ \A r \in Sessions \ {s} : tab'[r] = tab[r]
  BY <1>1, <1>2 DEF TabType
<1> QED
  BY <1>1, <1>3 DEF t

\* What a change of mask does to the table
LEMMA MarkChanges ==
  ASSUME tab \in TabType, NEW s \in Sessions, NEW h \in Handles, NEW msk,
         tab[s].ioHandle = h, MarkEffects(s, h, msk)
  PROVE  /\ tab'[s].ioHandle = h /\ tab'[s].created = tab[s].created
         /\ tab'[s].active = msk
         /\ \A r \in Sessions \ {s} : tab'[r] = tab[r]
  BY DEF MarkEffects, Claimed, TabType, SessionType

LEMMA EffectStep ==
  ASSUME ForeignTypes = {}, TableInv, EffectInv, [Next]_vars
  PROVE  EffectInv'
<1>0. tab \in TabType
  BY DEF TableInv, TypeOK, TabType
<1>1. ASSUME NEW h \in Handles, NEW p \in Effects, AdncCreate(h, p) PROVE EffectInv'
  BY <1>1, CreateChanges DEF EffectInv
<1>2. ASSUME NEW s \in Sessions, NEW p \in Effects, AdncRelease(s, p) PROVE EffectInv'
  <2> DEFINE t == [tab EXCEPT ![s] = ReleaseEffect(@, p)]
  <2>1. /\ t[s].ioHandle = tab[s].ioHandle
        /\ t[s].created = tab[s].created \ {p} /\ t[s].active = tab[s].active \ {p}
        /\ \A r \in Sessions \ {s} : tab'[r] = tab[r]
        /\ t[s].created = {} => tab'[s] = FreeSession
        /\ t[s].created # {} => tab'[s] = t[s]
    BY <1>0, <1>2, ReleaseChanges
  <2> HIDE DEF t
  <2> QED
    BY <2>1 DEF EffectInv, FreeSession
<1>3. ASSUME NEW s \in Sessions, NEW p \in Effects, NEW state \in {"CONFIG", "ACTIVE"},
             Command(s, p, state)
      PROVE  EffectInv'
  <2>1. \A r \in Sessions : /\ tab'[r].ioHandle = tab[r].ioHandle
                            /\ tab'[r].active = tab[r].active
                            /\ tab'[r].created = tab[r].created
    BY <1>0, <1>3 DEF Command, TabType, SessionType
  <2> QED
    BY <2>1 DEF EffectInv
<1>4. ASSUME NEW h \in Handles, NEW type \in ProcIds \cup {Other},
             AddEffect(h, type) \/ RemoveEffect(h, type)
      PROVE  EffectInv'
  <2>1. PICK s \in Sessions :
          /\ s = GetSession(tab, h)
          /\ \/ MarkEffects(s, h, tab[s].active \cup {type})
             \/ MarkEffects(s, h, tab[s].active \ {type})
    BY <1>4 DEF AddEffect, RemoveEffect
  <2>2. tab[s].ioHandle = h /\ type \in tab[s].created
    BY <1>4, <2>1, MarkFindsSession DEF AddEffect, RemoveEffect
  <2> QED
    BY <1>0, <2>1, <2>2, MarkChanges DEF EffectInv
<1>5. CASE UNCHANGED tab
  BY <1>5 DEF EffectInv
<1> QED
  BY <1>1, <1>2, <1>3, <1>4, <1>5
  DEF Next, vars, UsePreset, SetVeq, SetActiveIoHandle, Release

\* What a re-evaluation for a stream does to the preset, case by case, and that
\* it fails for a stream not yet recorded only if the chip is asleep.
LEMMA ReevaluateCases ==
  ASSUME NEW d \in DevType, NEW t, NEW h, NEW bad, "sleep" \notin bad, ChipInv(d),
         \A r, s \in SessionsOf(t, h) : r = s
  PROVE  LET e == Reevaluate(d, t, h, bad)
         IN  /\ d.requested_preset = "OFF" => e.current_preset = "OFF"
             /\ (\E s \in SessionsOf(t, h) : t[s].active = {}) => e.current_preset = "OFF"
             /\ SessionsOf(t, h) = {} => e.current_preset \in {"OFF", d.current_preset}
             /\ h # d.ioHandle /\ ~ReevaluateOk(d, t, h, bad) => e.current_preset = "OFF"
<1> DEFINE s == SessionNumberForHandle(t, h)
           ap == ApplyPreset(d, bad)
           ex == ApplySettingsFromSession(ap, t[s], bad)
<1>1. CASE MustSleep(d, t, h)
  BY <1>1, SleepEffect DEF Reevaluate
<1>2. CASE ~MustSleep(d, t, h) /\ s = NoSession
  <2>1. SessionsOf(t, h) = {}
    BY <1>2, NumberForHandle, NoSessionNotIn
  <2>2. Reevaluate(d, t, h, bad) = d /\ ReevaluateOk(d, t, h, bad)
    BY <1>2 DEF Reevaluate, ReevaluateOk
  <2> QED
    BY <1>2, <2>1, <2>2 DEF MustSleep
<1>3. CASE ~MustSleep(d, t, h) /\ s # NoSession
  <2>1. s \in SessionsOf(t, h) /\ t[s].ioHandle = h
    BY <1>3, NumberForHandle DEF SessionsOf
  <2>2. t[s].active # {} /\ d.requested_preset # "OFF"
    BY <1>3 DEF MustSleep
  <2>3. Reevaluate(d, t, h, bad) = IF ApplyPresetOk(d, bad) THEN ex ELSE ap
    BY <1>3 DEF Reevaluate
  <2>4. ASSUME h # d.ioHandle, ~ReevaluateOk(d, t, h, bad)
        PROVE  Reevaluate(d, t, h, bad).current_preset = "OFF"
    <3>1. ap.ioHandle = d.ioHandle
      BY ApplyPresetEffect
    <3>2. ~ApplyPresetOk(d, bad)
      BY <1>3, <2>1, <2>4, <3>1 DEF ReevaluateOk, ApplySettingsOk
    <3>3. d.requested_preset # d.current_preset /\ d.current_preset = "OFF"
      BY <2>2, <3>2 DEF ApplyPresetOk, CanWrite, ChipInv
    <3>4. ap = SetVoiceProcessing(d, TRUE, bad)
      BY <2>2, <3>2, <3>3 DEF ApplyPreset
    <3>5. ap.current_preset = d.current_preset
      BY <3>4 DEF SetVoiceProcessing, Write, DevType
    <3> QED
      BY <2>3, <3>2, <3>3, <3>5
  <2> QED
    BY <2>1, <2>2, <2>4
<1> QED
  BY <1>1, <1>2, <1>3

\* The streams with effects in use after a change of one session
LEMMA UsersChange ==
  ASSUME TableInv, TableInv', NEW s \in Sessions, NEW h \in Handles,
         tab[s].ioHandle = h, \A r \in Sessions \ {s} : tab'[r] = tab[r]
  PROVE  /\ tab'[s].active = {} => Users' = Users \ {h}
         /\ tab'[s].ioHandle = h /\ tab'[s].active # {} => Users' = Users \cup {h}
<1>1. \A r \in Sessions \ {s} : tab[r].ioHandle # h
  BY ConstantsAssumption DEF TableInv, OneSessionPerHandle
<1>2. tab'[s].active = {} => Users' = Users \ {h}
  BY <1>1 DEF Users, SessionsOf
<1>3. tab'[s].ioHandle = h /\ tab'[s].active # {} => Users' = Users \cup {h}
  BY <1>1 DEF Users, SessionsOf
<1> QED
  BY <1>2, <1>3

\* Creating an effect, and its commands, bring no stream into use.
LEMMA CreateKeepsUsers ==
  ASSUME TableInv, NEW h \in Handles, NEW p \in Effects, AdncCreate(h, p)
  PROVE  Users' = Users
<1>1. PICK s \in Sessions :
        /\ tab[s].ioHandle = h \/ tab[s] = FreeSession
        /\ \A r \in Sessions \ {s} : tab'[r] = tab[r]
        /\ tab'[s].active = tab[s].active
        /\ \/ tab'[s].ioHandle = h /\ tab'[s].created = tab[s].created \cup {p}
           \/ tab'[s].ioHandle = tab[s].ioHandle /\ tab'[s].created = tab[s].created
  BY CreateChanges
<1> QED
  BY <1>1 DEF Users, SessionsOf, FreeSession

LEMMA CommandKeepsUsers ==
  ASSUME tab \in TabType, NEW s \in Sessions, NEW p \in Effects, NEW state,
         Command(s, p, state)
  PROVE  Users' = Users
<1>1. \A r \in Sessions : /\ tab'[r].ioHandle = tab[r].ioHandle
                          /\ tab'[r].active = tab[r].active
  BY DEF Command, TabType, SessionType
<1> QED
  BY <1>1 DEF Users, SessionsOf

\* Every step of the bundle is a step of the policy, or none.
LEMMA PolicyStep ==
  ASSUME SleepNodeOpens, ForeignTypes = {}, PresetInv, EffectInv, TableInv', [Next]_vars
  PROVE  [Policy!Next]_(Policy!vars)
<1> DEFINE Same == UNCHANGED <<dev.requested_preset, dev.current_preset, dev.ioHandle, Users>>
<1> SUFFICES Policy!Next \/ Same
  BY DEF Policy!vars
<1>0. /\ tab \in TabType /\ dev \in DevType /\ ChipInv(dev) /\ TableInv
      /\ \A bad \in OpenFailures : "sleep" \notin bad
      /\ NoHandle \notin Handles
  BY ConstantsAssumption DEF PresetInv, TableInv, TypeOK, TabType, SleepNodeOpens
<1>a. \A h \in Handles : \A r, s \in SessionsOf(tab, h) : r = s
  BY <1>0 DEF TableInv, OneSessionPerHandle, SessionsOf
<1>1. ASSUME NEW h \in Handles, NEW p \in Effects, AdncCreate(h, p) PROVE Same
  BY <1>0, <1>1, CreateKeepsUsers DEF AdncCreate
<1>2. ASSUME NEW s \in Sessions, NEW p \in Effects, AdncRelease(s, p) PROVE Policy!Next
  <2> DEFINE t == [tab EXCEPT ![s] = ReleaseEffect(@, p)]
             h == tab[s].ioHandle
  <2>1. PICK bad \in OpenFailures : dev' = Reevaluate(dev, t, h, bad)
    BY <1>2 DEF AdncRelease
  <2>2. h \in Handles
    BY <1>0, <1>2 DEF AdncRelease, TableInv, SessionsConsistent, FreeSession,
                      TabType, SessionType
  <2>3. /\ t[s].ioHandle = tab[s].ioHandle
        /\ t[s].created = tab[s].created \ {p} /\ t[s].active = tab[s].active \ {p}
        /\ \A r \in Sessions \ {s} : t[r] = tab[r] /\ tab'[r] = tab[r]
        /\ t[s].created = {} => tab'[s] = FreeSession
        /\ t[s].created # {} => tab'[s] = t[s]
    BY <1>0, <1>2, ReleaseChanges
  <2>4. SessionsOf(t, h) = {s}
    <3> HIDE DEF t
    <3> QED
      BY <1>a, <2>2, <2>3 DEF SessionsOf
  <2>5. /\ dev'.ioHandle = dev.ioHandle /\ dev'.requested_preset = dev.requested_preset
        /\ dev'.current_preset \in {"OFF", dev.requested_preset}
        /\ t[s].active = {} => dev'.current_preset = "OFF"
    <3> HIDE DEF t
    <3> QED
      BY <1>0, <2>1, <2>4, ReevaluateEffect, ReevaluateCases
  <2>6. CASE t[s].active = {}
    <3>1. tab'[s].active = {}
      BY <2>3, <2>6 DEF FreeSession
    <3>2. Users' = Users \ {h}
      BY <1>0, <2>2, <2>3, <3>1, UsersChange
    <3>3. Policy!Leave(h)
      BY <2>5, <2>6, <3>2 DEF Policy!Leave
    <3> QED
      BY <2>2, <3>3 DEF Policy!Next
  <2>7. CASE t[s].active # {}
    <3>1. t[s].created # {}
      BY <2>3, <2>7 DEF EffectInv
    <3>2. Users' = Users \cup {h}
      BY <1>0, <2>2, <2>3, <2>7, <3>1, UsersChange
    <3>3. Policy!Use(h)
      BY <2>5, <3>2 DEF Policy!Use
    <3> QED
      BY <2>2, <3>3 DEF Policy!Next
  <2> QED
    BY <2>6, <2>7
<1>3. ASSUME NEW s \in Sessions, NEW p \in Effects, NEW state \in {"CONFIG", "ACTIVE"},
             Command(s, p, state)
      PROVE  Same
  BY <1>0, <1>3, CommandKeepsUsers DEF Command
<1>4. ASSUME NEW preset \in Presets, UsePreset(preset) PROVE Policy!Next
  <2> DEFINE d == [dev EXCEPT !.requested_preset = preset]
  <2>1. PICK bad \in OpenFailures : dev' = Reevaluate(d, tab, dev.ioHandle, bad)
    BY <1>4 DEF UsePreset
  <2>2. /\ d \in DevType /\ ChipInv(d) /\ d.ioHandle = dev.ioHandle
        /\ d.current_preset = dev.current_preset /\ d.requested_preset = preset
    BY <1>0, ConstantsAssumption DEF DevType, ChipInv
  <2>3. /\ dev'.ioHandle = dev.ioHandle /\ dev'.requested_preset = preset
        /\ dev.ioHandle = NoHandle => dev'.current_preset = "OFF"
        /\ SessionsOf(tab, dev.ioHandle) # {} => dev'.current_preset \in {"OFF", preset}
    <3> HIDE DEF d
    <3> QED
      BY <1>0, <2>1, <2>2, ReevaluateEffect
  <2>4. dev.ioHandle \in Handles =>
          /\ preset = "OFF" => dev'.current_preset = "OFF"
          /\ (\E s \in SessionsOf(tab, dev.ioHandle) : tab[s].active = {})
                => dev'.current_preset = "OFF"
          /\ SessionsOf(tab, dev.ioHandle) = {}
                => dev'.current_preset \in {"OFF", dev.current_preset}
    <3> HIDE DEF d
    <3> QED
      BY <1>0, <1>a, <2>1, <2>2, ReevaluateCases
  <2>5. dev.ioHandle \in Handles \/ dev.ioHandle = NoHandle
    BY <1>0 DEF DevType
  <2>6. dev'.current_preset \in {"OFF"} \cup
          (IF dev.ioHandle \in Users THEN {preset} ELSE {dev.current_preset})
    BY <2>3, <2>4, <2>5 DEF Users, SessionsOf
  <2>7. Users' = Users
    BY <1>4 DEF UsePreset, Users, SessionsOf
  <2>8. Policy!Ask(preset)
    BY <1>4, <2>3, <2>4, <2>5, <2>6, <2>7 DEF Policy!Ask, UsePreset, UsePresetRefused
  <2> QED
    BY <2>8 DEF Policy!Next
<1>5. ASSUME NEW on \in VeqInputs, SetVeq(on) PROVE Same
  <2>1. PICK bad \in OpenFailures : dev' = Write(dev, "veq", Bit(on), bad)
    BY <1>5 DEF SetVeq, SetVeqInt
  <2>2. Bit(on) \in NodeValues
    BY DEF Bit, NodeValues
  <2>3. SamePreset(dev, dev')
    BY <1>0, <2>1, <2>2, WriteTuning
  <2> QED
    BY <1>5, <2>3 DEF SamePreset, SetVeq, Users, SessionsOf
<1>6. ASSUME NEW h \in Handles \cup {NoHandle}, SetActiveIoHandle(h) PROVE Policy!Next
  <2>1. PICK bad \in OpenFailures :
          dev' = [Reevaluate(dev, tab, h, bad) EXCEPT
                    !.ioHandle = IF ReevaluateOk(dev, tab, h, bad) THEN h ELSE @]
    BY <1>6 DEF SetActiveIoHandle
  <2> DEFINE f == Reevaluate(dev, tab, h, bad)
  <2>2. f \in DevType
    BY <1>0, ReevaluateType
  <2>3. /\ f.ioHandle = dev.ioHandle /\ f.requested_preset = dev.requested_preset
        /\ h = NoHandle => f.current_preset = "OFF"
        /\ SessionsOf(tab, h) # {} => f.current_preset \in {"OFF", dev.requested_preset}
    BY <1>0, ReevaluateEffect
  <2>4. h \in Handles =>
          /\ (\E s \in SessionsOf(tab, h) : tab[s].active = {}) => f.current_preset = "OFF"
          /\ SessionsOf(tab, h) = {} => f.current_preset \in {"OFF", dev.current_preset}
          /\ h # dev.ioHandle /\ ~ReevaluateOk(dev, tab, h, bad) => f.current_preset = "OFF"
    BY <1>0, <1>a, ReevaluateCases
  <2>5. /\ dev'.ioHandle = IF ReevaluateOk(dev, tab, h, bad) THEN h ELSE dev.ioHandle
        /\ dev'.current_preset = f.current_preset
        /\ dev'.requested_preset = dev.requested_preset
    <3> HIDE DEF f
    <3> QED
      BY <2>1, <2>2, <2>3 DEF DevType, f
  <2>6. Users' = Users
    BY <1>6 DEF SetActiveIoHandle, Users, SessionsOf
  <2> HIDE DEF f
  <2>7. CASE h = NoHandle
    <3>1. Policy!Stop
      BY <2>3, <2>5, <2>6, <2>7 DEF Policy!Stop
    <3> QED
      BY <3>1 DEF Policy!Next
  <2>8. CASE h \in Handles
    <3>1. dev'.current_preset \in {"OFF"} \cup
            (IF h \in Users THEN {dev.requested_preset} ELSE {dev.current_preset})
      BY <2>3, <2>4, <2>5, <2>8 DEF Users, SessionsOf
    <3>2. dev'.ioHandle = h \/ (dev'.ioHandle = dev.ioHandle /\ dev'.current_preset = "OFF")
      BY <2>4, <2>5, <2>8
    <3>3. Policy!Record(h)
      BY <2>5, <2>6, <3>1, <3>2 DEF Policy!Record
    <3> QED
      BY <2>8, <3>3 DEF Policy!Next
  <2> QED
    BY <2>7, <2>8
<1>7. ASSUME NEW h \in Handles, NEW type \in ProcIds \cup {Other},
             AddEffect(h, type) \/ RemoveEffect(h, type)
      PROVE  Policy!Next
  <2>1. PICK s \in Sessions :
          /\ s = GetSession(tab, h)
          /\ \/ MarkEffects(s, h, tab[s].active \cup {type})
             \/ MarkEffects(s, h, tab[s].active \ {type})
    BY <1>7 DEF AddEffect, RemoveEffect
  <2>2. tab[s].ioHandle = h
    BY <1>0, <1>7, <2>1, MarkFindsSession DEF AddEffect, RemoveEffect
  <2>3. /\ tab'[s].ioHandle = h /\ \A r \in Sessions \ {s} : tab'[r] = tab[r]
    BY <1>0, <2>1, <2>2, MarkChanges
  <2>4. PICK bad \in OpenFailures : dev' = Reevaluate(dev, tab', h, bad)
    BY <2>1 DEF MarkEffects
  <2>5. SessionsOf(tab', h) = {s}
    BY <1>a, <2>2, <2>3 DEF SessionsOf
  <2>6. /\ dev'.ioHandle = dev.ioHandle /\ dev'.requested_preset = dev.requested_preset
        /\ dev'.current_preset \in {"OFF", dev.requested_preset}
        /\ tab'[s].active = {} => dev'.current_preset = "OFF"
    BY <1>0, <2>4, <2>5, ReevaluateEffect, ReevaluateCases
  <2>7. CASE tab'[s].active = {}
    <3>1. Policy!Leave(h)
      BY <1>0, <2>2, <2>3, <2>6, <2>7, UsersChange DEF Policy!Leave
    <3> QED
      BY <3>1 DEF Policy!Next
  <2>8. CASE tab'[s].active # {}
    <3>1. Policy!Use(h)
      BY <1>0, <2>2, <2>3, <2>6, <2>8, UsersChange DEF Policy!Use
    <3> QED
      BY <3>1 DEF Policy!Next
  <2> QED
    BY <2>7, <2>8
<1>8. CASE Release
  <2>1. PICK bad \in OpenFailures :
          dev' = [Sleep(dev, bad) EXCEPT !.fd = [c \in Ctrls |-> "closed"]]
    BY <1>8 DEF Release
  <2>2. /\ Sleep(dev, bad) \in DevType /\ Sleep(dev, bad).current_preset = "OFF"
        /\ Sleep(dev, bad).requested_preset = dev.requested_preset
        /\ Sleep(dev, bad).ioHandle = dev.ioHandle
    BY <1>0, SleepType, SleepEffect
  <2>3. /\ dev'.current_preset = "OFF" /\ dev'.requested_preset = dev.requested_preset
        /\ dev'.ioHandle = dev.ioHandle
    BY <2>1, <2>2 DEF DevType
  <2>4. Users' = Users
    BY <1>8 DEF Release, Users, SessionsOf
  <2>5. Policy!Stop
    BY <2>3, <2>4 DEF Policy!Stop
  <2> QED
    BY <2>5 DEF Policy!Next
<1>9. CASE UNCHANGED vars
  BY <1>9 DEF vars, Users, SessionsOf
<1> QED
  BY <1>1, <1>2, <1>3, <1>4, <1>5, <1>6, <1>7, <1>8, <1>9 DEF Next

LEMMA EffectInvariant ==
  ASSUME ForeignTypes = {}
  PROVE  Spec => []EffectInv
<1>1. Init => EffectInv
  BY DEF Init, EffectInv, FreeSession
<1>2. TableInv /\ EffectInv /\ [Next]_vars => EffectInv'
  BY EffectStep
<1> QED
  BY <1>1, <1>2, TableInvariant, PTL DEF Spec

\* The bundle implements the policy: with any number of sessions, streams,
\* presets, effects and failing controls, every call moves the chip only as
\* PresetPolicy lets it, or leaves it alone.
THEOREM BundleImplementsPolicy ==
  ASSUME SleepNodeOpens, ForeignTypes = {}
  PROVE  Spec => ImplementsPolicy
<1>1. Init => Policy!Init
  BY DEF Init, InitDev, Policy!Init, Users, SessionsOf, FreeSession
<1>2. PresetInv /\ EffectInv /\ TableInv' /\ [Next]_vars => [Policy!Next]_(Policy!vars)
  BY PolicyStep
<1>3. Spec => Policy!Init /\ [][Policy!Next]_(Policy!vars)
  BY <1>1, <1>2, PresetInvariant, EffectInvariant, TableInvariant, PTL DEF Spec
<1> QED
  BY <1>3 DEF ImplementsPolicy, Policy!Spec

\* A session is owned only while an effect created in it is still there, so that
\* the table, of any size, is never used up by streams that come and go.
THEOREM OwnedSessionsAreUsed ==
  ASSUME ForeignTypes = {}
  PROVE  Spec => []OwnedSessionHasEffects
<1>1. EffectInv => OwnedSessionHasEffects
  BY DEF EffectInv, OwnedSessionHasEffects
<1> QED
  BY <1>1, EffectInvariant, PTL

\* The chip sleeps whenever no stream has an effect in use: a step of the policy
\* that leaves no user of the chip leaves it asleep, or asleep as it was.
THEOREM AwakeForEffects ==
  ASSUME SleepNodeOpens, ForeignTypes = {}
  PROVE  Spec => []AwakeOnlyForEffect
<1> DEFINE Asleep == Users = {} => dev.current_preset = "OFF"
<1>1. Init => Asleep
  BY DEF Init, InitDev
<1>2. ASSUME Asleep, [Policy!Next]_(Policy!vars) PROVE Asleep'
  BY <1>2 DEF Policy!Next, Policy!vars, Policy!Ask, Policy!Record, Policy!Stop,
              Policy!Use, Policy!Leave
<1>3. Spec => []Asleep
  BY <1>1, <1>2, BundleImplementsPolicy, PTL DEF Spec, ImplementsPolicy, Policy!Spec
<1>4. Asleep => AwakeOnlyForEffect
  BY DEF AwakeOnlyForEffect, Users, SessionsOf
<1> QED
  BY <1>3, <1>4, PTL

-----------------------------------------------------------------------------
(* What a re-evaluation does for a stream with effects in use.             *)

\* The settings of the recorded session leave noise suppression at its level, if
\* its control is there.
LEMMA SettingsTune ==
  ASSUME NEW d \in DevType, NEW ssn, NEW bad, ssn.ioHandle = d.ioHandle
  PROVE  LET e == ApplySettingsFromSession(d, ssn, bad)
         IN  e.fd["ns"] = "open" =>
               e.node["ns"] = NsLevel("NS" \in ssn.active, d.requested_preset)
<1> DEFINE both == ssn.created \cap ssn.active
           level == NsLevel("NS" \in ssn.active, d.requested_preset)
           ns == SetNoiseSuppression(d, "NS" \in ssn.active, bad)
           aec == IF "AEC" \in both THEN SetEchoCancellation(ns, TRUE, bad) ELSE ns
           agc == IF "AGC" \in both THEN SetAutomaticGainControl(aec, TRUE, bad) ELSE aec
<1>1. level \in NodeValues
  BY DEF NsLevel, NodeValues
<1>2. ns \in DevType
  BY <1>1, WriteType DEF SetNoiseSuppression, Ctrls
<1>3. ns.fd["ns"] = "open" => ns.node["ns"] = level
  BY DEF SetNoiseSuppression, Write, CanWrite, DevType, Ctrls
<1> HIDE DEF ns
<1>4. aec \in DevType /\ aec.fd["ns"] = ns.fd["ns"] /\ aec.node["ns"] = ns.node["ns"]
  BY <1>2 DEF SetEchoCancellation, Write, Bit, DevType, Ctrls, NodeValues
<1> HIDE DEF aec
<1>5. agc.fd["ns"] = aec.fd["ns"] /\ agc.node["ns"] = aec.node["ns"]
  BY <1>4 DEF SetAutomaticGainControl, Write, Bit, DevType, Ctrls, NodeValues
<1>6. ApplySettingsFromSession(d, ssn, bad) = agc
  BY DEF ApplySettingsFromSession, ns, aec
<1> HIDE DEF agc
<1> QED
  BY <1>3, <1>4, <1>5, <1>6

\* The controls that presets need are both there
PresetOpens(d) == d.fd["vp"] = "open" /\ d.fd["preset"] = "open"

\* Applying the preset asked for succeeds if its controls are there at last, or
\* if the chip was awake.
LEMMA ApplyPresetAwake ==
  ASSUME NEW d \in DevType, NEW bad, "sleep" \notin bad, ChipInv(d),
         d.requested_preset # "OFF"
  PROVE  LET e == ApplyPreset(d, bad)
         IN  /\ ApplyPresetOk(d, bad) => e.current_preset = d.requested_preset
             /\ PresetOpens(e) \/ d.current_preset # "OFF" => ApplyPresetOk(d, bad)
             /\ ~ApplyPresetOk(d, bad) => e.current_preset = "OFF"
<1> DEFINE asleep == d.current_preset \in {"OFF", "INIT"}
           on == IF asleep THEN SetVoiceProcessing(d, TRUE, bad) ELSE d
           set == Write(on, "preset", d.requested_preset, bad)
<1>0. d.requested_preset \in PresetIds /\ PresetIds \subseteq NodeValues
  BY DEF DevType, NodeValues
<1>1. on \in DevType
  BY WriteType DEF SetVoiceProcessing, Bit, Ctrls, NodeValues
<1>2. set \in DevType
  BY <1>0, <1>1, WriteType DEF Ctrls
<1>3. CASE d.requested_preset = d.current_preset
  BY <1>3 DEF ApplyPreset, ApplyPresetOk
<1>4. CASE d.requested_preset # d.current_preset /\ ApplyPresetOk(d, bad)
  <2>1. ApplyPreset(d, bad) = [set EXCEPT !.current_preset = d.requested_preset]
    BY <1>4 DEF ApplyPreset
  <2> HIDE DEF set
  <2> QED
    BY <1>2, <1>4, <2>1 DEF DevType
<1>5. CASE ~ApplyPresetOk(d, bad)
  <2>1. ApplyPreset(d, bad) = on
    BY <1>5 DEF ApplyPreset, ApplyPresetOk
  <2>2. d.current_preset = "OFF"
    BY <1>5 DEF ApplyPresetOk, CanWrite, ChipInv
  <2>3. \/ ~CanWrite(d, "vp", bad) /\ on = d
        \/ on.fd["preset"] = d.fd["preset"] /\ ~CanWrite(d, "preset", bad)
    BY <1>5, <2>2 DEF ApplyPresetOk, SetVoiceProcessing, Write, DevType, Ctrls
  <2>4. ~PresetOpens(on)
    BY <2>3 DEF CanWrite, PresetOpens
  <2>5. on.current_preset = "OFF"
    BY <2>2 DEF SetVoiceProcessing, Write, DevType
  <2> QED
    BY <1>5, <2>1, <2>2, <2>4, <2>5
<1> QED
  BY <1>3, <1>4, <1>5

\* A stream whose one session has effects in use gets the preset asked for,
\* unless one of the two controls that presets need is missing, and the chip
\* that was awake stays so; a stream that is recorded is tuned.
LEMMA ReevaluateAwake ==
  ASSUME NEW d \in DevType, NEW t, NEW h \in Handles, NEW bad, "sleep" \notin bad,
         ChipInv(d), NEW s \in Sessions, SessionsOf(t, h) = {s}, t[s].active # {}
  PROVE  LET e == Reevaluate(d, t, h, bad)
         IN  /\ PresetOpens(e) \/ d.current_preset # "OFF" =>
                  e.current_preset = d.requested_preset
             /\ h = d.ioHandle /\ e.current_preset # "OFF" /\ e.fd["ns"] = "open" =>
                  e.node["ns"] = NsLevel("NS" \in t[s].active, d.requested_preset)
<1> DEFINE ap == ApplyPreset(d, bad)
           ex == ApplySettingsFromSession(ap, t[s], bad)
<1>1. SessionNumberForHandle(t, h) = s /\ t[s].ioHandle = h
  BY FirstOfMatch DEF SessionNumberForHandle, SessionsOf
<1>2. h # NoHandle /\ s # NoSession
  BY ConstantsAssumption, NoSessionNotIn
<1>3. CASE d.requested_preset = "OFF"
  <2>1. Reevaluate(d, t, h, bad) = Sleep(d, bad)
    BY <1>3 DEF Reevaluate, MustSleep
  <2> QED
    BY <1>3, <2>1, SleepEffect
<1>4. CASE d.requested_preset # "OFF"
  <2>1. Reevaluate(d, t, h, bad) = IF ApplyPresetOk(d, bad) THEN ex ELSE ap
    BY <1>1, <1>2, <1>4 DEF Reevaluate, MustSleep
  <2>2. ap \in DevType /\ ap.ioHandle = d.ioHandle /\ ap.requested_preset = d.requested_preset
    BY ApplyPresetType, ApplyPresetEffect
  <2>3. /\ ApplyPresetOk(d, bad) => ap.current_preset = d.requested_preset
        /\ PresetOpens(ap) \/ d.current_preset # "OFF" => ApplyPresetOk(d, bad)
        /\ ~ApplyPresetOk(d, bad) => ap.current_preset = "OFF"
    BY <1>4, ApplyPresetAwake
  <2> HIDE DEF ap
  <2>4. SamePreset(ap, ex)
    BY <2>2, SettingsKeepPreset
  <2>5. h = d.ioHandle /\ ex.fd["ns"] = "open" =>
          ex.node["ns"] = NsLevel("NS" \in t[s].active, d.requested_preset)
    BY <1>1, <2>2, SettingsTune
  <2> HIDE DEF ex
  <2> QED
    BY <2>1, <2>3, <2>4, <2>5 DEF SamePreset, PresetOpens
<1> QED
  BY <1>3, <1>4

\* A stream that owns a session owns one only.
LEMMA TheSession ==
  ASSUME TableInv, NEW s \in Sessions, tab[s].ioHandle # NoHandle
  PROVE  SessionsOf(tab, tab[s].ioHandle) = {s}
  BY DEF SessionsOf, TableInv, OneSessionPerHandle

-----------------------------------------------------------------------------
(* Noise suppression follows its effect.                                   *)

TunedAfter(s) ==
  dev'.current_preset # "OFF" /\ dev'.fd["ns"] = "open" =>
    dev'.node["ns"] = NsLevel("NS" \in tab'[s].active, dev'.requested_preset)

\* A session that is recorded after a step is the one session of its stream.
LEMMA RecordedAfter ==
  ASSUME TableInv', NEW s \in Sessions, Recording(s)'
  PROVE  /\ dev'.ioHandle \in Handles /\ tab'[s].active # {}
         /\ SessionsOf(tab', dev'.ioHandle) = {s}
  BY DEF Recording, SessionsOf, TableInv, OneSessionPerHandle, TypeOK, DevType

\* What is known of the bundle before a step
LEMMA BeforeStep ==
  ASSUME SleepNodeOpens, PresetInv
  PROVE  /\ tab \in TabType /\ dev \in DevType /\ ChipInv(dev) /\ TableInv
         /\ \A bad \in OpenFailures : "sleep" \notin bad
  BY DEF PresetInv, TableInv, TypeOK, TabType, SleepNodeOpens

\* The three kinds of calls that evaluate the stream that is recorded: each leaves
\* it tuned.
LEMMA ReleaseTunes ==
  ASSUME SleepNodeOpens, PresetInv, TableInv', NEW s \in Sessions, Recording(s)',
         dev'.ioHandle = dev.ioHandle, NEW p \in Effects, AdncRelease(s, p)
  PROVE  TunedAfter(s)
<1> DEFINE t == [tab EXCEPT ![s] = ReleaseEffect(@, p)]
           h == tab[s].ioHandle
<1>1. PICK bad \in OpenFailures : dev' = Reevaluate(dev, t, h, bad)
  BY DEF AdncRelease
<1>2. h \in Handles
  BY BeforeStep DEF AdncRelease, TableInv, SessionsConsistent, FreeSession, TabType,
                    SessionType
<1>3. /\ t[s].ioHandle = h
      /\ \A q \in Sessions \ {s} : t[q] = tab[q]
      /\ t[s].created = {} => tab'[s] = FreeSession
      /\ t[s].created # {} => tab'[s] = t[s]
  BY BeforeStep, ReleaseChanges
<1>4. SessionsOf(tab, h) = {s}
  BY BeforeStep, <1>2, ConstantsAssumption, TheSession
<1> HIDE DEF t
<1>5. SessionsOf(t, h) = {s}
  BY <1>3, <1>4 DEF SessionsOf
<1>6. dev'.requested_preset = dev.requested_preset
  BY BeforeStep, <1>1, ReevaluateEffect
<1>7. tab'[s] = t[s] /\ t[s].active # {} /\ h = dev.ioHandle
  BY RecordedAfter, <1>3 DEF FreeSession, Recording
<1>8. dev'.current_preset # "OFF" /\ dev'.fd["ns"] = "open" =>
        dev'.node["ns"] = NsLevel("NS" \in t[s].active, dev.requested_preset)
  BY BeforeStep, <1>1, <1>2, <1>5, <1>7, ReevaluateAwake
<1> QED
  BY <1>6, <1>7, <1>8 DEF TunedAfter

LEMMA UseTunes ==
  ASSUME SleepNodeOpens, PresetInv, TableInv', NEW s \in Sessions, Recording(s)',
         NEW preset \in Presets, UsePreset(preset)
  PROVE  TunedAfter(s)
<1> DEFINE d == [dev EXCEPT !.requested_preset = preset]
<1>1. PICK bad \in OpenFailures : dev' = Reevaluate(d, tab, dev.ioHandle, bad)
  BY DEF UsePreset
<1>2. /\ d \in DevType /\ ChipInv(d) /\ d.ioHandle = dev.ioHandle
      /\ d.requested_preset = preset
  BY BeforeStep, ConstantsAssumption DEF DevType, ChipInv
<1>3. tab' = tab
  BY DEF UsePreset
<1> HIDE DEF d
<1>4. dev'.requested_preset = preset /\ dev'.ioHandle = dev.ioHandle
  BY BeforeStep, <1>1, <1>2, ReevaluateEffect
<1>5. dev'.current_preset # "OFF" /\ dev'.fd["ns"] = "open" =>
        dev'.node["ns"] = NsLevel("NS" \in tab[s].active, preset)
  BY BeforeStep, RecordedAfter, <1>1, <1>2, <1>3, <1>4, ReevaluateAwake
<1> QED
  BY <1>3, <1>4, <1>5 DEF TunedAfter

LEMMA MarkTunes ==
  ASSUME SleepNodeOpens, PresetInv, TableInv', NEW s \in Sessions, Recording(s)',
         dev'.ioHandle = dev.ioHandle, NEW type,
         AddEffect(dev.ioHandle, type) \/ RemoveEffect(dev.ioHandle, type)
  PROVE  TunedAfter(s)
<1>1. PICK bad \in OpenFailures : dev' = Reevaluate(dev, tab', dev.ioHandle, bad)
  BY DEF AddEffect, RemoveEffect, MarkEffects
<1>2. dev'.requested_preset = dev.requested_preset
  BY BeforeStep, <1>1, ReevaluateEffect
<1>3. dev'.current_preset # "OFF" /\ dev'.fd["ns"] = "open" =>
        dev'.node["ns"] = NsLevel("NS" \in tab'[s].active, dev.requested_preset)
  BY BeforeStep, RecordedAfter, <1>1, ReevaluateAwake
<1> QED
  BY <1>2, <1>3 DEF TunedAfter

\* A step of NsFollowsEffect
FollowsStep ==
  \A s \in Sessions :
    /\ Recording(s)' /\ dev'.ioHandle = dev.ioHandle
    /\ \/ tab'[s].active # tab[s].active
       \/ dev'.requested_preset # dev.requested_preset
    => TunedAfter(s)

LEMMA NsStep ==
  ASSUME SleepNodeOpens, PresetInv, TableInv', [Next]_vars
  PROVE  FollowsStep
<1>0. /\ tab \in TabType /\ dev \in DevType /\ ChipInv(dev) /\ TableInv
      /\ \A bad \in OpenFailures : "sleep" \notin bad
  BY BeforeStep
<1> SUFFICES ASSUME NEW s \in Sessions, Recording(s)', dev'.ioHandle = dev.ioHandle,
                    \/ tab'[s].active # tab[s].active
                    \/ dev'.requested_preset # dev.requested_preset
             PROVE  TunedAfter(s)
  BY DEF FollowsStep
<1>1. ASSUME NEW h \in Handles, NEW p \in Effects, AdncCreate(h, p) PROVE FALSE
  <2>1. PICK r \in Sessions :
          /\ \A q \in Sessions \ {r} : tab'[q] = tab[q]
          /\ tab'[r].active = tab[r].active
    BY <1>0, <1>1, CreateChanges
  <2> QED
    BY <1>1, <2>1 DEF AdncCreate
<1>2. ASSUME NEW r \in Sessions, NEW p \in Effects, AdncRelease(r, p) PROVE TunedAfter(s)
  <2>1. PICK bad \in OpenFailures :
          dev' = Reevaluate(dev, [tab EXCEPT ![r] = ReleaseEffect(@, p)],
                            tab[r].ioHandle, bad)
    BY <1>2 DEF AdncRelease
  <2>2. dev'.requested_preset = dev.requested_preset
    BY <1>0, <2>1, ReevaluateEffect
  <2>3. \A q \in Sessions \ {r} : tab'[q] = tab[q]
    BY <1>0, <1>2, ReleaseChanges
  <2>4. r = s
    BY <2>2, <2>3
  <2> QED
    BY <1>2, <2>4, ReleaseTunes
<1>3. ASSUME NEW r \in Sessions, NEW p \in Effects, NEW state \in {"CONFIG", "ACTIVE"},
             Command(r, p, state)
      PROVE  FALSE
  BY <1>0, <1>3 DEF Command, TabType, SessionType
<1>4. ASSUME NEW preset \in Presets, UsePreset(preset) PROVE TunedAfter(s)
  BY <1>4, UseTunes
<1>5. ASSUME NEW on \in VeqInputs, SetVeq(on) PROVE FALSE
  <2>1. PICK bad \in OpenFailures : dev' = Write(dev, "veq", Bit(on), bad)
    BY <1>5 DEF SetVeq, SetVeqInt
  <2>2. Bit(on) \in NodeValues
    BY DEF Bit, NodeValues
  <2>3. SamePreset(dev, dev')
    BY <1>0, <2>1, <2>2, WriteTuning
  <2> QED
    BY <1>5, <2>3 DEF SamePreset, SetVeq
<1>6. ASSUME NEW h \in Handles \cup {NoHandle}, SetActiveIoHandle(h) PROVE FALSE
  <2>1. PICK bad \in OpenFailures :
          dev' = [Reevaluate(dev, tab, h, bad) EXCEPT
                    !.ioHandle = IF ReevaluateOk(dev, tab, h, bad) THEN h ELSE @]
    BY <1>6 DEF SetActiveIoHandle
  <2> DEFINE e == Reevaluate(dev, tab, h, bad)
  <2>2. e \in DevType /\ e.requested_preset = dev.requested_preset
    BY <1>0, ReevaluateType, ReevaluateEffect
  <2> HIDE DEF e
  <2>3. dev'.requested_preset = dev.requested_preset
    BY <2>1, <2>2 DEF DevType, e
  <2> QED
    BY <1>6, <2>3 DEF SetActiveIoHandle
<1>7. ASSUME NEW h \in Handles, NEW type \in ProcIds \cup {Other},
             AddEffect(h, type) \/ RemoveEffect(h, type)
      PROVE  TunedAfter(s)
  <2>1. PICK r \in Sessions : \/ MarkEffects(r, h, tab[r].active \cup {type})
                             \/ MarkEffects(r, h, tab[r].active \ {type})
    BY <1>7 DEF AddEffect, RemoveEffect
  <2>2. PICK bad \in OpenFailures : dev' = Reevaluate(dev, tab', h, bad)
    BY <2>1 DEF MarkEffects
  <2>3. dev'.requested_preset = dev.requested_preset
    BY <1>0, <2>2, ReevaluateEffect
  <2>4. tab'[r].ioHandle = h /\ \A q \in Sessions \ {r} : tab'[q] = tab[q]
    BY <1>0, <2>1 DEF MarkEffects, Claimed, TabType, SessionType
  <2>5. h = dev.ioHandle
    BY <2>3, <2>4 DEF Recording
  <2> QED
    BY <1>7, <2>5, MarkTunes
<1>8. CASE Release
  <2>1. PICK bad \in OpenFailures :
          dev' = [Sleep(dev, bad) EXCEPT !.fd = [c \in Ctrls |-> "closed"]]
    BY <1>8 DEF Release
  <2>2. dev'.fd["ns"] = "closed"
    BY <1>0, <2>1, SleepType DEF DevType, Ctrls
  <2> QED
    BY <2>2 DEF TunedAfter
<1>9. CASE UNCHANGED vars
  BY <1>9 DEF vars
<1> QED
  BY <1>1, <1>2, <1>3, <1>4, <1>5, <1>6, <1>7, <1>8, <1>9 DEF Next

\* Whatever changes the effects of a recording or the preset it is on leaves
\* noise suppression at the level that both call for, for any streams, sessions
\* and failing controls (Adnc_ApplySettingsFromSession_l, Adnc_SetNoiseSuppressionInt_l).
THEOREM NoiseSuppressionFollows ==
  ASSUME SleepNodeOpens
  PROVE  Spec => NsFollowsEffect
<1>1. PresetInv /\ TableInv' /\ [Next]_vars => [FollowsStep]_vars
  BY NsStep
<1>2. Spec => [][FollowsStep]_vars
  BY <1>1, PresetInvariant, TableInvariant, PTL DEF Spec
<1>3. FollowsStep =>
        \A s \in Sessions :
          /\ Recording(s)' /\ dev'.ioHandle = dev.ioHandle
          /\ dev'.current_preset # "OFF" /\ dev'.fd["ns"] = "open"
          /\ \/ tab'[s].active # tab[s].active
             \/ dev'.requested_preset # dev.requested_preset
          => dev'.node["ns"] = NsLevel("NS" \in tab'[s].active, dev'.requested_preset)
  BY DEF FollowsStep, TunedAfter
<1> QED
  BY <1>2, <1>3, PTL DEF NsFollowsEffect

-----------------------------------------------------------------------------
(* One stream.  Of two streams one can put the chip to sleep under the     *)
(* other, and what follows does not hold.                                  *)

OneStream == \A g, h \in Handles : g = h

\* What a step can do to a stream that is recorded with effects in use once the
\* step is done: to leave it and the preset as they were, to evaluate it again,
\* or to close the controls.
LEMMA OneStreamStep ==
  ASSUME OneStream, SleepNodeOpens, ForeignTypes = {}, PresetInv, EffectInv, TableInv',
         [Next]_vars, dev'.ioHandle \in Users'
  PROVE  \/ /\ dev.ioHandle \in Users /\ SamePreset(dev, dev')
         \/ PresetOpens(dev') \/ dev.current_preset # "OFF" =>
              dev'.current_preset = dev'.requested_preset
         \/ dev'.fd["vp"] = "closed" /\ dev'.current_preset = "OFF"
<1> DEFINE h == dev'.ioHandle
           Awake == PresetOpens(dev') \/ dev.current_preset # "OFF" =>
                      dev'.current_preset = dev'.requested_preset
           Kept == dev.ioHandle \in Users /\ SamePreset(dev, dev')
           Closed == dev'.fd["vp"] = "closed" /\ dev'.current_preset = "OFF"
<1> SUFFICES Awake \/ Kept \/ Closed
  OBVIOUS
<1>0. /\ tab \in TabType /\ dev \in DevType /\ ChipInv(dev) /\ TableInv
      /\ \A bad \in OpenFailures : "sleep" \notin bad
      /\ dev' \in DevType /\ NoHandle \notin Handles
      /\ \A g \in Handles : g = h
  BY ConstantsAssumption
  DEF PresetInv, TableInv, TypeOK, TabType, SleepNodeOpens, OneStream, Users
<1>a. PICK s \in Sessions : /\ tab'[s].ioHandle = h /\ tab'[s].active # {}
                            /\ h \in Handles /\ SessionsOf(tab', h) = {s}
  BY <1>0 DEF Users, SessionsOf, TableInv, OneSessionPerHandle
<1>1. ASSUME NEW g \in Handles, NEW p \in Effects, AdncCreate(g, p) PROVE Kept
  BY <1>0, <1>1, CreateKeepsUsers DEF AdncCreate, SamePreset
<1>2. ASSUME NEW r \in Sessions, NEW p \in Effects, AdncRelease(r, p) PROVE Awake
  <2> DEFINE t == [tab EXCEPT ![r] = ReleaseEffect(@, p)]
             g == tab[r].ioHandle
  <2>1. PICK bad \in OpenFailures : dev' = Reevaluate(dev, t, g, bad)
    BY <1>2 DEF AdncRelease
  <2>2. g \in Handles
    BY <1>0, <1>2 DEF AdncRelease, TableInv, SessionsConsistent, FreeSession,
                      TabType, SessionType
  <2>3. g = h
    BY <1>0, <2>2
  <2>4. /\ t[r].ioHandle = g
        /\ \A q \in Sessions \ {r} : t[q] = tab[q] /\ tab'[q] = tab[q]
        /\ t[r].created = {} => tab'[r] = FreeSession
        /\ t[r].created # {} => tab'[r] = t[r]
    BY <1>0, <1>2, ReleaseChanges
  <2>5. SessionsOf(tab, g) = {r}
    BY <1>0, <2>2, TheSession
  <2> HIDE DEF t, g
  <2>6. SessionsOf(t, g) = {r}
    BY <2>4, <2>5 DEF SessionsOf
  <2>7. r = s
    BY <1>a, <2>3, <2>4, <2>5 DEF SessionsOf
  <2>8. t[r].active # {}
    BY <1>a, <2>4, <2>7 DEF FreeSession
  <2>9. dev'.requested_preset = dev.requested_preset
    BY <1>0, <2>1, ReevaluateEffect
  <2> QED
    BY <1>0, <2>1, <2>2, <2>6, <2>8, <2>9, ReevaluateAwake
<1>3. ASSUME NEW r \in Sessions, NEW p \in Effects, NEW state \in {"CONFIG", "ACTIVE"},
             Command(r, p, state)
      PROVE  Kept
  BY <1>0, <1>3, CommandKeepsUsers DEF Command, SamePreset
<1>4. ASSUME NEW preset \in Presets, UsePreset(preset) PROVE Awake
  <2> DEFINE d == [dev EXCEPT !.requested_preset = preset]
  <2>1. PICK bad \in OpenFailures : dev' = Reevaluate(d, tab, dev.ioHandle, bad)
    BY <1>4 DEF UsePreset
  <2>2. /\ d \in DevType /\ ChipInv(d) /\ d.ioHandle = dev.ioHandle
        /\ d.requested_preset = preset /\ d.current_preset = dev.current_preset
    BY <1>0, ConstantsAssumption DEF DevType, ChipInv
  <2>3. tab' = tab
    BY <1>4 DEF UsePreset
  <2> HIDE DEF d
  <2>4. dev'.requested_preset = preset /\ dev'.ioHandle = dev.ioHandle
    BY <1>0, <2>1, <2>2, ReevaluateEffect
  <2> QED
    BY <1>0, <1>a, <2>1, <2>2, <2>3, <2>4, ReevaluateAwake
<1>5. ASSUME NEW on \in VeqInputs, SetVeq(on) PROVE Kept
  <2>1. PICK bad \in OpenFailures : dev' = Write(dev, "veq", Bit(on), bad)
    BY <1>5 DEF SetVeq, SetVeqInt
  <2>2. Bit(on) \in NodeValues
    BY DEF Bit, NodeValues
  <2>3. SamePreset(dev, dev')
    BY <1>0, <2>1, <2>2, WriteTuning
  <2>4. Users' = Users
    BY <1>5 DEF SetVeq, Users, SessionsOf
  <2> QED
    BY <2>3, <2>4 DEF SamePreset
<1>6. ASSUME NEW g \in Handles \cup {NoHandle}, SetActiveIoHandle(g) PROVE Awake
  <2>1. PICK bad \in OpenFailures :
          dev' = [Reevaluate(dev, tab, g, bad) EXCEPT
                    !.ioHandle = IF ReevaluateOk(dev, tab, g, bad) THEN g ELSE @]
    BY <1>6 DEF SetActiveIoHandle
  <2> DEFINE e == Reevaluate(dev, tab, g, bad)
  <2>2. e \in DevType /\ e.requested_preset = dev.requested_preset /\ e.ioHandle = dev.ioHandle
    BY <1>0, ReevaluateType, ReevaluateEffect
  <2>3. tab' = tab
    BY <1>6 DEF SetActiveIoHandle
  <2>4. g \in Handles => (PresetOpens(e) \/ dev.current_preset # "OFF" =>
                            e.current_preset = dev.requested_preset)
    BY <1>0, <1>a, <2>3, ReevaluateAwake
  <2> HIDE DEF e
  <2>5. /\ dev'.ioHandle = IF ReevaluateOk(dev, tab, g, bad) THEN g ELSE dev.ioHandle
        /\ dev'.requested_preset = dev.requested_preset
        /\ dev'.current_preset = e.current_preset /\ dev'.fd = e.fd
    BY <2>1, <2>2 DEF DevType, e
  <2>6. g # NoHandle
    <3>1. ASSUME g = NoHandle PROVE ReevaluateOk(dev, tab, g, bad)
      BY <1>0, <3>1 DEF ReevaluateOk, MustSleep, SleepOk, CanWrite
    <3> QED
      BY <1>0, <1>a, <2>5, <3>1
  <2> QED
    BY <2>4, <2>5, <2>6 DEF PresetOpens
<1>7. ASSUME NEW g \in Handles, NEW type \in ProcIds \cup {Other},
             AddEffect(g, type) \/ RemoveEffect(g, type)
      PROVE  Awake
  <2>1. PICK r \in Sessions :
          \/ MarkEffects(r, g, tab[r].active \cup {type})
          \/ MarkEffects(r, g, tab[r].active \ {type})
    BY <1>7 DEF AddEffect, RemoveEffect
  <2>2. PICK bad \in OpenFailures : dev' = Reevaluate(dev, tab', g, bad)
    BY <2>1 DEF MarkEffects
  <2>3. dev'.requested_preset = dev.requested_preset
    BY <1>0, <2>2, ReevaluateEffect
  <2> QED
    BY <1>0, <1>a, <2>2, <2>3, ReevaluateAwake
<1>8. CASE Release
  <2>1. PICK bad \in OpenFailures :
          dev' = [Sleep(dev, bad) EXCEPT !.fd = [c \in Ctrls |-> "closed"]]
    BY <1>8 DEF Release
  <2>2. Sleep(dev, bad) \in DevType /\ Sleep(dev, bad).current_preset = "OFF"
    BY <1>0, SleepType, SleepEffect
  <2>3. Closed
    BY <2>1, <2>2 DEF DevType, Ctrls
  <2> QED
    BY <2>3
<1>9. CASE UNCHANGED vars
  BY <1>9 DEF vars, SamePreset, Users, SessionsOf
<1> QED
  BY <1>1, <1>2, <1>3, <1>4, <1>5, <1>6, <1>7, <1>8, <1>9 DEF Next

\* With one stream every call that evaluates a stream tunes it if it is recorded,
\* and a new effect leaves the recording as it was.
LEMMA OneStreamTunes ==
  ASSUME OneStream, SleepNodeOpens, PresetInv, TableInv', NEW s \in Sessions,
         Recording(s)', dev'.ioHandle = dev.ioHandle,
         \/ \E r \in Sessions, p \in Effects : AdncRelease(r, p)
         \/ \E h \in Handles, type \in Effects : AddEffect(h, type) \/ RemoveEffect(h, type)
  PROVE  TunedAfter(s)
<1>0. dev.ioHandle \in Handles /\ \A h \in Handles : h = dev.ioHandle
  BY RecordedAfter DEF OneStream
<1>1. ASSUME NEW r \in Sessions, NEW p \in Effects, AdncRelease(r, p) PROVE TunedAfter(s)
  <2>1. tab[r].ioHandle = dev.ioHandle
    BY <1>0, <1>1, BeforeStep DEF AdncRelease, TableInv, SessionsConsistent, FreeSession,
                                  TabType, SessionType
  <2>2. SessionsOf(tab, dev.ioHandle) = {r}
    BY <1>0, <2>1, BeforeStep, ConstantsAssumption, TheSession
  <2>3. \A q \in Sessions \ {r} : tab'[q] = tab[q]
    BY <1>1, BeforeStep, ReleaseChanges
  <2>4. r = s
    BY <2>2, <2>3 DEF SessionsOf, Recording
  <2> QED
    BY <1>1, <2>4, ReleaseTunes
<1>2. ASSUME NEW h \in Handles, NEW type \in Effects,
             AddEffect(h, type) \/ RemoveEffect(h, type)
      PROVE  TunedAfter(s)
  BY <1>0, <1>2, MarkTunes
<1> QED
  BY <1>1, <1>2

LEMMA CreateKeepsRecording ==
  ASSUME TableInv, NEW h \in Handles, NEW p \in Effects, AdncCreate(h, p),
         NEW s \in Sessions, Recording(s)'
  PROVE  Recording(s) /\ tab'[s].active = tab[s].active
<1>1. PICK r \in Sessions :
        /\ tab[r].ioHandle = h \/ tab[r] = FreeSession
        /\ \A q \in Sessions \ {r} : tab'[q] = tab[q]
        /\ tab'[r].active = tab[r].active
        /\ \/ tab'[r].ioHandle = h /\ tab'[r].created = tab[r].created \cup {p}
           \/ tab'[r].ioHandle = tab[r].ioHandle /\ tab'[r].created = tab[r].created
  BY CreateChanges
<1>2. dev' = dev
  BY DEF AdncCreate
<1> QED
  BY <1>1, <1>2 DEF Recording, FreeSession

\* The chip is on the preset asked for or asleep, and a recording with effects
\* in use is on it if the controls of the presets are there.
OnRequest ==
  /\ dev.current_preset \in {"OFF", dev.requested_preset}
  /\ dev.ioHandle \in Users /\ PresetOpens(dev) =>
       dev.current_preset = dev.requested_preset

LEMMA OnRequestStep ==
  ASSUME OneStream, SleepNodeOpens, ForeignTypes = {}, PresetInv, EffectInv, TableInv',
         AwakeOnlyForEffect, [Next]_vars, OnRequest
  PROVE  OnRequest'
<1>1. dev'.current_preset \in {"OFF", dev'.requested_preset}
  <2>1. Users = {} => dev.current_preset = "OFF"
    BY DEF Users, SessionsOf, AwakeOnlyForEffect, PresetInv, TableInv, TypeOK, TabType,
           SessionType, SessionsConsistent, FreeSession
  <2>2. \A g, h \in Handles : g \in Users \/ h \notin Users
    BY DEF OneStream
  <2>3. Users \subseteq Handles
    BY DEF Users
  <2>4. dev.ioHandle \in Handles \cup {NoHandle}
    BY DEF PresetInv, TableInv, TypeOK, DevType
  <2>5. [Policy!Next]_(Policy!vars)
    BY PolicyStep
  <2>6. CASE \E preset \in Presets : Policy!Ask(preset)
    BY <2>1, <2>2, <2>3, <2>4, <2>6 DEF Policy!Ask
  <2>7. CASE \E h \in Handles : Policy!Record(h)
    BY <2>1, <2>2, <2>3, <2>7 DEF Policy!Record
  <2> QED
    BY <2>5, <2>6, <2>7
    DEF Policy!Next, Policy!vars, Policy!Stop, Policy!Use, Policy!Leave, OnRequest
<1>2. ASSUME dev'.ioHandle \in Users', PresetOpens(dev')
      PROVE  dev'.current_preset = dev'.requested_preset
  <2>1. CASE dev.ioHandle \in Users /\ SamePreset(dev, dev')
    BY <1>2, <2>1 DEF SamePreset, OnRequest, PresetOpens
  <2> QED
    BY <1>2, <2>1, OneStreamStep DEF PresetOpens
<1> QED
  BY <1>1, <1>2 DEF OnRequest

LEMMA OnRequestInvariant ==
  ASSUME OneStream, SleepNodeOpens, ForeignTypes = {}
  PROVE  Spec => []OnRequest
<1>1. Init => OnRequest
  BY DEF Init, InitDev, OnRequest, Users, SessionsOf, FreeSession
<1>2. PresetInv /\ EffectInv /\ TableInv' /\ AwakeOnlyForEffect /\ OnRequest /\ [Next]_vars
        => OnRequest'
  BY OnRequestStep
<1> QED
  BY <1>1, <1>2, PresetInvariant, EffectInvariant, TableInvariant, AwakeForEffects, PTL
  DEF Spec

KeepsStep ==
  \A s \in Sessions :
    /\ Recording(s) /\ Recording(s)'
    /\ dev.current_preset # "OFF" /\ dev'.requested_preset # "OFF"
    /\ dev'.fd["vp"] # "closed"
    => dev'.current_preset # "OFF"

LEMMA KeepsOneStep ==
  ASSUME OneStream, SleepNodeOpens, ForeignTypes = {}, PresetInv, EffectInv, TableInv',
         [Next]_vars
  PROVE  KeepsStep
<1> SUFFICES ASSUME NEW s \in Sessions, Recording(s)', dev.current_preset # "OFF",
                    dev'.requested_preset # "OFF", dev'.fd["vp"] # "closed"
             PROVE  dev'.current_preset # "OFF"
  BY DEF KeepsStep
<1>1. dev'.ioHandle \in Users'
  BY DEF Recording, Users, SessionsOf, TableInv, TypeOK, DevType
<1> QED
  BY <1>1, OneStreamStep DEF SamePreset

\* With one stream, nothing but the release of the bundle puts the chip to sleep
\* under a recording whose effects stay in use: neither a change of its effects
\* or of the preset, nor a control that fails to open (Adnc_ReevaluateUsageInt_l).
THEOREM OneRecordingStaysAwake ==
  ASSUME OneStream, SleepNodeOpens, ForeignTypes = {}
  PROVE  Spec => RecordingKeepsPreset
<1>1. PresetInv /\ EffectInv /\ TableInv' /\ [Next]_vars => [KeepsStep]_vars
  BY KeepsOneStep
<1>2. Spec => [][KeepsStep]_vars
  BY <1>1, PresetInvariant, EffectInvariant, TableInvariant, PTL DEF Spec
<1> QED
  BY <1>2, PTL DEF RecordingKeepsPreset, KeepsStep

-----------------------------------------------------------------------------
(* Until eS325_Release closes it, the sleep control has a descriptor, even *)
(* if not the chip's, and whether it would open does not matter.           *)

SleepHeld(d) == d \in DevType /\ d.fd["sleep"] # "closed"

Without(bad) == bad \ {"sleep"}

LEMMA HeldWrite ==
  ASSUME NEW d, SleepHeld(d), NEW c \in Ctrls, NEW v \in NodeValues, NEW bad
  PROVE  /\ CanWrite(d, c, Without(bad)) <=> CanWrite(d, c, bad)
         /\ Write(d, c, v, Without(bad)) = Write(d, c, v, bad)
         /\ SleepHeld(Write(d, c, v, bad))
<1>1. CanWrite(d, c, Without(bad)) <=> CanWrite(d, c, bad)
  BY DEF CanWrite, Without, SleepHeld
<1>2. Write(d, c, v, Without(bad)) = Write(d, c, v, bad)
  BY <1>1 DEF Write
<1>3. Write(d, c, v, bad).fd["sleep"] # "closed"
  BY DEF Write, SleepHeld, DevType, Ctrls
<1> QED
  BY <1>1, <1>2, <1>3, WriteType DEF SleepHeld

LEMMA HeldSleep ==
  ASSUME NEW d, SleepHeld(d), NEW bad
  PROVE  /\ SleepOk(d, Without(bad)) <=> SleepOk(d, bad)
         /\ SleepOk(d, bad)
         /\ Sleep(d, Without(bad)) = Sleep(d, bad)
         /\ SleepHeld(Sleep(d, bad))
<1> DEFINE quiet(b) == SetVoiceProcessing(d, FALSE, b)
           gone(b) == Write(quiet(b), "sleep", "1", b)
<1>0. /\ "vp" \in Ctrls /\ "sleep" \in Ctrls
      /\ Bit(FALSE) \in NodeValues /\ "1" \in NodeValues
  BY DEF Ctrls, NodeValues, Bit
<1>1. quiet(Without(bad)) = quiet(bad) /\ SleepHeld(quiet(bad))
  BY <1>0, HeldWrite DEF SetVoiceProcessing
<1> HIDE DEF quiet
<1>2. gone(Without(bad)) = gone(bad) /\ SleepHeld(gone(bad))
  BY <1>0, <1>1, HeldWrite
<1> HIDE DEF gone
<1>3. SleepOk(d, Without(bad)) /\ SleepOk(d, bad)
  BY DEF SleepOk, CanWrite, SleepHeld
<1>4. \A b : Sleep(d, b) = IF d.current_preset = "OFF" THEN d
                           ELSE IF ~SleepOk(d, b) THEN quiet(b)
                           ELSE [gone(b) EXCEPT !.current_preset = "OFF"]
  BY DEF Sleep, gone, quiet
<1>5. SleepHeld([gone(bad) EXCEPT !.current_preset = "OFF"])
  BY <1>2 DEF SleepHeld, DevType, PresetIds
<1> QED
  BY <1>1, <1>2, <1>3, <1>4, <1>5

LEMMA HeldApply ==
  ASSUME NEW d, SleepHeld(d), NEW bad
  PROVE  /\ ApplyPresetOk(d, Without(bad)) <=> ApplyPresetOk(d, bad)
         /\ ApplyPreset(d, Without(bad)) = ApplyPreset(d, bad)
         /\ SleepHeld(ApplyPreset(d, bad))
<1> DEFINE asleep == d.current_preset \in {"OFF", "INIT"}
           on(b) == IF asleep THEN SetVoiceProcessing(d, TRUE, b) ELSE d
           set(b) == Write(on(b), "preset", d.requested_preset, b)
<1>0. /\ "vp" \in Ctrls /\ "preset" \in Ctrls /\ Bit(TRUE) \in NodeValues
      /\ d.requested_preset \in PresetIds /\ d.requested_preset \in NodeValues
  BY DEF Ctrls, NodeValues, Bit, SleepHeld, DevType
<1>1. /\ CanWrite(d, "vp", Without(bad)) <=> CanWrite(d, "vp", bad)
      /\ CanWrite(d, "preset", Without(bad)) <=> CanWrite(d, "preset", bad)
  BY <1>0, HeldWrite
<1>2. ApplyPresetOk(d, Without(bad)) <=> ApplyPresetOk(d, bad)
  BY <1>1, HeldSleep DEF ApplyPresetOk
<1>3. on(Without(bad)) = on(bad) /\ SleepHeld(on(bad))
  BY <1>0, HeldWrite DEF SetVoiceProcessing
<1> HIDE DEF on
<1>4. set(Without(bad)) = set(bad) /\ SleepHeld(set(bad))
  BY <1>0, <1>3, HeldWrite
<1> HIDE DEF set
<1>5. \A b : ApplyPreset(d, b) = IF d.requested_preset = d.current_preset THEN d
                                 ELSE IF d.requested_preset = "OFF" THEN Sleep(d, b)
                                 ELSE IF ~ApplyPresetOk(d, b) THEN on(b)
                                 ELSE [set(b) EXCEPT !.current_preset = d.requested_preset]
  BY DEF ApplyPreset, on, set
<1>6. SleepHeld([set(bad) EXCEPT !.current_preset = d.requested_preset])
  BY <1>0, <1>4 DEF SleepHeld, DevType
<1> QED
  BY <1>2, <1>3, <1>4, <1>5, <1>6, HeldSleep

LEMMA HeldSettings ==
  ASSUME NEW d, SleepHeld(d), NEW ssn, NEW bad
  PROVE  /\ ApplySettingsOk(d, ssn, Without(bad)) <=> ApplySettingsOk(d, ssn, bad)
         /\ ApplySettingsFromSession(d, ssn, Without(bad))
              = ApplySettingsFromSession(d, ssn, bad)
         /\ SleepHeld(ApplySettingsFromSession(d, ssn, bad))
<1> DEFINE both == ssn.created \cap ssn.active
           ns(b) == SetNoiseSuppression(d, "NS" \in ssn.active, b)
           aec(b) == IF "AEC" \in both THEN SetEchoCancellation(ns(b), TRUE, b) ELSE ns(b)
           agc(b) == IF "AGC" \in both THEN SetAutomaticGainControl(aec(b), TRUE, b)
                     ELSE aec(b)
<1>0. /\ "ns" \in Ctrls /\ "aec" \in Ctrls /\ "agc" \in Ctrls /\ Bit(TRUE) \in NodeValues
      /\ NsLevel("NS" \in ssn.active, d.requested_preset) \in NodeValues
  BY DEF Ctrls, NodeValues, Bit, NsLevel
<1>1. ApplySettingsOk(d, ssn, Without(bad)) <=> ApplySettingsOk(d, ssn, bad)
  BY <1>0, HeldWrite DEF ApplySettingsOk
<1>2. ns(Without(bad)) = ns(bad) /\ SleepHeld(ns(bad))
  BY <1>0, HeldWrite DEF SetNoiseSuppression
<1> HIDE DEF ns
<1>3. aec(Without(bad)) = aec(bad) /\ SleepHeld(aec(bad))
  <2>1. /\ SetEchoCancellation(ns(bad), TRUE, Without(bad))
             = SetEchoCancellation(ns(bad), TRUE, bad)
        /\ SleepHeld(SetEchoCancellation(ns(bad), TRUE, bad))
    BY <1>0, <1>2, HeldWrite DEF SetEchoCancellation
  <2> QED
    BY <1>2, <2>1
<1> HIDE DEF aec
<1>4. agc(Without(bad)) = agc(bad) /\ SleepHeld(agc(bad))
  <2>1. /\ SetAutomaticGainControl(aec(bad), TRUE, Without(bad))
             = SetAutomaticGainControl(aec(bad), TRUE, bad)
        /\ SleepHeld(SetAutomaticGainControl(aec(bad), TRUE, bad))
    BY <1>0, <1>3, HeldWrite DEF SetAutomaticGainControl
  <2> QED
    BY <1>3, <2>1
<1> HIDE DEF agc
<1>5. \A b : ApplySettingsFromSession(d, ssn, b) = IF ssn.ioHandle # d.ioHandle THEN d ELSE agc(b)
  BY DEF ApplySettingsFromSession, agc, aec, ns, both
<1> QED
  BY <1>1, <1>4, <1>5

\* An evaluation of the usage does the same whether or not the sleep node would
\* open, and leaves the descriptor as it is.
LEMMA HeldReevaluate ==
  ASSUME NEW d, SleepHeld(d), NEW t, NEW h, NEW bad
  PROVE  /\ ReevaluateOk(d, t, h, Without(bad)) <=> ReevaluateOk(d, t, h, bad)
         /\ Reevaluate(d, t, h, Without(bad)) = Reevaluate(d, t, h, bad)
         /\ SleepHeld(Reevaluate(d, t, h, bad))
<1> DEFINE s == SessionNumberForHandle(t, h)
           e(b) == ApplyPreset(d, b)
<1>1. e(Without(bad)) = e(bad) /\ SleepHeld(e(bad))
  BY HeldApply
<1> HIDE DEF e
<1>2. /\ ApplySettingsOk(e(bad), t[s], Without(bad)) <=> ApplySettingsOk(e(bad), t[s], bad)
      /\ ApplySettingsFromSession(e(bad), t[s], Without(bad))
           = ApplySettingsFromSession(e(bad), t[s], bad)
      /\ SleepHeld(ApplySettingsFromSession(e(bad), t[s], bad))
  BY <1>1, HeldSettings
<1>3. \A b : ReevaluateOk(d, t, h, b) <=>
               IF MustSleep(d, t, h) THEN SleepOk(d, b)
               ELSE \/ s = NoSession
                    \/ ApplyPresetOk(d, b) /\ ApplySettingsOk(e(b), t[s], b)
  BY DEF ReevaluateOk, e
<1>4. \A b : Reevaluate(d, t, h, b) =
               IF MustSleep(d, t, h) THEN Sleep(d, b)
               ELSE IF s = NoSession THEN d
               ELSE IF ApplyPresetOk(d, b) THEN ApplySettingsFromSession(e(b), t[s], b)
               ELSE e(b)
  BY DEF Reevaluate, e
<1> HIDE DEF s
<1> QED
  BY <1>1, <1>2, <1>3, <1>4, HeldSleep, HeldApply

=============================================================================
