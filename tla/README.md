# Verification of the Galaxy S4 (i9500) device code

The repository is the device tree of the Samsung Galaxy S4 (Exynos 5410) for
CyanogenMod: hardware abstraction libraries (HALs) in C and C++, init scripts,
overlays and configuration. This directory holds TLA+ models of the code that
keeps state, the TLC runs that check them on small instances, and TLAPS proofs
of the properties that matter most for every value of the constants.

To repeat the work: `tlc -config <run>.cfg <MC module>` for a run of
`PROJECT.json`, `tlapm <X>_proofs.tla` for the proofs.

## 1. The system

### Components

| component | state | operations |
|---|---|---|
| Audio HAL, `audio/audio_hw.c` with the table in `audio/routing.h` | `struct audio_device`: devices, source, mode, cached route, preset, PCMs of a call and of SCO; per stream: standby, device, source, PCM | open, close, write/read, standby, set_parameters of streams; set_mode, volumes, mute, parameters of the device |
| its capture data path | per input: the period read ahead, the volume ramp, the read status | `in_read`, `read_frames`, `get_next_buffer`, `release_buffer` |
| eS325 bundle, `audio/eS325VoiceProcessing.cpp` | the control block `eS325_ctrl`, the session table `sAdncSessions` | the effect library (create, release, command) and the calls `eS325_*` of the audio HAL |
| RIL client glue, `audio/ril_interface.c` | library handle, client, function pointers, callback | open, close, connect when needed, volume, path, clock, mute, two microphones |
| Lights HAL, `liblights/lights.c` | the stored battery state, the nodes, `g_lock` | set of each of five lights |
| Consumer IR HAL, `consumerir/consumerir.c` | one descriptor for all devices, a growing buffer per call | open, transmit, close |
| Camera wrapper, `camera/CameraWrapper.cpp` | the vendor module, one parameter table for all cameras | open, close, set_parameters, calls passed on |
| USB gadget, `rootdir/etc/init.universal5410.usb.rc` | the gadget's nodes, adbd | one trigger per value of `sys.usb.config` |
| init, ueventd, fstab, charger, recovery; overlays; configuration; key layouts; SELinux; build files; vendored headers | none of their own | data read by other programs |

### How they interact

* The audio framework calls the audio HAL from several threads. Locks are taken
  in the order `adev->lock`, stream lock. Almost every entry point holds
  `adev->lock` while it changes the device; transfers run on the stream lock.
* `select_devices` drives the mixer (audio_route), the eS325 (`eS325_UsePreset`)
  and the modem (`ril_set_call_audio_path`). `start_input_stream`,
  `do_in_standby` and the effect calls of a stream drive the eS325's active
  handle and its sessions.
* The effects framework calls the eS325 bundle directly as an effect library.
  Both sides meet under `sAdncBundleLock`.
* The RIL client calls back (`adev_set_wb_amr_callback`) on a thread of its own,
  which takes `adev->lock`.
* The lights share the four nodes of one LED and one lock.

### What is hard

* Three independent things select a route (output, input source, mode), and one
  cached identifier decides whether anything is done about it.
* Several streams share a device, an SCO link and a chip. Any of them may leave
  first, and any PCM or sysfs node may fail to open.
* The eS325 keeps the preset asked for, the preset in use, the sessions and the
  active stream, changed by two unrelated callers in any order.
* Values are computed under one lock, or none, and used under another: the
  battery state of the lights, `mic_mute`, `mode`.
* Arithmetic that carries over between calls: the rest of a period, the ramp.

### What makes each component correct

* Audio HAL: the mixer, the modem and the preset are those of the current
  devices; the PCMs of a call follow the call; SCO runs in both directions or
  none; a stream never takes the route of another; a transfer keeps its PCM
  whatever other threads do, and no two calls wait for each other.
* Audio HAL and eS325 together: the preset that each of them believes in is the
  same one, and a recording is on the preset of its own route, tuned for its
  effects.
* Capture: every captured frame is handed out once, in order; the ramp rises and
  never wraps; a read ends; nothing of the microphone is heard when muted.
* eS325: one session per stream and no session lost; the chip is on the preset
  the code believes in; a recording stays on the preset asked for, is never
  moved between two ASRA presets, and is not put to sleep by others.
* Lights: a call's LED state is written as a whole; with no flash the LED shows
  the battery's state (which it may not, section 4); the lock comes back.
* RIL: a call has its volume and its clock, the wideband state settles, no
  callback into a freed device (which the code does not keep, section 4).
* Consumer IR: the buffer holds every pattern, and one growth is always enough;
  the transmitter gets every number, and none too short.
* Camera: the table outlives its users and each of its strings is freed once
  (which it is not with two cameras, section 4); a limit keeps its value through
  both conversions.
* USB: what a configuration means does not depend on the one before.

## 2. Modules

| module | models | uses |
|---|---|---|
| `PresetPolicy` | what the bundle promises: which preset the chip may be on, without sessions, controls or caches | |
| `ES325` | the bundle; implements `PresetPolicy` | `PresetPolicy` |
| `AudioRouting` | identifiers, the route table, the modem's path: pure operators | |
| `AudioHw` | routing, streams, mode, call and SCO | `AudioRouting` |
| `AudioLocks` | the threads of the HAL and its two kinds of lock | |
| `VoiceCapture` | the input streams of the HAL and the bundle, composed | `AudioRouting`, `ES325` |
| `CaptureStream` | the data path of one input | |
| `Lights` | the lights HAL | |
| `RilClient` | the RIL client and the calls of the audio HAL that use it | |
| `CameraWrapper` | the camera wrapper | |
| `ConsumerIr` | the consumer IR HAL | |
| `MC<X>` for each of these but AudioRouting and PresetPolicy | values of the constants for TLC | |
| `<X>_proofs` for the same ones but Lights and ConsumerIr | theorems | TLAPS; `VoiceCapture_proofs` uses `ES325_proofs` |
| `SmallHals_proofs` | theorems of Lights and ConsumerIr | TLAPS |

Definitions keep the names of the C functions where there is one; `PROJECT.json`
("map") gives the lines of each. A definition whose comment begins with
"broken:" is a plausible bug in the definition after it. Replacing the one by
the other makes the property named in "mutants" fail, so no property holds
whatever the code does.

**ES325.** `dev` is `eS325_ctrl`, with `dev.node` the last value that each sysfs
control received; `tab` is `sAdncSessions`. Each entry point holds
`sAdncBundleLock` from end to end and is one action; the exception is the effect
command, which only moves the state of one effect. `bad` is the set of controls
whose open fails in a call. A control opened once stays open, as in the code.
The descriptor of the sleep control starts as a "stray" one: the initialiser of
`fd` is one value short. Writes to open controls succeed.

**PresetPolicy** is the view that the HAL has of the bundle: a preset is asked
for, a stream starts or stops being recorded, effects of a stream come into use
and go. `ES325!Policy` is the refinement: the requested and current preset, the
active stream, and, as the streams that use the chip, those with a session whose
mask of active effects is not empty. The policy says which preset each kind of
step may leave the chip on; it lets the chip sleep at any step, because a
control that does not open leaves it so, and it wakes the chip only for the
stream that was re-evaluated, and on the preset last asked for.

**AudioHw.** `adev` is the device with the mixer (`ar`), the modem (`path`,
`clock`) and the preset; `outs` and `ins` are the streams; `io_handle` is the
last handle given to the eS325. Entry points hold `adev->lock` and are actions;
`adev_close_output_stream` takes the lock twice and is two. A PCM pointer is
"null", "open" or "stale" (closed, pointer kept). `Env` holds the outcomes of
what one call asks for: preset accepted, RIL client connected, PCMs that open.
`NrecValues` is what the framework says of the noise reduction of a Bluetooth
headset, which picks one of the modem's two Bluetooth paths.
Assumed of the framework: it starts one input at a time
(`in_read` has that guard), and gives a routing key a device.

**AudioLocks** splits the calls that AudioHw takes as one action. A thread is at
a place of its call (`th[t].pc`): before `adev->lock`, before the stream's lock,
at what the call does, or before it gives a lock back. What the calls do is
reduced to what other threads look at: the slots of the outputs, whether a
stream is in standby and its PCM open, the memory of a stream, and the mode.
Transfers run on the stream's lock alone; opening and closing use the memory of
a stream without any lock; `adev_set_mode` looks at the mode without a lock; the
RIL client's reader is a thread that makes one call. The lock of the bundle is
left out: it is taken last and given back before the call goes on, so it adds
no order of locks. Requests to the RIL client are left out for the same reason:
none waits for the reader (`RilClient`). Assumed of the framework: it closes a
stream when no other call on it is under way (`CanCall`).

**VoiceCapture** composes. The bundle is `INSTANCE ES325`; its entry points are
called by the HAL's, which are those of AudioHw reduced to what the preset
depends on: the devices, the source, the two cached values `cur_route` and
`es325_preset`. `eS325_SetActiveIoHandle` and `eS325_UsePreset` are two
acquisitions of the bundle's lock, so `start_input_stream` and `do_in_standby`
are two actions each (`pending` says which second call is still to come), and
the effects framework (`CallEffects`), which holds no lock of the HAL, comes in
between. A refusal and a failure of `eS325_UsePreset` do what the code does: the
route stays cached, and the preset is not. `answer` is a history variable, which
tells the two apart for the properties; no action depends on it.

**CaptureStream.** One input stream, frame by frame; frames carry their number
since the PCM was opened. `in_read` holds the stream lock, so the turns of
`read_frames` interleave only with the mute, which takes no lock. The resampler
is external: it takes chunks and fills the buffer in any proportion. Input is
stereo, which `adev_open_input_stream` insists on, so the conversion to mono
never runs. `MaxCaptured` bounds the frames of one recording. Standby may come
at any time and starts the count again.

**ConsumerIr.** A call of `consumerir_transmit` is a step for the first
allocation, one for each number and one for the write. A text is the sequence of
its numbers; the buffer sees its length in characters, of which `Stored` gives
each number's. Each allocation may fail, and so may the open of the node, whose
result nobody looks at; the descriptor is a global that starts as 0. Times are
below 2^24 microseconds (16 seconds), up to where the division of floats is
exact enough to be the division of integers; the carriers are the six that the
HAL names.

**Lights.** Every setter is split at the unlocked copy of the stored battery
state, at the lock and at each node. The fields of `led_config` are copied one by
one, in any order, since it is a plain struct copy that races with the other
side, and each of red, green, blue and blink has a node that is written, and may
fail, by itself, in the order of `write_leds` (`WriteOrder`). So the LED may be of
two colours: a field or a node holds the colour that its value was made of, and
`LedPartsAreAsked` says no more than that. The names of the
specification carry a prefix (`LightsSpec`), so that `SmallHals_proofs` can
extend this module and ConsumerIr; the two share nothing.

**RilClient.** A call of the HAL is a list of requests (`todo`) that its thread
sends one after the other; a request is split at `ril_connect_if_required`:
is it connected, connect, ask for the wideband state, send. The device's own
calls are made one at a time by the framework (`Control`); streams reroute on
their threads under `adev->lock`. The client's reader delivers the messages of
the modem in order (`ril.inbox`) and takes `adev->lock` in the callback; a
connection that is lost loses what was under way. The volume's sound type,
paths and mute carry no value. A disconnection that fails leaves the client
connected, with its callback (`old`, `Left`): its reader goes on to deliver, to
the device that is open by then or to the freed one. Assumed: the framework ends
a call before it closes the device. A device whose `ril_open` failed is not
called, since its pointers are undefined.

**CameraWrapper.** `table` is `fixed_set_params`: is it there, and the pointer
("null", "live", "freed") of each camera. `vendor` is the vendor's camera.
`camera_set_parameters` is two steps: the conversion, which replaces the string
and has it in hand (`given`), and the vendor's call, which reads it. The service
keeps a singleton of each camera ("assume camera service will keep singleton of
each camera"), so that a camera that is open is not opened again (`CanOpen`); two
different ones may be open. What a step does with a string that was freed, or
through a table that is not there, is undefined, and no such step is taken. A set of parameters is, per
limit, the value of the key in each style. The other calls of a camera keep no
state in the wrapper and are `VendorCall`. Assumed: an application writes what it
has read with changes of the keys in Qualcomm's style.

## 3. The runs

| run | instance | what it shows |
|---|---|---|
| `ES325_two` | 3 streams, 2 sessions, NS, VEQ, OFF and two ASRA presets, failures of vp and preset | one session per stream, none lost, the table consistent with itself; the chip awake only for an effect, on the preset last written with voice processing on; ASRA locked; NS at its level; each step one of the policy |
| `ES325_other_stream` (violation) | 2 streams | an idle stream's effect puts the chip to sleep under a recording |
| `VoiceCapture` | 1 stream, 1 session, NS and AEC, 4 output masks, 2 input devices, 3 sources, failures of vp, preset, ns and sleep | the two caches of the preset agree; a recording is on the preset of its own route, tuned, and is not put to sleep |
| `AudioHw` | 2 outputs, 1 input, speaker or SCO, calls, either nrec, PCMs of streams, call and SCO that do not open | call PCMs follow the call, SCO in both directions or none, mixer and modem on the current route, the eS325's handle that of an active input; in calls and outside, no step takes the route of a playing output, and what is recorded follows the recording stream but for what a call does to the source |
| `AudioHw_sco_pointer` (violation) | SCO PCMs that fail | the error paths keep pointers to closed PCMs |
| `AudioLocks` | 3 threads, 2 outputs, 1 input, two modes | a transfer keeps its PCM, the look at other outputs is safe, the mode and the call agree, the holder of `adev->lock` gives it back |
| `Capture` | periods of 3 frames, ramp of 5, reads of 2, 3 and 4, failing periods | frames in order, ramp on course, reads end |
| `Lights` | battery and a notification light, nodes that fail | calls do not mix, each node shows its part of a colour asked for, the lock comes back |
| `RilClient` | the device's thread and one stream, two volumes, a connection that fails and is lost, 2 messages under way, one client left behind by a closing | the wideband state settles, the modem has the volume and the clock of the call |
| `Camera` | two cameras that may both be open, one limit with two values, every failure of an opening | conversions undo each other |
| `Camera_two` (violation) | the same | closing one camera frees the string that another has in hand |
| `ConsumerIr` | seven patterns, of up to 140 times, six carriers, every failure | the text stays in its buffer, one growth is enough, every number arrives |

**Why the bounds are enough.** The table of ES325 matters when it is full and
when a session goes from one stream to another: two sessions and three streams
give both. Presets fall into three kinds in the code: off, and two ASRA presets,
between which the refusal acts; others (VoIP, camcorder) differ from ASRA in
that and in the level of noise suppression, and VoiceCapture has presets of all
kinds, through the route table. There one stream is enough for its question, which is how the HAL and the
bundle agree about a recording; what a second stream does to the first is
`ES325_other_stream`. In AudioLocks two outputs fill both slots, so that one is
looked at while it is stopped, closed or opened again; a third thread is what
lets one wait for a lock while two others use it. In ConsumerIr the patterns
have numbers of one to four digits, each until the buffer grows, some so that a
number would just fill it, and one that makes it grow twice. In AudioHw the code
has exactly two output slots, and two masks of
different kinds (with SCO, without) give every path through the SCO branches;
masks that are a pair of devices are in VoiceCapture. There is one input: that
another one, which is idle, comes and goes while it records is left to the
theorems, and so is a choice between sources. The preset is always
accepted and the RIL client there: refusals are the subject of VoiceCapture and
a lost connection that of RilClient. NORMAL stands for every mode that is no
call, since the code looks at the mode for that only. States that differ in the
pointers to the streams' PCMs alone are taken as one (`view`): no guard and no
property of the run looks at them, and `TransfersAreSafe` is proved. In
CaptureStream
reads smaller than, equal to and larger than a period, with a ramp that is a
multiple of none of them, give every relation of the three lengths; 12 frames
are four periods, after which reads fail. In Lights one colour besides dark is
enough to tell two calls apart; the battery and one notification light give the
two sides of every race on the store, the lock and the nodes. In RilClient
two threads can both find the client not connected, two messages can cross
(a change and an answer), and one client left behind can deliver into the device
that was opened after it; in Camera both cameras of the phone are there, and
limits do not depend on each other. The
theorems of section 5 hold without these bounds, but for the one stream of four
theorems about recordings.

Deadlock is checked in every run.

**Fairness.** ES325, AudioHw, VoiceCapture, RilClient, Camera and ConsumerIr
state safety only. `AudioLocks`: a thread inside the HAL goes on when it can
(weak fairness of its step): its code is straight-line, and the drivers it waits
for answer. Nothing is assumed of the order in which a lock is handed on, and no
thread has to make another call. `HolderProceeds` then says that the systematic
`adev->lock` of the transfers works: a thread that holds it and waits for the
lock of a stream waits for one transfer only, since the next one has to take
`adev->lock` first; without that the wait may last for ever. `Lights`: a caller
that holds `g_lock` goes on (weak fairness of its node writes and unlock): its code is
straight-line and waits for no one. `LockReleased` depends on it.
`Capture`: the thread inside `in_read` goes on (weak fairness of a turn of the
loop or its failure): it holds its lock and waits only for the driver, whose
answer is one or the other. `ReadEnds` is about reads without a resampler, since
with one it depends on code outside the repository.

## 4. Where the code departs from its comments

Each is a run whose property TLC finds violated.

* `ES325_other_stream`: the re-evaluation for a released effect uses the handle
  of that effect's session (cpp:1372 against 1363).
* `AudioHw_sco_pointer`: `start_bt_sco`'s error paths close the PCMs and keep
  the pointers; the next start reports "SCO PCMs already open!" (382).
* `Camera_two`: closing a camera frees the strings of all and keeps the pointers
  (CameraWrapper.cpp:462), under the call of another camera that has its string
  in hand without the lock.

Seen while modelling, and modelled as the code does it, without a run:

* A start during a call routes nothing (audio_hw.c:586: "in call routing must go
  through set_parameters"), but a standby during a call does change the device
  (846). An output that goes to standby in a call and starts again in it leaves
  no device, and when the call ends (1538) the mixer is reset under it.
  `OutputsKeepRoute` says that this is the only way to lose a route.
* A notification copies the stored battery state before it takes the lock
  (lights.c:217 against 209), and writes it after the battery has stored and
  written a newer one; the copy may also be torn, so that the LED is left with
  an old state of the battery, or with parts of two.
* `adev_close` ignores a failed disconnection (ril_interface.c:153) and frees the
  device; the client's callback, which still has it, then locks a mutex of the
  freed device.
* `eS325_SetActiveIoHandle` re-evaluates before it stores the handle, so the
  session's settings, compared with the old handle, are skipped (cpp:1470
  against the comment at 1368). With one stream nothing comes of it: the HAL
  selects the devices right after it, whose request for a preset re-evaluates
  again, and a standby has put the cached preset back to OFF, so that there is a
  preset to ask for. `VoiceCapture!RecordingIsTuned` checks that, from the first
  preset asked for on and while no request has failed.
* The status of `eS325_SetActiveIoHandle` is ignored (audio_hw.c:621): when the
  chip cannot be set up the handle is not stored, and the recording runs without
  its effects.
* `eS325_UsePreset` records the preset even when it returns an error, and the HAL
  does not cache it then: until a request succeeds the two disagree, and the
  standby does not ask for OFF if that is what the HAL has cached.
* A request for another ASRA preset that was refused is not repeated, since the
  route is cached before; what it left ends with the recording
  (`RecordedOnItsPreset`).
* A volume set by another thread while the mode changes can be lost for the call:
  one side takes no lock, and the other writes back the volume it read before
  (audio_hw.c:1473, 1526). The audio framework makes the two calls under a lock of its own.
* A stream that does not start keeps a pointer to its closed PCM (576-583), and
  `out_write` then looks at a `ret` that it did not set when the stream was not
  in standby (1005): it may sleep after a good write.
* A failing read sleeps with the lock of its stream held (1232).
* The descriptor of the IR transmitter is one global, 0 before the first open;
  the results of the open and of the write are ignored (consumerir.c:79, 109).
* The initialiser of `fd` (cpp:144) has six values for seven controls: the sleep
  node's descriptor is 0, is never opened, and the chip is never told to sleep.
* A released effect keeps its state (cpp:1022-1023), so that creating it again
  is refused while another effect keeps the session.
* An effect added before any preset was asked for writes the INIT placeholder
  to the preset node (cpp:146, 1253).
* Effects of other libraries claim a session that nobody frees (cpp:1509).
* A sleep whose node fails has already turned voice processing off and keeps
  the preset (cpp:1190-1205), so that the next preset is set with it off.
* The standby of an idle input clears the active handle of the eS325
  (audio_hw.c:1092).
* A stream in standby that is routed to SCO opens it and nothing closes it (906);
  SCO may be closed under another stream that uses it (825).
* A call takes the source of a recording: its end resets `input_source` to
  DEFAULT (1537), whatever stream records, and the recording goes on without an
  input path until its next change of source or device.
* Without an output, a change of the input device alone is not noticed by the
  route identifier (312, 326).
* A change of nrec is told to the modem by the next new route only (1435), which
  is why `ModemRouted` allows the path of either setting; until the framework
  says, the field is false.
* Muting before a call is not sent to the RIL when the call starts (1555).
* The mute of a read is skipped when the read failed, but the buffer, with the
  frames copied before the failure, is returned whole (1249 against the comment
  at 1245).
* `adev_open` ignores the result of `ril_open` (audio_hw.c:1745): without the
  library every request goes through a null pointer.
* Closing the device during a call leaves the modem's clock running (1682), and
  a change of the wideband state does not reopen the PCMs of a call (515-523).
* A request dropped because the connection failed is reported as done
  (ril_interface.c:166-167) and not sent again.
* The opening of a second camera replaces the table of the first, whose strings
  are lost, and if the table cannot be allocated there is none (508). A failed
  allocation of the operations leaves the vendor's camera open (543).

## 5. Proofs

The theorems have the form `Spec => []P` or `Spec => [][A]_vars`, or state a
refinement (`BundleImplementsPolicy`, `CaptureUsesBundle`,
`CaptureImplementsPolicy`), some of them under an assumption that is named
below. For each module an inductive invariant is stated; `Init` and every action
of `Next` have a lemma or a step of their own, and a last step applies the rule
of invariance. What the constants are is assumed by `ConstantsAssumption`,
`LightsAssumption`, `CaptureAssumption`, `RilAssumption`, `CameraAssumption` and
`NoTextAssumption`, which TLC evaluates in the runs.

Every invariant and every action property of the runs that pass is stated by a
theorem.

**ES325_proofs.** `TypeCorrect` is inductive by itself. `SessionsAreUnique` and
`TableConsistent` need each other (`TableInv`): a stream that looks for its
session falls back to a free one, which must be fresh, and a session is claimed
only when the scan found none. That the scan `Min` finds a match rests on the
well-foundedness of `<` on the naturals. `PresetIsOnChip`,
`RecordingOnRequestedPreset` and `AsraIsLocked` share `PresetInv`:

* `ChipInv`: while a preset is in use, the two controls it needs are open, so
  that changing it cannot fail half way;
* `AsraRequest`: an ASRA preset in use is never left waiting for another;
* `RecordingUsesRequested` itself.

`AsraIsLocked` then is a property of each step from such a state. The three
assume `SleepNodeOpens`, that the sleep control does not fail to open. The code
meets this because its descriptor is 0 and not -1, until `eS325_Release` closes
it; without the assumption a sleep fails after it turned voice processing off,
and `PresetReachedChip` does not hold (section 4).

`BundleImplementsPolicy` is the refinement, for any number of streams and
sessions, any presets and effects. It needs `PresetInv`, `TableInv` and one
invariant more, `EffectInv`: a session that is owned has effects, and only
effects created in it are active. Then each entry point maps to a step of the
policy or to a stutter (`PolicyStep`): a lemma for what `Reevaluate` does to the
chip, one for what a session's mask does to the users, one case per action.
It assumes, besides `SleepNodeOpens`, that effects of other libraries are not
added (`ForeignTypes = {}`): one of those claims a session that nobody frees.
`OwnedSessionsAreUsed` follows from `EffectInv`, and `AwakeForEffects` from the
policy alone: no step of it leaves the chip awake without a user.

`NoiseSuppressionFollows` (also under `SleepNodeOpens`) is about the steps that
change the effects in use of the recorded stream, or the preset asked for: such
a step evaluated the session, and the evaluation tunes the chip after it has put
it on the preset (`ReevaluateAwake` and the lemmas `Tuned`). `OneRecordingStaysAwake` is
`RecordingKeepsPreset` for one stream (`OneStream`, `SleepNodeOpens` and
`ForeignTypes = {}`); with two it is false, as the
run `ES325_other_stream` shows. It needs `OnRequest`: the chip is on the preset
last asked for or asleep, and not asleep while the active stream uses it and the
controls are open. The lemmas `Held` show that the outcome of
opening the sleep node does not matter as long as its descriptor is the stray
one or an open one.

**VoiceCapture_proofs.** Every step of the HAL is a step of the bundle or leaves
it alone (`CaptureUsesBundle`), so what ES325_proofs shows of the bundle holds
of the composition. `Thms` is that module for a bundle without failures of the
sleep node. This is not an assumption: `SleepStaysHeld` proves that nothing the
HAL calls closes that node, and then the steps of the two bundles are the same
(the lemmas `Same`, `MoveHeld` and `BundleTheorems`). So `SleepNodeOpens`, which
ES325_proofs has to assume, is gone from `ChipFollowsBundle` and
`CaptureImplementsPolicy`, which hold for any number of streams and any
failures. `ForeignTypes = {}` remains, as a choice of the model: the streams of
VoiceCapture are given the effects of the eS325 only.

`TwoCaches` is `CachesAgree`, also for any number of streams: `select_devices`
either does nothing, or caches a route whose preset was refused, or asks for a
preset and caches it when the answer is good (`SelectOutcome`), and what the
effects framework does in between leaves both caches alone.

`RecordingOnItsPreset`, `RecordingsAreTuned` and `RecordingStaysAwake` assume
`OneStream`, since the effect of another stream may put the chip to sleep. The
first two share the invariant `HalInv`:

* `InputInv`: the device's source and input are those of the stream while it is
  out of standby, and the source is reset in standby; with nothing pending, an
  active stream is out of standby;
* `RouteInv`: the cached route is the one selected last, and the cached preset is
  that of the route, or an ASRA one if a change between ASRA presets was refused
  (no recording means OFF, or INIT before the first);
* `BundleInv`: the invariants of ES325_proofs that are needed;
* `CachesAgree`, which joins what the HAL knows to what the bundle knows.

**AudioHw_proofs.** `IInv` joins `Routed(adev)` and `StreamInv`.
`Routed` says that the device has its type, the voice PCMs follow the mode, the
SCO PCMs agree, and the cache is both *true* (the mixer is on the route that the
cached identifier names) and *current* (the identifier is that of the devices,
if there is an output). `MixerRouted` follows from the last two, and neither
is inductive without the other. `select_devices` preserves the first and
establishes the second; every caller that changes a device or a source is shown
to call it, or to leave no output. `StreamInv` adds what the streams hold: an
open PCM out of standby, and the handle of the eS325 on an active input
(`TransfersAreSafe` is proved from it).
`ModemRouted` is `MixerRouted` for the modem, as long as its client is connected
(`RilConnected`): it rests on `PathOfId`, that masks with one identifier share a
path.

`OutputsKeepTheirRoute` and `RecordingKeepsItsRoute` are about every step, in
calls and outside, for any streams and failures. They need `MediaInv`, which is
inductive relative to `IInv`: an output that plays is open, and an open one has a
device, so that `output_devices` is not empty while another plays; and one input
at most records, so that a standby, which resets the source, takes it from
nobody. Entering a call gives a device (`EnterCallDevices`) and leaving it keeps
it (`LeaveCallDevices`).

`CallPcmsFollowCall` says that the voice PCMs are open together and in a call
only. It does not say that a call has them: `adev_set_mode` ignores the result
of `start_voice_call` (1524), and a call whose PCMs did not open goes on without.

**AudioLocks_proofs.** Any number of threads, each with any set of calls. The
invariant: `MutexInv` (a thread is at a place that holds a lock exactly when the
lock is its own), `CallInv` (what a place says of the call), `MemInv` (the stream
of a call is live, and alone with its opening or closing), `PcmInv` (out of
standby means an open PCM, and a transfer is out of standby), `SlotInv` (a slot
holds a live stream, never one that is not linked yet or no more), `SeenInv`
(what `output_devices` saw is still so when the devices are selected) and
`ModeInv` (the call follows the mode but for the thread that changes it).
Each part has a lemma that goes through the actions. `SeenInv` is where the
comment at 807 is used: who changes the standby of another stream, or a slot,
holds `adev->lock`.

**CaptureStream_proofs.** The invariant is the four properties. The ramp needs
arithmetic that is not linear: `StepFits` (the rounded step times the ramp's length
fits 16 bits), `ProductGrows` and `RampGoesOn` (a part of the ramp does not
wrap). `HandInOrder` shows that each chunk starts where the last one ended.

**SmallHals_proofs.** Lights: `CallOwnsLed` needs `Mutex`: a call is writing
exactly when it holds the lock. `LedPartsAreAsked` is the type: whatever a torn
copy of the battery state and failing nodes leave, each node by itself holds its
part of a colour that some light was set to, and never of an uninitialised
`led_config`; the four together need not be one colour. The invariant of both is
`LedInv`.

ConsumerIr: `BufferHolds` and `OnlyMemoryFails` rest on how much a number needs
at most (`Stored` is at most 11 characters with its comma) and on the buffer
never being smaller than 12: twice the size then has room whatever is in it.
`PatternIsKept` needs what one number is, for each of the six carriers: the
pulses are at least the whole periods, by arithmetic on the truncated factor.

**RilClient_proofs.** `LiveInv`: a client that is connected, or a query or a
message under way, means an open device with a client, or one left behind. `WbInv`: the latest
message on its way says what the modem says, and with none and no query left to
ask or to be answered, the device says it; it is what makes the query of a new
connection necessary. `TellInv`: what the modem was last told, or else what the
thread still has to send (`Promised`), is the volume and the clock of the
device's state; a stream's thread only ever holds a path.

**CameraWrapper_proofs.** `CInv`: every string and every camera's parameters
have a key in the vendor's style for each in Qualcomm's (`NoOrphan`) and equal
values (`Agrees`); `RoundTrip` then gives `WriteBackChangesNothing`, and `StringsAgree`
says it of what the vendor's camera is given.
Nothing is proved of the table: what it should promise is what `Camera_two`
shows to fail.

**Only model-checked.** Liveness: `LockReleased`, `ReadEnds` and
`HolderProceeds`. They depend on fairness, and so on ENABLED, about which the
prover cannot reason.

## 6. Not modelled

* Of `audio_hw.c`: the sound type of a volume, which picks one of the modem's
  volumes, rates and latencies, dumps and getters, and the data of output frames.
* Of the RIL client: a device without a client,
  where the code calls through pointers that it did not set.
* Of the camera wrapper: the parameters that have one key only, and what the
  calls that go on to the vendor do there.
* Of the bundle: its queries, which change nothing.
* Of the lights: the arithmetic of brightness and the text of the nodes.
* Of the consumer IR: carriers other than the six it names.
* USB: the triggers of `sys.usb.config` write nodes of the kernel one after the
  other. The one hazard in them, that the device class which rndis sets stays
  for the configurations after it (rc:33), is a matter of what the kernel's
  gadget does with the node; a model of the file would have to invent that.
* Scripts, tables, overlays, policies, build files and vendored headers: data or
  straight-line boot actions with no state to interleave.

## 7. Plan

Done, each with its run and, where the section above lists them, its proofs:
ES325 and its abstract specification PresetPolicy, AudioRouting and AudioHw,
AudioLocks, VoiceCapture, CaptureStream, Lights, RilClient, CameraWrapper,
ConsumerIr.

What would add most next:

1. The sound type of a volume in RilClient, with the path as a value, for what a
   change during a call does not send again (audio_hw.c:1555).
2. VoiceCapture with two streams, and the properties that survive it. Of the
   theorems, `TwoCaches`, `ChipFollowsBundle` and `CaptureImplementsPolicy` do.
