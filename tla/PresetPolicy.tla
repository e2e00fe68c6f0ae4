---------------------------- MODULE PresetPolicy ----------------------------
(***************************************************************************)
(* What the eS325 bundle promises the audio HAL, without its sessions, its *)
(* controls and their caches: which preset the chip may be on, given the   *)
(* preset last asked for, the stream that is recorded and the streams that *)
(* have effects in use.  ES325 implements it (ES325!Policy).               *)
(*                                                                         *)
(* The chip may be asleep at any time: a control that does not open leaves *)
(* it so.                                                                  *)
(***************************************************************************)
CONSTANTS
  Streams,    \* the input streams
  NoStream,   \* nothing is recorded
  Requests,   \* the presets that can be asked for
  Asra        \* the presets for speech recognition

VARIABLES
  requested,  \* the preset last asked for
  current,    \* the preset the chip is on, "OFF" when it sleeps
  stream,     \* the stream that is recorded
  users       \* the streams with effects in use

vars == <<requested, current, stream, users>>

Init ==
  /\ requested = "INIT" /\ current = "OFF"
  /\ stream = NoStream /\ users = {}

\* A preset is asked for.  The one of a recording follows, without a move from
\* one ASRA preset to another; without a recording the chip sleeps.
Ask(preset) ==
  /\ (stream # NoStream /\ current \in Asra) => preset \notin Asra
  /\ requested' = preset
  /\ preset = "OFF" \/ stream = NoStream => current' = "OFF"
  /\ current' \in {"OFF"} \cup (IF stream \in users THEN {preset} ELSE {current})
  /\ UNCHANGED <<stream, users>>

\* A stream starts to be recorded, on the preset last asked for if it has
\* effects in use.  It is turned down only if the chip cannot wake up.
Record(h) ==
  /\ stream' = h \/ (stream' = stream /\ current' = "OFF")
  /\ current' \in {"OFF"} \cup (IF h \in users THEN {requested} ELSE {current})
  /\ UNCHANGED <<requested, users>>

\* The recording ends, or the bundle is released.
Stop ==
  /\ stream' \in {stream, NoStream}
  /\ current' = "OFF"
  /\ UNCHANGED <<requested, users>>

\* An effect of a stream comes into use, changes or goes.  The last effect of
\* any stream puts the chip to sleep.
Use(h) ==
  /\ users' = users \cup {h}
  /\ current' \in {"OFF", requested}
  /\ UNCHANGED <<requested, stream>>
Leave(h) ==
  /\ users' = users \ {h}
  /\ current' = "OFF"
  /\ UNCHANGED <<requested, stream>>

Next ==
  \/ \E preset \in Requests : Ask(preset)
  \/ \E h \in Streams : Record(h)
  \/ Stop
  \/ \E h \in Streams : Use(h)
  \/ \E h \in Streams : Leave(h)

Spec == Init /\ [][Next]_vars

=============================================================================
