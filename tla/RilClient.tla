----------------------------- MODULE RilClient -----------------------------
(***************************************************************************)
(* The client of the RIL and the calls of the audio HAL that use it.       *)
(*                                                                         *)
(* The framework makes the calls of the device (mode, volume, mute,        *)
(* parameters) one at a time, on the thread Control; each stream reroutes  *)
(* on a thread of its own.  Only a change of mode or of route holds        *)
(* adev->lock.  Every request connects first if it has to, so that two     *)
(* threads may connect at once.  The reader of the client delivers the     *)
(* modem's messages in order, on its own thread.                           *)
(*                                                                         *)
(* A client whose disconnection failed stays behind, connected and with    *)
(* its callback, which goes on to deliver to whatever device is open, or   *)
(* to the freed one.                                                       *)
(*                                                                         *)
(* The modem: its wideband state, and of what it is told the clock and the *)
(* volume.  A volume is a step of the modem's scale.                       *)
(***************************************************************************)
EXTENDS Naturals, Sequences

CONSTANTS
  Control,    \* the thread of the device's calls
  Streams,    \* the threads of the streams
  Free,       \* nobody holds adev->lock
  Modes,      \* the modes that the telephony framework sets
  Volumes,    \* the volumes it sets
  FullVolume, \* 1.0f
  Missed,     \* the last request of a kind was dropped
  Left,       \* bound: the clients that failed closings may leave behind
  MaxInbox    \* bound: messages of the modem under way

ASSUME RilAssumption ==
  /\ Control \notin Streams
  /\ Free \notin Streams \cup {Control}
  /\ Missed \notin Volumes \cup {FullVolume}
  /\ MaxInbox \in Nat \ {0}

Threads == Streams \cup {Control}

VARIABLES
  adev,   \* open, mode, in_call, voice_volume, wb_amr
  lock,   \* who holds adev->lock
  ril,    \* struct ril_handle and the client: client (it exists), gets (it has
          \* GetWB_AMR), connected, asked (queries unanswered), inbox
  old,    \* the clients left behind
  modem,  \* wb; clock and volume as last told, or Missed
  th      \* per thread: where it is (at) and the requests left (todo)

vars == <<adev, lock, ril, old, modem, th>>

-----------------------------------------------------------------------------
(* Opening and closing.                                                    *)

Closed == [open |-> FALSE, mode |-> "NORMAL", in_call |-> FALSE,
           voice_volume |-> FullVolume, wb_amr |-> 0]
NoClient == [client |-> FALSE, gets |-> FALSE, connected |-> FALSE, asked |-> 0,
             inbox |-> <<>>]
Idle == [at |-> "idle", todo |-> <<>>]

\* ril_open: the library, its functions and the client are there, or nothing;
\* GetWB_AMR may be missing ("not supported in all RILs")
ril_open ==
  \/ ril' = NoClient
  \/ \E gets \in BOOLEAN : ril' = [NoClient EXCEPT !.client = TRUE, !.gets = gets]

\* adev_open does not look at the result of ril_open
adev_open ==
  /\ ~adev.open
  /\ adev' = [Closed EXCEPT !.open = TRUE]
  /\ ril_open
  /\ UNCHANGED <<lock, old, modem, th>>

\* ril_close: the client is gone, or, "ril_disconnect() or ril_close_client()
\* failed", left behind.  Either way the handle goes with the device.  (One that
\* is left without its connection, or had none, is never heard of again.)
ril_close ==
  /\ ril' = NoClient
  /\ \/ UNCHANGED old
     \/ \E k \in Left : /\ ril.connected /\ ~old[k].client
                        /\ old' = [old EXCEPT ![k] = ril]

\* adev_close does not look at the result of ril_close; the framework has ended
\* its calls, and none of its threads is in the HAL
adev_close ==
  /\ adev.open /\ ~adev.in_call
  /\ \A t \in Threads : th[t] = Idle
  /\ adev' = Closed
  /\ ril_close
  /\ UNCHANGED <<lock, modem, th>>

-----------------------------------------------------------------------------
(* The calls.  Without a client a request goes through pointers that were  *)
(* never set, so that nothing is said of a device without one.             *)

\* (what a path, a mute or the microphones' switch says is left out: "any")
Request(kind, value) == [kind |-> kind, value |-> value]
ToDo(requests) == [at |-> IF requests = <<>> THEN "return" ELSE "check", todo |-> requests]

CanCall(t) == adev.open /\ ril.client /\ th[t].at = "idle"

\* what adev_set_voice_volume sends: it asks for the mode, not for in_call
VolumeRequest(a) ==
  IF a.mode = "IN_CALL" THEN <<Request("volume", a.voice_volume)>> ELSE <<>>

adev_set_voice_volume(volume) ==
  LET a == [adev EXCEPT !.voice_volume = volume]
  IN  /\ CanCall(Control)
      /\ adev' = a
      /\ th' = [th EXCEPT ![Control] = ToDo(VolumeRequest(a))]
      /\ UNCHANGED <<lock, ril, old, modem>>

\* mic_mute itself is in CaptureStream
adev_set_mic_mute ==
  /\ CanCall(Control) /\ adev.in_call
  /\ th' = [th EXCEPT ![Control] = ToDo(<<Request("mute", "any")>>)]
  /\ UNCHANGED <<adev, lock, ril, old, modem>>

\* adev_set_parameters, noise_suppression
adev_set_parameters ==
  /\ CanCall(Control)
  /\ th' = [th EXCEPT ![Control] = ToDo(<<Request("two_mic", "any")>>)]
  /\ UNCHANGED <<adev, lock, ril, old, modem>>

\* select_devices sends a path if the route changed
PathRequests == {<<>>, <<Request("path", "any")>>}

\* adev_set_mode: entering a call sends the volume again
ModeRequests(a, path) ==
  IF a.mode = "IN_CALL" /\ ~a.in_call
  THEN path \o <<Request("clock", "START")>> \o VolumeRequest(a)
  ELSE IF a.mode # "IN_CALL" /\ a.in_call
       THEN <<Request("clock", "STOP")>> \o path ELSE <<>>
adev_set_mode(mode) ==
  LET a == [adev EXCEPT !.mode = mode]
  IN  /\ CanCall(Control) /\ adev.mode # mode /\ lock = Free
      /\ lock' = Control
      /\ adev' = [a EXCEPT !.in_call = @ /\ mode = "IN_CALL"]
      /\ \E path \in PathRequests :
           th' = [th EXCEPT ![Control] = ToDo(ModeRequests(a, path))]
      /\ UNCHANGED <<ril, old, modem>>

\* the part of a stream's call that holds adev->lock and selects devices
Reroute(t) ==
  /\ CanCall(t) /\ lock = Free
  /\ lock' = t
  /\ \E path \in PathRequests : th' = [th EXCEPT ![t] = ToDo(path)]
  /\ UNCHANGED <<adev, ril, old, modem>>

-----------------------------------------------------------------------------
(* A request: ril_connect_if_required, then the function of the client.    *)

\* what the modem has of its requests once it heard of one, or of none
Tell(kind, value) ==
  IF kind \in {"clock", "volume"} THEN [modem EXCEPT ![kind] = value] ELSE modem

Rest(t) == ToDo(Tail(th[t].todo))

\* broken: everything that is left goes with the request
RestIfFailedNone(t) == ToDo(<<>>)

\* the requests that are left when one was dropped: all of the others
RestIfFailed(t) == Rest(t)

Check(t) ==
  /\ th[t].at = "check"
  /\ th' = [th EXCEPT ![t].at = IF ril.connected THEN "send" ELSE "connect"]
  /\ UNCHANGED <<adev, lock, ril, old, modem>>

Connect(t) ==
  /\ th[t].at = "connect"
  /\ ril' = [ril EXCEPT !.connected = TRUE]
  /\ th' = [th EXCEPT ![t].at = IF ril.gets THEN "ask" ELSE "send"]
  /\ UNCHANGED <<adev, lock, old, modem>>

\* "ril_connect() failed": the request is dropped and success is returned
ConnectFails(t) ==
  /\ th[t].at = "connect"
  /\ modem' = Tell(Head(th[t].todo).kind, Missed)
  /\ th' = [th EXCEPT ![t] = RestIfFailed(t)]
  /\ UNCHANGED <<adev, lock, ril, old>>

\* the result of the query is not looked at; on a connection it is accepted
Ask(t) ==
  /\ th[t].at = "ask"
  /\ ril' = IF ril.connected THEN [ril EXCEPT !.asked = @ + 1] ELSE ril
  /\ th' = [th EXCEPT ![t].at = "send"]
  /\ UNCHANGED <<adev, lock, old, modem>>

\* the result of the client's function is not looked at
Send(t) ==
  /\ th[t].at = "send"
  /\ modem' = LET r == Head(th[t].todo)
              IN  Tell(r.kind, IF ril.connected THEN r.value ELSE Missed)
  /\ th' = [th EXCEPT ![t] = Rest(t)]
  /\ UNCHANGED <<adev, lock, ril, old>>

\* the call returns; a change of mode ends with in_call, and lets go of the lock
Return(t) ==
  /\ th[t].at = "return"
  /\ adev' = IF t = Control /\ lock = t
             THEN [adev EXCEPT !.in_call = (adev.mode = "IN_CALL")] ELSE adev
  /\ lock' = IF lock = t THEN Free ELSE lock
  /\ th' = [th EXCEPT ![t] = Idle]
  /\ UNCHANGED <<ril, old, modem>>

-----------------------------------------------------------------------------
(* The modem and the reader of each client, the device's or one left       *)
(* behind.                                                                 *)

Told(c, wb) == IF c.connected THEN [c EXCEPT !.inbox = Append(@, wb)] ELSE c
CanAnswer(c) == c.asked > 0 /\ Len(c.inbox) < MaxInbox
Answered(c) == [c EXCEPT !.asked = @ - 1, !.inbox = Append(@, modem.wb)]
Lost(c) == [c EXCEPT !.connected = FALSE, !.asked = 0, !.inbox = <<>>]
Delivered(c) == [c EXCEPT !.inbox = Tail(@)]

\* the wideband state changes; every client that is connected is told
ModemChanges ==
  /\ Len(ril.inbox) < MaxInbox /\ \A k \in Left : Len(old[k].inbox) < MaxInbox
  /\ modem' = [modem EXCEPT !.wb = 1 - @]
  /\ ril' = Told(ril, 1 - modem.wb)
  /\ old' = [k \in Left |-> Told(old[k], 1 - modem.wb)]
  /\ UNCHANGED <<adev, lock, th>>

Answer ==
  /\ CanAnswer(ril)
  /\ ril' = Answered(ril)
  /\ UNCHANGED <<adev, lock, old, modem, th>>
AnswerLeft(k) ==
  /\ CanAnswer(old[k])
  /\ old' = [old EXCEPT ![k] = Answered(old[k])]
  /\ UNCHANGED <<adev, lock, ril, modem, th>>

\* the connection is lost, and with it what was under way
Disconnect ==
  /\ ril.connected
  /\ ril' = Lost(ril)
  /\ UNCHANGED <<adev, lock, old, modem, th>>
DisconnectLeft(k) ==
  /\ old[k].connected
  /\ old' = [old EXCEPT ![k] = Lost(old[k])]
  /\ UNCHANGED <<adev, lock, ril, modem, th>>

\* broken: does nothing when the device is in use
WbAmrCallbackTries ==
  /\ ril.inbox # <<>>
  /\ adev' = IF lock = Free THEN [adev EXCEPT !.wb_amr = Head(ril.inbox)] ELSE adev
  /\ ril' = Delivered(ril)
  /\ UNCHANGED <<lock, old, modem, th>>

\* ril_set_wb_amr_callback and adev_set_wb_amr_callback; the PCMs of the call
\* are not reopened ("TODO: set rate properly")
WbAmrCallback ==
  /\ ril.inbox # <<>> /\ lock = Free
  /\ adev' = [adev EXCEPT !.wb_amr = Head(ril.inbox)]
  /\ ril' = Delivered(ril)
  /\ UNCHANGED <<lock, old, modem, th>>

\* callback_data is one for all clients: the device that is open, or else the
\* freed one, of which nothing more is said
WbAmrCallbackLeft(k) ==
  /\ old[k].inbox # <<>> /\ lock = Free
  /\ adev' = IF adev.open THEN [adev EXCEPT !.wb_amr = Head(old[k].inbox)] ELSE adev
  /\ old' = [old EXCEPT ![k] = Delivered(old[k])]
  /\ UNCHANGED <<lock, ril, modem, th>>

-----------------------------------------------------------------------------

Init ==
  /\ adev = Closed
  /\ lock = Free
  /\ ril = NoClient
  /\ old = [k \in Left |-> NoClient]
  /\ modem \in [wb : {0, 1}, clock : {"STOP"}, volume : {FullVolume}]
  /\ th = [t \in Threads |-> Idle]

Next ==
  \/ adev_open \/ adev_close
  \/ \E v \in Volumes : adev_set_voice_volume(v)
  \/ adev_set_mic_mute \/ adev_set_parameters
  \/ \E m \in Modes : adev_set_mode(m)
  \/ \E t \in Streams : Reroute(t)
  \/ \E t \in Threads : \/ Check(t) \/ Connect(t) \/ ConnectFails(t) \/ Ask(t)
                        \/ Send(t) \/ Return(t)
  \/ ModemChanges \/ Answer \/ Disconnect \/ WbAmrCallback
  \/ \E k \in Left : AnswerLeft(k) \/ DisconnectLeft(k) \/ WbAmrCallbackLeft(k)

Spec == Init /\ [][Next]_vars

-----------------------------------------------------------------------------
(* Properties.                                                             *)

Requests == [kind : {"path", "mute", "two_mic"}, value : {"any"}]
              \cup [kind : {"clock"}, value : {"START", "STOP"}]
              \cup [kind : {"volume"}, value : Volumes \cup {FullVolume}]

DeviceType == [open : BOOLEAN, mode : Modes \cup {"NORMAL"}, in_call : BOOLEAN,
               voice_volume : Volumes \cup {FullVolume}, wb_amr : {0, 1}]
RilType == [client : BOOLEAN, gets : BOOLEAN, connected : BOOLEAN, asked : Nat,
            inbox : Seq({0, 1})]
ModemType == [wb : {0, 1}, clock : {"START", "STOP", Missed},
              volume : Volumes \cup {FullVolume, Missed}]
ThreadType == [at : {"idle", "check", "connect", "ask", "send", "return"},
               todo : Seq(Requests)]

\* The device, the client, the modem and the threads hold values of their types;
\* a thread has a request left exactly while it is at one.
TypeOK ==
  /\ adev \in DeviceType
  /\ lock \in Threads \cup {Free}
  /\ ril \in RilType /\ old \in [Left -> RilType]
  /\ modem \in ModemType
  /\ th \in [Threads -> ThreadType]
  /\ \A t \in Threads : th[t].at \in {"idle", "return"} <=> th[t].todo = <<>>

\* Once nothing is under way, the wideband state of the device is that of the
\* modem, if the client can ask for it: neither a change while the client was
\* not connected, nor one that crosses the query of a new connection, nor two
\* threads that connect at once, nor what a client left behind still delivers,
\* unless it loses its connection between two messages, leave the HAL with an
\* old one ("get wb amr status to set pcm samplerate ... when ril is connected").
WbAmrSettles ==
  /\ ril.connected /\ ril.gets /\ ril.asked = 0 /\ ril.inbox = <<>>
  /\ \A t \in Threads : th[t].at # "ask"
  /\ \A k \in Left : old[k].client => old[k].connected /\ old[k].inbox = <<>>
  => adev.wb_amr = modem.wb

\* During a call the modem has the volume last set, whenever it was set, unless
\* the request for it was dropped (adev_set_mode sends it again on entering).
VolumeInCall ==
  adev.in_call /\ th[Control].at = "idle" =>
    modem.volume \in {adev.voice_volume, Missed}

\* The modem's clock runs during calls and only then, unless the last request
\* for it was dropped.
ClockFollowsCall ==
  adev.open /\ th[Control].at = "idle" =>
    modem.clock \in {IF adev.in_call THEN "START" ELSE "STOP", Missed}

\* However requests are dropped and the connection comes and goes, a call has the
\* volume and the clock that the device has for it (adev_set_mode).
CallReachesModem == VolumeInCall /\ ClockFollowsCall

=============================================================================
