----------------------------- MODULE AudioLocks -----------------------------
(***************************************************************************)
(* The threads of the audio HAL and its locks: adev->lock, then the lock   *)
(* of a stream.  AudioHw takes each call as one action; here a call is its *)
(* steps between the points where it takes or gives back a lock, and what  *)
(* it does to the device and to its stream is what other threads look at:  *)
(* the slots of the outputs, standby, the PCM, the mode.                   *)
(*                                                                         *)
(* A transfer runs on the stream's lock alone.  The RIL client's reader is *)
(* one more thread that takes adev->lock; no request of the HAL waits for  *)
(* it.  The lock of the eS325 bundle is taken last and given back before   *)
(* the call goes on: it is left out.                                       *)
(***************************************************************************)

CONSTANTS
  Threads,   \* the threads that call the HAL
  Free,      \* no thread
  Outputs,   \* what calloc returns for an output stream
  Inputs,    \* and for an input stream
  Null,      \* no stream
  Modes,     \* the modes that the telephony framework sets
  MayCall    \* the calls that each thread makes

Streams == Outputs \cup Inputs
Types == {"DEEP_BUF", "LOW_LATENCY"}
StreamCalls == {"write", "standby", "set_parameters", "effect", "close"}
Calls == StreamCalls \cup {"open", "set_mode", "set_wb_amr"}

ASSUME ConstantsAssumption ==
  /\ Free \notin Threads
  /\ Null \notin Streams
  /\ Outputs \cap Inputs = {}
  /\ Modes \subseteq {"NORMAL", "RINGTONE", "IN_CALL", "IN_COMMUNICATION"}
  /\ MayCall \in [Threads -> SUBSET Calls]

VARIABLES
  lock,     \* the thread that holds adev->lock
  adev,     \* mode and in_call
  slots,    \* adev->outputs
  stream,   \* the streams, with the thread that holds the lock of each
  th        \* what each thread is doing

vars == <<lock, adev, slots, stream, th>>

-----------------------------------------------------------------------------
(* Where a thread is.                                                      *)

Idle == [call |-> "none", on |-> Null, pc |-> "idle", arg |-> "none", seen |-> {}]
At(t, pc) == th[t].pc = pc
Goes(t, pc) == th' = [th EXCEPT ![t].pc = pc]
Returns(t) == th' = [th EXCEPT ![t] = Idle]

NewStream == [mem |-> "live", standby |-> TRUE, pcm |-> "closed", lock |-> Free]
Freed == [NewStream EXCEPT !.mem = "free"]

\* the active outputs other than s, as the slots show them
output_devices(s) ==
  {o \in Outputs \ {s} : /\ \E k \in Types : slots[k] = o
                         /\ ~stream[o].standby}

\* The framework calls a stream that was opened, and closes it when no other
\* call on it is under way.
CanCall(call, s) ==
  /\ stream[s].mem = "live"
  /\ \A t \in Threads :
       th[t].on = s => call # "close" /\ th[t].call \notin {"open", "close"}

-----------------------------------------------------------------------------
(* Calls begin.                                                            *)

\* broken: a transfer takes adev->lock only to start its stream
FirstLockToStart(call, s) ==
  IF call = "write" /\ ~stream[s].standby THEN "stream" ELSE "adev"

\* "acquiring hw device mutex systematically": every call takes adev->lock first
FirstLock(call, s) == "adev"

CallStream(t, call, s) ==
  /\ At(t, "idle") /\ call \in MayCall[t]
  /\ CanCall(call, s)
  /\ call = "effect" => s \in Inputs
  /\ th' = [th EXCEPT ![t] = [Idle EXCEPT !.call = call, !.on = s,
                                          !.pc = FirstLock(call, s)]]
  /\ UNCHANGED <<lock, adev, slots, stream>>

\* adev_open_output_stream fills the stream in before it takes the lock,
\* adev_open_input_stream takes none
OpenOutput(t, s, type) ==
  /\ At(t, "idle") /\ "open" \in MayCall[t]
  /\ stream[s].mem = "free"
  /\ stream' = [stream EXCEPT ![s] = NewStream]
  /\ th' = [th EXCEPT ![t] = [Idle EXCEPT !.call = "open", !.on = s, !.pc = "adev",
                                          !.arg = type]]
  /\ UNCHANGED <<lock, adev, slots>>
OpenInput(t, s) ==
  /\ At(t, "idle") /\ "open" \in MayCall[t]
  /\ stream[s].mem = "free"
  /\ stream' = [stream EXCEPT ![s] = NewStream]
  /\ UNCHANGED <<lock, adev, slots, th>>

\* broken: the mode is written before adev->lock is taken
CallSetModeWrites(t, mode) ==
  /\ At(t, "idle") /\ "set_mode" \in MayCall[t]
  /\ adev.mode # mode
  /\ adev' = [adev EXCEPT !.mode = mode]
  /\ th' = [th EXCEPT ![t] = [Idle EXCEPT !.call = "set_mode", !.pc = "adev",
                                          !.arg = mode]]
  /\ UNCHANGED <<lock, slots, stream>>

\* adev_set_mode looks at the mode without the lock
CallSetMode(t, mode) ==
  /\ At(t, "idle") /\ "set_mode" \in MayCall[t]
  /\ adev.mode # mode
  /\ th' = [th EXCEPT ![t] = [Idle EXCEPT !.call = "set_mode", !.pc = "adev",
                                          !.arg = mode]]
  /\ UNCHANGED <<lock, adev, slots, stream>>

\* the RIL client's reader: adev_set_wb_amr_callback
CallSetWbAmr(t) ==
  /\ At(t, "idle") /\ "set_wb_amr" \in MayCall[t]
  /\ th' = [th EXCEPT ![t] = [Idle EXCEPT !.call = "set_wb_amr", !.pc = "adev"]]
  /\ UNCHANGED <<lock, adev, slots, stream>>

-----------------------------------------------------------------------------
(* The locks.                                                              *)

\* a mutex is given back by its owner
Unlock(owner, t) == IF owner = t THEN Free ELSE owner

\* where a call goes on with adev->lock
Locked(r) ==
  IF r.pc = "unlinking" THEN "unlink"
  ELSE IF r.call \in StreamCalls THEN "stream"
  ELSE IF r.call = "open" THEN "link"
  ELSE IF r.call = "set_mode" THEN "mode" ELSE "release"

LockDevice(t) ==
  /\ th[t].pc \in {"adev", "unlinking"}
  /\ lock = Free
  /\ lock' = t
  /\ Goes(t, Locked(th[t]))
  /\ UNCHANGED <<adev, slots, stream>>

\* where a call goes on with the lock of its stream
StreamLocked(call) ==
  IF call = "write" THEN "start"
  ELSE IF call = "effect" THEN "done" ELSE "stop"

\* broken: only a transfer takes the lock of its stream
LockStreamToWrite(t) ==
  /\ At(t, "stream")
  /\ th[t].call = "write" => stream[th[t].on].lock = Free
  /\ stream' = IF th[t].call = "write" THEN [stream EXCEPT ![th[t].on].lock = t]
               ELSE stream
  /\ Goes(t, StreamLocked(th[t].call))
  /\ UNCHANGED <<lock, adev, slots>>

LockStream(t) ==
  /\ At(t, "stream")
  /\ stream[th[t].on].lock = Free
  /\ stream' = [stream EXCEPT ![th[t].on].lock = t]
  /\ Goes(t, StreamLocked(th[t].call))
  /\ UNCHANGED <<lock, adev, slots>>

UnlockStream(t) ==
  /\ th[t].pc \in {"done", "leave"}
  /\ stream' = [stream EXCEPT ![th[t].on].lock = Unlock(@, t)]
  /\ IF At(t, "done") THEN Goes(t, "release") ELSE Returns(t)
  /\ UNCHANGED <<lock, adev, slots>>

\* broken: a closed output is freed while its slot still holds it
UnlockedFreeFirst(r) ==
  IF r.pc = "running" THEN "transfer"
  ELSE IF r.pc = "failed" THEN "leave"
  ELSE IF r.call = "close" \/ r.pc = "busy" THEN "free" ELSE "idle"

\* where a call goes on without adev->lock: a transfer, the exit of one that
\* could not start, the second half of a close
Unlocked(r) ==
  IF r.pc = "running" THEN "transfer"
  ELSE IF r.pc = "failed" THEN "leave"
  ELSE IF r.pc \in {"unlinked", "busy"} THEN "free"
  ELSE IF r.call # "close" THEN "idle"
  ELSE IF r.on \in Outputs THEN "unlinking" ELSE "free"

UnlockDevice(t) ==
  /\ th[t].pc \in {"running", "failed", "unlinked", "busy", "release"}
  /\ lock' = Unlock(lock, t)
  /\ IF Unlocked(th[t]) = "idle" THEN Returns(t) ELSE Goes(t, Unlocked(th[t]))
  /\ UNCHANGED <<adev, slots, stream>>

-----------------------------------------------------------------------------
(* What the calls do.                                                      *)

\* out_write, in_read: the stream is started if it is in standby, and stays in
\* it if its PCM does not open
Start(t) ==
  /\ At(t, "start")
  /\ \/ /\ ~stream[th[t].on].standby
        /\ Goes(t, "running") /\ UNCHANGED stream
     \/ /\ stream[th[t].on].standby
        /\ stream' = [stream EXCEPT ![th[t].on].standby = FALSE,
                                    ![th[t].on].pcm = "open"]
        /\ Goes(t, "running")
     \/ /\ stream[th[t].on].standby
        /\ Goes(t, "failed") /\ UNCHANGED stream
  /\ UNCHANGED <<lock, adev, slots>>

\* pcm_write, pcm_read
Transfer(t) ==
  /\ At(t, "transfer")
  /\ Goes(t, "leave")
  /\ UNCHANGED <<lock, adev, slots, stream>>

\* do_out_standby, do_in_standby; an output then looks for the other ones
Stop(t) ==
  LET s == th[t].on
  IN  /\ At(t, "stop")
      /\ stream' = IF stream[s].standby THEN stream
                   ELSE [stream EXCEPT ![s].standby = TRUE, ![s].pcm = "closed"]
      /\ Goes(t, IF stream[s].standby \/ s \in Inputs THEN "done" ELSE "scan")
      /\ UNCHANGED <<lock, adev, slots>>
Scan(t) ==
  /\ At(t, "scan")
  /\ th' = [th EXCEPT ![t].pc = "select", ![t].seen = output_devices(th[t].on)]
  /\ UNCHANGED <<lock, adev, slots, stream>>
Select(t) ==
  /\ At(t, "select")
  /\ th' = [th EXCEPT ![t].pc = "done", ![t].seen = {}]
  /\ UNCHANGED <<lock, adev, slots, stream>>

\* out_set_parameters, in_set_parameters: without a standby unless SCO starts or
\* stops
Reroute(t) ==
  /\ At(t, "stop") /\ th[t].call = "set_parameters"
  /\ Goes(t, "done")
  /\ UNCHANGED <<lock, adev, slots, stream>>

\* adev_open_output_stream: -EBUSY, and the stream is freed, if the slot is taken
Link(t) ==
  LET k == th[t].arg
  IN  /\ At(t, "link")
      /\ slots' = IF slots[k] = Null THEN [slots EXCEPT ![k] = th[t].on] ELSE slots
      /\ th' = [th EXCEPT ![t].pc = IF slots[k] = Null THEN "release" ELSE "busy",
                          ![t].arg = "none"]
      /\ UNCHANGED <<lock, adev, stream>>

\* adev_close_output_stream, under its second lock
Unlink(t) ==
  /\ At(t, "unlink")
  /\ slots' = [k \in Types |-> IF slots[k] = th[t].on THEN Null ELSE slots[k]]
  /\ Goes(t, "unlinked")
  /\ UNCHANGED <<lock, adev, stream>>

FreeStream(t) ==
  /\ At(t, "free")
  /\ stream' = [stream EXCEPT ![th[t].on] = Freed]
  /\ Returns(t)
  /\ UNCHANGED <<lock, adev, slots>>

\* adev_set_mode
SetMode(t) ==
  /\ At(t, "mode")
  /\ adev' = [adev EXCEPT !.mode = th[t].arg]
  /\ th' = [th EXCEPT ![t].pc = "call", ![t].arg = "none"]
  /\ UNCHANGED <<lock, slots, stream>>
SetInCall(t) ==
  /\ At(t, "call")
  /\ adev' = [adev EXCEPT !.in_call = (adev.mode = "IN_CALL")]
  /\ Goes(t, "release")
  /\ UNCHANGED <<lock, slots, stream>>

-----------------------------------------------------------------------------

Init ==
  /\ lock = Free
  /\ adev = [mode |-> "NORMAL", in_call |-> FALSE]
  /\ slots = [k \in Types |-> Null]
  /\ stream = [s \in Streams |-> Freed]
  /\ th = [t \in Threads |-> Idle]

Begin(t) ==
  \/ \E call \in StreamCalls, s \in Streams : CallStream(t, call, s)
  \/ \E s \in Outputs, type \in Types : OpenOutput(t, s, type)
  \/ \E s \in Inputs : OpenInput(t, s)
  \/ \E mode \in Modes : CallSetMode(t, mode)
  \/ CallSetWbAmr(t)

GoOn(t) ==
  \/ LockDevice(t)
  \/ LockStream(t)
  \/ UnlockStream(t)
  \/ UnlockDevice(t)
  \/ Start(t)
  \/ Transfer(t)
  \/ Stop(t)
  \/ Scan(t)
  \/ Select(t)
  \/ Reroute(t)
  \/ Link(t)
  \/ Unlink(t)
  \/ FreeStream(t)
  \/ SetMode(t)
  \/ SetInCall(t)

Next == \E t \in Threads : Begin(t) \/ GoOn(t)

Spec == Init /\ [][Next]_vars

\* A thread inside the HAL goes on when it can; a lock that others keep taking
\* may never be its own, and no thread has to make another call.
FairSpec == Spec /\ \A t \in Threads : WF_vars(GoOn(t))

-----------------------------------------------------------------------------
(* Properties.                                                             *)

StreamType == [mem : {"live", "free"}, standby : BOOLEAN,
               pcm : {"closed", "open"}, lock : Threads \cup {Free}]
HoldsBoth == {"start", "stop", "scan", "select", "done", "running", "failed"}
HoldsDevice == HoldsBoth \cup {"stream", "link", "unlink", "unlinked", "busy", "release",
                               "mode", "call"}
HoldsStream == HoldsBoth \cup {"transfer", "leave"}
Places == HoldsDevice \cup HoldsStream \cup {"idle", "adev", "unlinking", "free"}
ThreadType ==
  [call : Calls \cup {"none"}, on : Streams \cup {Null}, pc : Places,
   arg : Types \cup Modes \cup {"none"}, seen : SUBSET Outputs]

\* The locks, the device, the streams and the threads hold values of their types.
TypeOK ==
  /\ lock \in Threads \cup {Free}
  /\ adev \in [mode : Modes \cup {"NORMAL"}, in_call : BOOLEAN]
  /\ slots \in [Types -> Outputs \cup {Null}]
  /\ stream \in [Streams -> StreamType]
  /\ th \in [Threads -> ThreadType]

\* While a transfer is under way on the stream's lock alone, no standby, routing
\* or failed start of another thread closes the PCM under it, and the stream is
\* not freed (out_write, in_read).
TransferSafe ==
  \A t \in Threads :
    At(t, "transfer") => /\ stream[th[t].on].mem = "live"
                         /\ stream[th[t].on].pcm = "open"

\* "safe to access other stream without a mutex, because we hold the dev lock":
\* while a thread looks for the other outputs, no slot holds a freed stream, and
\* what it saw is still so when it selects the devices.
ScanSafe ==
  \A t \in Threads :
    /\ At(t, "scan") => \A k \in Types : slots[k] # Null => stream[slots[k]].mem = "live"
    /\ At(t, "select") => th[t].seen = output_devices(th[t].on)

\* Although adev_set_mode looks at the mode before it takes adev->lock, whoever
\* gets the lock next finds a call under way exactly in the mode of a call.
ModeMatchesCall == lock = Free => (adev.in_call <=> adev.mode = "IN_CALL")

\* "acquiring hw device mutex systematically is useful": a thread that holds
\* adev->lock gives it back, even if it waits for the lock of a stream whose
\* thread makes one transfer after the other.  No two calls wait for each other.
HolderProceeds == \A t \in Threads : lock = t ~> lock # t

=============================================================================
