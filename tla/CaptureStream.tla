--------------------------- MODULE CaptureStream ---------------------------
(***************************************************************************)
(* The data path of one input stream: in_read, the loop of read_frames     *)
(* over the periods of the driver, the volume ramp that starts a           *)
(* recording, and the mute.  in_read holds in->lock from end to end, so    *)
(* its steps interleave with adev_set_mic_mute only, which takes no lock.  *)
(* Frames carry their number since the PCM was opened.  An input stream is *)
(* stereo (adev_open_input_stream refuses the rest), so the conversion to  *)
(* mono is left out.                                                       *)
(***************************************************************************)
EXTENDS Integers

CONSTANTS
  Period,      \* pcm_config_in.period_size, 240
  Rate,        \* in->requested_rate
  Requests,    \* the numbers of frames that in_read is called for
  PcmResults,  \* may pcm_read succeed?
  MaxCaptured, \* bound: frames that the driver delivers after one opening, and
               \* those that a resampler makes of what it holds
  Stale,       \* what the caller's buffer held
  Silence,     \* a frame of zeroes
  Sound        \* a frame made by the resampler

USHRT_MAX == 65535
RampTotal == (8 * Rate) \div 1000    \* CAPTURE_START_RAMP_MS of frames

ASSUME CaptureAssumption ==
  /\ Period \in Nat \ {0}
  /\ Rate \in Nat /\ RampTotal \in 1..USHRT_MAX
  /\ Requests \subseteq Nat \ {0}
  /\ PcmResults \subseteq BOOLEAN
  /\ MaxCaptured \in Nat
  /\ {Stale, Silence, Sound} \cap Nat = {}

VARIABLES
  resampler,    \* has the stream one?
  standby,
  frames_in,    \* the frames of in->buffer that are not yet read
  read_status,  \* is in->read_status 0?
  ramp_vol, ramp_step, ramp_frames,
  mic_mute,     \* of the device
  pc,           \* "idle", "reading" in read_frames, "finishing" in_read
  out,          \* the caller's buffer
  frames_rq,    \* the frames it is for
  frames_wr,    \* the frames written to it
  captured,     \* the frames that the driver delivered since it was opened
  handed,       \* the number after that of the last frame handed out
  returned      \* the frames of the reads that succeeded since then

path == <<standby, frames_in, read_status, captured, handed>>
ramp == <<ramp_vol, ramp_step, ramp_frames>>
call == <<pc, out, frames_rq, frames_wr, returned>>
vars == <<path, ramp, call, mic_mute, resampler>>

Least(a, b) == IF a < b THEN a ELSE b

-----------------------------------------------------------------------------

\* broken: the step is rounded up
InitRampUp ==
  /\ ramp_frames' = RampTotal
  /\ ramp_step' = (USHRT_MAX \div RampTotal) + 1
  /\ ramp_vol' = 0

InitRamp ==
  /\ ramp_frames' = RampTotal
  /\ ramp_step' = USHRT_MAX \div RampTotal
  /\ ramp_vol' = 0

\* broken: a leftover of the recording before is taken for the first frames
StartKeepsFrames ==
  /\ standby' = FALSE /\ captured' = 0 /\ handed' = 0 /\ returned' = 0
  /\ InitRamp
  /\ UNCHANGED <<frames_in, read_status>>

\* start_input_stream, when the PCM opens; when it does not, in_read leaves the
\* stream in standby and the buffer alone
start_input_stream ==
  /\ standby' = FALSE /\ captured' = 0 /\ handed' = 0 /\ returned' = 0
  /\ frames_in' = 0
  /\ InitRamp
  /\ UNCHANGED read_status

BeginRead(frames) ==
  /\ pc = "idle"
  /\ pc' = "reading"
  /\ frames_rq' = frames /\ frames_wr' = 0
  /\ out' = [k \in 1..frames |-> Stale]
  /\ IF standby THEN start_input_stream ELSE UNCHANGED <<path, ramp, returned>>
  /\ UNCHANGED <<mic_mute, resampler>>

-----------------------------------------------------------------------------
(* get_next_buffer and release_buffer.  The number of the frame that       *)
(* buffer->i16 points to comes from the last period and the offset in it.  *)

NeedsPeriod == frames_in = 0

\* broken: the chunk is taken from the start of in->buffer
FirstFrameOfBuffer(got, left) == got - Period

FirstFrame(got, left) == got - Period + (Period - left)

\* broken: a chunk is as long as it was asked for
ChunkAsked(asked, left) == asked

\* broken: the last frame of a period is kept back
ChunkKeepsOne(asked, left) == Least(asked, left - 1)

Chunk(asked, left) == Least(asked, left)

Hand(got, left, count) ==
  /\ captured' = got
  /\ frames_in' = left - count
  /\ handed' = FirstFrame(got, left) + count
  /\ read_status' = (NeedsPeriod \/ read_status)
  /\ UNCHANGED standby

got_now == IF NeedsPeriod THEN captured + Period ELSE captured
left_now == IF NeedsPeriod THEN Period ELSE frames_in
CanGet == NeedsPeriod => TRUE \in PcmResults /\ captured + Period <= MaxCaptured

\* read_frames returns when it has all frames, or at an error
Advance(made) ==
  /\ frames_wr' = frames_wr + made
  /\ pc' = IF frames_wr + made = frames_rq \/ ~read_status' THEN "finishing" ELSE pc
  /\ UNCHANGED <<frames_rq, returned>>

\* broken: every chunk is copied to the start of the buffer
WithChunkFirst(first, count) ==
  [k \in 1..frames_rq |-> IF k \in 1..count THEN first + k - 1 ELSE out[k]]

WithChunk(first, count) ==
  [k \in 1..frames_rq |->
     IF k \in (frames_wr + 1)..(frames_wr + count)
     THEN first + k - frames_wr - 1 ELSE out[k]]

\* one turn of the loop of read_frames
CopyFrames ==
  LET count == Chunk(frames_rq - frames_wr, left_now)
  IN  /\ pc = "reading" /\ ~resampler /\ CanGet
      /\ Hand(got_now, left_now, count)
      /\ out' = WithChunk(FirstFrame(got_now, left_now), count)
      /\ Advance(count)
      /\ UNCHANGED <<ramp, mic_mute, resampler>>

\* resample_from_provider takes chunks until it has filled the buffer
Resample(asked, made) ==
  /\ pc = "reading" /\ resampler /\ CanGet
  /\ Hand(got_now, left_now, Chunk(asked, left_now))
  /\ out' = [k \in 1..frames_rq |->
               IF k \in (frames_wr + 1)..(frames_wr + made) THEN Sound ELSE out[k]]
  /\ Advance(made)
  /\ UNCHANGED <<ramp, mic_mute, resampler>>

\* ... and may fill some of it with what it took before, without a chunk
ResampleRest(made) ==
  /\ pc = "reading" /\ resampler
  /\ returned + frames_wr + made <= MaxCaptured
  /\ UNCHANGED path
  /\ out' = [k \in 1..frames_rq |->
               IF k \in (frames_wr + 1)..(frames_wr + made) THEN Sound ELSE out[k]]
  /\ Advance(made)
  /\ UNCHANGED <<ramp, mic_mute, resampler>>

\* pcm_read fails: no chunk, and read_frames returns at once
ReadError ==
  /\ pc = "reading" /\ NeedsPeriod
  /\ FALSE \in PcmResults \/ captured + Period > MaxCaptured
  /\ read_status' = FALSE
  /\ pc' = "finishing"
  /\ UNCHANGED <<standby, frames_in, captured, handed, ramp, mic_mute, resampler,
                 out, frames_rq, frames_wr, returned>>

-----------------------------------------------------------------------------
(* The end of in_read.                                                     *)

\* broken: the next read ramps the same part again
RampFramesKept(n) ==
  /\ ramp_vol' = (ramp_vol + n * ramp_step) % (USHRT_MAX + 1)
  /\ UNCHANGED <<ramp_frames, ramp_step>>

\* in_apply_ramp over n frames; the volume is a uint16_t
RampFrames(n) ==
  /\ ramp_vol' = (ramp_vol + n * ramp_step) % (USHRT_MAX + 1)
  /\ ramp_frames' = ramp_frames - n
  /\ UNCHANGED ramp_step

\* the ramp runs over the buffer whatever was read, the mute only when all was
FinishRead ==
  /\ pc = "finishing"
  /\ pc' = "idle"
  /\ RampFrames(Least(frames_rq, ramp_frames))
  /\ out' = IF read_status /\ mic_mute THEN [k \in 1..frames_rq |-> Silence] ELSE out
  /\ returned' = IF read_status THEN returned + frames_rq ELSE returned
  /\ UNCHANGED <<path, frames_rq, frames_wr, mic_mute, resampler>>

-----------------------------------------------------------------------------

in_standby ==
  /\ pc = "idle" /\ ~standby
  /\ standby' = TRUE
  /\ UNCHANGED <<frames_in, read_status, captured, handed, ramp, call, mic_mute,
                 resampler>>

adev_set_mic_mute(state) == mic_mute' = state /\ UNCHANGED <<path, ramp, call, resampler>>

Init ==
  /\ resampler \in BOOLEAN
  /\ standby = TRUE /\ frames_in = 0 /\ read_status = TRUE
  /\ ramp_vol = 0 /\ ramp_step = 0 /\ ramp_frames = 0
  /\ mic_mute = FALSE
  /\ pc = "idle" /\ frames_rq = 0 /\ frames_wr = 0
  /\ out = [k \in 1..0 |-> Stale]
  /\ captured = 0 /\ handed = 0 /\ returned = 0

Next ==
  \/ \E frames \in Requests : BeginRead(frames)
  \/ CopyFrames
  \/ \E asked \in 1..Period, made \in 0..(frames_rq - frames_wr) : Resample(asked, made)
  \/ \E made \in 1..(frames_rq - frames_wr) : ResampleRest(made)
  \/ ReadError
  \/ FinishRead
  \/ in_standby
  \/ \E state \in BOOLEAN : adev_set_mic_mute(state)

Spec == Init /\ [][Next]_vars

\* the thread in in_read runs; it waits for nothing but the driver
FairSpec == Spec /\ WF_vars(CopyFrames \/ ReadError) /\ WF_vars(FinishRead)

-----------------------------------------------------------------------------
(* Properties.                                                             *)

\* Everything holds a value of its type: the volume fits 16 bits, what is left
\* of a period fits the buffer, no more is written than was asked for.
TypeOK ==
  /\ {resampler, standby, read_status, mic_mute} \subseteq BOOLEAN
  /\ frames_in \in 0..Period
  /\ {ramp_vol, ramp_step} \subseteq 0..USHRT_MAX /\ ramp_frames \in 0..RampTotal
  /\ pc \in {"idle", "reading", "finishing"}
  /\ frames_rq \in Requests \cup {0} /\ frames_wr \in 0..frames_rq
  /\ out \in [1..frames_rq -> Nat \cup {Stale, Silence, Sound}]
  /\ {captured, handed, returned} \subseteq Nat

\* Every frame of a recording is handed out once and in order, whatever sizes
\* the reads have, whether the resampler or the copy takes them, over failed
\* reads and across standby (get_next_buffer, release_buffer).
FramesInOrder == handed = captured - frames_in

\* What a read copied is a run of consecutive frames, and goes on where the
\* last read ended (read_frames).
CopiedInOrder ==
  pc # "idle" /\ ~resampler
    => \A k \in 1..frames_wr : out[k] = handed - frames_wr + k - 1

\* The ramp rises by one step a frame, over reads of any size, and never wraps
\* its 16 bits; no frame that a read returned is played softer than its place
\* in the ramp says, however many reads failed before (in_apply_ramp).
RampOnCourse ==
  /\ ramp_vol = (RampTotal - ramp_frames) * ramp_step
  /\ RampTotal * ramp_step <= USHRT_MAX
  /\ ~standby => RampTotal - ramp_frames >= Least(RampTotal, returned)

\* A read that copies what it reads ends, whatever the driver answers: each
\* turn of the loop of read_frames gets on or gives up.
ReadEnds == pc = "reading" /\ ~resampler ~> pc = "idle"

=============================================================================
