------------------------ MODULE CaptureStream_proofs ------------------------
(***************************************************************************)
(* Theorems about CaptureStream, for periods, rates and reads of any size. *)
(***************************************************************************)
EXTENDS CaptureStream, TLAPS

IInv == TypeOK /\ FramesInOrder /\ CopiedInOrder /\ RampOnCourse

-----------------------------------------------------------------------------
(* Arithmetic of the ramp.                                                 *)

LEMMA StepFits ==
  ASSUME NEW m \in Nat, NEW t \in Nat \ {0}
  PROVE  m \div t \in 0..m /\ t * (m \div t) <= m
<1>1. m \div t \in Int /\ m % t \in 0..(t - 1) /\ m = t * (m \div t) + (m % t)
  OBVIOUS
<1>2. t * (m \div t) <= m
  BY <1>1
<1>3. m \div t >= 0
  OBVIOUS
<1>4. m \div t <= m
  OBVIOUS
<1> QED
  BY <1>1, <1>2, <1>3, <1>4

LEMMA ProductGrows ==
  ASSUME NEW a \in Nat, NEW b \in Nat, a <= b, NEW s \in Nat
  PROVE  a * s <= b * s
<1>1. PICK d \in Nat : b = a + d
  <2>1. b - a \in Nat /\ b = a + (b - a)
    OBVIOUS
  <2> QED
    BY <2>1
<1>2. b * s = a * s + d * s
  BY <1>1
<1>3. d * s \in Nat /\ a * s \in Nat
  OBVIOUS
<1> QED
  BY <1>2, <1>3

LEMMA MaxIsNat == USHRT_MAX \in Nat
  BY DEF USHRT_MAX

\* What stays under the maximum does not wrap.
LEMMA NoWrap ==
  ASSUME NEW v \in Nat, NEW m \in Nat, v <= m, m <= USHRT_MAX
  PROVE  v \in 0..USHRT_MAX /\ v % (USHRT_MAX + 1) = v
  BY MaxIsNat

\* The ramp goes on by n frames without wrapping.
LEMMA RampGoesOn ==
  ASSUME NEW t \in Nat, NEW f \in 0..t, NEW n \in 0..f, NEW s \in Nat, t * s <= USHRT_MAX
  PROVE  /\ ((t - f) * s + n * s) % (USHRT_MAX + 1) = (t - (f - n)) * s
         /\ (t - (f - n)) * s \in 0..USHRT_MAX
<1>1. (t - f) * s + n * s = (t - (f - n)) * s
  OBVIOUS
<1>2. (t - (f - n)) * s <= t * s
  BY ProductGrows
<1>3. (t - (f - n)) * s \in Nat
  OBVIOUS
<1> DEFINE v == (t - (f - n)) * s
           m == t * s
<1>4. v \in Nat /\ v <= m /\ m \in Nat /\ m <= USHRT_MAX
  BY <1>2, <1>3
<1> HIDE DEF v, m
<1>5. v \in 0..USHRT_MAX /\ v % (USHRT_MAX + 1) = v
  BY <1>4, NoWrap
<1> QED
  BY <1>1, <1>5 DEF v

-----------------------------------------------------------------------------
(* The path of the frames.                                                 *)

\* The chunk that is handed out starts where the last one ended, is not empty
\* when some frames are asked for, and fits what is left.
LEMMA HandInOrder ==
  ASSUME IInv, NEW asked \in Nat, NEW count, count = Chunk(asked, left_now),
         Hand(got_now, left_now, count)
  PROVE  /\ FirstFrame(got_now, left_now) = handed
         /\ handed' = handed + count /\ count \in 0..asked
         /\ frames_in' \in 0..Period /\ captured' \in Nat /\ handed' \in Nat
         /\ FramesInOrder' /\ read_status' \in BOOLEAN /\ standby' = standby
<1>1. Period \in Nat /\ frames_in \in 0..Period /\ captured \in Nat /\ handed \in Nat
      /\ handed = captured - frames_in
  BY CaptureAssumption DEF IInv, TypeOK, FramesInOrder
<1>2. got_now \in Nat /\ left_now \in 0..Period /\ got_now - left_now = handed
  BY <1>1 DEF got_now, left_now, NeedsPeriod
<1>3. FirstFrame(got_now, left_now) = handed
  BY <1>1, <1>2 DEF FirstFrame
<1>4. count \in 0..asked /\ count <= left_now
  BY <1>2 DEF Chunk, Least
<1>5. captured' = got_now /\ frames_in' = left_now - count /\ handed' = handed + count
      /\ standby' = standby /\ read_status' \in BOOLEAN
  BY <1>3 DEF Hand
<1> QED
  BY <1>1, <1>2, <1>3, <1>4, <1>5 DEF FramesInOrder

LEMMA InitIInv ==
  ASSUME Init
  PROVE  IInv
<1>1. RampTotal \in Nat /\ RampTotal >= 0 /\ Period \in Nat
  BY CaptureAssumption DEF IInv
<1>2. TypeOK
  <2>1. out \in [1..frames_rq -> Nat \cup {Stale, Silence, Sound}]
    BY DEF Init
  <2>2. 0 \in 0..USHRT_MAX /\ 0 \in 0..RampTotal /\ 0 \in 0..Period /\ 0 \in 0..0
    BY <1>1, MaxIsNat
  <2>3. {resampler, standby, read_status, mic_mute} \subseteq BOOLEAN
    BY DEF Init
  <2> QED
    BY <2>1, <2>2, <2>3 DEF Init, TypeOK
<1>3. RampOnCourse
  BY <1>1, MaxIsNat DEF Init, RampOnCourse
<1> QED
  BY <1>2, <1>3 DEF Init, IInv, FramesInOrder, CopiedInOrder

LEMMA TotalType == RampTotal \in 1..USHRT_MAX /\ RampTotal \in Nat
  BY CaptureAssumption, MaxIsNat

LEMMA BeginKeeps ==
  ASSUME IInv, NEW frames \in Requests, BeginRead(frames)
  PROVE  IInv'
<1> USE DEF IInv
<1>1. frames \in Nat \ {0} /\ Period \in Nat
  BY CaptureAssumption
<1>2. USHRT_MAX \div RampTotal \in 0..USHRT_MAX
      /\ RampTotal * (USHRT_MAX \div RampTotal) <= USHRT_MAX
  BY TotalType, MaxIsNat, StepFits
<1>3. CASE standby
  <2>1. start_input_stream
    BY <1>3 DEF BeginRead
  <2>2. TypeOK'
    <3>1. {resampler, standby, read_status, mic_mute}' \subseteq BOOLEAN
      BY <2>1 DEF BeginRead, start_input_stream, TypeOK
    <3>2. out' \in [1..frames_rq' -> Nat \cup {Stale, Silence, Sound}]
          /\ frames_rq' \in Requests /\ frames_wr' \in 0..frames_rq' /\ pc' = "reading"
      BY <1>1 DEF BeginRead
    <3>3. frames_in' = 0 /\ captured' = 0 /\ handed' = 0 /\ returned' = 0
          /\ ramp_vol' = 0 /\ ramp_step' \in 0..USHRT_MAX /\ ramp_frames' = RampTotal
      BY <1>2, <2>1 DEF start_input_stream, InitRamp
    <3>4. 0 \in 0..Period /\ 0 \in 0..USHRT_MAX /\ RampTotal \in 0..RampTotal
      BY <1>1, TotalType, MaxIsNat
    <3> QED
      BY <3>1, <3>2, <3>3, <3>4 DEF TypeOK
  <2>3. RampOnCourse'
    BY <1>2, <2>1, TotalType, MaxIsNat
       DEF start_input_stream, InitRamp, RampOnCourse, Least
  <2>4. FramesInOrder' /\ CopiedInOrder'
    BY <2>1 DEF BeginRead, start_input_stream, FramesInOrder, CopiedInOrder
  <2> QED
    BY <2>2, <2>3, <2>4
<1>4. CASE ~standby
  <2>1. UNCHANGED <<path, ramp, returned>>
    BY <1>4 DEF BeginRead
  <2>2. TypeOK'
    BY <1>1, <2>1 DEF BeginRead, path, ramp, TypeOK
  <2>3. RampOnCourse' /\ FramesInOrder'
    BY <2>1 DEF path, ramp, RampOnCourse, FramesInOrder
  <2>4. CopiedInOrder'
    BY DEF BeginRead, CopiedInOrder
  <2> QED
    BY <2>2, <2>3, <2>4
<1> QED
  BY <1>3, <1>4

LEMMA CopyKeeps ==
  ASSUME IInv, CopyFrames
  PROVE  IInv'
<1> USE DEF IInv
<1> DEFINE count == Chunk(frames_rq - frames_wr, left_now)
<1>1. frames_rq \in Nat /\ frames_wr \in 0..frames_rq /\ frames_rq - frames_wr \in Nat
  BY CaptureAssumption DEF TypeOK
<1>2. /\ pc = "reading" /\ ~resampler /\ Hand(got_now, left_now, count)
      /\ out' = WithChunk(FirstFrame(got_now, left_now), count)
      /\ frames_wr' = frames_wr + count /\ frames_rq' = frames_rq
      /\ pc' \in {"reading", "finishing"} /\ returned' = returned
      /\ UNCHANGED <<ramp, mic_mute, resampler>>
  BY DEF CopyFrames, Advance
<1>3. /\ FirstFrame(got_now, left_now) = handed
      /\ handed' = handed + count /\ count \in 0..(frames_rq - frames_wr)
      /\ frames_in' \in 0..Period /\ captured' \in Nat /\ handed' \in Nat
      /\ FramesInOrder' /\ read_status' \in BOOLEAN /\ standby' = standby
  <2> HIDE DEF count
  <2>1. count = Chunk(frames_rq - frames_wr, left_now)
    BY DEF count
  <2> QED
    BY <1>1, <1>2, <2>1, HandInOrder
<1> HIDE DEF count
<1>4. out' = [k \in 1..frames_rq |->
                IF k \in (frames_wr + 1)..(frames_wr + count)
                THEN handed + k - frames_wr - 1 ELSE out[k]]
  BY <1>2, <1>3 DEF WithChunk
<1>5. frames_wr' \in 0..frames_rq'
  BY <1>1, <1>2, <1>3
<1>6. out' \in [1..frames_rq' -> Nat \cup {Stale, Silence, Sound}]
  <2>1. \A k \in (frames_wr + 1)..(frames_wr + count) : handed + k - frames_wr - 1 \in Nat
    BY <1>1, <1>3 DEF TypeOK
  <2>2. out \in [1..frames_rq -> Nat \cup {Stale, Silence, Sound}]
    BY DEF TypeOK
  <2> QED
    BY <1>2, <1>4, <2>1, <2>2
<1>7. TypeOK'
  BY <1>2, <1>3, <1>5, <1>6 DEF TypeOK, ramp
<1>8. CopiedInOrder'
  <2> SUFFICES ASSUME NEW k \in 1..(frames_wr + count)
               PROVE  out'[k] = handed' - frames_wr' + k - 1
    BY <1>2 DEF CopiedInOrder
  <2>1. handed \in Nat /\ count \in Nat /\ frames_wr \in Nat /\ k \in 1..frames_rq
    BY <1>1, <1>3 DEF TypeOK
  <2>2. CASE k \in (frames_wr + 1)..(frames_wr + count)
    BY <1>2, <1>3, <1>4, <2>1, <2>2
  <2>3. CASE k \in 1..frames_wr
    <3>1. out[k] = handed - frames_wr + k - 1
      BY <1>2, <2>3 DEF CopiedInOrder
    <3> QED
      BY <1>2, <1>3, <1>4, <2>1, <2>3, <3>1
  <2> QED
    BY <2>1, <2>2, <2>3
<1>9. RampOnCourse'
  BY <1>2, <1>3 DEF RampOnCourse, ramp
<1> QED
  BY <1>3, <1>7, <1>8, <1>9

LEMMA ResampleKeeps ==
  ASSUME IInv, NEW asked \in 1..Period, NEW made \in 0..(frames_rq - frames_wr),
         Resample(asked, made)
  PROVE  IInv'
<1> USE DEF IInv
<1> DEFINE count == Chunk(asked, left_now)
<1>1. frames_rq \in Nat /\ frames_wr \in 0..frames_rq /\ asked \in Nat
  <2>1. Period \in Nat /\ Requests \subseteq Nat
    BY CaptureAssumption
  <2> QED
    BY <2>1 DEF TypeOK
<1>2. /\ resampler /\ Hand(got_now, left_now, count)
      /\ frames_wr' = frames_wr + made /\ frames_rq' = frames_rq
      /\ pc' \in {"reading", "finishing"} /\ returned' = returned
      /\ UNCHANGED <<ramp, mic_mute, resampler>>
  BY DEF Resample, Advance
<1>3. /\ frames_in' \in 0..Period /\ captured' \in Nat /\ handed' \in Nat
      /\ FramesInOrder' /\ read_status' \in BOOLEAN /\ standby' = standby
  <2> HIDE DEF count
  <2>1. count = Chunk(asked, left_now)
    BY DEF count
  <2> QED
    BY <1>1, <1>2, <2>1, HandInOrder
<1>4. out' \in [1..frames_rq' -> Nat \cup {Stale, Silence, Sound}]
  BY <1>2 DEF Resample, TypeOK
<1>5. frames_wr' \in 0..frames_rq'
  BY <1>1, <1>2
<1>6. TypeOK'
  BY <1>2, <1>3, <1>4, <1>5 DEF TypeOK, ramp
<1>7. CopiedInOrder'
  BY <1>2 DEF CopiedInOrder
<1>8. RampOnCourse'
  BY <1>2, <1>3 DEF RampOnCourse, ramp
<1> QED
  BY <1>3, <1>6, <1>7, <1>8

LEMMA ResampleRestKeeps ==
  ASSUME IInv, NEW made \in 1..(frames_rq - frames_wr), ResampleRest(made)
  PROVE  IInv'
<1> USE DEF IInv
<1>1. frames_rq \in Nat /\ frames_wr \in 0..frames_rq
  <2>1. Requests \subseteq Nat /\ frames_rq \in Requests \cup {0}
    BY CaptureAssumption DEF TypeOK
  <2>2. frames_wr \in 0..frames_rq
    BY DEF TypeOK
  <2> QED
    BY <2>1, <2>2
<1>2. /\ resampler /\ frames_wr' = frames_wr + made /\ frames_rq' = frames_rq
      /\ pc' \in {"reading", "finishing"} /\ returned' = returned
      /\ UNCHANGED <<path, ramp, mic_mute, resampler>>
  BY DEF ResampleRest, Advance
<1>3. out' \in [1..frames_rq' -> Nat \cup {Stale, Silence, Sound}]
  BY <1>2 DEF ResampleRest, TypeOK
<1>4. frames_wr' \in 0..frames_rq'
  BY <1>1, <1>2
<1>5. TypeOK'
  BY <1>2, <1>3, <1>4 DEF TypeOK, ramp, path
<1> QED
  BY <1>2, <1>5 DEF path, ramp, FramesInOrder, CopiedInOrder, RampOnCourse

LEMMA FinishKeeps ==
  ASSUME IInv, FinishRead
  PROVE  IInv'
<1> USE DEF IInv
<1> DEFINE n == Least(frames_rq, ramp_frames)
<1>1. /\ frames_rq \in Nat /\ ramp_frames \in 0..RampTotal /\ ramp_step \in Nat
      /\ RampTotal \in Nat /\ returned \in Nat
      /\ ramp_vol = (RampTotal - ramp_frames) * ramp_step
      /\ RampTotal * ramp_step <= USHRT_MAX
  BY CaptureAssumption, TotalType, MaxIsNat DEF TypeOK, RampOnCourse
<1>2. n \in 0..ramp_frames /\ n <= frames_rq /\ (n = frames_rq \/ n = ramp_frames)
  BY <1>1 DEF Least
<1>3. /\ ramp_vol' = (ramp_vol + n * ramp_step) % (USHRT_MAX + 1)
      /\ ramp_frames' = ramp_frames - n /\ ramp_step' = ramp_step
  BY DEF FinishRead, RampFrames
<1> HIDE DEF n
<1>4. ramp_vol' = (RampTotal - ramp_frames') * ramp_step /\ ramp_vol' \in 0..USHRT_MAX
  BY <1>1, <1>2, <1>3, RampGoesOn
<1>5. ramp_frames' \in 0..RampTotal
  BY <1>1, <1>2, <1>3
<1>6. returned' \in {returned, returned + frames_rq} /\ returned' \in Nat
  BY <1>1 DEF FinishRead
<1>7. UNCHANGED <<path, frames_rq, frames_wr, mic_mute, resampler>> /\ pc' = "idle"
  BY DEF FinishRead
<1>8. out' \in [1..frames_rq -> Nat \cup {Stale, Silence, Sound}]
  BY DEF FinishRead, TypeOK
<1>9. TypeOK'
  BY <1>3, <1>4, <1>5, <1>6, <1>7, <1>8 DEF TypeOK, path
<1>10. ~standby' => RampTotal - ramp_frames' >= Least(RampTotal, returned')
  <2>1. ~standby => RampTotal - ramp_frames >= Least(RampTotal, returned)
    BY DEF RampOnCourse
  <2>2. standby' = standby
    BY <1>7 DEF path
  <2> QED
    BY <1>1, <1>2, <1>3, <1>6, <2>1, <2>2 DEF Least
<1>11. RampOnCourse'
  BY <1>1, <1>3, <1>4, <1>10 DEF RampOnCourse
<1> QED
  BY <1>7, <1>9, <1>11 DEF path, FramesInOrder, CopiedInOrder

LEMMA NextIInv ==
  ASSUME IInv, [Next]_vars
  PROVE  IInv'
<1> USE DEF IInv
<1>1. CASE ReadError
  <2>1. TypeOK'
    BY <1>1 DEF ReadError, ramp, TypeOK
  <2> QED
    BY <1>1, <2>1 DEF ReadError, ramp, FramesInOrder, CopiedInOrder, RampOnCourse
<1>2. CASE in_standby
  <2>1. TypeOK'
    BY <1>2 DEF in_standby, ramp, call, TypeOK
  <2> QED
    BY <1>2, <2>1 DEF in_standby, ramp, call, FramesInOrder, CopiedInOrder, RampOnCourse
<1>3. ASSUME NEW state \in BOOLEAN, adev_set_mic_mute(state) PROVE IInv'
  <2>1. TypeOK'
    BY <1>3 DEF adev_set_mic_mute, path, ramp, call, TypeOK
  <2> QED
    BY <1>3, <2>1 DEF adev_set_mic_mute, path, ramp, call, FramesInOrder, CopiedInOrder,
                      RampOnCourse
<1>4. CASE UNCHANGED vars
  BY <1>4 DEF vars, path, ramp, call, TypeOK, FramesInOrder, CopiedInOrder, RampOnCourse
<1> QED
  BY <1>1, <1>2, <1>3, <1>4, BeginKeeps, CopyKeeps, ResampleKeeps,
     ResampleRestKeeps, FinishKeeps DEF Next

THEOREM Invariance == Spec => []IInv
  BY InitIInv, NextIInv, PTL DEF Spec

\* Every variable has its type; the volume of the ramp fits its 16 bits and no
\* read runs over its buffer.
THEOREM TypeCorrect == Spec => []TypeOK
<1>1. IInv => TypeOK
  BY DEF IInv
<1> QED
  BY <1>1, Invariance, PTL

\* Every frame is handed out once and in order, for any period and any reads.
THEOREM NoFrameLost == Spec => []FramesInOrder
<1>1. IInv => FramesInOrder
  BY DEF IInv
<1> QED
  BY <1>1, Invariance, PTL

\* A read without a resampler copies a run of consecutive frames, which goes on
\* where the last read ended.
THEOREM ReadIsConsecutive == Spec => []CopiedInOrder
<1>1. IInv => CopiedInOrder
  BY DEF IInv
<1> QED
  BY <1>1, Invariance, PTL

\* The ramp rises by its step, never wraps, and never plays a frame softer than
\* its place, at any rate that gives the ramp a frame.
THEOREM RampIsSound == Spec => []RampOnCourse
<1>1. IInv => RampOnCourse
  BY DEF IInv
<1> QED
  BY <1>1, Invariance, PTL

=============================================================================
