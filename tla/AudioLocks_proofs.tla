------------------------- MODULE AudioLocks_proofs -------------------------
(***************************************************************************)
(* Proofs about the threads and the locks of the audio HAL: transfers and  *)
(* scans are safe for any number of threads, streams and calls.            *)
(***************************************************************************)
EXTENDS AudioLocks, TLAPS

(* Who holds a lock: the thread whose place in its call says so. *)
MutexInv ==
  \A t \in Threads :
    /\ th[t].pc \in HoldsDevice => lock = t
    /\ th[t].pc \in HoldsStream => stream[th[t].on].lock = t

(* Which call a place belongs to. *)
CallInv ==
  \A t \in Threads :
    /\ th[t].pc \in HoldsStream \cup {"stream"} =>
         th[t].call \in StreamCalls /\ th[t].on \in Streams
    /\ th[t].pc \in {"running", "failed", "transfer", "leave", "start"} =>
         th[t].call = "write"
    /\ th[t].pc \in {"link", "busy"} => th[t].call = "open"
    /\ th[t].pc \in {"unlinking", "unlink", "unlinked"} => th[t].call = "close"
    /\ th[t].pc = "free" => th[t].call \in {"open", "close"}
    /\ th[t].pc \in {"mode", "call"} => th[t].call = "set_mode"
    /\ th[t].call = "open" =>
         th[t].pc \in {"adev", "link", "busy", "free", "release"}
    /\ th[t].call \in {"open", "close"} \cup StreamCalls => th[t].on \in Streams
    /\ th[t].call = "open" => th[t].on \in Outputs
    /\ th[t].call = "open" /\ th[t].pc \in {"adev", "link"} => th[t].arg \in Types
    /\ th[t].call = "set_mode" /\ th[t].pc \in {"adev", "mode"} => th[t].arg \in Modes

(* A stream that a call is about is live, and its opening and its closing are  *)
(* alone with it.                                                              *)
MemInv ==
  \A t \in Threads :
    th[t].on # Null =>
      /\ stream[th[t].on].mem = "live"
      /\ th[t].call \in {"open", "close"} =>
           \A u \in Threads \ {t} : th[u].on # th[t].on

(* A stream out of standby has its PCM, and one being transferred is out of it. *)
PcmInv ==
  /\ \A s \in Streams : ~stream[s].standby => stream[s].pcm = "open"
  /\ \A t \in Threads :
       th[t].pc \in {"running", "transfer"} => ~stream[th[t].on].standby

(* A slot holds a live stream, and none that is not linked yet or no more. *)
SlotInv ==
  /\ \A k \in Types : slots[k] # Null => stream[slots[k]].mem = "live"
  /\ \A t \in Threads, k \in Types :
       \/ th[t].pc \in {"busy", "unlinked", "free"}
       \/ th[t].call = "open" /\ th[t].pc \in {"adev", "link"}
       => slots[k] # th[t].on

SeenInv ==
  \A t \in Threads : At(t, "select") => th[t].seen = output_devices(th[t].on)

ModeInv ==
  \/ \E t \in Threads : At(t, "call")
  \/ adev.in_call <=> adev.mode = "IN_CALL"

IInv ==
  /\ TypeOK /\ MutexInv /\ CallInv /\ MemInv /\ PcmInv /\ SlotInv /\ SeenInv /\ ModeInv

(* Init establishes the invariant. *)
LEMMA InitInv == Init => IInv
  <1> SUFFICES ASSUME Init PROVE IInv OBVIOUS
  <1> USE DEF Init, Idle, Freed, NewStream, HoldsDevice, HoldsStream, HoldsBoth, At
  <1>1. TypeOK
    BY DEF TypeOK, StreamType, ThreadType, Places
  <1>2. MutexInv /\ CallInv /\ MemInv
    BY DEF MutexInv, CallInv, MemInv, StreamCalls
  <1>3. PcmInv /\ SlotInv
    BY DEF PcmInv, SlotInv
  <1>4. SeenInv /\ ModeInv
    BY DEF SeenInv, ModeInv
  <1> QED
    BY <1>1, <1>2, <1>3, <1>4 DEF IInv

(* A thread that goes on to its next place. *)
LEMMA GoesType ==
  ASSUME TypeOK, NEW t \in Threads, NEW pc \in Places, Goes(t, pc)
  PROVE  th' \in [Threads -> ThreadType]
BY DEF TypeOK, ThreadType, Goes

OnlyMoves(t, pc) ==
  /\ th' \in [Threads -> ThreadType]
  /\ th'[t].pc = pc
  /\ \A u \in Threads : /\ u # t => th'[u].pc = th[u].pc
                        /\ th'[u].call = th[u].call
                        /\ th'[u].on = th[u].on
                        /\ th'[u].arg = th[u].arg
                        /\ th'[u].seen = th[u].seen

LEMMA GoesMoves ==
  ASSUME TypeOK, NEW t \in Threads, NEW pc \in Places, Goes(t, pc)
  PROVE  OnlyMoves(t, pc)
<1>1. th' \in [Threads -> ThreadType]
  BY GoesType DEF TypeOK
<1> QED
  BY <1>1 DEF TypeOK, ThreadType, Goes, OnlyMoves

LEMMA ReturnsType ==
  ASSUME TypeOK, NEW t \in Threads, Returns(t)
  PROVE  th' \in [Threads -> ThreadType]
BY DEF TypeOK, ThreadType, Returns, Idle, Places

(* Starting, stopping and the lock of a stream change that stream alone. *)
OneStreamChanges(t) ==
  /\ th[t].on \in Streams
  /\ stream' \in [Streams -> StreamType]
  /\ \A u \in Threads : th[u].on \in Streams \cup {Null}
  /\ \A r \in Streams : /\ r # th[t].on => stream'[r] = stream[r]
                        /\ stream'[r].mem = stream[r].mem

LEMMA StreamChanges ==
  ASSUME IInv, NEW t \in Threads, Start(t) \/ Stop(t) \/ LockStream(t) \/ UnlockStream(t)
  PROVE  OneStreamChanges(t)
<1> DEFINE s == th[t].on
<1>1. s \in Streams /\ stream \in [Streams -> StreamType]
  BY DEF IInv, TypeOK, CallInv, Start, Stop, LockStream, UnlockStream, At, HoldsStream, HoldsBoth
<1>2. \/ stream' = stream
      \/ \E q \in StreamType : /\ stream' = [stream EXCEPT ![s] = q]
                               /\ q.mem = stream[s].mem
  <2>1. CASE Start(t)
    <3>1. CASE stream' = [stream EXCEPT ![s].standby = FALSE, ![s].pcm = "open"]
      <4> DEFINE q == [stream[s] EXCEPT !.standby = FALSE, !.pcm = "open"]
      <4>1. q \in StreamType /\ q.mem = stream[s].mem /\ stream' = [stream EXCEPT ![s] = q]
        BY <1>1, <3>1 DEF StreamType
      <4> QED
        BY <4>1
    <3> QED
      BY <2>1, <3>1 DEF Start
  <2>2. CASE Stop(t)
    <3>1. CASE stream' = [stream EXCEPT ![s].standby = TRUE, ![s].pcm = "closed"]
      <4> DEFINE q == [stream[s] EXCEPT !.standby = TRUE, !.pcm = "closed"]
      <4>1. q \in StreamType /\ q.mem = stream[s].mem /\ stream' = [stream EXCEPT ![s] = q]
        BY <1>1, <3>1 DEF StreamType
      <4> QED
        BY <4>1
    <3> QED
      BY <2>2, <3>1 DEF Stop
  <2>3. CASE LockStream(t) \/ UnlockStream(t)
    <3>1. PICK o \in Threads \cup {Free} : stream' = [stream EXCEPT ![s].lock = o]
      BY <1>1, <2>3 DEF LockStream, UnlockStream, Unlock, StreamType
    <3> DEFINE q == [stream[s] EXCEPT !.lock = o]
    <3>2. q \in StreamType /\ q.mem = stream[s].mem /\ stream' = [stream EXCEPT ![s] = q]
      BY <1>1, <3>1 DEF StreamType
    <3> QED
      BY <3>2
  <2> QED
    BY <2>1, <2>2, <2>3
<1> QED
  BY <1>1, <1>2 DEF OneStreamChanges, IInv, TypeOK, ThreadType

(* What three of the steps do to the stream and to the thread. *)
Started(t) ==
  /\ At(t, "start") /\ UNCHANGED <<lock, adev, slots>>
  /\ stream'[th[t].on].lock = stream[th[t].on].lock
  /\ \/ /\ OnlyMoves(t, "running")
        /\ ~stream'[th[t].on].standby
        /\ \/ stream'[th[t].on].pcm = "open"
           \/ ~stream[th[t].on].standby /\ stream' = stream
     \/ OnlyMoves(t, "failed") /\ stream' = stream

LEMMA StartCases ==
  ASSUME IInv, NEW t \in Threads, Start(t)
  PROVE  OneStreamChanges(t) /\ Started(t)
<1> DEFINE s == th[t].on
<1>0. OneStreamChanges(t)
  BY StreamChanges DEF OneStreamChanges
<1>1. s \in Streams /\ stream \in [Streams -> StreamType]
  BY <1>0 DEF IInv, TypeOK, OneStreamChanges
<1>2. /\ Goes(t, "running") => OnlyMoves(t, "running")
      /\ Goes(t, "failed") => OnlyMoves(t, "failed")
  BY GoesMoves DEF IInv, OnlyMoves, Goes, Places, HoldsDevice, HoldsStream, HoldsBoth
<1>3. CASE Goes(t, "running") /\ stream' = [stream EXCEPT ![s].standby = FALSE, ![s].pcm = "open"]
  <2>1. /\ ~stream'[s].standby /\ stream'[s].pcm = "open"
        /\ stream'[s].lock = stream[s].lock
    BY <1>1, <1>3 DEF StreamType
  <2> QED
    BY <1>0, <1>2, <1>3, <2>1 DEF Start, Started
<1>4. CASE ~stream[s].standby /\ Goes(t, "running") /\ stream' = stream
  BY <1>0, <1>2, <1>4 DEF Start, Started
<1>5. CASE Goes(t, "failed") /\ stream' = stream
  BY <1>0, <1>2, <1>5 DEF Start, Started
<1> QED
  BY <1>3, <1>4, <1>5 DEF Start

Stopped(t) ==
  /\ At(t, "stop") /\ UNCHANGED <<lock, adev, slots>>
  /\ OnlyMoves(t, "done") \/ OnlyMoves(t, "scan")
  /\ stream'[th[t].on].lock = stream[th[t].on].lock
  /\ stream'[th[t].on].standby

LEMMA StopCases ==
  ASSUME IInv, NEW t \in Threads, Stop(t)
  PROVE  OneStreamChanges(t) /\ Stopped(t)
<1> DEFINE s == th[t].on
<1>0. OneStreamChanges(t)
  BY StreamChanges DEF OneStreamChanges
<1>1. s \in Streams /\ stream \in [Streams -> StreamType]
  BY <1>0 DEF IInv, TypeOK, OneStreamChanges
<1>2. OnlyMoves(t, "done") \/ OnlyMoves(t, "scan")
  <2>1. \E pc \in {"done", "scan"} : Goes(t, pc)
    BY DEF Stop
  <2> QED
    BY <2>1, GoesMoves DEF IInv, OnlyMoves, Goes, Places, HoldsDevice, HoldsStream, HoldsBoth
<1>3. stream'[s].standby /\ stream'[s].lock = stream[s].lock
  BY <1>1 DEF Stop, StreamType
<1> QED
  BY <1>0, <1>2, <1>3 DEF Stop, Stopped

GivenBack(t) ==
  /\ UNCHANGED <<lock, adev, slots>>
  /\ stream'[th[t].on].lock = Free
  /\ stream'[th[t].on].standby = stream[th[t].on].standby
  /\ stream'[th[t].on].pcm = stream[th[t].on].pcm
  /\ \/ At(t, "done") /\ OnlyMoves(t, "release")
     \/ At(t, "leave") /\ Returns(t)

LEMMA UnlockStreamCases ==
  ASSUME IInv, NEW t \in Threads, UnlockStream(t)
  PROVE  OneStreamChanges(t) /\ GivenBack(t)
<1> DEFINE s == th[t].on
<1>0. OneStreamChanges(t)
  BY StreamChanges DEF OneStreamChanges
<1>1. /\ s \in Streams /\ stream \in [Streams -> StreamType]
      /\ stream[s].lock = t
  BY <1>0 DEF IInv, TypeOK, OneStreamChanges, MutexInv, UnlockStream, HoldsStream, HoldsBoth
<1>2. /\ stream'[s].standby = stream[s].standby
      /\ stream'[s].pcm = stream[s].pcm
      /\ stream'[s].lock = Free
  BY <1>1 DEF UnlockStream, Unlock, StreamType
<1>3. Goes(t, "release") => OnlyMoves(t, "release")
  BY GoesMoves DEF IInv, OnlyMoves, Goes, Places, HoldsDevice, HoldsStream, HoldsBoth
<1>4. \/ At(t, "done") /\ Goes(t, "release")
      \/ At(t, "leave") /\ Returns(t)
  <2>1. CASE At(t, "done")
    BY <2>1 DEF UnlockStream
  <2>2. CASE ~At(t, "done")
    BY <2>2 DEF UnlockStream, At
  <2> QED
    BY <2>1, <2>2
<1>5. UNCHANGED <<lock, adev, slots>>
  BY DEF UnlockStream
<1> QED
  BY <1>0, <1>2, <1>3, <1>4, <1>5 DEF GivenBack

(* The actions, one case each.  IInv' follows conjunct by conjunct. *)

(* Every step keeps the types. *)
LEMMA TypeStep ==
  ASSUME IInv, NEW t \in Threads, Begin(t) \/ GoOn(t)
  PROVE  TypeOK'
<1>a. Start(t) => OneStreamChanges(t) /\ Started(t)
  BY StartCases
<1>b. Stop(t) => OneStreamChanges(t) /\ Stopped(t)
  BY StopCases
<1>c. UnlockStream(t) => OneStreamChanges(t) /\ GivenBack(t)
  BY UnlockStreamCases
<1>d. ASSUME Scan(t) \/ Select(t) PROVE th' \in [Threads -> ThreadType]
  <2>1. th \in [Threads -> ThreadType] /\ th[t] \in ThreadType
    BY DEF IInv, TypeOK
  <2>2. \E pc \in Places, seen \in SUBSET Outputs :
          th' = [th EXCEPT ![t].pc = pc, ![t].seen = seen]
    BY <1>d DEF Scan, Select, output_devices, Places, HoldsDevice, HoldsBoth
  <2>3. PICK pc \in Places, seen \in SUBSET Outputs :
          th' = [th EXCEPT ![t].pc = pc, ![t].seen = seen]
    BY <2>2
  <2> DEFINE q == [th[t] EXCEPT !.pc = pc, !.seen = seen]
  <2>4. q \in ThreadType /\ th' = [th EXCEPT ![t] = q]
    BY <2>1, <2>3 DEF ThreadType
  <2> QED
    BY <2>1, <2>4
<1> USE DEF IInv, TypeOK, StreamType, ThreadType, CallInv, Places, Calls, StreamCalls, Streams, HoldsDevice, HoldsStream, HoldsBoth, output_devices, At, Types
<1>1. ASSUME NEW call \in StreamCalls, NEW s \in Streams, CallStream(t, call, s) PROVE TypeOK'
  BY <1>1, ConstantsAssumption DEF CallStream, FirstLock, CanCall, Idle
<1>2. ASSUME NEW s \in Outputs, NEW type \in Types, OpenOutput(t, s, type) PROVE TypeOK'
  BY <1>2, ConstantsAssumption DEF OpenOutput, NewStream, Idle
<1>3. ASSUME NEW s \in Inputs, OpenInput(t, s) PROVE TypeOK'
  BY <1>3, ConstantsAssumption DEF OpenInput, NewStream
<1>4. ASSUME NEW mode \in Modes, CallSetMode(t, mode) PROVE TypeOK'
  BY <1>4, ConstantsAssumption DEF CallSetMode, Idle
<1>5. CASE CallSetWbAmr(t)
  BY <1>5, ConstantsAssumption DEF CallSetWbAmr, Idle
<1>6. CASE LockDevice(t)
  BY <1>6, ConstantsAssumption DEF LockDevice, Locked, Goes
<1>7. CASE LockStream(t)
  BY <1>7, ConstantsAssumption DEF LockStream, StreamLocked, Goes
<1>8. CASE UnlockStream(t)
  <2>1. Goes(t, "release") \/ Returns(t)
    BY <1>8 DEF UnlockStream, Places, HoldsDevice, HoldsStream, HoldsBoth
  <2>2. th' \in [Threads -> ThreadType]
    BY <2>1, GoesType, ReturnsType
  <2> QED
    BY <1>8, <2>2, <1>c, ConstantsAssumption DEF OneStreamChanges, GivenBack
<1>9. CASE UnlockDevice(t)
  BY <1>9, ConstantsAssumption DEF UnlockDevice, Unlocked, Unlock, Goes, Returns, Idle
<1>10. CASE Start(t)
  <2>1. \E pc \in Places : Goes(t, pc)
    BY <1>10 DEF Start, Places, HoldsDevice, HoldsStream, HoldsBoth
  <2>2. th' \in [Threads -> ThreadType]
    BY <2>1, GoesType, ReturnsType
  <2> QED
    BY <1>10, <2>2, <1>a, ConstantsAssumption DEF OneStreamChanges, Started
<1>11. CASE Transfer(t)
  <2>1. \E pc \in Places : Goes(t, pc)
    BY <1>11 DEF Transfer
  <2>2. th' \in [Threads -> ThreadType]
    BY <2>1, GoesType
  <2> QED
    BY <1>11, <2>2 DEF Transfer
<1>12. CASE Stop(t)
  <2>1. \E pc \in Places : Goes(t, pc)
    BY <1>12 DEF Stop, Places, HoldsDevice, HoldsStream, HoldsBoth
  <2>2. th' \in [Threads -> ThreadType]
    BY <2>1, GoesType, ReturnsType
  <2> QED
    BY <1>12, <2>2, <1>b, ConstantsAssumption DEF OneStreamChanges, Stopped
<1>13. CASE Scan(t)
  BY <1>13, <1>d DEF Scan
<1>14. CASE Select(t)
  BY <1>14, <1>d DEF Select
<1>15. CASE Reroute(t)
  <2>1. th' \in [Threads -> ThreadType]
    BY <1>15 DEF Reroute, Goes
  <2> QED
    BY <1>15, <2>1 DEF Reroute, Goes
<1>16. CASE Link(t)
  BY <1>16, ConstantsAssumption DEF Link
<1>17. CASE Unlink(t)
  <2>1. \E pc \in Places : Goes(t, pc)
    BY <1>17 DEF Unlink
  <2>2. th' \in [Threads -> ThreadType]
    BY <2>1, GoesType
  <2> QED
    BY <1>17, <2>2 DEF Unlink
<1>18. CASE FreeStream(t)
  BY <1>18, ConstantsAssumption DEF FreeStream, Freed, NewStream, Returns, Idle
<1>19. CASE SetMode(t)
  BY <1>19, ConstantsAssumption DEF SetMode
<1>20. CASE SetInCall(t)
  <2>1. \E pc \in Places : Goes(t, pc)
    BY <1>20 DEF SetInCall
  <2>2. th' \in [Threads -> ThreadType]
    BY <2>1, GoesType
  <2> QED
    BY <1>20, <2>2 DEF SetInCall
<1> QED
  BY <1>1, <1>2, <1>3, <1>4, <1>5, <1>6, <1>7, <1>8, <1>9, <1>10, <1>11, <1>12, <1>13, <1>14, <1>15, <1>16, <1>17, <1>18, <1>19, <1>20 DEF Begin, GoOn

(* A lock has the owner that its place says, whoever else goes on. *)
LEMMA MutexStep ==
  ASSUME IInv, NEW t \in Threads, Begin(t) \/ GoOn(t)
  PROVE  MutexInv'
<1>a. CASE Start(t)
  <2>1. OneStreamChanges(t) /\ Started(t)
    BY <1>a, StartCases
  <2> QED
    BY <2>1, ConstantsAssumption DEF IInv, At, OneStreamChanges, Started, OnlyMoves, MutexInv, CallInv, HoldsDevice, HoldsStream, HoldsBoth
<1>b. CASE Stop(t)
  <2>1. OneStreamChanges(t) /\ Stopped(t)
    BY <1>b, StopCases
  <2> QED
    BY <2>1, ConstantsAssumption DEF IInv, At, OneStreamChanges, Stopped, OnlyMoves, MutexInv, CallInv, HoldsDevice, HoldsStream, HoldsBoth
<1>c. CASE UnlockStream(t)
  <2>1. OneStreamChanges(t) /\ GivenBack(t)
    BY <1>c, UnlockStreamCases
  <2> QED
    BY <2>1, ConstantsAssumption DEF IInv, At, OneStreamChanges, GivenBack, OnlyMoves, Returns, Idle, TypeOK, MutexInv, CallInv, HoldsDevice, HoldsStream, HoldsBoth
<1> USE DEF IInv, MutexInv, TypeOK, StreamType, ThreadType, CallInv, MemInv, StreamCalls, Streams, HoldsDevice, HoldsStream, HoldsBoth, At
<1>1. ASSUME NEW call \in StreamCalls, NEW s \in Streams, CallStream(t, call, s) PROVE MutexInv'
  BY <1>1, ConstantsAssumption DEF CallStream, FirstLock, CanCall, Idle
<1>2. ASSUME NEW s \in Outputs, NEW type \in Types, OpenOutput(t, s, type) PROVE MutexInv'
  BY <1>2, ConstantsAssumption DEF OpenOutput, NewStream, Idle
<1>3. ASSUME NEW s \in Inputs, OpenInput(t, s) PROVE MutexInv'
  BY <1>3, ConstantsAssumption DEF OpenInput, NewStream
<1>4. ASSUME NEW mode \in Modes, CallSetMode(t, mode) PROVE MutexInv'
  BY <1>4, ConstantsAssumption DEF CallSetMode, Idle
<1>5. CASE CallSetWbAmr(t)
  BY <1>5, ConstantsAssumption DEF CallSetWbAmr, Idle
<1>6. CASE LockDevice(t)
  BY <1>6, ConstantsAssumption DEF LockDevice, Locked, Goes
<1>7. CASE LockStream(t)
  BY <1>7, ConstantsAssumption DEF LockStream, StreamLocked, Goes
<1>9. CASE UnlockDevice(t)
  BY <1>9, ConstantsAssumption DEF UnlockDevice, Unlocked, Unlock, Goes, Returns, Idle
<1>11. CASE Transfer(t)
  BY <1>11, ConstantsAssumption DEF Transfer, Goes
<1>13. CASE Scan(t)
  BY <1>13, ConstantsAssumption DEF Scan
<1>14. CASE Select(t)
  BY <1>14, ConstantsAssumption DEF Select
<1>15. CASE Reroute(t)
  BY <1>15, ConstantsAssumption DEF Reroute, Goes
<1>16. CASE Link(t)
  BY <1>16, ConstantsAssumption DEF Link
<1>17. CASE Unlink(t)
  BY <1>17, ConstantsAssumption DEF Unlink, Goes
<1>18. CASE FreeStream(t)
  BY <1>18, ConstantsAssumption DEF FreeStream, Freed, NewStream, Returns, Idle
<1>19. CASE SetMode(t)
  BY <1>19, ConstantsAssumption DEF SetMode
<1>20. CASE SetInCall(t)
  BY <1>20, ConstantsAssumption DEF SetInCall, Goes
<1> QED
  BY <1>1, <1>2, <1>3, <1>4, <1>5, <1>6, <1>7, <1>c, <1>9, <1>a, <1>11, <1>b, <1>13, <1>14, <1>15, <1>16, <1>17, <1>18, <1>19, <1>20 DEF Begin, GoOn

(* A call goes only through its own places. *)
LEMMA CallStep ==
  ASSUME IInv, NEW t \in Threads, Begin(t) \/ GoOn(t)
  PROVE  CallInv'
<1> USE DEF IInv, CallInv, TypeOK, StreamType, ThreadType, StreamCalls, Streams, HoldsDevice, HoldsStream, HoldsBoth, At
<1>1. ASSUME NEW call \in StreamCalls, NEW s \in Streams, CallStream(t, call, s) PROVE CallInv'
  BY <1>1, ConstantsAssumption DEF CallStream, FirstLock, CanCall, Idle
<1>2. ASSUME NEW s \in Outputs, NEW type \in Types, OpenOutput(t, s, type) PROVE CallInv'
  BY <1>2, ConstantsAssumption DEF OpenOutput, NewStream, Idle
<1>3. ASSUME NEW s \in Inputs, OpenInput(t, s) PROVE CallInv'
  BY <1>3, ConstantsAssumption DEF OpenInput, NewStream
<1>4. ASSUME NEW mode \in Modes, CallSetMode(t, mode) PROVE CallInv'
  BY <1>4, ConstantsAssumption DEF CallSetMode, Idle
<1>5. CASE CallSetWbAmr(t)
  BY <1>5, ConstantsAssumption DEF CallSetWbAmr, Idle
<1>6. CASE LockDevice(t)
  BY <1>6, ConstantsAssumption DEF LockDevice, Locked, Goes
<1>7. CASE LockStream(t)
  BY <1>7, ConstantsAssumption DEF LockStream, StreamLocked, Goes
<1>8. CASE UnlockStream(t)
  BY <1>8, ConstantsAssumption DEF UnlockStream, Unlock, Goes, Returns, Idle
<1>9. CASE UnlockDevice(t)
  BY <1>9, ConstantsAssumption DEF UnlockDevice, Unlocked, Unlock, Goes, Returns, Idle
<1>10. CASE Start(t)
  BY <1>10, StartCases DEF Started, OnlyMoves
<1>11. CASE Transfer(t)
  BY <1>11, ConstantsAssumption DEF Transfer, Goes
<1>12. CASE Stop(t)
  BY <1>12, ConstantsAssumption DEF Stop, Goes
<1>13. CASE Scan(t)
  BY <1>13, ConstantsAssumption DEF Scan
<1>14. CASE Select(t)
  BY <1>14, ConstantsAssumption DEF Select
<1>15. CASE Reroute(t)
  BY <1>15, ConstantsAssumption DEF Reroute, Goes
<1>16. CASE Link(t)
  BY <1>16, ConstantsAssumption DEF Link
<1>17. CASE Unlink(t)
  BY <1>17, ConstantsAssumption DEF Unlink, Goes
<1>18. CASE FreeStream(t)
  BY <1>18, ConstantsAssumption DEF FreeStream, Freed, NewStream, Returns, Idle
<1>19. CASE SetMode(t)
  BY <1>19, ConstantsAssumption DEF SetMode
<1>20. CASE SetInCall(t)
  BY <1>20, ConstantsAssumption DEF SetInCall, Goes
<1> QED
  BY <1>1, <1>2, <1>3, <1>4, <1>5, <1>6, <1>7, <1>8, <1>9, <1>10, <1>11, <1>12, <1>13, <1>14, <1>15, <1>16, <1>17, <1>18, <1>19, <1>20 DEF Begin, GoOn

(* No stream is freed while another call is about it. *)
LEMMA MemStep ==
  ASSUME IInv, NEW t \in Threads, Begin(t) \/ GoOn(t)
  PROVE  MemInv'
<1>a. CASE Start(t)
  <2>1. OneStreamChanges(t) /\ Started(t)
    BY <1>a, StartCases
  <2> QED
    BY <2>1, ConstantsAssumption DEF IInv, At, OneStreamChanges, Started, OnlyMoves, MemInv
<1>b. CASE Stop(t)
  <2>1. OneStreamChanges(t) /\ Stopped(t)
    BY <1>b, StopCases
  <2> QED
    BY <2>1, ConstantsAssumption DEF IInv, At, OneStreamChanges, Stopped, OnlyMoves, MemInv
<1>c. CASE UnlockStream(t)
  <2>1. OneStreamChanges(t) /\ GivenBack(t)
    BY <1>c, UnlockStreamCases
  <2> QED
    BY <2>1, ConstantsAssumption DEF IInv, At, OneStreamChanges, GivenBack, OnlyMoves, Returns, Idle, TypeOK, MemInv
<1> USE DEF IInv, MemInv, TypeOK, StreamType, ThreadType, CallInv, StreamCalls, Streams, At
<1>1. ASSUME NEW call \in StreamCalls, NEW s \in Streams, CallStream(t, call, s) PROVE MemInv'
  BY <1>1, ConstantsAssumption DEF CallStream, FirstLock, CanCall, Idle
<1>2. ASSUME NEW s \in Outputs, NEW type \in Types, OpenOutput(t, s, type) PROVE MemInv'
  BY <1>2, ConstantsAssumption DEF OpenOutput, NewStream, Idle
<1>3. ASSUME NEW s \in Inputs, OpenInput(t, s) PROVE MemInv'
  BY <1>3, ConstantsAssumption DEF OpenInput, NewStream
<1>4. ASSUME NEW mode \in Modes, CallSetMode(t, mode) PROVE MemInv'
  BY <1>4, ConstantsAssumption DEF CallSetMode, Idle
<1>5. CASE CallSetWbAmr(t)
  BY <1>5, ConstantsAssumption DEF CallSetWbAmr, Idle
<1>6. CASE LockDevice(t)
  BY <1>6, ConstantsAssumption DEF LockDevice, Locked, Goes
<1>7. CASE LockStream(t)
  BY <1>7, ConstantsAssumption DEF LockStream, StreamLocked, Goes
<1>9. CASE UnlockDevice(t)
  BY <1>9, ConstantsAssumption DEF UnlockDevice, Unlocked, Unlock, Goes, Returns, Idle
<1>11. CASE Transfer(t)
  BY <1>11, ConstantsAssumption DEF Transfer, Goes
<1>13. CASE Scan(t)
  BY <1>13, ConstantsAssumption DEF Scan
<1>14. CASE Select(t)
  BY <1>14, ConstantsAssumption DEF Select
<1>15. CASE Reroute(t)
  BY <1>15, ConstantsAssumption DEF Reroute, Goes
<1>16. CASE Link(t)
  BY <1>16, ConstantsAssumption DEF Link
<1>17. CASE Unlink(t)
  BY <1>17, ConstantsAssumption DEF Unlink, Goes
<1>18. CASE FreeStream(t)
  BY <1>18, ConstantsAssumption DEF FreeStream, Freed, NewStream, Returns, Idle
<1>19. CASE SetMode(t)
  BY <1>19, ConstantsAssumption DEF SetMode
<1>20. CASE SetInCall(t)
  BY <1>20, ConstantsAssumption DEF SetInCall, Goes
<1> QED
  BY <1>1, <1>2, <1>3, <1>4, <1>5, <1>6, <1>7, <1>c, <1>9, <1>a, <1>11, <1>b, <1>13, <1>14, <1>15, <1>16, <1>17, <1>18, <1>19, <1>20 DEF Begin, GoOn

(* A stream is stopped and started only by the owner of both locks. *)
LEMMA PcmStep ==
  ASSUME IInv, NEW t \in Threads, Begin(t) \/ GoOn(t)
  PROVE  PcmInv'
<1>a. CASE Start(t)
  <2>1. OneStreamChanges(t) /\ Started(t)
    BY <1>a, StartCases
  <2> QED
    BY <2>1, ConstantsAssumption DEF IInv, At, OneStreamChanges, Started, OnlyMoves, PcmInv, MutexInv, CallInv, HoldsDevice, HoldsStream, HoldsBoth
<1>b. CASE Stop(t)
  <2>1. OneStreamChanges(t) /\ Stopped(t)
    BY <1>b, StopCases
  <2> QED
    BY <2>1, ConstantsAssumption DEF IInv, At, OneStreamChanges, Stopped, OnlyMoves, PcmInv, MutexInv, CallInv, HoldsDevice, HoldsStream, HoldsBoth
<1>c. CASE UnlockStream(t)
  <2>1. OneStreamChanges(t) /\ GivenBack(t)
    BY <1>c, UnlockStreamCases
  <2> QED
    BY <2>1, ConstantsAssumption DEF IInv, At, OneStreamChanges, GivenBack, OnlyMoves, Returns, Idle, TypeOK, PcmInv, MutexInv, CallInv, HoldsDevice, HoldsStream, HoldsBoth
<1>d. CASE LockStream(t)
  <2> DEFINE s == th[t].on
  <2>1. OneStreamChanges(t)
    BY <1>d, StreamChanges
  <2>2. s \in Streams /\ stream \in [Streams -> StreamType]
    BY <2>1 DEF OneStreamChanges, IInv, TypeOK
  <2>3. stream'[s].standby = stream[s].standby /\ stream'[s].pcm = stream[s].pcm
    BY <1>d, <2>2 DEF LockStream, StreamType
  <2>4. \A r \in Streams : stream'[r].standby = stream[r].standby
                           /\ stream'[r].pcm = stream[r].pcm
    BY <2>1, <2>3 DEF OneStreamChanges
  <2>5. /\ \A u \in Threads : th'[u].on = th[u].on /\ (u # t => th'[u].pc = th[u].pc)
        /\ th'[t].pc \notin {"running", "transfer"}
    BY <1>d DEF LockStream, StreamLocked, Goes, IInv, TypeOK
  <2>6. \A u \in Threads : th[u].pc \in {"running", "transfer"} => th[u].on \in Streams
    BY DEF IInv, CallInv, HoldsStream, HoldsBoth
  <2>7. \A r \in Streams : ~stream'[r].standby => stream'[r].pcm = "open"
    BY <2>4 DEF IInv, PcmInv
  <2>8. ASSUME NEW u \in Threads, th'[u].pc \in {"running", "transfer"}
        PROVE  ~stream'[th'[u].on].standby
    <3>1. u # t
      BY <2>5, <2>8
    <3>2. th[u].pc \in {"running", "transfer"} /\ th'[u].on = th[u].on
      BY <2>5, <2>8, <3>1
    <3> QED
      BY <2>4, <2>6, <3>2 DEF IInv, PcmInv
  <2> QED
    BY <2>7, <2>8 DEF PcmInv
<1> USE DEF IInv, PcmInv, MutexInv, TypeOK, StreamType, ThreadType, CallInv, MemInv, StreamCalls, Streams, HoldsDevice, HoldsStream, HoldsBoth, At
<1>1. ASSUME NEW call \in StreamCalls, NEW s \in Streams, CallStream(t, call, s) PROVE PcmInv'
  BY <1>1, ConstantsAssumption DEF CallStream, FirstLock, CanCall, Idle
<1>2. ASSUME NEW s \in Outputs, NEW type \in Types, OpenOutput(t, s, type) PROVE PcmInv'
  BY <1>2, ConstantsAssumption DEF OpenOutput, NewStream, Idle
<1>3. ASSUME NEW s \in Inputs, OpenInput(t, s) PROVE PcmInv'
  BY <1>3, ConstantsAssumption DEF OpenInput, NewStream
<1>4. ASSUME NEW mode \in Modes, CallSetMode(t, mode) PROVE PcmInv'
  BY <1>4, ConstantsAssumption DEF CallSetMode, Idle
<1>5. CASE CallSetWbAmr(t)
  BY <1>5, ConstantsAssumption DEF CallSetWbAmr, Idle
<1>6. CASE LockDevice(t)
  BY <1>6, ConstantsAssumption DEF LockDevice, Locked, Goes
<1>9. CASE UnlockDevice(t)
  <2>1. stream' = stream
    BY <1>9 DEF UnlockDevice
  <2>2. ASSUME NEW u \in Threads, th'[u].pc \in {"running", "transfer"}
        PROVE  /\ th[u].pc \in {"running", "transfer"}
               /\ th'[u].on = th[u].on
    <3>1. CASE u = t
      BY <1>9, <2>2, <3>1 DEF UnlockDevice, Unlocked, Goes, Returns, Idle
    <3>2. CASE u # t
      BY <1>9, <2>2, <3>2 DEF UnlockDevice, Goes, Returns
    <3> QED
      BY <3>1, <3>2
  <2> QED
    BY <2>1, <2>2
<1>11. CASE Transfer(t)
  BY <1>11, ConstantsAssumption DEF Transfer, Goes
<1>13. CASE Scan(t)
  BY <1>13, ConstantsAssumption DEF Scan
<1>14. CASE Select(t)
  BY <1>14, ConstantsAssumption DEF Select
<1>15. CASE Reroute(t)
  BY <1>15, ConstantsAssumption DEF Reroute, Goes
<1>16. CASE Link(t)
  BY <1>16, ConstantsAssumption DEF Link
<1>17. CASE Unlink(t)
  BY <1>17, ConstantsAssumption DEF Unlink, Goes
<1>18. CASE FreeStream(t)
  BY <1>18, ConstantsAssumption DEF FreeStream, Freed, NewStream, Returns, Idle
<1>19. CASE SetMode(t)
  BY <1>19, ConstantsAssumption DEF SetMode
<1>20. CASE SetInCall(t)
  BY <1>20, ConstantsAssumption DEF SetInCall, Goes
<1> QED
  BY <1>1, <1>2, <1>3, <1>4, <1>5, <1>6, <1>d, <1>c, <1>9, <1>a, <1>11, <1>b, <1>13, <1>14, <1>15, <1>16, <1>17, <1>18, <1>19, <1>20 DEF Begin, GoOn

(* A slot is filled after the stream is there and emptied before it is freed. *)
LEMMA SlotStep ==
  ASSUME IInv, NEW t \in Threads, Begin(t) \/ GoOn(t)
  PROVE  SlotInv'
<1>a. CASE Start(t)
  <2>1. OneStreamChanges(t) /\ Started(t)
    BY <1>a, StartCases
  <2> QED
    BY <2>1, ConstantsAssumption DEF IInv, At, OneStreamChanges, Started, OnlyMoves, SlotInv, TypeOK, Streams
<1>b. CASE Stop(t)
  <2>1. OneStreamChanges(t) /\ Stopped(t)
    BY <1>b, StopCases
  <2> QED
    BY <2>1, ConstantsAssumption DEF IInv, At, OneStreamChanges, Stopped, OnlyMoves, SlotInv, TypeOK, Streams
<1>c. CASE UnlockStream(t)
  <2>1. OneStreamChanges(t) /\ GivenBack(t)
    BY <1>c, UnlockStreamCases
  <2> QED
    BY <2>1, ConstantsAssumption DEF IInv, At, OneStreamChanges, GivenBack, OnlyMoves, Returns, Idle, SlotInv, TypeOK, Streams
<1> USE DEF IInv, SlotInv, TypeOK, StreamType, ThreadType, CallInv, MemInv, StreamCalls, Streams, At
<1>1. ASSUME NEW call \in StreamCalls, NEW s \in Streams, CallStream(t, call, s) PROVE SlotInv'
  BY <1>1, ConstantsAssumption DEF CallStream, FirstLock, CanCall, Idle
<1>2. ASSUME NEW s \in Outputs, NEW type \in Types, OpenOutput(t, s, type) PROVE SlotInv'
  BY <1>2, ConstantsAssumption DEF OpenOutput, NewStream, Idle
<1>3. ASSUME NEW s \in Inputs, OpenInput(t, s) PROVE SlotInv'
  BY <1>3, ConstantsAssumption DEF OpenInput, NewStream
<1>4. ASSUME NEW mode \in Modes, CallSetMode(t, mode) PROVE SlotInv'
  BY <1>4, ConstantsAssumption DEF CallSetMode, Idle
<1>5. CASE CallSetWbAmr(t)
  BY <1>5, ConstantsAssumption DEF CallSetWbAmr, Idle
<1>6. CASE LockDevice(t)
  BY <1>6, ConstantsAssumption DEF LockDevice, Locked, Goes
<1>7. CASE LockStream(t)
  BY <1>7, ConstantsAssumption DEF LockStream, StreamLocked, Goes
<1>9. CASE UnlockDevice(t)
  <2>1. /\ slots' = slots /\ stream' = stream
        /\ \A u \in Threads \ {t} : th'[u] = th[u]
    BY <1>9 DEF UnlockDevice, Goes, Returns
  <2>2. CASE Unlocked(th[t]) = "free"
    <3>1. \A k \in Types : slots[k] # th[t].on
      BY <1>9, <2>2, ConstantsAssumption DEF UnlockDevice, Unlocked, Types
    <3>2. th'[t].on = th[t].on
      BY <1>9, <2>2 DEF UnlockDevice, Goes
    <3> QED
      BY <2>1, <3>1, <3>2
  <2>3. CASE Unlocked(th[t]) # "free"
    <3>1. th'[t].pc \notin {"adev", "link", "busy", "unlinked", "free"}
      BY <1>9, <2>3 DEF UnlockDevice, Unlocked, Goes, Returns, Idle
    <3> QED
      BY <2>1, <3>1
  <2> QED
    BY <2>2, <2>3
<1>11. CASE Transfer(t)
  BY <1>11, ConstantsAssumption DEF Transfer, Goes
<1>13. CASE Scan(t)
  BY <1>13, ConstantsAssumption DEF Scan
<1>14. CASE Select(t)
  BY <1>14, ConstantsAssumption DEF Select
<1>15. CASE Reroute(t)
  BY <1>15, ConstantsAssumption DEF Reroute, Goes
<1>16. CASE Link(t)
  BY <1>16, ConstantsAssumption DEF Link
<1>17. CASE Unlink(t)
  BY <1>17, ConstantsAssumption DEF Unlink, Goes
<1>18. CASE FreeStream(t)
  BY <1>18, ConstantsAssumption DEF FreeStream, Freed, NewStream, Returns, Idle
<1>19. CASE SetMode(t)
  BY <1>19, ConstantsAssumption DEF SetMode
<1>20. CASE SetInCall(t)
  BY <1>20, ConstantsAssumption DEF SetInCall, Goes
<1> QED
  BY <1>1, <1>2, <1>3, <1>4, <1>5, <1>6, <1>7, <1>c, <1>9, <1>a, <1>11, <1>b, <1>13, <1>14, <1>15, <1>16, <1>17, <1>18, <1>19, <1>20 DEF Begin, GoOn

(* What a scan saw changes only under adev->lock. *)
LEMMA SeenStep ==
  ASSUME IInv, NEW t \in Threads, Begin(t) \/ GoOn(t)
  PROVE  SeenInv'
<1>a. CASE Start(t)
  <2>1. OneStreamChanges(t) /\ Started(t)
    BY <1>a, StartCases
  <2> QED
    BY <2>1, ConstantsAssumption DEF IInv, At, OneStreamChanges, Started, OnlyMoves, SeenInv, SlotInv, MutexInv, TypeOK, HoldsDevice, HoldsStream, HoldsBoth, output_devices
<1>b. CASE Stop(t)
  <2>1. OneStreamChanges(t) /\ Stopped(t)
    BY <1>b, StopCases
  <2> QED
    BY <2>1, ConstantsAssumption DEF IInv, At, OneStreamChanges, Stopped, OnlyMoves, SeenInv, SlotInv, MutexInv, TypeOK, HoldsDevice, HoldsStream, HoldsBoth, output_devices
<1>c. CASE UnlockStream(t)
  <2>1. OneStreamChanges(t) /\ GivenBack(t)
    BY <1>c, UnlockStreamCases
  <2> QED
    BY <2>1, ConstantsAssumption DEF IInv, At, OneStreamChanges, GivenBack, OnlyMoves, Returns, Idle, SeenInv, SlotInv, MutexInv, TypeOK, HoldsDevice, HoldsStream, HoldsBoth, output_devices, Streams
<1> USE DEF IInv, SeenInv, SlotInv, MutexInv, TypeOK, StreamType, ThreadType, CallInv, MemInv, StreamCalls, Streams, HoldsDevice, HoldsStream, HoldsBoth, output_devices, At
<1>1. ASSUME NEW call \in StreamCalls, NEW s \in Streams, CallStream(t, call, s) PROVE SeenInv'
  BY <1>1, ConstantsAssumption DEF CallStream, FirstLock, CanCall, Idle
<1>2. ASSUME NEW s \in Outputs, NEW type \in Types, OpenOutput(t, s, type) PROVE SeenInv'
  BY <1>2, ConstantsAssumption DEF OpenOutput, NewStream, Idle
<1>3. ASSUME NEW s \in Inputs, OpenInput(t, s) PROVE SeenInv'
  BY <1>3, ConstantsAssumption DEF OpenInput, NewStream
<1>4. ASSUME NEW mode \in Modes, CallSetMode(t, mode) PROVE SeenInv'
  BY <1>4, ConstantsAssumption DEF CallSetMode, Idle
<1>5. CASE CallSetWbAmr(t)
  BY <1>5, ConstantsAssumption DEF CallSetWbAmr, Idle
<1>6. CASE LockDevice(t)
  BY <1>6, ConstantsAssumption DEF LockDevice, Locked, Goes
<1>7. CASE LockStream(t)
  BY <1>7, ConstantsAssumption DEF LockStream, StreamLocked, Goes
<1>9. CASE UnlockDevice(t)
  BY <1>9, ConstantsAssumption DEF UnlockDevice, Unlocked, Unlock, Goes, Returns, Idle
<1>11. CASE Transfer(t)
  BY <1>11, ConstantsAssumption DEF Transfer, Goes
<1>13. CASE Scan(t)
  BY <1>13, ConstantsAssumption DEF Scan
<1>14. CASE Select(t)
  BY <1>14, ConstantsAssumption DEF Select
<1>15. CASE Reroute(t)
  BY <1>15, ConstantsAssumption DEF Reroute, Goes
<1>16. CASE Link(t)
  BY <1>16, ConstantsAssumption DEF Link
<1>17. CASE Unlink(t)
  BY <1>17, ConstantsAssumption DEF Unlink, Goes
<1>18. CASE FreeStream(t)
  BY <1>18, ConstantsAssumption DEF FreeStream, Freed, NewStream, Returns, Idle
<1>19. CASE SetMode(t)
  BY <1>19, ConstantsAssumption DEF SetMode
<1>20. CASE SetInCall(t)
  BY <1>20, ConstantsAssumption DEF SetInCall, Goes
<1> QED
  BY <1>1, <1>2, <1>3, <1>4, <1>5, <1>6, <1>7, <1>c, <1>9, <1>a, <1>11, <1>b, <1>13, <1>14, <1>15, <1>16, <1>17, <1>18, <1>19, <1>20 DEF Begin, GoOn

(* Only adev_set_mode is ever between the two writes. *)
LEMMA ModeStep ==
  ASSUME IInv, NEW t \in Threads, Begin(t) \/ GoOn(t)
  PROVE  ModeInv'
<1> USE DEF IInv, ModeInv, TypeOK, ThreadType, CallInv, At
<1>1. ASSUME NEW call \in StreamCalls, NEW s \in Streams, CallStream(t, call, s) PROVE ModeInv'
  BY <1>1, ConstantsAssumption DEF CallStream, FirstLock, CanCall, Idle
<1>2. ASSUME NEW s \in Outputs, NEW type \in Types, OpenOutput(t, s, type) PROVE ModeInv'
  BY <1>2, ConstantsAssumption DEF OpenOutput, NewStream, Idle
<1>3. ASSUME NEW s \in Inputs, OpenInput(t, s) PROVE ModeInv'
  BY <1>3, ConstantsAssumption DEF OpenInput, NewStream
<1>4. ASSUME NEW mode \in Modes, CallSetMode(t, mode) PROVE ModeInv'
  BY <1>4, ConstantsAssumption DEF CallSetMode, Idle
<1>5. CASE CallSetWbAmr(t)
  BY <1>5, ConstantsAssumption DEF CallSetWbAmr, Idle
<1>6. CASE LockDevice(t)
  BY <1>6, ConstantsAssumption DEF LockDevice, Locked, Goes
<1>7. CASE LockStream(t)
  BY <1>7, ConstantsAssumption DEF LockStream, StreamLocked, Goes
<1>8. CASE UnlockStream(t)
  BY <1>8, ConstantsAssumption DEF UnlockStream, Unlock, Goes, Returns, Idle
<1>9. CASE UnlockDevice(t)
  BY <1>9, ConstantsAssumption DEF UnlockDevice, Unlocked, Unlock, Goes, Returns, Idle
<1>10. CASE Start(t)
  BY <1>10, StartCases DEF Started, OnlyMoves
<1>11. CASE Transfer(t)
  BY <1>11, ConstantsAssumption DEF Transfer, Goes
<1>12. CASE Stop(t)
  BY <1>12, ConstantsAssumption DEF Stop, Goes
<1>13. CASE Scan(t)
  BY <1>13, ConstantsAssumption DEF Scan
<1>14. CASE Select(t)
  BY <1>14, ConstantsAssumption DEF Select
<1>15. CASE Reroute(t)
  BY <1>15, ConstantsAssumption DEF Reroute, Goes
<1>16. CASE Link(t)
  BY <1>16, ConstantsAssumption DEF Link
<1>17. CASE Unlink(t)
  BY <1>17, ConstantsAssumption DEF Unlink, Goes
<1>18. CASE FreeStream(t)
  BY <1>18, ConstantsAssumption DEF FreeStream, Freed, NewStream, Returns, Idle
<1>19. CASE SetMode(t)
  BY <1>19, ConstantsAssumption DEF SetMode
<1>20. CASE SetInCall(t)
  BY <1>20, ConstantsAssumption DEF SetInCall, Goes
<1> QED
  BY <1>1, <1>2, <1>3, <1>4, <1>5, <1>6, <1>7, <1>8, <1>9, <1>10, <1>11, <1>12, <1>13, <1>14, <1>15, <1>16, <1>17, <1>18, <1>19, <1>20 DEF Begin, GoOn

(* The invariant is inductive. *)
LEMMA NextInv == IInv /\ [Next]_vars => IInv'
<1> SUFFICES ASSUME IInv, [Next]_vars PROVE IInv'
  OBVIOUS
<1>1. CASE Next
  <2>1. PICK t \in Threads : Begin(t) \/ GoOn(t)
    BY <1>1 DEF Next
  <2>2. TypeOK' /\ MutexInv' /\ CallInv' /\ MemInv'
    BY <2>1, TypeStep, MutexStep, CallStep, MemStep
  <2>3. PcmInv' /\ SlotInv' /\ SeenInv' /\ ModeInv'
    BY <2>1, PcmStep, SlotStep, SeenStep, ModeStep
  <2> QED
    BY <2>2, <2>3 DEF IInv
<1>2. CASE UNCHANGED vars
  <2>1. /\ lock' = lock /\ adev' = adev /\ slots' = slots
        /\ stream' = stream /\ th' = th
    BY <1>2 DEF vars
  <2>2. TypeOK' /\ MutexInv' /\ CallInv' /\ MemInv'
    BY <2>1 DEF IInv, TypeOK, MutexInv, CallInv, MemInv
  <2>3. PcmInv' /\ SlotInv'
    BY <2>1 DEF IInv, PcmInv, SlotInv
  <2>4. SeenInv' /\ ModeInv'
    BY <2>1 DEF IInv, SeenInv, ModeInv, At, output_devices
  <2> QED
    BY <2>2, <2>3, <2>4 DEF IInv
<1> QED
  BY <1>1, <1>2

LEMMA AlwaysInv == Spec => []IInv
<1>1. Init => IInv
  BY InitInv
<1>2. IInv /\ [Next]_vars => IInv'
  BY NextInv
<1> QED
  BY <1>1, <1>2, PTL DEF Spec

(* A thread that runs pcm_write or pcm_read on the stream's lock alone keeps   *)
(* its stream and its PCM, whatever the other threads do (out_write, in_read). *)
THEOREM TransfersKeepTheirPcm == Spec => []TransferSafe
<1>1. IInv => TransferSafe
  <2> SUFFICES ASSUME IInv, NEW t \in Threads, At(t, "transfer")
               PROVE  stream[th[t].on].mem = "live" /\ stream[th[t].on].pcm = "open"
    BY DEF TransferSafe
  <2>1. th[t].on \in Streams /\ ~stream[th[t].on].standby
    BY DEF IInv, CallInv, PcmInv, At, HoldsStream
  <2>2. th[t].on # Null
    BY <2>1, ConstantsAssumption
  <2> QED
    BY <2>1, <2>2 DEF IInv, PcmInv, MemInv
<1> QED
  BY <1>1, AlwaysInv, PTL

(* do_out_standby may read the other streams under adev->lock alone: none of   *)
(* them is freed while a slot holds it, and none changes its standby.          *)
THEOREM ScansAreSafe == Spec => []ScanSafe
<1>1. IInv => ScanSafe
  BY DEF IInv, ScanSafe, SlotInv, SeenInv
<1> QED
  BY <1>1, AlwaysInv, PTL

(* The look that adev_set_mode takes at the mode without the lock is harmless. *)
THEOREM ModeAndCallAgree == Spec => []ModeMatchesCall
<1>1. IInv => ModeMatchesCall
  <2> SUFFICES ASSUME IInv, lock = Free
               PROVE  adev.in_call <=> adev.mode = "IN_CALL"
    BY DEF ModeMatchesCall
  <2>1. \A t \in Threads : ~At(t, "call")
    BY ConstantsAssumption DEF IInv, MutexInv, At, HoldsDevice
  <2> QED
    BY <2>1 DEF IInv, ModeInv
<1> QED
  BY <1>1, AlwaysInv, PTL

=============================================================================
