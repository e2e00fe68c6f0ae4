-------------------------- MODULE RilClient_proofs --------------------------
(* Theorems about RilClient, for any number of streams, volumes and modes,   *)
(* and any number of messages under way.                                     *)
EXTENDS RilClient, TLAPS

(***************************************************************************)
(* The requests of a call.                                                 *)
(***************************************************************************)

LEMMA RequestType ==
  /\ \A kind \in {"path", "mute", "two_mic"} : <<Request(kind, "any")>> \in Seq(Requests)
  /\ \A value \in {"START", "STOP"} : <<Request("clock", value)>> \in Seq(Requests)
  /\ \A value \in Volumes \cup {FullVolume} : <<Request("volume", value)>> \in Seq(Requests)
BY DEF Request, Requests

LEMMA PathType == PathRequests \subseteq Seq(Requests)
BY RequestType DEF PathRequests

LEMMA VolumeType ==
  ASSUME NEW a, a.voice_volume \in Volumes \cup {FullVolume}
  PROVE  VolumeRequest(a) \in Seq(Requests)
BY RequestType DEF VolumeRequest

LEMMA ModeType ==
  ASSUME NEW a, a.voice_volume \in Volumes \cup {FullVolume}, NEW path \in PathRequests
  PROVE  ModeRequests(a, path) \in Seq(Requests)
<1>1. path \in Seq(Requests)
  BY PathType
<1>2. VolumeRequest(a) \in Seq(Requests)
  BY VolumeType
<1>3. /\ <<Request("clock", "START")>> \in Seq(Requests)
      /\ <<Request("clock", "STOP")>> \in Seq(Requests)
  BY RequestType
<1> QED
  BY <1>1, <1>2, <1>3 DEF ModeRequests

\* a thread's record
ThreadOK(r) == r \in ThreadType /\ (r.at \in {"idle", "return"} <=> r.todo = <<>>)

LEMMA ToDoType ==
  ASSUME NEW s \in Seq(Requests)
  PROVE  ThreadOK(ToDo(s))
BY DEF ToDo, ThreadOK, ThreadType

LEMMA RestType ==
  ASSUME TypeOK, NEW t \in Threads, th[t].todo # <<>>
  PROVE  ThreadOK(Rest(t)) /\ Head(th[t].todo) \in Requests
<1>1. th[t].todo \in Seq(Requests)
  BY DEF TypeOK, ThreadType
<1>2. Tail(th[t].todo) \in Seq(Requests) /\ Head(th[t].todo) \in Requests
  BY <1>1
<1> QED
  BY <1>2, ToDoType DEF Rest

\* the threads' part of TypeOK is kept by a step of one thread
LEMMA OneThread ==
  ASSUME TypeOK, NEW t \in Threads, NEW r, ThreadOK(r), th' = [th EXCEPT ![t] = r]
  PROVE  /\ th' \in [Threads -> ThreadType]
         /\ \A u \in Threads : th'[u].at \in {"idle", "return"} <=> th'[u].todo = <<>>
BY DEF TypeOK, ThreadOK, ThreadType

(***************************************************************************)
(* Types.                                                                  *)
(***************************************************************************)

LEMMA InitType ==
  ASSUME Init
  PROVE  TypeOK
BY DEF Init, TypeOK, DeviceType, RilType, ModemType, ThreadType, Closed, NoClient, Idle

LEMMA RilChanges ==
  ASSUME NEW r \in RilType
  PROVE  /\ [r EXCEPT !.connected = TRUE] \in RilType
         /\ [r EXCEPT !.asked = @ + 1] \in RilType
<1>1. [r EXCEPT !.connected = TRUE] \in RilType
  BY DEF RilType
<1>2. [r EXCEPT !.asked = @ + 1] \in RilType
  BY DEF RilType
<1> QED
  BY <1>1, <1>2

\* what happens to a client between the modem and its reader
LEMMA ClientType ==
  ASSUME NEW c \in RilType
  PROVE  /\ \A wb \in {0, 1} : Told(c, wb) \in RilType
         /\ modem.wb \in {0, 1} /\ CanAnswer(c) => Answered(c) \in RilType
         /\ Lost(c) \in RilType
         /\ c.inbox # <<>> => Delivered(c) \in RilType /\ Head(c.inbox) \in {0, 1}
<1>1. c.inbox \in Seq({0, 1}) /\ c.asked \in Nat
  BY DEF RilType
<1>2. ASSUME NEW wb \in {0, 1} PROVE Told(c, wb) \in RilType
  <2>1. Append(c.inbox, wb) \in Seq({0, 1})
    BY <1>1
  <2> QED
    BY <2>1 DEF Told, RilType
<1>3. ASSUME modem.wb \in {0, 1}, CanAnswer(c) PROVE Answered(c) \in RilType
  <2>1. Append(c.inbox, modem.wb) \in Seq({0, 1})
    BY <1>1, <1>3
  <2>2. c.asked - 1 \in Nat
    BY <1>1, <1>3 DEF CanAnswer
  <2> QED
    BY <2>1, <2>2 DEF Answered, RilType
<1>4. Lost(c) \in RilType
  <2>1. <<>> \in Seq({0, 1})
    OBVIOUS
  <2> QED
    BY <2>1 DEF Lost, RilType
<1>5. ASSUME c.inbox # <<>> PROVE Delivered(c) \in RilType /\ Head(c.inbox) \in {0, 1}
  <2>1. Tail(c.inbox) \in Seq({0, 1}) /\ Head(c.inbox) \in {0, 1}
    BY <1>1, <1>5
  <2> QED
    BY <2>1 DEF Delivered, RilType
<1> QED
  BY <1>2, <1>3, <1>4, <1>5

LEMMA RilOpenType ==
  ASSUME ril_open
  PROVE  ril' \in RilType /\ ~ril'.connected /\ ril'.inbox = <<>> /\ ril'.asked = 0
<1>1. /\ NoClient \in RilType /\ ~NoClient.connected /\ NoClient.inbox = <<>>
      /\ NoClient.asked = 0
  BY DEF NoClient, RilType
<1>2. CASE ril' = NoClient
  BY <1>1, <1>2
<1>3. ASSUME NEW gets \in BOOLEAN, ril' = [NoClient EXCEPT !.client = TRUE, !.gets = gets]
      PROVE  ril' \in RilType /\ ~ril'.connected /\ ril'.inbox = <<>> /\ ril'.asked = 0
  BY <1>1, <1>3 DEF RilType
<1> QED
  BY <1>2, <1>3 DEF ril_open

LEMMA TellType ==
  ASSUME TypeOK, NEW r \in Requests, NEW v \in {r.value, Missed}
  PROVE  Tell(r.kind, v) \in ModemType
BY DEF Tell, TypeOK, ModemType, Requests

\* a step of one thread that leaves the client alone, or changes only what it has
\* connected or asked
LEMMA StepType ==
  ASSUME TypeOK, NEW t \in Threads, NEW r, ThreadOK(r), th' = [th EXCEPT ![t] = r],
         adev' \in DeviceType, old' = old,
         lock' \in Threads \cup {Free}, ril' \in RilType,
         modem' \in ModemType
  PROVE  TypeOK'
<1>1. /\ th' \in [Threads -> ThreadType]
      /\ \A u \in Threads : th'[u].at \in {"idle", "return"} <=> th'[u].todo = <<>>
  BY OneThread
<1> QED
  BY <1>1 DEF TypeOK

LEMMA IdleType == ThreadOK(Idle)
BY DEF ThreadOK, ThreadType, Idle

\* a thread that is at a request has one
LEMMA AtRequest ==
  ASSUME TypeOK, NEW t \in Threads, th[t].at \in {"check", "connect", "ask", "send"}
  PROVE  /\ th[t].todo # <<>>
         /\ \A at \in {"check", "connect", "ask", "send"} :
              ThreadOK([th[t] EXCEPT !.at = at])
BY DEF TypeOK, ThreadOK, ThreadType

LEMMA NextType ==
  ASSUME TypeOK, [Next]_vars
  PROVE  TypeOK'
<1>1. CASE adev_open
  <2>1. ril' \in RilType
    BY <1>1, RilOpenType DEF adev_open
  <2> QED
    BY <1>1, <2>1 DEF adev_open, TypeOK, DeviceType, Closed
<1>2. CASE adev_close
  <2>1. ril' \in RilType
    BY <1>2 DEF adev_close, ril_close, NoClient, RilType
  <2>2. old' \in [Left -> RilType]
    BY <1>2 DEF adev_close, ril_close, TypeOK
  <2> QED
    BY <1>2, <2>1, <2>2 DEF adev_close, TypeOK, DeviceType, Closed
<1>3. ASSUME NEW v \in Volumes, adev_set_voice_volume(v) PROVE TypeOK'
  <2> DEFINE a == [adev EXCEPT !.voice_volume = v]
  <2>1. a.voice_volume \in Volumes \cup {FullVolume} /\ adev' = a
    BY <1>3 DEF adev_set_voice_volume, TypeOK, DeviceType
  <2>2. ThreadOK(ToDo(VolumeRequest(a)))
    BY <2>1, VolumeType, ToDoType
  <2>3. adev' \in DeviceType
    BY <2>1 DEF TypeOK, DeviceType
  <2>4. th' = [th EXCEPT ![Control] = ToDo(VolumeRequest(a))]
    BY <1>3 DEF adev_set_voice_volume
  <2> HIDE DEF a
  <2> QED
    BY <1>3, <2>2, <2>3, <2>4, StepType DEF adev_set_voice_volume, Threads, TypeOK
<1>4. CASE adev_set_mic_mute
  <2>1. ThreadOK(ToDo(<<Request("mute", "any")>>))
    BY RequestType, ToDoType
  <2> QED
    BY <1>4, <2>1, StepType DEF adev_set_mic_mute, Threads, TypeOK
<1>5. CASE adev_set_parameters
  <2>1. ThreadOK(ToDo(<<Request("two_mic", "any")>>))
    BY RequestType, ToDoType
  <2> QED
    BY <1>5, <2>1, StepType DEF adev_set_parameters, Threads, TypeOK
<1>6. ASSUME NEW m \in Modes, adev_set_mode(m) PROVE TypeOK'
  <2> DEFINE a == [adev EXCEPT !.mode = m]
  <2>1. a.voice_volume \in Volumes \cup {FullVolume}
    BY DEF TypeOK, DeviceType
  <2>2. PICK path \in PathRequests : th' = [th EXCEPT ![Control] = ToDo(ModeRequests(a, path))]
    BY <1>6 DEF adev_set_mode
  <2>3. ThreadOK(ToDo(ModeRequests(a, path)))
    BY <2>1, ModeType, ToDoType
  <2>4. adev' \in DeviceType
    BY <1>6 DEF adev_set_mode, TypeOK, DeviceType
  <2> HIDE DEF a
  <2> QED
    BY <1>6, <2>2, <2>3, <2>4, StepType DEF adev_set_mode, Threads, TypeOK
<1>7. ASSUME NEW t \in Streams, Reroute(t) PROVE TypeOK'
  <2>1. PICK path \in PathRequests : th' = [th EXCEPT ![t] = ToDo(path)]
    BY <1>7 DEF Reroute
  <2>2. ThreadOK(ToDo(path))
    BY PathType, ToDoType
  <2> QED
    BY <1>7, <2>1, <2>2, StepType DEF Reroute, Threads, TypeOK
<1>8. ASSUME NEW t \in Threads, Check(t) \/ Connect(t) \/ Ask(t) PROVE TypeOK'
  <2>1. PICK at \in {"connect", "ask", "send"} : th' = [th EXCEPT ![t].at = at]
    BY <1>8 DEF Check, Connect, Ask
  <2>2. ThreadOK([th[t] EXCEPT !.at = at])
    BY <1>8, AtRequest DEF Check, Connect, Ask
  <2>3. th' = [th EXCEPT ![t] = [th[t] EXCEPT !.at = at]]
    BY <2>1
  <2>4. ril \in RilType /\ UNCHANGED <<adev, lock, old, modem>>
    BY <1>8 DEF Check, Connect, Ask, TypeOK
  <2>5. /\ [ril EXCEPT !.connected = TRUE] \in RilType
        /\ [ril EXCEPT !.asked = @ + 1] \in RilType
    BY <2>4, RilChanges
  <2>6. ril' \in RilType
    BY <1>8, <2>4, <2>5 DEF Check, Connect, Ask
  <2> QED
    BY <2>2, <2>3, <2>4, <2>6, StepType DEF TypeOK
<1>9. ASSUME NEW t \in Threads, ConnectFails(t) \/ Send(t) PROVE TypeOK'
  <2> DEFINE r == Head(th[t].todo)
  <2>1. th[t].todo # <<>>
    BY <1>9, AtRequest DEF ConnectFails, Send
  <2>2. ThreadOK(Rest(t)) /\ r \in Requests
    BY <2>1, RestType
  <2>3. PICK v \in {r.value, Missed} : modem' = Tell(r.kind, v)
    BY <1>9 DEF ConnectFails, Send
  <2>4. th' = [th EXCEPT ![t] = Rest(t)] /\ UNCHANGED <<adev, lock, ril, old>>
    BY <1>9 DEF ConnectFails, Send, RestIfFailed
  <2> HIDE DEF r
  <2>5. modem' \in ModemType
    BY <2>2, <2>3, TellType
  <2> QED
    BY <2>2, <2>4, <2>5, StepType DEF TypeOK
<1>10. ASSUME NEW t \in Threads, Return(t) PROVE TypeOK'
  <2>1. adev' \in DeviceType
    BY <1>10 DEF Return, TypeOK, DeviceType
  <2> QED
    BY <1>10, <2>1, IdleType, StepType DEF Return, TypeOK
<1>11. CASE ModemChanges
  <2>1. modem.wb \in {0, 1} /\ 1 - modem.wb \in {0, 1}
    BY DEF TypeOK, ModemType
  <2>2. ril' \in RilType /\ old' \in [Left -> RilType]
    BY <1>11, <2>1, ClientType DEF ModemChanges, TypeOK
  <2>3. modem' \in ModemType
    BY <1>11, <2>1 DEF ModemChanges, TypeOK, ModemType
  <2> QED
    BY <1>11, <2>2, <2>3 DEF ModemChanges, TypeOK
<1>12. CASE Answer \/ Disconnect \/ WbAmrCallback
  <2>1. modem.wb \in {0, 1} /\ ril \in RilType
    BY DEF TypeOK, ModemType
  <2>2. ril' \in RilType
    BY <1>12, <2>1, ClientType DEF Answer, Disconnect, WbAmrCallback
  <2>3. adev' \in DeviceType
    BY <1>12, <2>1, ClientType DEF Answer, Disconnect, WbAmrCallback, TypeOK, DeviceType
  <2> QED
    BY <1>12, <2>2, <2>3 DEF Answer, Disconnect, WbAmrCallback, TypeOK
<1>13. ASSUME NEW k \in Left, AnswerLeft(k) \/ DisconnectLeft(k) \/ WbAmrCallbackLeft(k)
       PROVE  TypeOK'
  <2>1. modem.wb \in {0, 1} /\ old[k] \in RilType
    BY DEF TypeOK, ModemType
  <2>2. PICK c \in RilType : old' = [old EXCEPT ![k] = c]
    BY <1>13, <2>1, ClientType DEF AnswerLeft, DisconnectLeft, WbAmrCallbackLeft
  <2>3. adev' \in DeviceType
    BY <1>13, <2>1, ClientType DEF AnswerLeft, DisconnectLeft, WbAmrCallbackLeft, TypeOK, DeviceType
  <2> QED
    BY <1>13, <2>2, <2>3 DEF AnswerLeft, DisconnectLeft, WbAmrCallbackLeft, TypeOK
<1>14. CASE UNCHANGED vars
  BY <1>14 DEF vars, TypeOK
<1> QED
  BY <1>1, <1>2, <1>3, <1>4, <1>5, <1>6, <1>7, <1>8, <1>9, <1>10, <1>11, <1>12, <1>13, <1>14
  DEF Next

\* The types, for any number of streams.
THEOREM TypeCorrect == Spec => []TypeOK
<1>1. Init => TypeOK
  BY InitType
<1>2. TypeOK /\ [Next]_vars => TypeOK'
  BY NextType
<1> QED
  BY <1>1, <1>2, PTL DEF Spec

(***************************************************************************)
(* Clients and devices.                                                    *)
(***************************************************************************)

\* only a client that is connected has anything under way
ClientOK(c) ==
  /\ c.inbox # <<>> \/ c.asked > 0 => c.connected
  /\ c.connected => c.client

\* the device's own client is connected only while the device is open, and so
\* is a device that has a thread in a call; what a client left behind delivers
\* to is not said
LiveInv ==
  /\ ril.connected => adev.open
  /\ ClientOK(ril) /\ \A k \in Left : ClientOK(old[k])
  /\ \A t \in Threads : th[t].at # "idle" => adev.open /\ ril.client

LEMMA ClientStaysOK ==
  ASSUME NEW c \in RilType, ClientOK(c)
  PROVE  /\ \A wb : ClientOK(Told(c, wb)) /\ Told(c, wb).connected = c.connected
                    /\ Told(c, wb).client = c.client
         /\ CanAnswer(c) => ClientOK(Answered(c)) /\ Answered(c).connected
                            /\ c.connected /\ Answered(c).client = c.client
         /\ ClientOK(Lost(c)) /\ ~Lost(c).connected /\ Lost(c).client = c.client
         /\ c.inbox # <<>> => ClientOK(Delivered(c)) /\ Delivered(c).connected
                              /\ c.connected /\ Delivered(c).client = c.client
BY DEF ClientOK, Told, CanAnswer, Answered, Lost, Delivered, RilType

LEMMA NextLive ==
  ASSUME TypeOK, LiveInv, [Next]_vars
  PROVE  LiveInv'
<1>0. ril \in RilType /\ \A k \in Left : old[k] \in RilType
  BY DEF TypeOK
<1>1. CASE adev_open
  <2>1. ~ril'.connected /\ ril'.inbox = <<>> /\ ril'.asked = 0
    BY <1>1, RilOpenType DEF adev_open
  <2>2. \A t \in Threads : th'[t].at = "idle"
    BY <1>1 DEF adev_open, LiveInv
  <2> QED
    BY <1>1, <2>1, <2>2 DEF adev_open, LiveInv, ClientOK
<1>2. CASE adev_close
  <2>1. ClientOK(NoClient) /\ ~NoClient.connected
    BY DEF ClientOK, NoClient
  <2>2. \A k \in Left : ClientOK(old'[k])
    BY <1>2 DEF adev_close, ril_close, LiveInv, TypeOK
  <2> QED
    BY <1>2, <2>1, <2>2 DEF adev_close, ril_close, LiveInv, Idle
<1>3. ASSUME NEW v \in Volumes, adev_set_voice_volume(v) PROVE LiveInv'
  BY <1>3 DEF adev_set_voice_volume, CanCall, TypeOK, DeviceType, LiveInv, ClientOK
<1>4. CASE adev_set_mic_mute \/ adev_set_parameters
  BY <1>4 DEF adev_set_mic_mute, adev_set_parameters, CanCall, TypeOK, LiveInv, ClientOK
<1>5. ASSUME NEW m \in Modes, adev_set_mode(m) PROVE LiveInv'
  BY <1>5 DEF adev_set_mode, CanCall, TypeOK, DeviceType, LiveInv, ClientOK
<1>6. ASSUME NEW t \in Streams, Reroute(t) PROVE LiveInv'
  BY <1>6 DEF Reroute, CanCall, TypeOK, LiveInv, ClientOK
<1>7. ASSUME NEW t \in Threads,
             Check(t) \/ Connect(t) \/ ConnectFails(t) \/ Ask(t) \/ Send(t) \/ Return(t)
      PROVE LiveInv'
  <2>1. adev.open /\ ril.client
    BY <1>7 DEF Check, Connect, ConnectFails, Ask, Send, Return, LiveInv
  <2>2. adev'.open /\ ril'.client /\ old' = old
    BY <1>7, <2>1 DEF Check, Connect, ConnectFails, Ask, Send, Return, TypeOK,
      DeviceType, RilType
  <2>3. ril' = ril \/ ril'.connected
    BY <1>7 DEF Check, Connect, ConnectFails, Ask, Send, Return, TypeOK, RilType
  <2> QED
    BY <2>2, <2>3 DEF LiveInv, ClientOK
<1>8. CASE ModemChanges
  <2>1. /\ ClientOK(ril') /\ ril'.connected = ril.connected /\ ril'.client = ril.client
        /\ \A k \in Left : ClientOK(old'[k])
    BY <1>0, <1>8, ClientStaysOK DEF ModemChanges, LiveInv
  <2> QED
    BY <1>8, <2>1 DEF ModemChanges, LiveInv
<1>9. CASE Answer \/ Disconnect \/ WbAmrCallback
  <2>1. /\ ClientOK(ril') /\ (ril'.connected => ril.connected) /\ ril'.client = ril.client
        /\ old' = old
    BY <1>0, <1>9, ClientStaysOK DEF Answer, Disconnect, WbAmrCallback, LiveInv
  <2>2. adev'.open = adev.open /\ th' = th
    BY <1>9 DEF Answer, Disconnect, WbAmrCallback, TypeOK, DeviceType
  <2> QED
    BY <2>1, <2>2 DEF LiveInv
<1>10. ASSUME NEW k \in Left, AnswerLeft(k) \/ DisconnectLeft(k) \/ WbAmrCallbackLeft(k)
       PROVE  LiveInv'
  <2>1. PICK c : ClientOK(c) /\ old' = [old EXCEPT ![k] = c]
    BY <1>0, <1>10, ClientStaysOK DEF AnswerLeft, DisconnectLeft, WbAmrCallbackLeft, LiveInv
  <2>2. \A j \in Left : ClientOK(old'[j])
    BY <2>1 DEF LiveInv, TypeOK
  <2>3. adev'.open = adev.open /\ UNCHANGED <<ril, th>>
    BY <1>10 DEF AnswerLeft, DisconnectLeft, WbAmrCallbackLeft, TypeOK, DeviceType
  <2> QED
    BY <2>2, <2>3 DEF LiveInv
<1>11. CASE UNCHANGED vars
  BY <1>11 DEF vars, LiveInv
<1> QED
  BY <1>1, <1>2, <1>3, <1>4, <1>5, <1>6, <1>7, <1>8, <1>9, <1>10, <1>11 DEF Next

(***************************************************************************)
(* The wideband state.                                                     *)
(***************************************************************************)

\* the newest message of a client is right
Fresh(c) == c.inbox # <<>> => c.inbox[Len(c.inbox)] = modem.wb

\* the device's client has asked and been answered, and no client left behind
\* has lost its connection
Answering ==
  /\ ril.connected /\ ril.gets /\ ril.asked = 0
  /\ \A t \in Threads : th[t].at # "ask"
  /\ \A k \in Left : old[k].client => old[k].connected

\* and so, once the last message is delivered, by whichever client, is the device
WbInv ==
  /\ Fresh(ril) /\ \A k \in Left : Fresh(old[k])
  /\ Answering /\ ril.inbox = <<>> /\ (\A k \in Left : old[k].inbox = <<>>)
       => adev.wb_amr = modem.wb

\* a step of a thread that does not ask and leaves the client alone
LEMMA QuietStep ==
  ASSUME TypeOK, WbInv, NEW t \in Threads, NEW r, th' = [th EXCEPT ![t] = r],
         th[t].at # "ask", ril' = ril, old' = old, modem'.wb = modem.wb,
         adev'.wb_amr = adev.wb_amr
  PROVE  WbInv'
<1>1. Answering' => Answering
  BY DEF Answering, TypeOK
<1> QED
  BY <1>1 DEF WbInv, Fresh

\* taking the first of several messages leaves the last
LEMMA LastOfTail ==
  ASSUME NEW s \in Seq({0, 1}), s # <<>>
  PROVE  IF Tail(s) = <<>> THEN s[Len(s)] = Head(s) ELSE Tail(s)[Len(Tail(s))] = s[Len(s)]
<1> DEFINE rest == Tail(s)
<1>1. /\ Len(s) \in Nat /\ Len(s) > 0 /\ Head(s) = s[1]
      /\ Len(rest) = Len(s) - 1 /\ rest \in Seq({0, 1})
      /\ \A k \in 1 .. Len(s) - 1 : rest[k] = s[k + 1]
  OBVIOUS
<1>2. \A u \in Seq({0, 1}) : u = <<>> <=> Len(u) = 0
  OBVIOUS
<1> HIDE DEF rest
<1>3. IF rest = <<>> THEN s[Len(s)] = Head(s) ELSE rest[Len(rest)] = s[Len(s)]
  BY <1>1, <1>2
<1> QED
  BY <1>3 DEF rest

\* what the modem appends is its newest state, and what a reader takes away leaves
\* the newest message
LEMMA StaysFresh ==
  ASSUME NEW c \in RilType, ClientOK(c), Fresh(c)
  PROVE  /\ \A wb \in {0, 1} : LET d == Told(c, wb) IN
              IF c.connected THEN d.inbox # <<>> /\ d.inbox[Len(d.inbox)] = wb
                             ELSE d.inbox = <<>>
         /\ modem.wb \in {0, 1} /\ CanAnswer(c) => LET d == Answered(c) IN
              d.inbox # <<>> /\ d.inbox[Len(d.inbox)] = modem.wb
         /\ c.inbox # <<>> => LET d == Delivered(c) IN
              IF d.inbox = <<>> THEN Head(c.inbox) = modem.wb
                                ELSE d.inbox[Len(d.inbox)] = modem.wb
<1>1. c.inbox \in Seq({0, 1})
  BY DEF RilType
<1>2. ASSUME NEW wb \in {0, 1}
      PROVE  LET d == Told(c, wb) IN
               IF c.connected THEN d.inbox # <<>> /\ d.inbox[Len(d.inbox)] = wb
                              ELSE d.inbox = <<>>
  <2>1. Append(c.inbox, wb) # <<>> /\ Append(c.inbox, wb)[Len(Append(c.inbox, wb))] = wb
    BY <1>1
  <2>2. CASE c.connected
    <3>1. Told(c, wb).inbox = Append(c.inbox, wb)
      BY <2>2 DEF Told, RilType
    <3> QED
      BY <2>1, <2>2, <3>1
  <2>3. CASE ~c.connected
    BY <2>3 DEF Told, ClientOK
  <2> QED
    BY <2>2, <2>3
<1>3. ASSUME modem.wb \in {0, 1}, CanAnswer(c)
      PROVE  LET d == Answered(c) IN d.inbox # <<>> /\ d.inbox[Len(d.inbox)] = modem.wb
  <2>1. Answered(c).inbox = Append(c.inbox, modem.wb)
    BY DEF Answered, RilType
  <2>2. /\ Append(c.inbox, modem.wb) # <<>>
        /\ Append(c.inbox, modem.wb)[Len(Append(c.inbox, modem.wb))] = modem.wb
    BY <1>1, <1>3
  <2> QED
    BY <2>1, <2>2
<1>4. ASSUME c.inbox # <<>>
      PROVE  LET d == Delivered(c) IN
               IF d.inbox = <<>> THEN Head(c.inbox) = modem.wb
                                 ELSE d.inbox[Len(d.inbox)] = modem.wb
  <2>1. Delivered(c).inbox = Tail(c.inbox)
    BY DEF Delivered, RilType
  <2>2. IF Tail(c.inbox) = <<>> THEN c.inbox[Len(c.inbox)] = Head(c.inbox)
                                ELSE Tail(c.inbox)[Len(Tail(c.inbox))] = c.inbox[Len(c.inbox)]
    BY <1>1, <1>4, LastOfTail
  <2> QED
    BY <1>4, <2>1, <2>2 DEF Fresh
<1> QED
  BY <1>2, <1>3, <1>4

LEMMA NextWb ==
  ASSUME TypeOK, LiveInv, WbInv, [Next]_vars
  PROVE  WbInv'
<1>0. /\ ril \in RilType /\ \A k \in Left : old[k] \in RilType
      /\ modem.wb \in {0, 1} /\ 1 - modem.wb \in {0, 1}
      /\ ClientOK(ril) /\ \A k \in Left : ClientOK(old[k])
      /\ Fresh(ril) /\ \A k \in Left : Fresh(old[k])
  BY DEF TypeOK, ModemType, LiveInv, WbInv
<1>1. CASE adev_open \/ adev_close
  <2>1. ~ril'.connected /\ ril'.inbox = <<>> /\ modem' = modem
    BY <1>1, RilOpenType DEF adev_open, adev_close, ril_close, NoClient
  <2>2. \A k \in Left : old'[k] \in {old[k], ril}
    BY <1>1 DEF adev_open, adev_close, ril_close, TypeOK
  <2> QED
    BY <1>0, <2>1, <2>2 DEF WbInv, Fresh, Answering
<1>2. ASSUME NEW v \in Volumes, adev_set_voice_volume(v) PROVE WbInv'
  <2>1. adev'.wb_amr = adev.wb_amr
    BY <1>2 DEF adev_set_voice_volume, TypeOK, DeviceType
  <2> QED
    BY <1>2, <2>1, QuietStep DEF adev_set_voice_volume, CanCall, Threads
<1>3. CASE adev_set_mic_mute \/ adev_set_parameters
  BY <1>3, QuietStep DEF adev_set_mic_mute, adev_set_parameters, CanCall, Threads
<1>4. ASSUME NEW m \in Modes, adev_set_mode(m) PROVE WbInv'
  <2>1. adev'.wb_amr = adev.wb_amr
    BY <1>4 DEF adev_set_mode, TypeOK, DeviceType
  <2>2. \E r : th' = [th EXCEPT ![Control] = r]
    BY <1>4 DEF adev_set_mode
  <2>3. th[Control].at # "ask" /\ ril' = ril /\ old' = old /\ modem' = modem
    BY <1>4 DEF adev_set_mode, CanCall
  <2> QED
    BY <2>1, <2>2, <2>3, QuietStep DEF Threads
<1>5. ASSUME NEW t \in Streams, Reroute(t) PROVE WbInv'
  BY <1>5, QuietStep DEF Reroute, CanCall, Threads
<1>6. ASSUME NEW t \in Threads, Check(t) \/ ConnectFails(t) \/ Send(t) \/ Return(t)
      PROVE  WbInv'
  <2>1. th[t].at # "ask" /\ ril' = ril /\ old' = old
    BY <1>6 DEF Check, ConnectFails, Send, Return
  <2>2. \E r : th' = [th EXCEPT ![t] = r]
    BY <1>6 DEF Check, ConnectFails, Send, Return
  <2>3. modem'.wb = modem.wb
    BY <1>6 DEF Check, ConnectFails, Send, Return, Tell, TypeOK, ModemType
  <2>4. adev'.wb_amr = adev.wb_amr
    BY <1>6 DEF Check, ConnectFails, Send, Return, TypeOK, DeviceType
  <2> QED
    BY <2>1, <2>2, <2>3, <2>4, QuietStep
<1>7. ASSUME NEW t \in Threads, Connect(t) PROVE WbInv'
  <2>1. ril'.inbox = ril.inbox /\ ril'.gets = ril.gets /\ UNCHANGED <<adev, old, modem>>
    BY <1>0, <1>7 DEF Connect, RilType
  <2>2. ~Answering'
    BY <1>7, <2>1 DEF Connect, Answering, TypeOK, ThreadType
  <2> QED
    BY <2>1, <2>2 DEF WbInv, Fresh
<1>8. ASSUME NEW t \in Threads, Ask(t) PROVE WbInv'
  <2>1. ril'.inbox = ril.inbox /\ ril'.connected = ril.connected /\ UNCHANGED <<old, modem>>
    BY <1>0, <1>8 DEF Ask, RilType
  <2>2. ril'.connected => ril'.asked # 0
    BY <1>0, <1>8 DEF Ask, RilType
  <2> QED
    BY <2>1, <2>2 DEF WbInv, Fresh, Answering
<1>9. CASE ModemChanges
  <2> DEFINE x == 1 - modem.wb
  <2>1. /\ modem'.wb = x /\ ril' = Told(ril, x) /\ x \in {0, 1}
        /\ \A k \in Left : old'[k] = Told(old[k], x)
    BY <1>0, <1>9 DEF ModemChanges, TypeOK, ModemType
  <2> HIDE DEF x
  <2>2. /\ Fresh(ril)' /\ \A k \in Left : Fresh(old[k])'
        /\ ril.connected => ril'.inbox # <<>>
    BY <1>0, <2>1, StaysFresh DEF Fresh
  <2>3. ril'.connected = ril.connected
    BY <1>0, <2>1, ClientStaysOK
  <2> QED
    BY <2>2, <2>3 DEF WbInv, Answering
<1>10. CASE Answer
  <2>1. /\ ril'.inbox # <<>> /\ ril'.inbox[Len(ril'.inbox)] = modem.wb
        /\ UNCHANGED <<old, modem>>
    BY <1>0, <1>10, StaysFresh DEF Answer
  <2> QED
    BY <2>1 DEF WbInv, Fresh
<1>11. CASE Disconnect
  <2>1. ~ril'.connected /\ ril'.inbox = <<>> /\ UNCHANGED <<old, modem>>
    BY <1>0, <1>11 DEF Disconnect, Lost, RilType
  <2> QED
    BY <2>1 DEF WbInv, Fresh, Answering
<1>12. CASE WbAmrCallback
  <2>1. /\ IF ril'.inbox = <<>> THEN adev'.wb_amr = modem.wb
            ELSE ril'.inbox[Len(ril'.inbox)] = modem.wb
        /\ UNCHANGED <<old, modem>>
    <3>1. adev'.wb_amr = Head(ril.inbox)
      BY <1>12 DEF WbAmrCallback, TypeOK, DeviceType
    <3> QED
      BY <1>0, <1>12, <3>1, StaysFresh DEF WbAmrCallback
  <2> QED
    BY <2>1 DEF WbInv, Fresh
<1>13. ASSUME NEW k \in Left, AnswerLeft(k) PROVE WbInv'
  <2>1. /\ old'[k].inbox # <<>> /\ old'[k].inbox[Len(old'[k].inbox)] = modem.wb
        /\ \A j \in Left \ {k} : old'[j] = old[j]
        /\ UNCHANGED <<ril, modem>>
    BY <1>0, <1>13, StaysFresh DEF AnswerLeft, TypeOK
  <2> QED
    BY <2>1 DEF WbInv, Fresh
<1>14. ASSUME NEW k \in Left, DisconnectLeft(k) PROVE WbInv'
  <2>1. /\ old'[k].client /\ ~old'[k].connected /\ old'[k].inbox = <<>>
        /\ \A j \in Left \ {k} : old'[j] = old[j]
        /\ UNCHANGED <<ril, modem>>
    BY <1>0, <1>14 DEF DisconnectLeft, Lost, RilType, ClientOK, TypeOK
  <2> QED
    BY <2>1 DEF WbInv, Fresh, Answering
<1>15. ASSUME NEW k \in Left, WbAmrCallbackLeft(k) PROVE WbInv'
  <2>1. /\ old'[k] = Delivered(old[k]) /\ \A j \in Left \ {k} : old'[j] = old[j]
        /\ UNCHANGED <<ril, modem, th>>
    BY <1>15 DEF WbAmrCallbackLeft, TypeOK
  <2>2. IF old'[k].inbox = <<>> THEN Head(old[k].inbox) = modem.wb
        ELSE old'[k].inbox[Len(old'[k].inbox)] = modem.wb
    BY <1>0, <1>15, <2>1, StaysFresh DEF WbAmrCallbackLeft
  <2>3. CASE ril.connected
    <3>1. adev'.wb_amr = Head(old[k].inbox)
      BY <1>15, <2>3 DEF WbAmrCallbackLeft, LiveInv, TypeOK, DeviceType
    <3> QED
      BY <2>1, <2>2, <3>1 DEF WbInv, Fresh
  <2>4. CASE ~ril.connected
    BY <2>1, <2>2, <2>4 DEF WbInv, Fresh, Answering
  <2> QED
    BY <2>3, <2>4
<1>16. CASE UNCHANGED vars
  BY <1>16 DEF vars, WbInv, Fresh, Answering
<1> QED
  BY <1>1, <1>2, <1>3, <1>4, <1>5, <1>6, <1>7, <1>8, <1>9, <1>10, <1>11, <1>12, <1>13,
     <1>14, <1>15, <1>16
  DEF Next

\* Once all is quiet the device knows the modem's wideband state, for any number
\* of threads that connect at once, of disconnections, of messages under way and
\* of clients left behind that keep their connections.
THEOREM WbAmrIsCurrent == Spec => []WbAmrSettles
<1>1. Init => TypeOK /\ LiveInv /\ WbInv
  BY InitType DEF Init, LiveInv, ClientOK, WbInv, Fresh, Answering, NoClient, Idle
<1>2. TypeOK /\ LiveInv /\ WbInv /\ [Next]_vars => (TypeOK /\ LiveInv /\ WbInv)'
  BY NextType, NextLive, NextWb
<1>3. LiveInv /\ WbInv => WbAmrSettles
  <2>1. LiveInv /\ WbInv => WbAmrSettles
    BY DEF LiveInv, ClientOK, WbInv, WbAmrSettles, Answering
  <2> QED
    BY <2>1
<1> QED
  BY <1>1, <1>2, <1>3, PTL DEF Spec

(***************************************************************************)
(* What the modem was told.                                                *)
(***************************************************************************)

Has(s, kind) == \E k \in 1 .. Len(s) : s[k].kind = kind
Wanted(a) == IF a.mode = "IN_CALL" THEN "START" ELSE "STOP"

\* the requests are for the volume and the mode of the device a
Honest(a, s) ==
  \A k \in 1 .. Len(s) : /\ s[k].kind = "volume" => s[k].value = a.voice_volume
                         /\ s[k].kind = "clock" => s[k].value = Wanted(a)

\* what the device wants has been told, was dropped, or is among the requests
Promised(a, m, s) ==
  /\ Honest(a, s)
  /\ a.mode = "IN_CALL" => Has(s, "volume") \/ m.volume \in {a.voice_volume, Missed}
  /\ Has(s, "clock") \/ m.clock \in {Wanted(a), Missed}

LEMMA Concat ==
  ASSUME NEW s \in Seq(Requests), NEW t \in Seq(Requests), NEW a
  PROVE  /\ \A kind : Has(s, kind) \/ Has(t, kind) => Has(s \o t, kind)
         /\ Honest(a, s) /\ Honest(a, t) => Honest(a, s \o t)
<1>1. /\ Len(s) \in Nat /\ Len(t) \in Nat /\ Len(s \o t) = Len(s) + Len(t)
      /\ \A k \in 1 .. Len(s) : (s \o t)[k] = s[k]
      /\ \A k \in 1 .. Len(t) : (s \o t)[Len(s) + k] = t[k]
  OBVIOUS
<1>2. ASSUME NEW kind, NEW k \in 1 .. Len(s), s[k].kind = kind PROVE Has(s \o t, kind)
  <2>1. k \in 1 .. Len(s \o t)
    BY <1>1
  <2> QED
    BY <1>1, <1>2, <2>1 DEF Has
<1>3. ASSUME NEW kind, NEW k \in 1 .. Len(t), t[k].kind = kind PROVE Has(s \o t, kind)
  <2>1. Len(s) + k \in 1 .. Len(s \o t)
    BY <1>1
  <2> QED
    BY <1>1, <1>3, <2>1 DEF Has
<1>4. ASSUME Honest(a, s), Honest(a, t) PROVE Honest(a, s \o t)
  <2>1. ASSUME NEW k \in 1 .. Len(s \o t)
        PROVE  \/ \E j \in 1 .. Len(s) : (s \o t)[k] = s[j]
               \/ \E j \in 1 .. Len(t) : (s \o t)[k] = t[j]
    <3>1. k <= Len(s) => k \in 1 .. Len(s)
      BY <1>1
    <3>2. k > Len(s) => k - Len(s) \in 1 .. Len(t) /\ k = Len(s) + (k - Len(s))
      BY <1>1
    <3> QED
      BY <1>1, <3>1, <3>2
  <2> DEFINE u == s \o t
  <2> HIDE DEF u
  <2>2. \A k \in 1 .. Len(u) : \/ \E j \in 1 .. Len(s) : u[k] = s[j]
                               \/ \E j \in 1 .. Len(t) : u[k] = t[j]
    BY <2>1 DEF u
  <2>3. Honest(a, u)
    BY <1>4, <2>2 DEF Honest
  <2> QED
    BY <2>3 DEF u
<1> QED
  BY <1>2, <1>3, <1>4 DEF Has
LEMMA Single ==
  ASSUME NEW kind, NEW value, NEW a
  PROVE  /\ Has(<<Request(kind, value)>>, kind)
         /\ (kind = "volume" => value = a.voice_volume) /\ (kind = "clock" => value = Wanted(a))
              => Honest(a, <<Request(kind, value)>>)
<1>1. Has(<<Request(kind, value)>>, kind)
  <2>1. 1 \in 1 .. Len(<<Request(kind, value)>>) /\ <<Request(kind, value)>>[1].kind = kind
    BY DEF Request
  <2> QED
    BY <2>1 DEF Has
<1> QED
  BY <1>1 DEF Honest, Request

LEMMA Nothing ==
  ASSUME NEW a
  PROVE  /\ Honest(a, <<>>)
         /\ \A kind : ~Has(<<>>, kind)
BY DEF Honest, Has

\* the first request has been told or dropped
LEMMA TailPromised ==
  ASSUME NEW a, NEW s \in Seq(Requests), s # <<>>, Promised(a, modem, s), modem \in ModemType,
         NEW v, v \in {Head(s).value, Missed}
  PROVE  Promised(a, Tell(Head(s).kind, v), Tail(s))
<1> DEFINE h == Head(s)
           m == Tell(h.kind, v)
<1>1. /\ h = s[1] /\ Len(s) \in Nat /\ Len(s) > 0
      /\ Len(Tail(s)) = Len(s) - 1
      /\ \A k \in 1 .. Len(s) - 1 : Tail(s)[k] = s[k + 1]
      /\ h \in Requests
  OBVIOUS
<1>2. \A kind : Has(s, kind) => Has(Tail(s), kind) \/ h.kind = kind
  <2> SUFFICES ASSUME NEW kind, NEW k \in 1 .. Len(s), s[k].kind = kind, h.kind # kind
               PROVE  Has(Tail(s), kind)
    BY DEF Has
  <2>1. k # 1 /\ k - 1 \in 1 .. Len(s) - 1 /\ Tail(s)[k - 1] = s[k]
    BY <1>1
  <2> QED
    BY <1>1, <2>1 DEF Has
<1>3. Honest(a, Tail(s))
  BY <1>1 DEF Promised, Honest
<1>4. /\ h.kind = "volume" => h.value = a.voice_volume
      /\ h.kind = "clock" => h.value = Wanted(a)
  BY <1>1 DEF Promised, Honest
<1>5. /\ m.volume = IF h.kind = "volume" THEN v ELSE modem.volume
      /\ m.clock = IF h.kind = "clock" THEN v ELSE modem.clock
  BY DEF Tell, ModemType
<1>6. v \in {h.value, Missed}
  OBVIOUS
<1> HIDE DEF h, m
<1>7. a.mode = "IN_CALL" => Has(Tail(s), "volume") \/ m.volume \in {a.voice_volume, Missed}
  BY <1>2, <1>4, <1>5, <1>6 DEF Promised
<1>8. Has(Tail(s), "clock") \/ m.clock \in {Wanted(a), Missed}
  BY <1>2, <1>4, <1>5, <1>6 DEF Promised
<1> QED
  BY <1>3, <1>7, <1>8 DEF Promised, h, m

\* a change of mode asks for all that the new mode wants
LEMMA ModePromised ==
  ASSUME NEW a, a.voice_volume \in Volumes \cup {FullVolume}, NEW path \in PathRequests,
         a.mode # "IN_CALL" /\ ~a.in_call => modem.clock \in {"STOP", Missed},
         a.mode = "IN_CALL" => ~a.in_call
  PROVE  Promised(a, modem, ModeRequests(a, path))
<1>1. path \in Seq(Requests) /\ VolumeRequest(a) \in Seq(Requests)
  BY PathType, VolumeType
<1>2. Honest(a, path)
  BY Single, Nothing DEF PathRequests
<1>3. CASE a.mode = "IN_CALL"
  <2> DEFINE clock == <<Request("clock", "START")>>
             volume == <<Request("volume", a.voice_volume)>>
  <2>1. /\ ModeRequests(a, path) = path \o clock \o volume
        /\ clock \in Seq(Requests) /\ volume \in Seq(Requests) /\ path \o clock \in Seq(Requests)
    BY <1>1, <1>3, RequestType DEF ModeRequests, VolumeRequest
  <2>2. /\ Has(clock, "clock") /\ Honest(a, clock)
        /\ Has(volume, "volume") /\ Honest(a, volume)
    BY <1>3, Single DEF Wanted
  <2> HIDE DEF clock, volume
  <2>3. Has(path \o clock, "clock") /\ Honest(a, path \o clock)
    BY <1>1, <1>2, <2>1, <2>2, Concat
  <2>4. /\ Has(path \o clock \o volume, "clock") /\ Has(path \o clock \o volume, "volume")
        /\ Honest(a, path \o clock \o volume)
    BY <2>1, <2>2, <2>3, Concat
  <2> QED
    BY <2>1, <2>4 DEF Promised
<1>4. CASE a.mode # "IN_CALL" /\ a.in_call
  <2> DEFINE clock == <<Request("clock", "STOP")>>
  <2>1. ModeRequests(a, path) = clock \o path /\ clock \in Seq(Requests)
    BY <1>4, RequestType DEF ModeRequests
  <2>2. Has(clock, "clock") /\ Honest(a, clock)
    BY <1>4, Single DEF Wanted
  <2> HIDE DEF clock
  <2>3. Has(clock \o path, "clock") /\ Honest(a, clock \o path)
    BY <1>1, <1>2, <2>1, <2>2, Concat
  <2> QED
    BY <1>4, <2>1, <2>3 DEF Promised
<1>5. CASE a.mode # "IN_CALL" /\ ~a.in_call
  <2>1. ModeRequests(a, path) = <<>>
    BY <1>5 DEF ModeRequests
  <2> QED
    BY <1>5, <2>1, Nothing DEF Promised, Wanted
<1> QED
  BY <1>3, <1>4, <1>5

TellInv ==
  /\ ~adev.open => adev = Closed
  /\ adev.in_call => adev.mode = "IN_CALL"
  /\ lock # Control => (adev.mode = "IN_CALL" => adev.in_call)
  /\ lock = Control => th[Control].at # "idle"
  /\ Promised(adev, modem, th[Control].todo)
  /\ \A t \in Streams : th[t].todo \in {<<>>, <<Request("path", "any")>>}

LEMMA CallIsTold ==
  ASSUME TypeOK, TellInv
  PROVE  VolumeInCall /\ ClockFollowsCall
<1>1. Control \in Threads
  BY DEF Threads
<1>2. th[Control].at = "idle" => th[Control].todo = <<>> /\ lock # Control
  BY <1>1 DEF TypeOK, TellInv
<1>3. ASSUME th[Control].at = "idle"
      PROVE  /\ adev.mode = "IN_CALL" <=> adev.in_call
             /\ adev.mode = "IN_CALL" => modem.volume \in {adev.voice_volume, Missed}
             /\ modem.clock \in {Wanted(adev), Missed}
  BY <1>2, <1>3, Nothing DEF TellInv, Promised
<1> QED
  BY <1>3 DEF VolumeInCall, ClockFollowsCall, Wanted

\* a call that starts with nothing left to tell
LEMMA IdlePromised ==
  ASSUME TypeOK, TellInv, th[Control].at = "idle"
  PROVE  /\ adev.mode = "IN_CALL" <=> adev.in_call
         /\ adev.mode = "IN_CALL" => modem.volume \in {adev.voice_volume, Missed}
         /\ modem.clock \in {Wanted(adev), Missed}
         /\ Promised(adev, modem, <<>>)
<1>1. Control \in Threads
  BY DEF Threads
<1>2. th[Control].todo = <<>> /\ lock # Control
  BY <1>1 DEF TypeOK, TellInv
<1> QED
  BY <1>2, Nothing DEF TellInv, Promised

LEMMA VolumePromised ==
  ASSUME TypeOK, TellInv, th[Control].at = "idle", NEW v \in Volumes, NEW a,
         a = [adev EXCEPT !.voice_volume = v]
  PROVE  Promised(a, modem, VolumeRequest(a))
<1>1. a.mode = adev.mode /\ a.voice_volume = v
  BY DEF TypeOK, DeviceType
<1>2. modem.clock \in {Wanted(a), Missed}
  BY <1>1, IdlePromised DEF Wanted
<1>3. CASE a.mode = "IN_CALL"
  <2> DEFINE volume == <<Request("volume", a.voice_volume)>>
  <2>1. VolumeRequest(a) = volume
    BY <1>3 DEF VolumeRequest
  <2>2. Has(volume, "volume") /\ Honest(a, volume)
    BY Single
  <2> HIDE DEF volume
  <2> QED
    BY <1>2, <2>1, <2>2 DEF Promised
<1>4. CASE a.mode # "IN_CALL"
  <2>1. VolumeRequest(a) = <<>>
    BY <1>4 DEF VolumeRequest
  <2> QED
    BY <1>2, <1>4, <2>1, Nothing DEF Promised
<1> QED
  BY <1>3, <1>4

LEMMA NextTold ==
  ASSUME TypeOK, LiveInv, TellInv, [Next]_vars
  PROVE  TellInv'
<1>0. Control \in Threads /\ Control \notin Streams /\ Control # Free
  BY RilAssumption DEF Threads
<1>1. CASE adev_open
  <2>1. adev.mode = "NORMAL" /\ ~adev.in_call /\ adev.voice_volume = FullVolume
    BY <1>1 DEF adev_open, TellInv, Closed
  <2>2. adev'.mode = "NORMAL" /\ ~adev'.in_call /\ adev'.open
    BY <1>1 DEF adev_open, Closed
  <2>3. Promised(adev', modem, th[Control].todo)
    BY <1>1, <2>1 DEF adev_open, TellInv, Closed, Promised, Honest, Wanted
  <2> QED
    BY <1>1, <2>2, <2>3 DEF adev_open, TellInv
<1>2. CASE adev_close
  <2>1. th[Control].at = "idle" /\ adev' = Closed /\ UNCHANGED <<lock, modem, th>>
    BY <1>0, <1>2 DEF adev_close, Idle
  <2>2. modem.clock \in {"STOP", Missed}
    BY <1>2, <2>1, IdlePromised DEF adev_close, Wanted
  <2>3. th[Control].todo = <<>>
    BY <1>0, <1>2 DEF adev_close, Idle
  <2>4. Promised(adev', modem', th'[Control].todo)
    BY <2>1, <2>2, <2>3, Nothing DEF Promised, Closed, Wanted
  <2> QED
    BY <2>1, <2>4 DEF TellInv, Closed
<1>3. ASSUME NEW v \in Volumes, adev_set_voice_volume(v) PROVE TellInv'
  <2> DEFINE a == [adev EXCEPT !.voice_volume = v]
  <2>1. /\ adev' = a /\ th' = [th EXCEPT ![Control] = ToDo(VolumeRequest(a))]
        /\ th[Control].at = "idle" /\ adev.open /\ UNCHANGED <<lock, modem>>
    BY <1>3 DEF adev_set_voice_volume, CanCall
  <2>2. a.mode = adev.mode /\ a.in_call = adev.in_call /\ a.open = adev.open
    BY DEF TypeOK, DeviceType
  <2>3. a = [adev EXCEPT !.voice_volume = v]
    OBVIOUS
  <2> HIDE DEF a
  <2>4. Promised(a, modem, VolumeRequest(a))
    BY <2>1, <2>3, VolumePromised
  <2>5. th'[Control].todo = VolumeRequest(a) /\ \A t \in Streams : th'[t] = th[t]
    BY <1>0, <2>1 DEF ToDo, TypeOK, Threads
  <2> QED
    BY <2>1, <2>2, <2>4, <2>5 DEF TellInv
<1>4. CASE adev_set_mic_mute \/ adev_set_parameters
  <2>1. PICK kind \in {"mute", "two_mic"} :
          th' = [th EXCEPT ![Control] = ToDo(<<Request(kind, "any")>>)]
    BY <1>4 DEF adev_set_mic_mute, adev_set_parameters
  <2>2. th[Control].at = "idle" /\ UNCHANGED <<adev, lock, modem>>
    BY <1>4 DEF adev_set_mic_mute, adev_set_parameters, CanCall
  <2> DEFINE s == <<Request(kind, "any")>>
  <2>3. Honest(adev, s)
    BY Single
  <2>4. th'[Control].todo = s /\ \A t \in Streams : th'[t] = th[t]
    BY <1>0, <2>1 DEF ToDo, TypeOK, Threads
  <2> HIDE DEF s
  <2>5. Promised(adev, modem, s)
    BY <2>2, <2>3, IdlePromised DEF Promised
  <2> QED
    BY <2>2, <2>4, <2>5 DEF TellInv
<1>5. ASSUME NEW m \in Modes, adev_set_mode(m) PROVE TellInv'
  <2> DEFINE a == [adev EXCEPT !.mode = m]
  <2>1. PICK path \in PathRequests :
          th' = [th EXCEPT ![Control] = ToDo(ModeRequests(a, path))]
    BY <1>5 DEF adev_set_mode
  <2>2. /\ th[Control].at = "idle" /\ lock' = Control /\ adev.open /\ adev.mode # m
        /\ adev' = [a EXCEPT !.in_call = a.in_call /\ m = "IN_CALL"] /\ modem' = modem
    BY <1>5 DEF adev_set_mode, CanCall
  <2>3. /\ a.mode = m /\ a.in_call = adev.in_call /\ a.voice_volume = adev.voice_volume
        /\ a.open = adev.open /\ a.voice_volume \in Volumes \cup {FullVolume}
        /\ adev'.mode = a.mode /\ adev'.voice_volume = a.voice_volume /\ adev'.open = a.open
        /\ adev'.in_call <=> adev.in_call /\ m = "IN_CALL"
    BY <2>2 DEF TypeOK, DeviceType
  <2> HIDE DEF a
  <2>4. Promised(a, modem, ModeRequests(a, path))
    <3>1. a.mode # "IN_CALL" /\ ~a.in_call => modem.clock \in {"STOP", Missed}
      BY <2>2, <2>3, IdlePromised DEF Wanted
    <3>2. a.mode = "IN_CALL" => ~a.in_call
      BY <2>2, <2>3, IdlePromised
    <3> QED
      BY <2>3, <3>1, <3>2, ModePromised
  <2>5. Promised(adev', modem', ModeRequests(a, path))
    BY <2>2, <2>3, <2>4 DEF Promised, Honest, Wanted
  <2>6. /\ th'[Control].todo = ModeRequests(a, path) /\ th'[Control].at # "idle"
        /\ \A t \in Streams : th'[t] = th[t]
    BY <1>0, <2>1 DEF ToDo, TypeOK, Threads
  <2> QED
    BY <2>2, <2>3, <2>5, <2>6 DEF TellInv
<1>6. ASSUME NEW t \in Streams, Reroute(t) PROVE TellInv'
  <2>1. PICK path \in PathRequests : th' = [th EXCEPT ![t] = ToDo(path)]
    BY <1>6 DEF Reroute
  <2>2. /\ th'[Control] = th[Control] /\ th'[t].todo = path
        /\ \A u \in Streams \ {t} : th'[u] = th[u]
    BY <1>0, <2>1 DEF ToDo, TypeOK, Threads
  <2>3. lock = Free /\ lock' = t /\ UNCHANGED <<adev, modem>>
    BY <1>6 DEF Reroute
  <2> QED
    BY <1>0, <2>2, <2>3 DEF TellInv, PathRequests
<1>7. ASSUME NEW t \in Threads, Check(t) \/ Connect(t) \/ Ask(t) PROVE TellInv'
  <2>1. PICK at \in {"connect", "ask", "send"} : th' = [th EXCEPT ![t].at = at]
    BY <1>7 DEF Check, Connect, Ask
  <2>2. /\ \A u \in Threads : th'[u].todo = th[u].todo
        /\ th[Control].at # "idle" => th'[Control].at # "idle"
    BY <1>0, <2>1 DEF TypeOK, ThreadType
  <2>3. UNCHANGED <<adev, lock, modem>>
    BY <1>7 DEF Check, Connect, Ask
  <2> QED
    BY <1>0, <2>2, <2>3 DEF TellInv, Threads
<1>8. ASSUME NEW t \in Threads, ConnectFails(t) \/ Send(t) PROVE TellInv'
  <2> DEFINE s == th[t].todo
  <2>1. s \in Seq(Requests) /\ s # <<>>
    BY <1>8, AtRequest DEF ConnectFails, Send, TypeOK, ThreadType
  <2>2. PICK v \in {Head(s).value, Missed} : modem' = Tell(Head(s).kind, v)
    BY <1>8 DEF ConnectFails, Send
  <2>3. th' = [th EXCEPT ![t] = ToDo(Tail(s))] /\ UNCHANGED <<adev, lock>>
    BY <1>8 DEF ConnectFails, Send, RestIfFailed, Rest
  <2>4. ToDo(Tail(s)).todo = Tail(s) /\ ToDo(Tail(s)).at # "idle"
    BY DEF ToDo
  <2>5. /\ th'[t].todo = Tail(s) /\ th'[t].at # "idle" /\ UNCHANGED <<adev, lock>>
        /\ \A u \in Threads \ {t} : th'[u] = th[u]
    BY <2>3, <2>4 DEF TypeOK
  <2>6. CASE t = Control
    <3>1. Promised(adev, modem', Tail(s))
      BY <2>1, <2>2, <2>6, TailPromised DEF TellInv, TypeOK
    <3> QED
      BY <1>0, <2>5, <2>6, <3>1 DEF TellInv, Threads
  <2>7. CASE t # Control
    <3>1. t \in Streams
      BY <2>7 DEF Threads
    <3>2. s = <<Request("path", "any")>>
      BY <2>1, <3>1 DEF TellInv
    <3>3. Head(s).kind = "path" /\ Tail(s) = <<>>
      BY <3>2 DEF Request
    <3>4. modem' = modem
      BY <2>2, <3>3 DEF Tell
    <3> QED
      BY <1>0, <2>5, <2>7, <3>3, <3>4 DEF TellInv, Threads
  <2> QED
    BY <2>6, <2>7
<1>9. ASSUME NEW t \in Threads, Return(t) PROVE TellInv'
  <2>1. /\ th[t].todo = <<>> /\ th' = [th EXCEPT ![t] = Idle] /\ modem' = modem
        /\ lock' = IF lock = t THEN Free ELSE lock
    BY <1>9 DEF Return, TypeOK
  <2>2. \A u \in Threads : th'[u].todo = th[u].todo
    BY <2>1 DEF Idle, TypeOK
  <2>3. adev.open
    BY <1>9 DEF Return, LiveInv
  <2>4. CASE t = Control /\ lock = t
    <3>1. adev' = [adev EXCEPT !.in_call = (adev.mode = "IN_CALL")]
      BY <1>9, <2>4 DEF Return
    <3>2. /\ adev'.open /\ adev'.mode = adev.mode /\ adev'.voice_volume = adev.voice_volume
          /\ adev'.in_call <=> adev.mode = "IN_CALL"
      BY <2>3, <3>1 DEF TypeOK, DeviceType
    <3>3. Promised(adev', modem', th'[Control].todo)
      BY <1>0, <2>1, <2>2, <3>2 DEF TellInv, Promised, Honest, Wanted
    <3> QED
      BY <1>0, <2>1, <2>2, <2>4, <3>2, <3>3 DEF TellInv, Threads
  <2>5. CASE ~(t = Control /\ lock = t)
    <3>1. adev' = adev
      BY <1>9, <2>5 DEF Return
    <3>2. lock' = Control <=> lock = Control
      BY <1>0, <2>1, <2>5
    <3>3. lock = Control => th'[Control].at # "idle"
      BY <1>0, <2>1, <2>5 DEF TellInv, TypeOK
    <3> QED
      BY <1>0, <2>1, <2>2, <3>1, <3>2, <3>3 DEF TellInv, Threads
  <2> QED
    BY <2>4, <2>5
<1>10. CASE \/ ModemChanges \/ Answer \/ Disconnect
            \/ \E k \in Left : AnswerLeft(k) \/ DisconnectLeft(k)
  <2>1. /\ modem'.volume = modem.volume /\ modem'.clock = modem.clock
        /\ UNCHANGED <<adev, lock, th>>
    BY <1>10 DEF ModemChanges, Answer, Disconnect, AnswerLeft, DisconnectLeft, TypeOK, ModemType
  <2> QED
    BY <2>1 DEF TellInv, Promised
<1>11. CASE WbAmrCallback
  <2>1. /\ adev'.mode = adev.mode /\ adev'.in_call = adev.in_call /\ adev'.open = adev.open
        /\ adev'.voice_volume = adev.voice_volume /\ UNCHANGED <<modem, th, lock>>
    BY <1>11 DEF WbAmrCallback, TypeOK, DeviceType
  <2>2. adev.open
    BY <1>11 DEF WbAmrCallback, LiveInv, ClientOK
  <2> QED
    BY <2>1, <2>2 DEF TellInv, Promised, Honest, Wanted
<1>12. ASSUME NEW k \in Left, WbAmrCallbackLeft(k) PROVE TellInv'
  <2>1. /\ adev'.mode = adev.mode /\ adev'.in_call = adev.in_call /\ adev'.open = adev.open
        /\ adev'.voice_volume = adev.voice_volume /\ UNCHANGED <<modem, th, lock>>
        /\ ~adev.open => adev' = adev
    BY <1>12 DEF WbAmrCallbackLeft, TypeOK, DeviceType
  <2> QED
    BY <2>1 DEF TellInv, Promised, Honest, Wanted
<1>13. CASE UNCHANGED vars
  BY <1>13 DEF vars, TellInv
<1> QED
  BY <1>1, <1>2, <1>3, <1>4, <1>5, <1>6, <1>7, <1>8, <1>9, <1>10, <1>11, <1>12, <1>13 DEF Next

\* During a call the modem has the volume and the clock of the device, but for
\* requests that were dropped, whichever threads connect or fail to.
THEOREM ModemFollowsCall == Spec => []CallReachesModem
<1>1. Init => TypeOK /\ LiveInv /\ TellInv
  <2>1. ASSUME Init PROVE Promised(adev, modem, th[Control].todo)
    BY <2>1, Nothing DEF Init, Promised, Closed, Wanted, Idle, Threads
  <2> QED
    BY <2>1, InitType, RilAssumption DEF Init, LiveInv, ClientOK, TellInv,
      NoClient, Idle, Closed, Threads
<1>2. TypeOK /\ LiveInv /\ TellInv /\ [Next]_vars => (TypeOK /\ LiveInv /\ TellInv)'
  BY NextType, NextLive, NextTold
<1>3. TypeOK /\ TellInv => CallReachesModem
  BY CallIsTold DEF CallReachesModem
<1> QED
  BY <1>1, <1>2, <1>3, PTL DEF Spec

=============================================================================
