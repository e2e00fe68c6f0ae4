-------------------------- MODULE SmallHals_proofs --------------------------
(***************************************************************************)
(* Theorems about the two small HALs, Lights and ConsumerIr, which share   *)
(* no state: about the LED for any number of notification lights and of    *)
(* colours, and any failures of the nodes; about the transmitter for any   *)
(* set of patterns and any size that the buffer starts with and that can   *)
(* hold a number.                                                          *)
(***************************************************************************)
EXTENDS Lights, ConsumerIr, FiniteSetTheorems, SequenceTheorems, TLAPS

-----------------------------------------------------------------------------
(* Lights.                                                                 *)

\* Whoever writes holds the lock, and only it.
Mutex == \A l \in Callers : pc[l] = "writing" <=> g_lock = l

LedInv == LightsTypeOK /\ Mutex /\ CallOwnsLed

LEMMA WholeType ==
  ASSUME NEW c \in Colors \cup {Dark}
  PROVE  Whole(c) \in LedType
  BY DEF Whole, LedType

\* A caller that is not writing, and steps to a place where it does not write,
\* may change its locals and the store.
LEMMA IdleStep ==
  ASSUME LedInv, NEW l \in Callers, pc[l] # "writing",
         NEW place \in {"idle", "loading", "storing", "locking"},
         pc' = [pc EXCEPT ![l] = place], store' \in LedType,
         \E x \in LedType : led' = [led EXCEPT ![l] = x],
         \E x \in SUBSET Fields : todo' = [todo EXCEPT ![l] = x],
         UNCHANGED <<nodes, plain, g_lock, done>>
  PROVE  LedInv'
<1> USE DEF LedInv
<1>1. PICK x \in LedType : led' = [led EXCEPT ![l] = x]
  OBVIOUS
<1>2. PICK y \in SUBSET Fields : todo' = [todo EXCEPT ![l] = y]
  OBVIOUS
<1>3. LightsTypeOK'
  BY <1>1, <1>2 DEF LightsTypeOK
<1>4. Mutex'
  BY DEF Mutex, LightsTypeOK
<1>5. CallOwnsLed'
  BY <1>1 DEF CallOwnsLed, LightsTypeOK
<1> QED
  BY <1>3, <1>4, <1>5

LEMMA InitLedInv ==
  ASSUME LightsInit
  PROVE  LedInv
<1>1. Whole(Dark) \in LedType
  BY WholeType
<1>2. LightsTypeOK
  BY <1>1 DEF LightsInit, LightsTypeOK
<1> QED
  BY <1>2, LightsAssumption DEF LightsInit, LedInv, Mutex, CallOwnsLed, Callers

LEMMA NextLedInv ==
  ASSUME LedInv, [LightsNext]_lights_vars
  PROVE  LedInv'
<1> USE DEF LedInv
<1>0. Notifiers \subseteq Callers /\ Battery \in Callers /\ None \notin Callers
  BY LightsAssumption DEF Callers
<1>1. ASSUME NEW l \in Notifiers, NEW c \in Colors, FlashLeds(l, c) PROVE LedInv'
  <2>1. todo' = [todo EXCEPT ![l] = todo[l]] /\ todo[l] \in SUBSET Fields
    BY <1>0, <1>1 DEF FlashLeds, LightsTypeOK
  <2>2. Whole(c) \in LedType /\ led' = [led EXCEPT ![l] = Whole(c)]
    BY <1>1, WholeType DEF FlashLeds
  <2>3. store' \in LedType
    BY <1>1 DEF FlashLeds, LightsTypeOK
  <2> QED
    BY <1>0, <1>1, <2>1, <2>2, <2>3, IdleStep DEF FlashLeds
<1>2. ASSUME NEW l \in Notifiers, StoredLeds(l) PROVE LedInv'
  <2>1. led' = [led EXCEPT ![l] = led[l]] /\ led[l] \in LedType
    BY <1>0, <1>2 DEF StoredLeds, LightsTypeOK
  <2>2. store' \in LedType
    BY <1>2 DEF StoredLeds, LightsTypeOK
  <2> QED
    BY <1>0, <1>2, <2>1, <2>2, IdleStep DEF StoredLeds
<1>3. ASSUME NEW l \in Notifiers, NEW f \in Fields, LoadField(l, f) PROVE LedInv'
  <2> DEFINE x == [led[l] EXCEPT ![f] = store[f]]
             place == IF todo[l] = {f} THEN "locking" ELSE pc[l]
  <2>1. led' = [led EXCEPT ![l] = x] /\ x \in LedType
    BY <1>0, <1>3 DEF LoadField, LightsTypeOK, LedType
  <2>2. todo' = [todo EXCEPT ![l] = todo[l] \ {f}] /\ todo[l] \ {f} \in SUBSET Fields
    BY <1>0, <1>3 DEF LoadField, LightsTypeOK
  <2>3. pc' = [pc EXCEPT ![l] = place] /\ place \in {"loading", "locking"}
    BY <1>0, <1>3 DEF LoadField, LightsTypeOK
  <2>4. store' \in LedType
    BY <1>3 DEF LoadField, LightsTypeOK
  <2> HIDE DEF x, place
  <2> QED
    BY <1>0, <1>3, <2>1, <2>2, <2>3, <2>4, IdleStep DEF LoadField
<1>4. ASSUME NEW c \in Colors \cup {Dark}, SetBattery(c) PROVE LedInv'
  <2>1. Whole(c) \in LedType /\ led' = [led EXCEPT ![Battery] = Whole(c)]
    BY <1>4, WholeType DEF SetBattery
  <2>2. store' \in LedType
    BY <1>4 DEF SetBattery, LightsTypeOK
  <2> QED
    BY <1>0, <1>4, <2>1, <2>2, IdleStep DEF SetBattery
<1>5. ASSUME NEW f \in Fields, StoreField(f) PROVE LedInv'
  <2> DEFINE place == IF todo[Battery] = {f} THEN "locking" ELSE pc[Battery]
  <2>1. led' = [led EXCEPT ![Battery] = led[Battery]] /\ led[Battery] \in LedType
    BY <1>0, <1>5 DEF StoreField, LightsTypeOK
  <2>2. todo' = [todo EXCEPT ![Battery] = todo[Battery] \ {f}]
        /\ todo[Battery] \ {f} \in SUBSET Fields
    BY <1>0, <1>5 DEF StoreField, LightsTypeOK
  <2>3. pc' = [pc EXCEPT ![Battery] = place] /\ place \in {"storing", "locking"}
    BY <1>0, <1>5 DEF StoreField, LightsTypeOK
  <2>4. store' \in LedType
    BY <1>0, <1>5 DEF StoreField, LightsTypeOK, LedType
  <2> HIDE DEF place
  <2> QED
    BY <1>0, <1>5, <2>1, <2>2, <2>3, <2>4, IdleStep DEF StoreField
<1>6. ASSUME NEW l \in Callers, Lock(l) PROVE LedInv'
  <2>1. LightsTypeOK'
    BY <1>6 DEF Lock, StartWrite, LightsTypeOK
  <2>2. Mutex'
    BY <1>0, <1>6 DEF Lock, StartWrite, Mutex, LightsTypeOK
  <2>3. CallOwnsLed'
    BY <1>0, <1>6 DEF Lock, StartWrite, CallOwnsLed, Mutex, LightsTypeOK
  <2> QED
    BY <2>1, <2>2, <2>3
<1>7. ASSUME NEW l \in Callers, NEW n \in Fields, WriteNode(l, n) PROVE LedInv'
  <2>1. PICK ok \in WriteResults :
          /\ nodes' = IF ok THEN [nodes EXCEPT ![n] = led[l][n]] ELSE nodes
          /\ done' = IF ok THEN [done EXCEPT ![l] = done[l] \cup {n}] ELSE done
    BY <1>7 DEF WriteNode
  <2>2. LightsTypeOK'
    BY <1>7, <2>1 DEF WriteNode, LightsTypeOK, LedType
  <2>3. Mutex'
    BY <1>7 DEF WriteNode, Mutex
  <2>4. \A k \in Callers : pc[k] = "writing" => k = l
    BY <1>7 DEF WriteNode, Mutex
  <2>5. CallOwnsLed'
    <3> SUFFICES ASSUME NEW k \in Callers, pc[k] = "writing", NEW m \in done'[k]
                 PROVE  nodes'[m] = led[k][m]
      BY <1>7 DEF WriteNode, CallOwnsLed
    <3>1. k = l
      BY <2>4
    <3>2. CASE m = n /\ ok
      BY <2>1, <3>1, <3>2 DEF LightsTypeOK, LedType
    <3>3. CASE ~(m = n /\ ok)
      <4>1. m \in done[l] /\ nodes'[m] = nodes[m]
        BY <2>1, <3>1, <3>3 DEF LightsTypeOK, LedType
      <4> QED
        BY <3>1, <4>1 DEF CallOwnsLed
    <3> QED
      BY <3>2, <3>3
  <2> QED
    BY <2>2, <2>3, <2>5
<1>8. ASSUME NEW l \in Callers, Unlock(l) PROVE LedInv'
  <2>1. Whole(Dark) \in LedType
    BY WholeType
  <2>2. LightsTypeOK'
    BY <1>8, <2>1 DEF Unlock, Return, LightsTypeOK
  <2>3. Mutex'
    BY <1>0, <1>8 DEF Unlock, Return, Mutex, LightsTypeOK
  <2>4. CallOwnsLed'
    BY <1>8 DEF Unlock, Return, CallOwnsLed, LightsTypeOK
  <2> QED
    BY <2>2, <2>3, <2>4
<1>9. ASSUME NEW light \in Plain, NEW on \in BOOLEAN, SetPlain(light, on) PROVE LedInv'
  BY <1>9 DEF SetPlain, LightsTypeOK, Mutex, CallOwnsLed
<1>10. CASE UNCHANGED lights_vars
  BY <1>10 DEF lights_vars, LightsTypeOK, Mutex, CallOwnsLed
<1> QED
  BY <1>1, <1>2, <1>3, <1>4, <1>5, <1>6, <1>7, <1>8, <1>9, <1>10 DEF LightsNext

\* Each field of the stored battery state and of every copy of it, and each
\* LED node, is that of a colour some light asked for, or dark; which fields of
\* which colours stand together is not said.
THEOREM LedPartsAreAsked == LightsSpec => []LightsTypeOK
<1>1. LedInv => LightsTypeOK
  BY DEF LedInv
<1> QED
  BY <1>1, InitLedInv, NextLedInv, PTL DEF LightsSpec

\* What a call wrote stays on the LED until it unlocks, for any number of
\* lights that share the LED and any nodes that fail.
THEOREM LedBelongsToOneCall == LightsSpec => []CallOwnsLed
<1>1. LedInv => CallOwnsLed
  BY DEF LedInv
<1> QED
  BY <1>1, InitLedInv, NextLedInv, PTL DEF LightsSpec

-----------------------------------------------------------------------------
(* ConsumerIr: numbers.                                                    *)

\* What snprintf stores of an int is at most ten digits and a comma.
LEMMA StoredBounds ==
  ASSUME NEW number
  PROVE  Stored(number) \in 2 .. 11
<1> DEFINE D == {k \in 1 .. 9 : 10^k <= number}
<1>1. IsFiniteSet(1 .. 9) /\ Cardinality(1 .. 9) = 9
  <2>1. /\ IsFiniteSet(1 .. 9)
        /\ Cardinality(1 .. 9) = IF 1 > 9 THEN 0 ELSE 9 - 1 + 1
    <3> DEFINE a == 1
               b == 9
    <3>1. a \in Int /\ b \in Int
      OBVIOUS
    <3> HIDE DEF a, b
    <3>2. /\ IsFiniteSet(a .. b)
          /\ Cardinality(a .. b) = IF a > b THEN 0 ELSE b - a + 1
      BY <3>1, FS_Interval
    <3> QED
      BY <3>2 DEF a, b
  <2> QED
    BY <2>1
<1>2. IsFiniteSet(D) /\ Cardinality(D) <= 9
  <2>1. D \subseteq 1 .. 9
    OBVIOUS
  <2> HIDE DEF D
  <2> QED
    BY <1>1, <2>1, FS_Subset
<1>3. Cardinality(D) \in Nat
  BY <1>2, FS_CardinalityType
<1> QED
  BY <1>2, <1>3 DEF Stored

\* The truncated factor gives at least the periods of a time, and at most a
\* sixteenth and one more, for every carrier the HAL publishes.
LEMMA PulsesBounds ==
  ASSUME NEW time \in Nat, NEW freq \in consumerir_freqs
  PROVE  /\ Pulses(time, freq) \in Nat
         /\ LET periods == Periods(time, freq)
            IN  Pulses(time, freq) \in periods .. periods + periods \div 16 + 1
<1> USE DEF Pulses, Periods
<1>1. CASE freq = 30000
  BY <1>1
<1>2. CASE freq = 33000
  BY <1>2
<1>3. CASE freq = 36000
  BY <1>3
<1>4. CASE freq = 38000
  BY <1>4
<1>5. CASE freq = 40000
  BY <1>5
<1>6. CASE freq = 56000
  BY <1>6
<1> QED
  BY <1>1, <1>2, <1>3, <1>4, <1>5, <1>6 DEF consumerir_freqs

LEMMA PatternTimes ==
  ASSUME NEW pattern \in Patterns \cup {<<>>}
  PROVE  pattern \in Seq(Nat)
<1>1. \A k \in 0 .. MaxTime : k \in Nat
  OBVIOUS
<1>2. Patterns \subseteq Seq(0 .. MaxTime)
  BY ConstantsAssumption
<1>3. CASE pattern = <<>>
  BY <1>3
<1>4. CASE pattern \in Seq(0 .. MaxTime)
  <2>1. 0 .. MaxTime \subseteq Nat
    BY <1>1
  <2> QED
    BY <1>4, <2>1, SeqMonotonic
<1> QED
  BY <1>2, <1>3, <1>4

-----------------------------------------------------------------------------
(* ConsumerIr: the call.                                                   *)

\* The numbers of a text so far are the first ones of its pattern's
TextOf(text, freq, pattern) ==
  /\ text # <<>> => text[1] = freq
  /\ \A k \in DOMAIN pattern :
       k < Len(text) => text[k + 1] = Pulses(pattern[k], freq)

CallInv ==
  call.st = "busy" =>
    /\ call.len < call.size /\ call.len >= 2 * Len(call.text)
    /\ call.size >= 12
    /\ Len(call.text) <= Len(call.pattern) + 1
    /\ TextOf(call.text, call.freq, call.pattern)

NodeInv ==
  node # NoText =>
    /\ Len(node.text) = Len(node.pattern) + 1
    /\ TextOf(node.text, node.freq, node.pattern)

IrInv == TypeOK /\ CallInv /\ NodeInv /\ OnlyMemoryFails

LEMMA RoomKept ==
  ASSUME NEW len \in Nat, NEW size \in Nat, NEW w \in 2 .. 11, NEW n \in Nat,
         w < size - len, len >= 2 * n
  PROVE  len + w < size /\ len + w >= 2 * (n + 1)
  OBVIOUS

\* A number that is appended is the next one of the text, and has room.
LEMMA AppendedKeeps ==
  ASSUME NEW c \in CallType, c.st = "busy",
         c.len < c.size, c.len >= 2 * Len(c.text), c.size >= 12,
         Len(c.text) <= Len(c.pattern), TextOf(c.text, c.freq, c.pattern),
         Fits(c, NextNumber(c))
  PROVE  LET d == Appended(c, NextNumber(c))
         IN  /\ d \in CallType
             /\ d.st = "busy" /\ d.result = c.result
             /\ d.len < d.size /\ d.len >= 2 * Len(d.text) /\ d.size >= 12
             /\ Len(d.text) <= Len(d.pattern) + 1
             /\ TextOf(d.text, d.freq, d.pattern)
<1> DEFINE number == NextNumber(c)
           d == Appended(c, number)
<1>1. c.text \in Seq(Nat) /\ c.pattern \in Seq(Nat) /\ c.freq \in consumerir_freqs
      /\ c.len \in Nat /\ c.size \in Nat
  BY PatternTimes DEF CallType
<1>2. number \in Nat
  <2>1. CASE c.text = <<>>
    BY <1>1, <2>1 DEF NextNumber, consumerir_freqs
  <2>2. CASE c.text # <<>>
    <3>1. Len(c.text) \in 1 .. Len(c.pattern)
      BY <1>1, <2>2
    <3>2. c.pattern[Len(c.text)] \in Nat
      BY <1>1, <3>1
    <3> QED
      BY <1>1, <2>2, <3>2, PulsesBounds DEF NextNumber
  <2> QED
    BY <2>1, <2>2
<1>3. Stored(number) \in 2 .. 11 /\ Stored(number) < c.size - c.len
  BY StoredBounds DEF Fits
<1>w. PICK w \in 2 .. 11 : w = Stored(number) /\ w < c.size - c.len
  BY <1>3
<1> HIDE DEF number
<1>4. /\ d.text = Append(c.text, number) /\ d.len = c.len + w
      /\ d.size = c.size /\ d.freq = c.freq /\ d.pattern = c.pattern
      /\ d.st = c.st /\ d.result = c.result
  BY <1>w DEF Appended, CallType
<1>5. /\ d.text \in Seq(Nat) /\ Len(d.text) = Len(c.text) + 1 /\ d.len \in Nat
      /\ d.text[Len(c.text) + 1] = number
      /\ \A k \in 1 .. Len(c.text) : d.text[k] = c.text[k]
  <2> HIDE DEF d
  <2>1. /\ d.text \in Seq(Nat) /\ Len(d.text) = Len(c.text) + 1
        /\ d.text[Len(c.text) + 1] = number
        /\ \A k \in 1 .. Len(c.text) : d.text[k] = c.text[k]
    BY <1>1, <1>2, <1>4, AppendProperties
  <2>2. d.len \in Nat
    <3>1. w \in Nat /\ c.len \in Nat
      BY <1>1
    <3> QED
      BY <1>4, <3>1
  <2> QED
    BY <2>1, <2>2
<1>6. d \in CallType
  BY <1>4, <1>5 DEF Appended, CallType
<1>z. Len(c.text) \in Nat /\ Len(c.pattern) \in Nat /\ DOMAIN c.pattern = 1 .. Len(c.pattern)
  BY <1>1
<1> HIDE DEF d
<1>7. TextOf(d.text, d.freq, d.pattern)
  <2>1. d.text[1] = d.freq
    <3>1. CASE c.text = <<>>
      BY <1>1, <1>4, <1>5, <3>1 DEF number, NextNumber
    <3>2. CASE c.text # <<>>
      BY <1>1, <1>4, <1>5, <3>2 DEF TextOf
    <3> QED
      BY <3>1, <3>2
  <2>2. ASSUME NEW k \in DOMAIN d.pattern, k < Len(d.text)
        PROVE  d.text[k + 1] = Pulses(d.pattern[k], d.freq)
    <3>0. k \in Nat \ {0} /\ k \in DOMAIN c.pattern /\ k <= Len(c.text)
      BY <1>4, <1>5, <1>z, <2>2
    <3>1. CASE k = Len(c.text)
      <4>1. c.text # <<>>
        BY <1>1, <3>0, <3>1
      <4> QED
        BY <1>4, <1>5, <3>1, <4>1 DEF number, NextNumber
    <3>2. CASE k # Len(c.text)
      <4>1. k < Len(c.text) /\ k + 1 \in 1 .. Len(c.text)
        BY <1>z, <3>0, <3>2
      <4> QED
        BY <1>4, <1>5, <3>0, <4>1 DEF TextOf
    <3> QED
      BY <3>1, <3>2
  <2> QED
    BY <2>1, <2>2 DEF TextOf
<1> QED
  <2>0. c.len + w < c.size /\ c.len + w >= 2 * (Len(c.text) + 1)
    BY <1>1, <1>w, <1>z, RoomKept
  <2>1. d.len < d.size /\ d.size >= 12
    BY <1>4, <2>0
  <2>2. Len(d.text) <= Len(d.pattern) + 1
    BY <1>4, <1>5, <1>z
  <2>3. d.len >= 2 * Len(d.text)
    BY <1>4, <1>5, <2>0
  <2> QED
    BY <1>4, <1>6, <1>7, <2>1, <2>2, <2>3 DEF d, number

LEMMA IrInvariant == Spec => []IrInv
<1>1. Init => IrInv
  BY ConstantsAssumption DEF Init, IrInv, TypeOK, CallType, IdleCall, NoText, CallInv,
     NodeInv, OnlyMemoryFails, consumerir_freqs
<1>2. IrInv /\ [Next]_vars => IrInv'
  <2> SUFFICES ASSUME IrInv, [Next]_vars PROVE IrInv'
    OBVIOUS
  <2>0. call \in CallType /\ TypeOK /\ CallInv /\ NodeInv /\ OnlyMemoryFails
    BY DEF IrInv, TypeOK
  <2>1. CASE consumerir_open \/ consumerir_close
    BY <2>0, <2>1 DEF consumerir_open, consumerir_close, IrInv, TypeOK, CallInv, NodeInv,
                      OnlyMemoryFails
  <2>2. ASSUME NEW freq \in consumerir_freqs, NEW pattern \in Patterns,
               Transmit(freq, pattern)
        PROVE  IrInv'
    <3> DEFINE c == NewCall(freq, pattern)
    <3>0. <<>> \in Seq(Nat)
      BY EmptySeq
    <3>1. /\ c \in CallType /\ c.st = "busy" /\ c.text = <<>> /\ c.len = 0
          /\ c.size = InitialSize /\ c.result = "none" /\ c.pattern = pattern
      BY <3>0, ConstantsAssumption DEF NewCall, CallType
    <3>2. /\ NoMemory(c) \in CallType /\ NoMemory(c).st = "idle" /\ NoMemory(c).starved
      BY <3>1 DEF NoMemory, CallType
    <3>3. call' = c \/ call' = NoMemory(c)
      BY <2>2 DEF Transmit
    <3>4. UNCHANGED <<fd, node>>
      BY <2>2 DEF Transmit
    <3>5. pattern \in Seq(Nat)
      BY PatternTimes
    <3>6. TypeOK' /\ NodeInv'
      BY <2>0, <3>1, <3>2, <3>3, <3>4 DEF TypeOK, NodeInv
    <3> HIDE DEF c
    <3>7. CallInv' /\ OnlyMemoryFails'
      BY <3>1, <3>2, <3>3, <3>5, ConstantsAssumption DEF CallInv, TextOf, OnlyMemoryFails
    <3> QED
      BY <3>6, <3>7 DEF IrInv
  <2>3. CASE append_number
    <3> DEFINE number == NextNumber(call)
               g == Grown(call)
    <3>1. /\ call.st = "busy" /\ Len(call.text) <= Len(call.pattern)
          /\ UNCHANGED <<fd, node>>
          /\ \/ Fits(call, number) /\ call' = Appended(call, number)
             \/ call' = AfterGrowth(g, number)
             \/ call' = NoMemory(g)
      BY <2>3 DEF append_number
    <3>2. /\ call.len < call.size /\ call.len >= 2 * Len(call.text) /\ call.size >= 12
          /\ TextOf(call.text, call.freq, call.pattern)
          /\ call.len \in Nat /\ call.size \in Nat
      BY <2>0, <3>1 DEF CallInv, CallType
    <3>3. /\ g \in CallType /\ g.st = "busy" /\ g.text = call.text /\ g.freq = call.freq
          /\ g.pattern = call.pattern /\ g.len = call.len /\ g.size = 2 * call.size
          /\ g.result = call.result
      BY <2>0, <3>1 DEF Grown, CallType
    <3>4. NextNumber(g) = number
      BY <3>3 DEF NextNumber
    <3>5. Fits(g, number)
      BY <3>2, <3>3, StoredBounds DEF Fits
    <3>6. TypeOK' /\ NodeInv' <=> call' \in CallType
      BY <2>0, <3>1 DEF TypeOK, NodeInv
    <3>7. CASE Fits(call, number) /\ call' = Appended(call, number)
      <4>1. /\ call' \in CallType /\ call'.st = "busy" /\ call'.result = call.result
            /\ CallInv'
        BY <2>0, <3>1, <3>2, <3>7, AppendedKeeps DEF CallInv
      <4>2. OnlyMemoryFails'
        BY <2>0, <3>7 DEF OnlyMemoryFails, Appended, CallType
      <4> QED
        BY <3>6, <4>1, <4>2 DEF IrInv
    <3>8. CASE call' = AfterGrowth(g, number)
      <4>1. call' = Appended(g, number)
        BY <3>5, <3>8 DEF AfterGrowth
      <4>2. /\ call' \in CallType /\ CallInv'
        <5> HIDE DEF g
        <5>1. /\ g.len < g.size /\ g.size >= 12
          BY <3>2, <3>3
        <5>2. /\ g.len >= 2 * Len(g.text) /\ Len(g.text) <= Len(g.pattern)
              /\ TextOf(g.text, g.freq, g.pattern)
          BY <3>1, <3>2, <3>3
        <5>3. Fits(g, NextNumber(g)) /\ call' = Appended(g, NextNumber(g))
          BY <3>4, <3>5, <4>1
        <5> HIDE DEF number
        <5> QED
          BY <3>3, <5>1, <5>2, <5>3, AppendedKeeps DEF CallInv
      <4>3. OnlyMemoryFails'
        BY <2>0, <4>1 DEF OnlyMemoryFails, Appended, Grown, CallType
      <4> QED
        BY <3>6, <4>2, <4>3 DEF IrInv
    <3>9. CASE call' = NoMemory(g)
      <4>1. call' \in CallType /\ call'.st = "idle" /\ call'.starved
        <5> HIDE DEF g
        <5> QED
          BY <3>3, <3>9 DEF NoMemory, CallType
      <4> QED
        BY <3>6, <4>1 DEF IrInv, CallInv, OnlyMemoryFails
    <3> QED
      BY <3>1, <3>7, <3>8, <3>9
  <2>4. CASE WriteText
    <3>1. /\ call.st = "busy" /\ Len(call.text) > Len(call.pattern)
          /\ call' = [call EXCEPT !.st = "idle", !.result = "0"]
          /\ \/ node' = [freq |-> call.freq, pattern |-> call.pattern, text |-> call.text]
             \/ node' = node
          /\ UNCHANGED fd
      BY <2>4 DEF WriteText
    <3>2. call' \in CallType /\ call'.st = "idle" /\ call'.result = "0"
      BY <2>0, <3>1 DEF CallType
    <3>3. CallInv' /\ OnlyMemoryFails'
      BY <3>2 DEF CallInv, OnlyMemoryFails
    <3>4. /\ Len(call.text) \in Nat /\ Len(call.pattern) \in Nat
          /\ Len(call.text) <= Len(call.pattern) + 1
      BY <2>0, <3>1, PatternTimes DEF CallType, CallInv
    <3>5. NodeInv' /\ TypeOK'
      BY <2>0, <3>1, <3>2, <3>4 DEF CallInv, NodeInv, TypeOK, CallType
    <3> QED
      BY <3>3, <3>5 DEF IrInv
  <2>5. CASE UNCHANGED vars
    BY <2>0, <2>5 DEF vars, IrInv, TypeOK, CallInv, NodeInv, OnlyMemoryFails
  <2> QED
    BY <2>1, <2>2, <2>3, <2>4, <2>5 DEF Next
<1> QED
  BY <1>1, <1>2, PTL DEF Spec

\* The text and the end of its string are inside the buffer after any number of
\* growths, for patterns of any length (try_append_number, grow_buffer).
THEOREM TextStaysInBuffer == Spec => []BufferHolds
<1>1. IrInv => BufferHolds
  BY DEF IrInv, CallInv, BufferHolds
<1> QED
  BY <1>1, IrInvariant, PTL

\* One doubling always makes room, so that only an allocation can fail a call.
THEOREM OneGrowthIsEnough == Spec => []OnlyMemoryFails
  BY IrInvariant, PTL DEF IrInv

\* For patterns of any length and any times, what the transmitter gets has the
\* frequency and a number for each time, none too small.
THEOREM PatternIsKept == Spec => []PatternKept
<1>1. IrInv => PatternKept
  <2> SUFFICES ASSUME IrInv, node # NoText
               PROVE  /\ Len(node.text) = Len(node.pattern) + 1
                      /\ node.text[1] = node.freq
                      /\ \A k \in DOMAIN node.pattern :
                           LET periods == Periods(node.pattern[k], node.freq)
                           IN  node.text[k + 1] \in periods .. periods + periods \div 16 + 1
    BY DEF PatternKept
  <2>1. /\ node.freq \in consumerir_freqs /\ node.text \in Seq(Nat)
        /\ node.pattern \in Seq(Nat)
        /\ Len(node.text) = Len(node.pattern) + 1
        /\ TextOf(node.text, node.freq, node.pattern)
    BY PatternTimes DEF IrInv, TypeOK, NodeInv
  <2>2. node.text[1] = node.freq
    BY <2>1 DEF TextOf
  <2>3. ASSUME NEW k \in DOMAIN node.pattern
        PROVE  LET periods == Periods(node.pattern[k], node.freq)
               IN  node.text[k + 1] \in periods .. periods + periods \div 16 + 1
    <3>1. node.pattern[k] \in Nat /\ node.text[k + 1] = Pulses(node.pattern[k], node.freq)
      BY <2>1 DEF TextOf
    <3> QED
      BY <2>1, <3>1, PulsesBounds
  <2> QED
    BY <2>1, <2>2, <2>3
<1> QED
  BY <1>1, IrInvariant, PTL

=============================================================================
