----------------------------- MODULE ConsumerIr -----------------------------
(***************************************************************************)
(* The consumer IR HAL: a pattern of on and off times becomes the text     *)
(* that the transmitter's node takes, the carrier's frequency and a number *)
(* of pulses for each time, each followed by a comma.  The text is built   *)
(* in a buffer that grows, one number at a time.                           *)
(*                                                                         *)
(* The framework makes one call at a time and opens the device once; every *)
(* allocation may fail, and so may the open, whose result nobody looks at. *)
(* A text is the sequence of its numbers: what the buffer holds of it is   *)
(* its length in characters.                                               *)
(***************************************************************************)
EXTENDS Naturals, Sequences, FiniteSets

CONSTANTS
  InitialSize,  \* the size the buffer starts with, 128
  Patterns      \* the patterns to transmit, of times in microseconds

consumerir_freqs == {30000, 33000, 36000, 38000, 40000, 56000}

\* A float holds every whole number up to here, and divides those by a factor
\* of one of the carriers without rounding up to the next whole number.
MaxTime == 2^24 - 1

ASSUME ConstantsAssumption ==
  /\ InitialSize \in Nat /\ InitialSize >= 12
  /\ Patterns \subseteq Seq(0 .. MaxTime)

VARIABLES
  fd,    \* 0 before the first open, the node, or no file
  call,  \* the call of consumerir_transmit that is running or has returned
  node   \* the last text written to the node, of which call

vars == <<fd, call, node>>

-----------------------------------------------------------------------------
(* Numbers.                                                                *)

\* the characters of a number below 2^31 and its comma
Stored(number) == 2 + Cardinality({k \in 1 .. 9 : 10^k <= number})

\* broken: the factor is rounded up
PulsesRoundedUp(time, freq) == time \div ((1000000 + freq - 1) \div freq)

\* the factor of conversion is a division of integers, stored in a float
Pulses(time, freq) == time \div (1000000 \div freq)

\* the number to append to a text: the frequency first
NextNumber(c) ==
  IF c.text = <<>> THEN c.freq ELSE Pulses(c.pattern[Len(c.text)], c.freq)

-----------------------------------------------------------------------------
(* The buffer.                                                             *)

\* broken: leaves no room for the end of the string
FitsExactly(c, number) == Stored(number) <= c.size - c.len

\* try_append_number succeeds
Fits(c, number) == Stored(number) < c.size - c.len

Appended(c, number) ==
  [c EXCEPT !.text = Append(@, number), !.len = @ + Stored(number)]

\* broken: grows by the size of the number that did not fit
GrownByNumber(c) == [c EXCEPT !.size = @ + 4]

\* grow_buffer
Grown(c) == [c EXCEPT !.size = 2 * @]

NoMemory(c) == [c EXCEPT !.st = "idle", !.result = "ENOMEM", !.starved = TRUE]

\* the second try of append_number, after the buffer grew
AfterGrowth(c, number) ==
  IF Fits(c, number) THEN Appended(c, number)
  ELSE [c EXCEPT !.st = "idle", !.result = "ENOMEM"]

-----------------------------------------------------------------------------
(* The HAL.                                                                *)

IdleCall ==
  [st |-> "idle", freq |-> 30000, pattern |-> <<>>, text |-> <<>>, len |-> 0,
   size |-> InitialSize, result |-> "none", starved |-> FALSE]

NewCall(freq, pattern) ==
  [st |-> "busy", freq |-> freq, pattern |-> pattern, text |-> <<>>, len |-> 0,
   size |-> InitialSize, result |-> "none", starved |-> FALSE]

NoText == [freq |-> 30000, pattern |-> <<>>, text |-> <<>>]

Init == fd = "stdin" /\ call = IdleCall /\ node = NoText

\* the device is handed out whether or not its node opened
consumerir_open ==
  /\ fd \in {"stdin", "closed"}
  /\ fd' \in {"node", "failed"}
  /\ UNCHANGED <<call, node>>

consumerir_close ==
  /\ fd \in {"node", "failed"} /\ call.st = "idle"
  /\ fd' = "closed"
  /\ UNCHANGED <<call, node>>

\* consumerir_transmit, in three steps: the buffer, each number, the write
Transmit(freq, pattern) ==
  /\ fd \in {"node", "failed"} /\ call.st = "idle"
  /\ call' \in {NewCall(freq, pattern), NoMemory(NewCall(freq, pattern))}
  /\ UNCHANGED <<fd, node>>

append_number ==
  /\ call.st = "busy" /\ Len(call.text) <= Len(call.pattern)
  /\ LET number == NextNumber(call)
     IN  \/ Fits(call, number) /\ call' = Appended(call, number)
         \/ /\ ~Fits(call, number)
            /\ call' \in {AfterGrowth(Grown(call), number), NoMemory(Grown(call))}
  /\ UNCHANGED <<fd, node>>

\* The result of the write is ignored
WriteText ==
  /\ call.st = "busy" /\ Len(call.text) > Len(call.pattern)
  /\ call' = [call EXCEPT !.st = "idle", !.result = "0"]
  /\ node' = IF fd = "node"
             THEN [freq |-> call.freq, pattern |-> call.pattern, text |-> call.text]
             ELSE node
  /\ UNCHANGED fd

Next ==
  \/ consumerir_open
  \/ consumerir_close
  \/ \E freq \in consumerir_freqs, pattern \in Patterns : Transmit(freq, pattern)
  \/ append_number
  \/ WriteText

Spec == Init /\ [][Next]_vars

-----------------------------------------------------------------------------
(* Properties.                                                             *)

CallType ==
  [st : {"idle", "busy"}, freq : consumerir_freqs, pattern : Patterns \cup {<<>>},
   text : Seq(Nat), len : Nat, size : Nat, result : {"none", "0", "ENOMEM"},
   starved : BOOLEAN]

\* The call and the node hold values of their types.
TypeOK ==
  /\ fd \in {"stdin", "node", "failed", "closed"}
  /\ call \in CallType
  /\ node \in [freq : consumerir_freqs, pattern : Patterns \cup {<<>>}, text : Seq(Nat)]

\* However often the buffer grew, the text with the end of the string is inside
\* it, and there is a comma to write the end over (lines 108 and 109).
BufferHolds ==
  call.st = "busy" =>
    /\ call.len < call.size
    /\ call.len >= 2 * Len(call.text)

\* A call fails for want of memory only: one doubling always makes room for the
\* number that did not fit, so the second try of append_number never fails.
OnlyMemoryFails == call.result = "ENOMEM" => call.starved

\* the whole periods of a carrier in a time, with integers that fit in 32 bits
Periods(time, freq) ==
  (time \div 1000) * (freq \div 1000) + ((time % 1000) * (freq \div 1000)) \div 1000

\* The transmitter gets the frequency and one number for each time, in order,
\* whatever growth the buffer went through; and no number is less than the whole
\* periods in its time, nor more than that by over a sixteenth and one: the
\* factor, truncated to an integer, never makes a remote's mark too short.
PatternKept ==
  node # NoText =>
    /\ Len(node.text) = Len(node.pattern) + 1
    /\ node.text[1] = node.freq
    /\ \A k \in DOMAIN node.pattern :
         LET periods == Periods(node.pattern[k], node.freq)
         IN  node.text[k + 1] \in periods .. periods + periods \div 16 + 1

=============================================================================
