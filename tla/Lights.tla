------------------------------- MODULE Lights -------------------------------
(***************************************************************************)
(* The lights HAL.  The framework calls each light from one thread at a    *)
(* time and different lights at once.  The battery light keeps its LED     *)
(* state in g_BatteryStore, which the two notification lights show when    *)
(* they do not flash.  g_lock covers the writes to the nodes and nothing   *)
(* else: the store is copied without it, field by field and in any order.  *)
(* A field, or a node, holds the colour that its value belongs to: the     *)
(* value is the red, green or blue of that colour dimmed, or the blink     *)
(* string made of it and of its timing.  A LED may so be of two colours.   *)
(* The characters of a blink string are not told apart.                    *)
(***************************************************************************)
CONSTANTS
  Notifiers,   \* the lights that call set_light_leds
  Battery,     \* the light that calls set_light_battery
  Plain,       \* the lights with one node of their own: panel and buttons
  None,        \* nobody
  Colors,      \* the colours asked for
  Dark,        \* the colour of a light that is off, and of the zeroed store
  Garbage,     \* what an uninitialised led_config holds
  WriteResults \* may a node be written?

ASSUME LightsAssumption ==
  /\ Battery \notin Notifiers /\ None \notin Notifiers \cup {Battery}
  /\ Dark \notin Colors /\ Garbage \notin Colors \cup {Dark}
  /\ WriteResults \subseteq BOOLEAN

Callers == Notifiers \cup {Battery}

VARIABLES
  store,   \* g_BatteryStore
  nodes,   \* the last value written to each LED node
  plain,   \* the plain lights that are on
  g_lock,  \* who holds it
  pc,      \* where each caller is
  led,     \* its local led_config
  todo,    \* the fields of a copy, the nodes of write_leds, it has still to do
  done     \* the nodes that its write_leds wrote

lights_vars == <<store, nodes, plain, g_lock, pc, led, todo, done>>

Fields == {"red", "green", "blue", "blink"}
Whole(c) == [f \in Fields |-> c]

-----------------------------------------------------------------------------
(* set_light_leds                                                          *)

\* LIGHT_FLASH_TIMED, LIGHT_FLASH_HARDWARE; any mode but these and
\* LIGHT_FLASH_NONE is refused (-EINVAL) and changes nothing
FlashLeds(l, c) ==
  /\ pc[l] = "idle"
  /\ led' = [led EXCEPT ![l] = Whole(c)]
  /\ pc' = [pc EXCEPT ![l] = "locking"]
  /\ UNCHANGED <<store, nodes, plain, g_lock, todo, done>>

\* broken: without a flash the LED is written from an uninitialised led_config
StoredLedsUnset(l) ==
  /\ pc[l] = "idle"
  /\ led' = [led EXCEPT ![l] = Whole(Garbage)]
  /\ pc' = [pc EXCEPT ![l] = "locking"]
  /\ UNCHANGED <<store, nodes, plain, g_lock, todo, done>>

\* LIGHT_FLASH_NONE: the store is never without a blink, so it is copied as is
StoredLeds(l) ==
  /\ pc[l] = "idle"
  /\ pc' = [pc EXCEPT ![l] = "loading"]
  /\ todo' = [todo EXCEPT ![l] = Fields]
  /\ UNCHANGED <<store, nodes, plain, g_lock, led, done>>
LoadField(l, f) ==
  /\ pc[l] = "loading" /\ f \in todo[l]
  /\ led' = [led EXCEPT ![l][f] = store[f]]
  /\ todo' = [todo EXCEPT ![l] = @ \ {f}]
  /\ pc' = [pc EXCEPT ![l] = IF todo[l] = {f} THEN "locking" ELSE @]
  /\ UNCHANGED <<store, nodes, plain, g_lock, done>>

-----------------------------------------------------------------------------
(* set_light_battery: c is Dark for a brightness of 0                      *)

SetBattery(c) ==
  /\ pc[Battery] = "idle"
  /\ led' = [led EXCEPT ![Battery] = Whole(c)]
  /\ pc' = [pc EXCEPT ![Battery] = "storing"]
  /\ todo' = [todo EXCEPT ![Battery] = Fields]
  /\ UNCHANGED <<store, nodes, plain, g_lock, done>>
StoreField(f) ==
  /\ pc[Battery] = "storing" /\ f \in todo[Battery]
  /\ store' = [store EXCEPT ![f] = led[Battery][f]]
  /\ todo' = [todo EXCEPT ![Battery] = @ \ {f}]
  /\ pc' = [pc EXCEPT ![Battery] = IF todo[Battery] = {f} THEN "locking" ELSE @]
  /\ UNCHANGED <<nodes, plain, g_lock, led, done>>

-----------------------------------------------------------------------------
(* write_leds                                                              *)

\* the nodes that are written before a node
WriteOrder == [red |-> {}, green |-> {"red"}, blue |-> {"red", "green"}, blink |-> {"red", "green", "blue"}]

StartWrite(l) ==
  /\ pc' = [pc EXCEPT ![l] = "writing"]
  /\ todo' = [todo EXCEPT ![l] = Fields]
  /\ done' = [done EXCEPT ![l] = {}]
  /\ UNCHANGED <<store, nodes, plain, led>>

\* broken: no lock
GoWithoutLock(l) == pc[l] = "locking" /\ StartWrite(l) /\ UNCHANGED g_lock

Lock(l) == pc[l] = "locking" /\ g_lock = None /\ g_lock' = l /\ StartWrite(l)

\* broken: starts over, under the lock, until every node could be written
WriteNodeOver(l, n) ==
  /\ pc[l] = "writing" /\ n \in todo[l]
  /\ WriteOrder[n] \cap todo[l] = {}
  /\ \E ok \in WriteResults :
       /\ todo' = [todo EXCEPT ![l] = IF ok THEN @ \ {n} ELSE Fields]
       /\ nodes' = IF ok THEN [nodes EXCEPT ![n] = led[l][n]] ELSE nodes
       /\ done' = [done EXCEPT ![l] = IF ok THEN @ \cup {n} ELSE {}]
  /\ UNCHANGED <<store, plain, g_lock, pc, led>>

\* a node that cannot be opened or written is left as it was and the next one
\* is written all the same; only the error of the last one is returned
WriteNode(l, n) ==
  /\ pc[l] = "writing" /\ n \in todo[l]
  /\ WriteOrder[n] \cap todo[l] = {}
  /\ todo' = [todo EXCEPT ![l] = @ \ {n}]
  /\ \E ok \in WriteResults :
       /\ nodes' = IF ok THEN [nodes EXCEPT ![n] = led[l][n]] ELSE nodes
       /\ done' = IF ok THEN [done EXCEPT ![l] = @ \cup {n}] ELSE done
  /\ UNCHANGED <<store, plain, g_lock, pc, led>>

\* the locals are gone
Return(l) ==
  /\ pc' = [pc EXCEPT ![l] = "idle"]
  /\ led' = [led EXCEPT ![l] = Whole(Dark)]
  /\ done' = [done EXCEPT ![l] = {}]
  /\ UNCHANGED <<store, nodes, plain, todo>>

Unlock(l) ==
  /\ pc[l] = "writing" /\ todo[l] = {}
  /\ g_lock' = None
  /\ Return(l)

-----------------------------------------------------------------------------
(* set_light_backlight, set_light_buttons: one node under the lock         *)

SetPlain(light, on) ==
  /\ g_lock = None
  /\ plain' \in {plain, IF on THEN plain \cup {light} ELSE plain \ {light}}
  /\ UNCHANGED <<store, nodes, g_lock, pc, led, todo, done>>

-----------------------------------------------------------------------------

\* open_lights: the framework opens every light before it sets one
LightsInit ==
  /\ store = Whole(Dark)
  /\ nodes = Whole(Dark)
  /\ plain = {}
  /\ g_lock = None
  /\ pc = [l \in Callers |-> "idle"]
  /\ led = [l \in Callers |-> Whole(Dark)]
  /\ todo = [l \in Callers |-> {}]
  /\ done = [l \in Callers |-> {}]

LightsNext ==
  \/ \E l \in Notifiers, c \in Colors : FlashLeds(l, c)
  \/ \E l \in Notifiers : StoredLeds(l)
  \/ \E l \in Notifiers, f \in Fields : LoadField(l, f)
  \/ \E c \in Colors \cup {Dark} : SetBattery(c)
  \/ \E f \in Fields : StoreField(f)
  \/ \E l \in Callers : Lock(l)
  \/ \E l \in Callers, n \in Fields : WriteNode(l, n)
  \/ \E l \in Callers : Unlock(l)
  \/ \E light \in Plain, on \in BOOLEAN : SetPlain(light, on)

LightsSpec == LightsInit /\ [][LightsNext]_lights_vars

\* a caller that holds the lock waits for nobody
FairSpec == LightsSpec /\ \A l \in Callers : WF_lights_vars((\E n \in Fields : WriteNode(l, n)) \/ Unlock(l))

-----------------------------------------------------------------------------
(* Properties.  A LED of the colour c has Whole(c) in its fields.          *)

LedType == [Fields -> Colors \cup {Dark}]

\* Everything holds a value of its type.  Each field of the store and of a
\* copy, and each node, is that of some colour a light asked for, or dark, never
\* what happened to be on the stack; fields of two colours may be mixed, by the
\* unlocked copies and by nodes that fail (set_light_leds, write_leds).
LightsTypeOK ==
  /\ store \in LedType /\ nodes \in LedType
  /\ plain \subseteq Plain
  /\ g_lock \in Callers \cup {None}
  /\ pc \in [Callers -> {"idle", "loading", "storing", "locking", "writing"}]
  /\ led \in [Callers -> LedType]
  /\ todo \in [Callers -> SUBSET Fields]
  /\ done \in [Callers -> SUBSET Fields]

\* From the first node that a call writes to its unlock, the LED holds what
\* the call wrote: the battery and the two notification lights share four
\* nodes and never mix their colours there (write_leds).
CallOwnsLed ==
  \A l \in Callers : pc[l] = "writing" => \A n \in done[l] : nodes[n] = led[l][n]

\* The lock is always given back, whichever nodes fail: no light can stop the
\* other four for good (write_leds has one way out).
LockReleased == \A l \in Callers : g_lock = l ~> g_lock # l

=============================================================================
