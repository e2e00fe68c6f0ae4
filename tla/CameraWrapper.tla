--------------------------- MODULE CameraWrapper ---------------------------
(***************************************************************************)
(* The wrapper of the vendor's camera module: the table of the strings     *)
(* last given to each vendor camera, which all cameras share, and the      *)
(* conversion of the parameters on their way to and from the application.  *)
(*                                                                         *)
(* Opening and closing hold gCameraWrapperLock; the calls of a camera do   *)
(* not, but the camera service makes those of one camera one at a time.    *)
(* Each limit (contrast, saturation, sharpness) has a key in the vendor's  *)
(* style and one in Qualcomm's.                                            *)
(*                                                                         *)
(* A step that would go through a table that is not there, or read or free *)
(* a string that was freed, is undefined: nothing is said of what follows. *)
(***************************************************************************)

CONSTANTS
  Cameras,     \* the cameras of the vendor's module
  Limits,      \* the parameters with two keys
  Values,
  Absent,      \* the key is not there
  NoText       \* no string, or one that was freed

ASSUME CameraAssumption == Absent \notin Values

Keys == [Limits -> Values \cup {Absent}]
Params == [vendor : Keys, qcom : Keys]
ASSUME NoTextAssumption == NoText \notin Params

VARIABLES
  module,   \* gVendorModule is known
  table,    \* fixed_set_params: there, and per camera the pointer
  dev,      \* per camera the wrapper's device: closed, open, or setting parameters
  given,    \* per camera the string that camera_set_parameters has for the vendor
  vendor,   \* per camera the vendor's device: is it open, and its parameters
  app       \* per camera what the application has read of it

vars == <<module, table, dev, given, vendor, app>>

-----------------------------------------------------------------------------
(* The conversions.                                                        *)

\* broken: the keys are copied the other way round
camera_fixup_getparams_back(p) ==
  [p EXCEPT !.vendor = [l \in Limits |-> IF p.qcom[l] # Absent THEN p.qcom[l]
                                         ELSE p.vendor[l]]]

camera_fixup_getparams(p) ==
  [p EXCEPT !.qcom = [l \in Limits |-> IF p.vendor[l] # Absent THEN p.vendor[l]
                                       ELSE p.qcom[l]]]

\* the parameters that camera_fixup_setparams makes
converted(p) ==
  [p EXCEPT !.vendor = [l \in Limits |-> IF p.qcom[l] # Absent THEN p.qcom[l]
                                         ELSE p.vendor[l]]]

-----------------------------------------------------------------------------
(* Opening and closing.                                                    *)

NoTable == [there |-> FALSE, ptr |-> [c \in Cameras |-> "null"]]

\* the table that a camera's opening makes; the old one and its strings are lost,
\* but for a call that has one in hand
new_table == [NoTable EXCEPT !.there = TRUE]

\* "assume camera service will keep singleton of each camera"
CanOpen(c) == dev[c] = "closed"

\* check_vendor_module
camera_get_number_of_cameras ==
  /\ ~module /\ module' = TRUE
  /\ UNCHANGED <<table, dev, given, vendor, app>>

\* camera_device_open: the vendor's camera and both allocations succeed
camera_device_open(c) ==
  /\ CanOpen(c) /\ ~vendor[c].open
  /\ module' = TRUE
  /\ table' = new_table
  /\ dev' = [dev EXCEPT ![c] = "open"]
  /\ vendor' = [vendor EXCEPT ![c].open = TRUE]
  /\ UNCHANGED <<given, app>>

\* the table cannot be allocated
OpenNoTable(c) ==
  /\ CanOpen(c)
  /\ module' = TRUE
  /\ table' = NoTable
  /\ UNCHANGED <<dev, given, vendor, app>>

\* the device cannot be allocated or the vendor refuses: the new table stays
OpenRefused(c) ==
  /\ CanOpen(c)
  /\ module' = TRUE
  /\ table' = new_table
  /\ UNCHANGED <<dev, given, vendor, app>>

\* camera_ops cannot be allocated: the vendor's camera stays open
OpenNoOps(c) ==
  /\ CanOpen(c) /\ ~vendor[c].open
  /\ module' = TRUE
  /\ table' = new_table
  /\ vendor' = [vendor EXCEPT ![c].open = TRUE]
  /\ UNCHANGED <<dev, given, app>>

\* the strings of all cameras are freed, and the pointers kept
FreeStrings ==
  /\ table.there /\ \A d \in Cameras : table.ptr[d] # "freed"
  /\ table' = [table EXCEPT !.ptr = [d \in Cameras |-> IF table.ptr[d] = "live" THEN "freed"
                                                       ELSE table.ptr[d]]]
  /\ given' = [d \in Cameras |-> IF table.ptr[d] = "live" THEN NoText ELSE given[d]]
camera_device_close(c) ==
  /\ dev[c] = "open"
  /\ FreeStrings
  /\ dev' = [dev EXCEPT ![c] = "closed"]
  /\ vendor' = [vendor EXCEPT ![c].open = FALSE]
  /\ app' = [app EXCEPT ![c] = NoText]
  /\ UNCHANGED module

-----------------------------------------------------------------------------
(* The calls of a camera.                                                  *)

\* camera_get_parameters
camera_get_parameters(c) ==
  /\ dev[c] = "open"
  /\ app' = [app EXCEPT ![c] = camera_fixup_getparams(vendor[c].params)]
  /\ UNCHANGED <<module, table, dev, given, vendor>>

\* the application writes what it read, with any limit changed, in Qualcomm's
\* style only
Written(c) ==
  {[app[c] EXCEPT !.qcom = q] :
     q \in {k \in Keys : \A l \in Limits : k[l] = Absent => app[c].qcom[l] = Absent}}

\* camera_set_parameters up to the vendor's call: camera_fixup_setparams frees the
\* string before
camera_fixup_setparams(c) ==
  /\ dev[c] = "open" /\ app[c] # NoText
  /\ table.there /\ table.ptr[c] # "freed"
  /\ \E p \in Written(c) : given' = [given EXCEPT ![c] = converted(p)]
  /\ table' = [table EXCEPT !.ptr[c] = "live"]
  /\ dev' = [dev EXCEPT ![c] = "setting"]
  /\ UNCHANGED <<module, vendor, app>>

\* the vendor's set_parameters takes the string, or refuses it
VendorTakes(c) ==
  /\ dev[c] = "setting" /\ given[c] # NoText
  /\ vendor' = [vendor EXCEPT ![c].params = given[c]]
  /\ dev' = [dev EXCEPT ![c] = "open"]
  /\ given' = [given EXCEPT ![c] = NoText]
  /\ UNCHANGED <<module, table, app>>
VendorRefuses(c) ==
  /\ dev[c] = "setting" /\ given[c] # NoText
  /\ dev' = [dev EXCEPT ![c] = "open"]
  /\ given' = [given EXCEPT ![c] = NoText]
  /\ UNCHANGED <<module, table, vendor, app>>

\* every other call goes on to the vendor's camera; it may change the
\* parameters in the vendor's style (a limit that depends on the mode)
VendorCall(c) ==
  /\ dev[c] = "open"
  /\ \E l \in Limits, v \in Values :
       vendor' = [vendor EXCEPT ![c].params.vendor[l] = v]
  /\ UNCHANGED <<module, table, dev, given, app>>

-----------------------------------------------------------------------------

Init ==
  /\ module = FALSE
  /\ table = NoTable
  /\ dev = [c \in Cameras |-> "closed"]
  /\ given = [c \in Cameras |-> NoText]
  /\ \E k \in Keys :
       vendor = [c \in Cameras |->
                  [open |-> FALSE,
                   params |-> [vendor |-> k, qcom |-> [l \in Limits |-> Absent]]]]
  /\ app = [c \in Cameras |-> NoText]

Next ==
  \/ camera_get_number_of_cameras
  \/ \E c \in Cameras :
       \/ camera_device_open(c) \/ OpenNoTable(c) \/ OpenRefused(c) \/ OpenNoOps(c)
       \/ camera_device_close(c)
       \/ camera_get_parameters(c)
       \/ camera_fixup_setparams(c)
       \/ VendorTakes(c) \/ VendorRefuses(c) \/ VendorCall(c)

Spec == Init /\ [][Next]_vars

-----------------------------------------------------------------------------
(* Properties.                                                             *)

\* The table, the devices and the parameters hold values of their types; only a
\* call that sets parameters has a string, and only a table has pointers.
TypeOK ==
  /\ module \in BOOLEAN
  /\ table \in [there : BOOLEAN, ptr : [Cameras -> {"null", "live", "freed"}]]
  /\ dev \in [Cameras -> {"closed", "open", "setting"}]
  /\ given \in [Cameras -> Params \cup {NoText}]
  /\ vendor \in [Cameras -> [open : BOOLEAN, params : Params]]
  /\ app \in [Cameras -> Params \cup {NoText}]
  /\ ~table.there => table = NoTable
  /\ \A c \in Cameras : given[c] # NoText => dev[c] = "setting"

\* While a camera is open the table points to no freed string, so that neither its
\* next set_parameters nor the closing frees one twice, and the string that the
\* vendor is reading is not freed (camera_fixup_setparams, camera_device_close).
TableServesOpenCameras ==
  (\E c \in Cameras : dev[c] # "closed") =>
    \A c \in Cameras : /\ table.ptr[c] # "freed"
                       /\ dev[c] = "setting" => given[c] # NoText

\* An application that writes back what it has just read changes no limit of the
\* vendor's camera, whatever was written before it: one conversion undoes the
\* other, and no limit is left that only Qualcomm's key has.
WriteBackChangesNothing ==
  \A c \in Cameras :
    LET p == vendor[c].params IN converted(camera_fixup_getparams(p)).vendor = p.vendor

\* The vendor's camera never gets two values for one limit: what the application
\* asked for with one key is what both keys say.
OneValuePerLimit ==
  \A c \in Cameras : given[c] # NoText =>
    \A l \in Limits : given[c].qcom[l] # Absent => given[c].vendor[l] = given[c].qcom[l]

=============================================================================
