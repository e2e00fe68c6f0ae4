------------------------ MODULE CameraWrapper_proofs ------------------------
(* Theorems about CameraWrapper, for any cameras, limits and values, any     *)
(* number of them open at once, and any failures.  Nothing is said of what   *)
(* follows a string that is freed twice, or read after it was freed.         *)
EXTENDS CameraWrapper, TLAPS

(***************************************************************************)
(* The conversions.                                                        *)
(***************************************************************************)

\* no limit has only the key in Qualcomm's style
NoOrphan(p) == \A l \in Limits : p.qcom[l] # Absent => p.vendor[l] # Absent
Agrees(p) == \A l \in Limits : p.qcom[l] # Absent => p.vendor[l] = p.qcom[l]

LEMMA Converted ==
  ASSUME NEW p \in Params
  PROVE  converted(p) \in Params /\ Agrees(converted(p)) /\ NoOrphan(converted(p))
BY DEF converted, Params, Keys, Agrees, NoOrphan

LEMMA Got ==
  ASSUME NEW p \in Params
  PROVE  camera_fixup_getparams(p) \in Params
BY DEF camera_fixup_getparams, Params, Keys

LEMMA RoundTrip ==
  ASSUME NEW p \in Params, NoOrphan(p)
  PROVE  converted(camera_fixup_getparams(p)).vendor = p.vendor
<1> DEFINE q == camera_fixup_getparams(p)
<1>1. /\ q \in Params /\ q.vendor = p.vendor
      /\ \A l \in Limits : q.qcom[l] # Absent => q.vendor[l] = q.qcom[l]
  BY Got DEF camera_fixup_getparams, Params, Keys, NoOrphan
<1> HIDE DEF q
<1>2. converted(q).vendor = [l \in Limits |-> q.vendor[l]]
  BY <1>1 DEF converted, Params, Keys
<1>3. q.vendor = [l \in Limits |-> q.vendor[l]]
  BY <1>1 DEF Params, Keys
<1> QED
  BY <1>1, <1>2, <1>3 DEF q

(***************************************************************************)
(* Types.                                                                  *)
(***************************************************************************)

TableType == [there : BOOLEAN, ptr : [Cameras -> {"null", "live", "freed"}]]
VendorType == [Cameras -> [open : BOOLEAN, params : Params]]

TableOK(t) == t \in TableType /\ (~t.there => t = NoTable)

LEMMA FreshTable == TableOK(NoTable) /\ TableOK(new_table)
BY DEF TableOK, TableType, NoTable, new_table

\* What every string and every camera's parameters say, whichever camera is open.
CInv ==
  /\ TypeOK
  /\ \A c \in Cameras : NoOrphan(vendor[c].params)
  /\ \A c \in Cameras : given[c] # NoText => Agrees(given[c]) /\ NoOrphan(given[c])

LEMMA InitCInv ==
  ASSUME Init
  PROVE  CInv
<1> DEFINE none == [l \in Limits |-> Absent]
<1>1. PICK k \in Keys :
        vendor = [c \in Cameras |-> [open |-> FALSE, params |-> [vendor |-> k, qcom |-> none]]]
  BY DEF Init
<1>2. [vendor |-> k, qcom |-> none] \in Params /\ NoOrphan([vendor |-> k, qcom |-> none])
  BY DEF Params, Keys, NoOrphan
<1>3. TypeOK
  <2>1. vendor \in VendorType
    BY <1>1, <1>2 DEF VendorType
  <2> QED
    BY <2>1, FreshTable DEF Init, TypeOK, TableOK, TableType, VendorType
<1> QED
  BY <1>1, <1>2, <1>3 DEF Init, CInv

\* a step that leaves the parameters alone and only takes strings away
LEMMA FreeStep ==
  ASSUME CInv, TableOK(table'), module' \in BOOLEAN,
         dev' \in [Cameras -> {"closed", "open", "setting"}],
         given' \in [Cameras -> Params \cup {NoText}],
         \A c \in Cameras : given'[c] \in {NoText, given[c]},
         \A c \in Cameras : given'[c] # NoText => dev'[c] = "setting",
         vendor' \in VendorType, \A c \in Cameras : vendor'[c].params = vendor[c].params,
         app' \in [Cameras -> Params \cup {NoText}]
  PROVE  CInv'
<1>1. TypeOK'
  BY DEF TypeOK, TableOK, TableType, VendorType
<1>2. \A c \in Cameras : NoOrphan(vendor'[c].params)
  BY DEF CInv
<1>3. \A c \in Cameras : given'[c] # NoText => Agrees(given'[c]) /\ NoOrphan(given'[c])
  BY DEF CInv
<1> QED
  BY <1>1, <1>2, <1>3 DEF CInv

LEMMA NextCInv ==
  ASSUME CInv, [Next]_vars
  PROVE  CInv'
<1> USE DEF CInv
<1>0. /\ TableOK(table) /\ vendor \in VendorType
      /\ given \in [Cameras -> Params \cup {NoText}]
      /\ \A c \in Cameras : given[c] # NoText => dev[c] = "setting"
  BY DEF TypeOK, TableOK, TableType, VendorType
<1>1. CASE camera_get_number_of_cameras
  BY <1>0, <1>1, FreeStep DEF camera_get_number_of_cameras, TypeOK
<1>2. ASSUME NEW c \in Cameras,
             camera_device_open(c) \/ OpenNoTable(c) \/ OpenRefused(c) \/ OpenNoOps(c)
      PROVE  CInv'
  <2>1. TableOK(table')
    <3>1. table' = new_table \/ table' = NoTable
      BY <1>2 DEF camera_device_open, OpenNoTable, OpenRefused, OpenNoOps
    <3> QED
      BY ONLY <3>1, FreshTable
  <2>2. dev' \in [Cameras -> {"closed", "open", "setting"}]
    BY <1>2 DEF camera_device_open, OpenNoTable, OpenRefused, OpenNoOps, TypeOK
  <2>3. \A d \in Cameras : dev[d] = "setting" => dev'[d] = "setting"
    BY <1>2 DEF camera_device_open, OpenNoTable, OpenRefused, OpenNoOps, CanOpen, TypeOK
  <2>4. vendor' = vendor \/ vendor' = [vendor EXCEPT ![c].open = TRUE]
    BY <1>2 DEF camera_device_open, OpenNoTable, OpenRefused, OpenNoOps
  <2>5. vendor' \in VendorType /\ \A d \in Cameras : vendor'[d].params = vendor[d].params
    <3>1. CASE vendor' = vendor
      BY ONLY <1>0, <3>1
    <3>2. CASE vendor' = [vendor EXCEPT ![c].open = TRUE]
      <4>1. vendor \in [Cameras -> [open : BOOLEAN, params : Params]]
        BY ONLY <1>0 DEF VendorType
      <4> QED
        BY ONLY <3>2, <4>1 DEF VendorType
    <3> QED
      BY ONLY <2>4, <3>1, <3>2
  <2>6. module' = TRUE /\ app' = app /\ given' = given
    BY <1>2 DEF camera_device_open, OpenNoTable, OpenRefused, OpenNoOps
  <2> QED
    BY <1>0, <2>1, <2>2, <2>3, <2>5, <2>6, FreeStep DEF TypeOK
<1>3. ASSUME NEW c \in Cameras, camera_device_close(c) PROVE CInv'
  <2>1. TableOK(table')
    <3> DEFINE ptr == [d \in Cameras |-> IF table.ptr[d] = "live" THEN "freed" ELSE table.ptr[d]]
    <3>1. table.there /\ table' = [table EXCEPT !.ptr = ptr]
      BY <1>3 DEF camera_device_close, FreeStrings
    <3>2. ptr \in [Cameras -> {"null", "live", "freed"}]
      BY <1>0 DEF TableOK, TableType
    <3> HIDE DEF ptr
    <3> QED
      BY <1>0, <3>1, <3>2 DEF TableOK, TableType
  <2>2. \A d \in Cameras : given'[d] \in {NoText, given[d]}
    BY <1>3 DEF camera_device_close, FreeStrings
  <2>3. given' \in [Cameras -> Params \cup {NoText}]
    BY <1>0, <1>3 DEF camera_device_close, FreeStrings
  <2>4. dev[c] = "open" /\ dev' = [dev EXCEPT ![c] = "closed"]
    BY <1>3 DEF camera_device_close
  <2>5. /\ dev' \in [Cameras -> {"closed", "open", "setting"}]
        /\ \A d \in Cameras : given'[d] # NoText => dev'[d] = "setting"
    BY <1>0, <2>2, <2>4 DEF TypeOK
  <2>6. vendor' \in VendorType /\ \A d \in Cameras : vendor'[d].params = vendor[d].params
    <3>1. vendor' = [vendor EXCEPT ![c].open = FALSE]
      BY <1>3 DEF camera_device_close
    <3> QED
      BY <1>0, <3>1 DEF VendorType
  <2>7. module' = module /\ app' \in [Cameras -> Params \cup {NoText}]
    BY <1>3 DEF camera_device_close, TypeOK
  <2> QED
    BY <2>1, <2>2, <2>3, <2>5, <2>6, <2>7, FreeStep DEF TypeOK
<1>4. ASSUME NEW c \in Cameras, camera_get_parameters(c) PROVE CInv'
  <2>1. camera_fixup_getparams(vendor[c].params) \in Params
    BY Got DEF TypeOK
  <2>2. app' \in [Cameras -> Params \cup {NoText}]
    BY <1>4, <2>1 DEF camera_get_parameters, TypeOK
  <2> QED
    BY <1>0, <1>4, <2>2, FreeStep DEF camera_get_parameters, TypeOK
<1>5. ASSUME NEW c \in Cameras, camera_fixup_setparams(c) PROVE CInv'
  <2>1. PICK p \in Written(c) : given' = [given EXCEPT ![c] = converted(p)]
    BY <1>5 DEF camera_fixup_setparams
  <2>2. app[c] \in Params
    BY <1>5 DEF camera_fixup_setparams, TypeOK
  <2>3. p \in Params
    BY <2>1, <2>2 DEF Written, Params
  <2>4. converted(p) \in Params /\ Agrees(converted(p)) /\ NoOrphan(converted(p))
    BY <2>3, Converted
  <2>5. TableOK(table')
    BY <1>0, <1>5 DEF camera_fixup_setparams, TableOK, TableType
  <2>6. dev' = [dev EXCEPT ![c] = "setting"] /\ UNCHANGED <<module, vendor, app>>
    BY <1>5 DEF camera_fixup_setparams
  <2>7. /\ given' \in [Cameras -> Params \cup {NoText}]
        /\ \A d \in Cameras : given'[d] # NoText => Agrees(given'[d]) /\ NoOrphan(given'[d])
        /\ \A d \in Cameras : given'[d] # NoText => dev'[d] = "setting"
    BY <1>0, <2>1, <2>4, <2>6 DEF TypeOK
  <2>8. TypeOK'
    BY <2>5, <2>6, <2>7 DEF TypeOK, TableOK, TableType
  <2> QED
    BY <2>6, <2>7, <2>8
<1>6. ASSUME NEW c \in Cameras, VendorTakes(c) PROVE CInv'
  <2> DEFINE p == given[c]
  <2>1. p \in Params /\ NoOrphan(p)
    BY <1>0, <1>6 DEF VendorTakes
  <2>2. /\ vendor' = [vendor EXCEPT ![c].params = p] /\ UNCHANGED <<module, table, app>>
        /\ dev' = [dev EXCEPT ![c] = "open"] /\ given' = [given EXCEPT ![c] = NoText]
    BY <1>6 DEF VendorTakes
  <2> HIDE DEF p
  <2>3. vendor' \in VendorType /\ \A d \in Cameras : NoOrphan(vendor'[d].params)
    BY <1>0, <2>1, <2>2 DEF VendorType
  <2>4. /\ dev' \in [Cameras -> {"closed", "open", "setting"}]
        /\ given' \in [Cameras -> Params \cup {NoText}]
        /\ \A d \in Cameras : given'[d] # NoText => given'[d] = given[d] /\ dev'[d] = "setting"
    BY <1>0, <2>2 DEF TypeOK
  <2>5. TypeOK'
    BY <1>0, <2>2, <2>3, <2>4 DEF TypeOK, VendorType
  <2> QED
    BY <2>3, <2>4, <2>5
<1>7. ASSUME NEW c \in Cameras, VendorRefuses(c) PROVE CInv'
  <2>1. dev' = [dev EXCEPT ![c] = "open"] /\ given' = [given EXCEPT ![c] = NoText]
    BY <1>7 DEF VendorRefuses
  <2>2. /\ dev' \in [Cameras -> {"closed", "open", "setting"}]
        /\ given' \in [Cameras -> Params \cup {NoText}]
        /\ \A d \in Cameras : given'[d] # NoText => given'[d] = given[d] /\ dev'[d] = "setting"
        /\ \A d \in Cameras : given'[d] \in {NoText, given[d]}
    BY <1>0, <2>1 DEF TypeOK
  <2> QED
    BY <1>0, <1>7, <2>2, FreeStep DEF VendorRefuses, TypeOK
<1>8. ASSUME NEW c \in Cameras, VendorCall(c) PROVE CInv'
  <2>1. PICK l \in Limits, v \in Values :
          vendor' = [vendor EXCEPT ![c].params.vendor[l] = v]
    BY <1>8 DEF VendorCall
  <2> DEFINE p == vendor[c].params
             q == [p EXCEPT !.vendor[l] = v]
  <2>2. p \in Params /\ NoOrphan(p) /\ v # Absent
    BY CameraAssumption DEF TypeOK
  <2>3. q \in Params /\ NoOrphan(q)
    BY <2>2 DEF Params, Keys, NoOrphan
  <2>4. vendor' = [vendor EXCEPT ![c].params = q]
    BY <2>1
  <2> HIDE DEF q
  <2>5. vendor' \in VendorType /\ \A d \in Cameras : NoOrphan(vendor'[d].params)
    BY <1>0, <2>3, <2>4 DEF VendorType
  <2> QED
    BY <1>8, <2>5 DEF VendorCall, TypeOK, VendorType
<1>9. CASE UNCHANGED vars
  BY <1>9 DEF vars, TypeOK
<1> QED
  BY <1>1, <1>2, <1>3, <1>4, <1>5, <1>6, <1>7, <1>8, <1>9 DEF Next

\* What an application reads and writes back leaves the vendor's limits as they
\* were, for any number of limits, values and cameras.
THEOREM ConversionsUndoEachOther == Spec => []WriteBackChangesNothing
<1>1. Init => CInv
  BY InitCInv
<1>2. CInv /\ [Next]_vars => CInv'
  BY NextCInv
<1>3. CInv => WriteBackChangesNothing
  BY RoundTrip DEF CInv, TypeOK, WriteBackChangesNothing
<1> QED
  BY <1>1, <1>2, <1>3, PTL DEF Spec

\* The string that a vendor's camera is given has one value for each limit.
THEOREM StringsAgree == Spec => []OneValuePerLimit
<1>1. Init => CInv
  BY InitCInv
<1>2. CInv /\ [Next]_vars => CInv'
  BY NextCInv
<1>3. CInv => OneValuePerLimit
  BY DEF CInv, TypeOK, OneValuePerLimit, Agrees
<1> QED
  BY <1>1, <1>2, <1>3, PTL DEF Spec

=============================================================================
