--------------------------- MODULE AudioHw_proofs ---------------------------
(***************************************************************************)
(* Theorems about AudioHw, for any number of input streams, any masks,     *)
(* devices, sources and modes, and any outcomes of the calls it makes.     *)
(***************************************************************************)
EXTENDS AudioHw, TLAPS

InDevOrNone == InDevs \cup {NoDevice}

-----------------------------------------------------------------------------
(* The identifiers and the rows of the table are what they should be.      *)

LEMMA OutIdType ==
  ASSUME NEW device
  PROVE  get_output_device_id(device) \in OutIds
  BY DEF get_output_device_id, OutIds

LEMMA SourceIdType ==
  ASSUME NEW source
  PROVE  get_input_source_id(source) \in SourceIds
  BY DEF get_input_source_id, SourceIds

\* Every source has a row for every output (routing.h: the table is full).
LEMMA TableFull ==
  ASSUME NEW s \in TabSources, NEW out \in DOMAIN MasksOf
  PROVE  out \in DOMAIN route_configs[s]
  BY DEF TabSources, MasksOf, route_configs, Line

LEMMA RowType ==
  ASSUME NEW s \in TabSources, NEW out \in DOMAIN MasksOf
  PROVE  route_configs[s][out] \in Configs
<1>1. route_configs[s][out] \in ConfigsOf(route_configs[s])
  BY TableFull DEF ConfigsOf
<1> QED
  BY <1>1 DEF Configs

LEMMA RouteType ==
  ASSUME NEW in \in SourceIds, NEW out \in OutIds, NEW d
  PROVE  LET r == RouteFor(in, out, d)
         IN  r.output_route \in Paths /\ r.input_route \in Paths
             /\ r.es325_preset \in Presets
<1> DEFINE source == IF in = "NONE" THEN "MIC" ELSE in
           output == IF out = "NONE" THEN OutIdForInput(d) ELSE out
           row == route_configs[source][output]
<1>1. source \in TabSources
  BY DEF SourceIds, TabSources
<1>2. OutIdForInput(d) \in DOMAIN MasksOf
  BY DEF OutIdForInput, MasksOf
<1>3. output \in DOMAIN MasksOf
  BY <1>2 DEF OutIds
<1>4. row \in Configs
  BY <1>1, <1>3, RowType
<1>5. row.output_route \in Paths /\ row.input_route \in Paths /\ row.es325_preset \in Presets
  BY <1>4 DEF Paths, Presets
<1>6. "reset" \in Paths /\ "OFF" \in Presets
  BY DEF Paths, Presets
<1>7. RouteFor(in, out, d) = Config(IF out = "NONE" THEN "reset" ELSE row.output_route,
                                    IF in = "NONE" THEN "reset" ELSE row.input_route,
                                    IF in = "NONE" THEN "OFF" ELSE row.es325_preset)
  BY DEF RouteFor
<1> HIDE DEF row
<1> QED
  BY <1>5, <1>6, <1>7 DEF Config

\* With an output, the input device does not matter.
LEMMA RouteIgnoresInput ==
  ASSUME NEW in, NEW out, out # "NONE", NEW d, NEW e
  PROVE  RouteFor(in, out, d) = RouteFor(in, out, e)
  BY DEF RouteFor

LEMMA PathType ==
  ASSUME NEW device, NEW nrec
  PROVE  call_audio_path(device, nrec) \in CallPaths
<1>1. CASE device \in {{"SPEAKER"}, {"HEADSET"}, {"HEADPHONE"}}
  <2>1. (CHOOSE d \in device : TRUE) \in device
    BY <1>1
  <2> QED
    BY <1>1, <2>1 DEF call_audio_path, CallPaths
<1>2. CASE device \notin {{"SPEAKER"}, {"HEADSET"}, {"HEADPHONE"}}
  BY <1>2 DEF call_audio_path, CallPaths
<1> QED
  BY <1>1, <1>2

\* Masks with one identifier share the path of the modem, but for what the
\* Bluetooth headset does with noise: the cache of the route, which compares
\* identifiers, cannot hide a new path.
PathsOfId(id) ==
  IF id = "BT_SCO" THEN {"BLUETOOTH", "BLUETOOTH_NO_NR"}
  ELSE IF id \in {"SPEAKER", "HEADSET"} THEN {id}
  ELSE IF id = "HEADPHONES" THEN {"HEADPHONE"} ELSE {"EARPIECE"}

LEMMA PathOfId ==
  ASSUME NEW m, get_output_device_id(m) # "NONE"
  PROVE  {call_audio_path(m, nrec) : nrec \in BOOLEAN} = PathsOfId(get_output_device_id(m))
<1> DEFINE id == get_output_device_id(m)
           paths == {call_audio_path(m, nrec) : nrec \in BOOLEAN}
<1>1. id \in DOMAIN MasksOf /\ m \in MasksOf[id]
  <2>1. \E k \in DOMAIN MasksOf : m \in MasksOf[k]
    BY DEF get_output_device_id
  <2>2. id = CHOOSE k \in DOMAIN MasksOf : m \in MasksOf[k]
    BY <2>1 DEF get_output_device_id
  <2> HIDE DEF id, MasksOf
  <2> QED
    BY <2>1, <2>2
<1> HIDE DEF id
<1>2. ASSUME NEW d, m = {d}
      PROVE  (CHOOSE x \in m : TRUE) = d
  <2>1. (CHOOSE x \in {d} : TRUE) \in {d}
    OBVIOUS
  <2> QED
    BY <1>2, <2>1
<1>3. ASSUME NEW p, \A nrec \in BOOLEAN : call_audio_path(m, nrec) = p
      PROVE  paths = {p}
  BY <1>3
<1>4. ASSUME NEW d \in {"SPEAKER", "HEADSET", "HEADPHONE"}, m = {d}
      PROVE  paths = {d}
  <2>1. m \notin {{s} : s \in ScoOutDevices}
    BY <1>4 DEF ScoOutDevices
  <2>2. m \in {{"SPEAKER"}, {"HEADSET"}, {"HEADPHONE"}}
    BY <1>4
  <2>3. \A nrec \in BOOLEAN : call_audio_path(m, nrec) = d
    BY <1>2, <1>4, <2>1, <2>2 DEF call_audio_path
  <2> QED
    BY <1>3, <2>3
<1>5. CASE id = "BT_SCO"
  <2>1. m \in {{s} : s \in ScoOutDevices}
    BY <1>1, <1>5 DEF MasksOf
  <2>2. call_audio_path(m, TRUE) = "BLUETOOTH" /\ call_audio_path(m, FALSE) = "BLUETOOTH_NO_NR"
    BY <2>1 DEF call_audio_path
  <2>3. paths = {"BLUETOOTH", "BLUETOOTH_NO_NR"}
    BY <2>2
  <2> QED
    BY <1>5, <2>3 DEF PathsOfId, id
<1>6. CASE id \in {"SPEAKER", "HEADSET"}
  <2>1. m = {id}
    BY <1>1, <1>6 DEF MasksOf
  <2>2. paths = {id}
    BY <1>4, <1>6, <2>1
  <2> QED
    BY <1>6, <2>2 DEF PathsOfId, id
<1>7. CASE id = "HEADPHONES"
  <2>1. m = {"HEADPHONE"}
    BY <1>1, <1>7 DEF MasksOf
  <2>2. paths = {"HEADPHONE"}
    BY <1>4, <2>1
  <2> QED
    BY <1>7, <2>2 DEF PathsOfId, id
<1>8. CASE id \in {"EARPIECE", "SPEAKER_AND_HEADSET", "SPEAKER_AND_EARPIECE"}
  <2>1. \/ m = {"EARPIECE"} \/ m = {"SPEAKER", "HEADSET"}
        \/ m = {"SPEAKER", "HEADPHONE"} \/ m = {"SPEAKER", "EARPIECE"}
    BY <1>1, <1>8 DEF MasksOf
  <2>2. "EARPIECE" \in m \/ ("SPEAKER" \in m /\ m # {"SPEAKER"})
    BY <2>1
  <2>3. m \notin {{s} : s \in ScoOutDevices}
    BY <2>2 DEF ScoOutDevices
  <2>4. m \notin {{"SPEAKER"}, {"HEADSET"}, {"HEADPHONE"}}
    BY <2>2
  <2>5. \A nrec \in BOOLEAN : call_audio_path(m, nrec) = "EARPIECE"
    BY <2>3, <2>4 DEF call_audio_path
  <2>6. paths = {"EARPIECE"}
    BY <1>3, <2>5
  <2> QED
    BY <1>8, <2>6 DEF PathsOfId, id
<1>9. id \in {"SPEAKER", "EARPIECE", "HEADSET", "HEADPHONES", "BT_SCO",
              "SPEAKER_AND_HEADSET", "SPEAKER_AND_EARPIECE"}
  BY <1>1 DEF MasksOf
<1> HIDE DEF paths
<1> QED
  BY <1>5, <1>6, <1>7, <1>8, <1>9 DEF id, paths

-----------------------------------------------------------------------------
(* What every entry point keeps of the device.                             *)

PathsOf(route) == [output_route |-> route.output_route, input_route |-> route.input_route]

\* The mixer is on the route that is cached.
CacheTrue(a) ==
  \/ a.cur_route = NoRoute
  \/ a.cur_route[2] = "NONE"
  \/ \A d \in InDevOrNone :
       a.ar = PathsOf(RouteFor(a.cur_route[1], a.cur_route[2], d))

\* While the RIL client is always there, the modem is on the path of the route
\* that is cached.
RilConnected == \A e \in Env : e.ril

PathTrue(a) ==
  RilConnected => \/ a.cur_route = NoRoute
                  \/ a.cur_route[2] = "NONE"
                  \/ a.path \in PathsOfId(a.cur_route[2])

\* The cached route is that of the current devices, unless there is no output.
CacheCurrent(a) == RouteId(a)[2] # "NONE" => a.cur_route = RouteId(a)

Voice(a) ==
  /\ a.in_call <=> a.mode = "IN_CALL"
  /\ a.voice_rx = a.voice_tx
  /\ a.voice_rx # "stale"
  /\ a.voice_rx = "open" => a.in_call

Sco(a) == a.sco_rx = "open" <=> a.sco_tx = "open"

Frame(a) == a \in DeviceType /\ Sco(a) /\ CacheTrue(a) /\ PathTrue(a)

Core(a) == Frame(a) /\ Voice(a)

LEMMA RouteIdType ==
  ASSUME NEW a
  PROVE  /\ RouteId(a) = <<RouteId(a)[1], RouteId(a)[2]>>
         /\ RouteId(a)[1] \in SourceIds /\ RouteId(a)[2] \in OutIds
         /\ RouteId(a) \in SourceIds \X OutIds
  BY OutIdType, SourceIdType DEF RouteId

\* select_devices leaves the cache true and current, and touches nothing of the
\* call, of SCO and of the devices.
LEMMA SelectFrame ==
  ASSUME NEW a, Frame(a), NEW e \in Env
  PROVE  LET b == select_devices(a, e)
         IN  /\ Frame(b) /\ CacheCurrent(b)
             /\ b.in_call = a.in_call /\ b.mode = a.mode
             /\ b.out_device = a.out_device /\ b.in_device = a.in_device
             /\ b.input_source = a.input_source
             /\ b.voice_rx = a.voice_rx /\ b.voice_tx = a.voice_tx
<1> DEFINE id == RouteId(a)
           r == RouteFor(id[1], id[2], a.in_device)
           preset == IF UsesPreset(a, r.es325_preset, e) THEN r.es325_preset
                     ELSE a.es325_preset
           path == IF e.ril THEN call_audio_path(a.out_device, a.bluetooth_nrec) ELSE a.path
           b == [a EXCEPT !.cur_route = id, !.ar = PathsOf(r),
                          !.es325_preset = preset, !.path = path]
<1>1. CASE id = a.cur_route
  <2>1. select_devices(a, e) = a
    BY <1>1 DEF select_devices
  <2> QED
    BY <1>1, <2>1 DEF CacheCurrent
<1>2. CASE id # a.cur_route
  <2>1. select_devices(a, e) = b
    BY <1>2 DEF select_devices, NewRoute, PathsOf
  <2>2. id \in SourceIds \X OutIds /\ id[1] \in SourceIds /\ id[2] \in OutIds
    BY RouteIdType
  <2>3. PathsOf(r) \in [output_route : Paths, input_route : Paths]
        /\ r.es325_preset \in Presets
    BY <2>2, RouteType DEF PathsOf
  <2>4. preset \in Presets \ {"CURRENT"}
    BY <2>3 DEF UsesPreset, Frame, DeviceType
  <2>5. path \in CallPaths \cup {"unknown"}
    BY PathType DEF Frame, DeviceType
  <2>6. a \in DeviceType
    BY DEF Frame
  <2> HIDE DEF preset, path, r, id
  <2>7. b \in DeviceType
    BY <2>2, <2>3, <2>4, <2>5, <2>6 DEF DeviceType
  <2>8. /\ b.cur_route = id /\ b.ar = PathsOf(r)
        /\ b.out_device = a.out_device /\ b.input_source = a.input_source
        /\ b.in_device = a.in_device /\ b.mode = a.mode /\ b.in_call = a.in_call
        /\ b.voice_rx = a.voice_rx /\ b.voice_tx = a.voice_tx
        /\ b.sco_rx = a.sco_rx /\ b.sco_tx = a.sco_tx
    BY <2>6 DEF DeviceType
  <2>9. RouteId(b) = id
    BY <2>8 DEF RouteId, id
  <2>10. CacheTrue(b)
    <3>1. CASE id[2] = "NONE"
      BY <2>8, <3>1 DEF CacheTrue, PathTrue
    <3>2. CASE id[2] # "NONE"
      <4>1. \A d \in InDevOrNone : RouteFor(id[1], id[2], d) = r
        BY <3>2, RouteIgnoresInput DEF r
      <4> QED
        BY <2>8, <4>1 DEF CacheTrue, PathTrue
    <3> QED
      BY <3>1, <3>2
  <2>11. Sco(b)
    BY <2>8 DEF Frame, Sco
  <2>12. PathTrue(b)
    <3> SUFFICES ASSUME RilConnected, id[2] # "NONE"
                 PROVE  path \in PathsOfId(id[2])
      BY <2>6, <2>8 DEF PathTrue, DeviceType
    <3>1. path = call_audio_path(a.out_device, a.bluetooth_nrec)
      BY DEF RilConnected, path
    <3>2. a.bluetooth_nrec \in BOOLEAN
      BY <2>6 DEF DeviceType
    <3>3. id[2] = get_output_device_id(a.out_device)
      BY DEF id, RouteId
    <3> QED
      BY <3>1, <3>2, <3>3, PathOfId
  <2> HIDE DEF b
  <2> QED
    BY <2>1, <2>7, <2>8, <2>9, <2>10, <2>11, <2>12 DEF Frame, CacheCurrent
<1> QED
  BY <1>1, <1>2

LEMMA SelectKeeps ==
  ASSUME NEW a, Core(a), NEW e \in Env
  PROVE  LET b == select_devices(a, e)
         IN  Core(b) /\ CacheCurrent(b)
  BY SelectFrame DEF Core, Voice

\* Starting SCO, whatever fails, and ending it leave the rest alone.
LEMMA StartScoKeeps ==
  ASSUME NEW a, Core(a), CacheCurrent(a), NEW e \in Env
  PROVE  LET b == start_bt_sco(a, e)
         IN  Core(b) /\ CacheCurrent(b)
<1> DEFINE rx == IF e.rx /\ e.tx THEN "open" ELSE "stale"
           tx == IF ~e.rx THEN a.sco_tx ELSE IF e.tx THEN "open" ELSE "stale"
           b == [a EXCEPT !.sco_rx = rx, !.sco_tx = tx]
<1>1. CASE a.sco_rx # "null" \/ a.sco_tx # "null"
  BY <1>1 DEF start_bt_sco
<1>2. CASE ~ (a.sco_rx # "null" \/ a.sco_tx # "null")
  <2>1. start_bt_sco(a, e) = b
    BY <1>2 DEF start_bt_sco
  <2>2. rx \in PcmStates /\ tx \in PcmStates /\ (rx = "open" <=> tx = "open")
    BY <1>2 DEF PcmStates
  <2>3. a \in DeviceType
    BY DEF Core, Frame
  <2> HIDE DEF rx, tx
  <2>4. b \in DeviceType
    BY <2>2, <2>3 DEF DeviceType
  <2>5. Voice(b) /\ Sco(b) /\ CacheTrue(b) /\ PathTrue(b) /\ CacheCurrent(b)
    BY <2>2, <2>3 DEF DeviceType, Core, Frame, Voice, Sco, CacheTrue, PathTrue, CacheCurrent, RouteId
  <2> QED
    BY <2>1, <2>4, <2>5 DEF Core, Frame
<1> QED
  BY <1>1, <1>2

LEMMA EndScoKeeps ==
  ASSUME NEW a, Core(a)
  PROVE  LET b == end_bt_sco(a)
         IN  /\ Core(b) /\ b.in_call = a.in_call /\ b.mode = a.mode
             /\ b.out_device = a.out_device
<1> DEFINE b == end_bt_sco(a)
<1>1. b \in DeviceType
  BY DEF end_bt_sco, Core, Frame, DeviceType, PcmStates
<1>2. /\ Voice(b) /\ Sco(b) /\ CacheTrue(b) /\ PathTrue(b)
      /\ b.in_call = a.in_call /\ b.mode = a.mode /\ b.out_device = a.out_device
  BY DEF end_bt_sco, Core, Frame, DeviceType, Voice, Sco, CacheTrue, PathTrue
<1> QED
  BY <1>1, <1>2 DEF Core, Frame

\* New devices leave all but the currency of the cache alone.
LEMMA OutDeviceKeeps ==
  ASSUME NEW a, Core(a), NEW m \in SUBSET OutDevices
  PROVE  LET b == [a EXCEPT !.out_device = m]
         IN  Core(b) /\ b.in_call = a.in_call /\ b.mode = a.mode /\ b.out_device = m
  BY DEF Core, Frame, DeviceType, Voice, Sco, CacheTrue, PathTrue

LEMMA InputKeeps ==
  ASSUME NEW a, Core(a), NEW s \in Sources, NEW d \in InDevOrNone
  PROVE  LET b == [a EXCEPT !.input_source = s, !.in_device = d]
         IN  Core(b)
  BY DEF Core, Frame, DeviceType, Voice, Sco, CacheTrue, PathTrue, InDevOrNone

-----------------------------------------------------------------------------
(* The device after each part of an entry point.                           *)

Streams ==
  /\ outs \in [Outputs -> OutType]
  /\ ins \in [Inputs -> InType]
  /\ io_handle \in Inputs \cup {NoHandle}

Routed(a) == Core(a) /\ CacheCurrent(a)

\* With no output left the currency of the cache asks nothing.
LEMMA NoOutputRouted ==
  ASSUME NEW a, a.out_device = {}
  PROVE  CacheCurrent(a)
<1>1. get_output_device_id({}) = "NONE"
  <2>1. ASSUME NEW id \in DOMAIN MasksOf PROVE {} \notin MasksOf[id]
    <3>1. {} \notin {{d} : d \in ScoOutDevices}
      OBVIOUS
    <3>2. \A x : {} # {x}
      OBVIOUS
    <3>3. \A x, y : {} # {x, y}
      OBVIOUS
    <3>4. {} \notin MasksOf.BT_SCO
      BY <3>1 DEF MasksOf
    <3>5. {} \notin MasksOf.SPEAKER /\ {} \notin MasksOf.EARPIECE
          /\ {} \notin MasksOf.HEADSET /\ {} \notin MasksOf.HEADPHONES
      BY <3>2 DEF MasksOf
    <3>6. {} \notin MasksOf.SPEAKER_AND_HEADSET /\ {} \notin MasksOf.SPEAKER_AND_EARPIECE
      BY <3>3 DEF MasksOf
    <3>7. id \in {"SPEAKER", "EARPIECE", "HEADSET", "HEADPHONES", "BT_SCO",
                  "SPEAKER_AND_HEADSET", "SPEAKER_AND_EARPIECE"}
      BY DEF MasksOf
    <3> HIDE DEF MasksOf
    <3> QED
      BY <3>4, <3>5, <3>6, <3>7
  <2> QED
    BY <2>1 DEF get_output_device_id
<1> QED
  BY <1>1 DEF CacheCurrent, RouteId

LEMMA SelectRouted ==
  ASSUME NEW a, Core(a), NEW e \in Env
  PROVE  Routed(select_devices(a, e))
  BY SelectKeeps DEF Routed

LEMMA OutStandbyRouted ==
  ASSUME Streams, NEW a, Routed(a), NEW t \in Outputs, NEW e \in Env
  PROVE  Routed(DoOutStandby(a, t, e))
<1> DEFINE b == IF OnSco(outs[t].device) THEN end_bt_sco(a) ELSE a
           c == [b EXCEPT !.out_device = output_devices(t)]
<1>1. output_devices(t) \in SUBSET OutDevices
  BY DEF output_devices, Streams, OutType
<1>2. Core(b)
  BY EndScoKeeps DEF Routed
<1> HIDE DEF b
<1>3. Core(c) /\ c.out_device = output_devices(t)
  BY <1>1, <1>2, OutDeviceKeeps
<1> HIDE DEF c
<1>4. c.out_device = {} => Routed(c)
  BY <1>3, NoOutputRouted DEF Routed
<1>5. Routed(select_devices(c, e))
  BY <1>3, SelectRouted
<1>6. DoOutStandby(a, t, e) =
        IF outs[t].standby THEN a
        ELSE IF c.out_device = {} THEN c ELSE select_devices(c, e)
  BY DEF DoOutStandby, b, c
<1> QED
  BY <1>4, <1>5, <1>6

LEMMA InStandbyRouted ==
  ASSUME NEW a, Routed(a), NEW i \in Inputs, NEW e \in Env
  PROVE  Routed(DoInStandby(a, i, e))
<1> DEFINE b == IF ins[i].device = "SCO_HEADSET" THEN end_bt_sco(a) ELSE a
           c == [b EXCEPT !.input_source = "DEFAULT", !.in_device = NoDevice]
<1>1. Core(b)
  BY EndScoKeeps DEF Routed
<1> HIDE DEF b
<1>2. "DEFAULT" \in Sources /\ NoDevice \in InDevOrNone
  BY DEF Sources, InDevOrNone
<1>3. Core(c)
  BY <1>1, <1>2, InputKeeps
<1> HIDE DEF c
<1>4. Routed(select_devices(c, e))
  BY <1>3, SelectRouted
<1>5. DoInStandby(a, i, e) = IF ins[i].standby THEN a ELSE select_devices(c, e)
  BY DEF DoInStandby, b, c
<1> QED
  BY <1>4, <1>5

LEMMA StartOutputRouted ==
  ASSUME Streams, Routed(adev), NEW t \in Outputs, NEW e \in Env, StartOutputOk(t, e)
  PROVE  Routed(adev')
<1> DEFINE m == adev.out_device \cup outs[t].device
           a == IF adev.in_call THEN adev
                ELSE select_devices([adev EXCEPT !.out_device = m], e)
<1>1. m \in SUBSET OutDevices
  BY DEF Streams, OutType, Routed, Core, Frame, DeviceType
<1>2. Core([adev EXCEPT !.out_device = m])
  BY <1>1, OutDeviceKeeps DEF Routed
<1> HIDE DEF m
<1>3. Routed(a)
  BY <1>2, SelectRouted
<1>4. adev' = IF OnSco(outs[t].device) THEN start_bt_sco(a, e) ELSE a
  BY DEF StartOutputOk, m, a
<1> HIDE DEF a
<1> QED
  BY <1>3, <1>4, StartScoKeeps DEF Routed

LEMMA StartInputRouted ==
  ASSUME Streams, Routed(adev), NEW i \in Inputs, NEW e \in Env, StartInputOk(i, e)
  PROVE  Routed(adev')
<1> DEFINE b == [adev EXCEPT !.input_source = ins[i].source, !.in_device = ins[i].device]
           a == IF adev.in_call THEN adev ELSE select_devices(b, e)
<1>1. ins[i].source \in Sources /\ ins[i].device \in InDevOrNone
  BY DEF Streams, InType, InDevOrNone
<1>2. Core(b)
  BY <1>1, InputKeeps DEF Routed
<1> HIDE DEF b
<1>3. Routed(a)
  BY <1>2, SelectRouted
<1>4. adev' = IF ins[i].device = "SCO_HEADSET" THEN start_bt_sco(a, e) ELSE a
  BY DEF StartInputOk, b, a
<1> HIDE DEF a
<1> QED
  BY <1>3, <1>4, StartScoKeeps DEF Routed

LEMMA SetOutRouted ==
  ASSUME Streams, Routed(adev), NEW t \in Outputs, NEW m \in OutMasks,
         out_set_parameters(t, m)
  PROVE  Routed(adev')
<1> DEFINE stop == (m \cap ScoOutDevices) # (outs[t].device \cap ScoOutDevices)
           a(d) == IF stop THEN DoOutStandby(adev, t, d) ELSE adev
           b(d, e) == select_devices([a(d) EXCEPT !.out_device = m], e)
<1>1. PICK d \in Env, e \in Env :
        adev' = IF OnSco(m) THEN start_bt_sco(b(d, e), e) ELSE b(d, e)
  BY DEF out_set_parameters
<1>2. Core(a(d))
  BY OutStandbyRouted DEF Routed
<1>3. m \in SUBSET OutDevices
  BY ConstantsAssumption
<1> HIDE DEF a
<1>4. Core([a(d) EXCEPT !.out_device = m])
  BY <1>2, <1>3, OutDeviceKeeps
<1>5. Routed(b(d, e))
  BY <1>4, SelectRouted
<1> HIDE DEF b
<1> QED
  BY <1>1, <1>5, StartScoKeeps DEF Routed

LEMMA SetInRouted ==
  ASSUME Streams, Routed(adev), NEW i \in Inputs, NEW s \in InSources \cup {"DEFAULT"},
         NEW d \in InDevs \cup {NoDevice}, in_set_parameters(i, s, d)
  PROVE  Routed(adev')
<1> DEFINE newSource == s \notin {"DEFAULT", ins[i].source}
           newDev == d \notin {NoDevice, ins[i].device}
           stop == newDev /\ "SCO_HEADSET" \in {d, ins[i].device}
           n == [(IF stop THEN StandbyIn(ins[i]) ELSE ins[i]) EXCEPT
                  !.source = IF newSource THEN s ELSE @,
                  !.device = IF newDev THEN d ELSE @]
           after == IF stop THEN {DoInStandby(adev, i, x) : x \in Env} ELSE {adev}
           b(a) == [a EXCEPT !.input_source = n.source, !.in_device = n.device]
<1>1. PICK a \in after :
        adev' \in IF (newSource \/ newDev) /\ ~n.standby
                  THEN {select_devices(b(a), e) : e \in Env} ELSE {a}
  BY DEF in_set_parameters
<1>2. Routed(a)
  BY InStandbyRouted
<1>3. n.source \in Sources /\ n.device \in InDevOrNone
  <2>1. s \in Sources /\ d \in InDevOrNone
    BY ConstantsAssumption DEF Sources, InDevOrNone
  <2>2. ins[i] \in InType
    BY DEF Streams
  <2> QED
    BY <2>1, <2>2 DEF InType, StandbyIn, InDevOrNone
<1> HIDE DEF n, after
<1>4. Core(b(a))
  BY <1>2, <1>3, InputKeeps DEF Routed
<1>5. \A e \in Env : Routed(select_devices(b(a), e))
  BY <1>4, SelectRouted
<1> QED
  BY <1>1, <1>2, <1>5

\* Entering a call opens both of its PCMs or none.
LEMMA EnterCallRouted ==
  ASSUME NEW a, Frame(a), a.mode = "IN_CALL", ~a.in_call,
         a.voice_rx = "null", a.voice_tx = "null", NEW e \in Env
  PROVE  Routed(EnterCall(a, e))
<1> DEFINE m == IF a.out_device \in {{}, {"SPEAKER"}} THEN {"EARPIECE"} ELSE a.out_device
           b == [a EXCEPT !.out_device = m, !.input_source = "VOICE_CALL"]
           c == select_devices(b, e)
           pcm == IF e.rx /\ e.tx THEN "open" ELSE "null"
           k == IF e.ril THEN "START" ELSE c.clock
           d == [c EXCEPT !.voice_rx = pcm, !.voice_tx = pcm, !.in_call = TRUE, !.clock = k]
<1>1. m \in SUBSET OutDevices
  BY DEF Frame, DeviceType, OutDevices
<1>2. Frame(b) /\ b.mode = "IN_CALL" /\ b.voice_rx = "null" /\ b.voice_tx = "null"
  <2>1. "VOICE_CALL" \in Sources
    BY DEF Sources, TabSources
  <2> HIDE DEF m
  <2> QED
    BY <1>1, <2>1 DEF Frame, DeviceType, Sco, CacheTrue, PathTrue
<1> HIDE DEF b
<1>3. Frame(c) /\ CacheCurrent(c) /\ c.mode = "IN_CALL"
      /\ c.voice_rx = "null" /\ c.voice_tx = "null"
  BY <1>2, SelectFrame
<1>4. EnterCall(a, e) = d
  <2>1. EnterCall(a, e) = [start_voice_call(c, e) EXCEPT !.clock = IF e.ril THEN "START" ELSE @,
                                                         !.in_call = TRUE]
    BY DEF EnterCall, c, b, m
  <2>2. c \in DeviceType
    BY <1>3 DEF Frame
  <2> HIDE DEF c
  <2>3. start_voice_call(c, e) = [c EXCEPT !.voice_rx = pcm, !.voice_tx = pcm]
    BY <1>3, <2>2 DEF start_voice_call, DeviceType
  <2>4. d = [[c EXCEPT !.voice_rx = pcm, !.voice_tx = pcm] EXCEPT !.clock = k, !.in_call = TRUE]
    <3> HIDE DEF pcm, k
    <3> QED
      BY <2>2 DEF DeviceType
  <2> QED
    BY <2>1, <2>2, <2>3, <2>4 DEF DeviceType
<1>5. pcm \in PcmStates /\ pcm # "stale"
  BY DEF PcmStates
<1>6. k \in {"START", "STOP"}
  BY <1>3 DEF Frame, DeviceType
<1> HIDE DEF c, pcm, k
<1>7. Frame(d) /\ CacheCurrent(d) /\ d.voice_rx = pcm /\ d.voice_tx = pcm
      /\ d.in_call = TRUE /\ d.mode = "IN_CALL"
  <2>1. c \in DeviceType
    BY <1>3 DEF Frame
  <2>2. d \in DeviceType
    BY <1>5, <1>6, <2>1 DEF DeviceType
  <2>3. /\ d.voice_rx = pcm /\ d.voice_tx = pcm /\ d.in_call = TRUE /\ d.mode = c.mode
        /\ d.sco_rx = c.sco_rx /\ d.sco_tx = c.sco_tx /\ d.ar = c.ar
        /\ d.cur_route = c.cur_route /\ d.out_device = c.out_device
        /\ d.input_source = c.input_source /\ d.path = c.path
    BY <2>1 DEF DeviceType
  <2> HIDE DEF d
  <2>4. Sco(d) /\ CacheTrue(d) /\ PathTrue(d) /\ CacheCurrent(d)
    BY <1>3, <2>3 DEF Frame, Sco, CacheTrue, PathTrue, CacheCurrent, RouteId
  <2> QED
    BY <1>3, <2>2, <2>3, <2>4 DEF Frame
<1> HIDE DEF d
<1> QED
  BY <1>4, <1>5, <1>7 DEF Routed, Core, Voice

\* Leaving it closes them both.
LEMMA LeaveCallRouted ==
  ASSUME NEW a, Frame(a), a.mode # "IN_CALL", NEW e \in Env
  PROVE  Routed(LeaveCall(a, e))
<1> DEFINE k == IF e.ril THEN "STOP" ELSE a.clock
           b == [a EXCEPT !.voice_rx = "null", !.voice_tx = "null",
                          !.in_call = FALSE, !.clock = k]
           c == IF OnSco(b.out_device) THEN end_bt_sco(b) ELSE b
           d == [c EXCEPT !.input_source = "DEFAULT"]
<1>1. k \in {"START", "STOP"} /\ "null" \in PcmStates
  BY DEF Frame, DeviceType, PcmStates
<1>2. Frame(b) /\ b.voice_rx = "null" /\ b.voice_tx = "null" /\ b.in_call = FALSE
      /\ b.mode # "IN_CALL"
  <2> HIDE DEF k
  <2> QED
    BY <1>1 DEF Frame, DeviceType, Sco, CacheTrue, PathTrue
<1>3. LeaveCall(a, e) = select_devices(d, e)
  <2>1. [end_voice_call(a) EXCEPT !.in_call = FALSE,
                                  !.clock = IF e.ril THEN "STOP" ELSE @] = b
    BY DEF Frame, DeviceType, end_voice_call
  <2> HIDE DEF b
  <2> QED
    BY <2>1 DEF LeaveCall
<1> HIDE DEF b
<1>4. Frame(c) /\ Voice(c)
  <2>1. Core(b)
    BY <1>2 DEF Core, Voice
  <2> QED
    BY <2>1, EndScoKeeps DEF Core
<1> HIDE DEF c
<1>5. Core(d)
  BY <1>4 DEF Core, Frame, DeviceType, Voice, Sco, CacheTrue, PathTrue, Sources
<1> HIDE DEF d
<1> QED
  BY <1>3, <1>5, SelectRouted

LEMMA ModeRouted ==
  ASSUME Routed(adev), NEW mode \in Modes, adev_set_mode(mode)
  PROVE  Routed(adev')
<1> DEFINE a == [adev EXCEPT !.mode = mode]
<1>1. Frame(a) /\ CacheCurrent(a) /\ a.mode = mode /\ a.in_call = adev.in_call
      /\ a.voice_rx = adev.voice_rx /\ a.voice_tx = adev.voice_tx
  BY DEF Routed, Core, Frame, DeviceType, Sco, CacheTrue, PathTrue, CacheCurrent, RouteId
<1>2. adev' \in IF mode = "IN_CALL" /\ ~a.in_call THEN {EnterCall(a, e) : e \in Env}
                 ELSE IF mode # "IN_CALL" /\ a.in_call THEN {LeaveCall(a, e) : e \in Env}
                 ELSE {a}
  BY DEF adev_set_mode
<1>3. adev \in DeviceType /\ Voice(adev)
  BY DEF Routed, Core, Frame
<1> HIDE DEF a
<1>4. CASE mode = "IN_CALL" /\ ~a.in_call
  <2>1. a.voice_rx = "null" /\ a.voice_tx = "null"
    BY <1>1, <1>3, <1>4 DEF DeviceType, PcmStates, Voice
  <2> QED
    BY <1>1, <1>2, <1>4, <2>1, EnterCallRouted
<1>5. CASE mode # "IN_CALL" /\ a.in_call
  BY <1>1, <1>2, <1>5, LeaveCallRouted
<1>6. CASE a.in_call <=> mode = "IN_CALL"
  <2>1. adev' = a
    BY <1>2, <1>6
  <2>2. Voice(a)
    BY <1>1, <1>3, <1>6 DEF Voice, DeviceType
  <2> QED
    BY <1>1, <2>1, <2>2 DEF Routed, Core
<1> QED
  BY <1>4, <1>5, <1>6

-----------------------------------------------------------------------------
(* The streams.                                                            *)

\* A closed input is in standby.
ClosedIdle == \A i \in Inputs : ~ins[i].open => ins[i].standby

StreamInv == Streams /\ TransferOnOpenPcm /\ HandleIsActive /\ ClosedIdle

\* One stream at a time changes; each part of the invariant is kept when the
\* changed stream and the handle keep it.
LEMMA OutputStep ==
  ASSUME StreamInv, NEW t \in Outputs, NEW o \in OutType, ~o.standby => o.pcm = "open",
         outs' = [outs EXCEPT ![t] = o], UNCHANGED <<ins, io_handle>>
  PROVE  StreamInv'
<1>1. Streams'
  BY DEF StreamInv, Streams
<1>2. TransferOnOpenPcm'
  BY DEF StreamInv, Streams, TransferOnOpenPcm
<1>3. HandleIsActive' /\ ClosedIdle'
  BY DEF StreamInv, HandleIsActive, ClosedIdle
<1> QED
  BY <1>1, <1>2, <1>3 DEF StreamInv

LEMMA InputStep ==
  ASSUME StreamInv, NEW i \in Inputs, NEW s \in InType, ~s.standby => s.pcm = "open",
         ~s.open => s.standby, ins' = [ins EXCEPT ![i] = s], UNCHANGED outs,
         \/ io_handle' = NoHandle
         \/ io_handle' = i /\ ~s.standby
         \/ io_handle' = io_handle /\ (io_handle = i => ~s.standby)
  PROVE  StreamInv'
<1>1. Streams'
  BY DEF StreamInv, Streams
<1>2. TransferOnOpenPcm'
  BY DEF StreamInv, Streams, TransferOnOpenPcm
<1>3. HandleIsActive'
  BY ConstantsAssumption DEF StreamInv, Streams, HandleIsActive
<1>4. ClosedIdle'
  BY DEF StreamInv, Streams, ClosedIdle
<1> QED
  BY <1>1, <1>2, <1>3, <1>4 DEF StreamInv

LEMMA OutputsKeepStreams ==
  ASSUME StreamInv, NEW t \in Outputs,
         \/ \E m \in OutMasks \cup {{}} : OpenOutput(t, m)
         \/ out_standby(t) \/ CloseOutputStandby(t) \/ CloseOutputUnlink(t) \/ out_write(t)
         \/ \E m \in OutMasks : out_set_parameters(t, m)
  PROVE  StreamInv'
<1> DEFINE o == outs[t]
<1>1. o \in OutType /\ (~o.standby => o.pcm = "open")
  BY DEF StreamInv, Streams, TransferOnOpenPcm
<1>2. StandbyOut(o) \in OutType /\ (~StandbyOut(o).standby => StandbyOut(o).pcm = "open")
  BY <1>1 DEF StandbyOut, OutType, PcmStates
<1>3. \A m \in OutMasks : m \in SUBSET OutDevices
  BY ConstantsAssumption
<1>4. ASSUME NEW m \in OutMasks \cup {{}}, OpenOutput(t, m) PROVE StreamInv'
  <2> DEFINE d == IF m = {} THEN {"SPEAKER"} ELSE m
             n == [st |-> "open", standby |-> TRUE, pcm |-> "null", device |-> d]
  <2>1. d \in SUBSET OutDevices
    BY <1>3 DEF OutDevices
  <2>2. n \in OutType /\ n.standby
    <3> HIDE DEF d
    <3> QED
      BY <2>1 DEF OutType, PcmStates
  <2>3. outs' = [outs EXCEPT ![t] = n] /\ UNCHANGED <<ins, io_handle>>
    BY <1>4 DEF OpenOutput
  <2> HIDE DEF n
  <2> QED
    BY <2>2, <2>3, OutputStep
<1>5. ASSUME out_standby(t) PROVE StreamInv'
  <2>1. outs' = [outs EXCEPT ![t] = StandbyOut(o)] /\ UNCHANGED <<ins, io_handle>>
    BY <1>5 DEF out_standby
  <2> QED
    BY <1>2, <2>1, OutputStep
<1>6. ASSUME CloseOutputStandby(t) PROVE StreamInv'
  <2> DEFINE n == [StandbyOut(o) EXCEPT !.st = "closing"]
  <2>1. n \in OutType /\ (~n.standby => n.pcm = "open")
    BY <1>2 DEF OutType
  <2>2. outs' = [outs EXCEPT ![t] = n] /\ UNCHANGED <<ins, io_handle>>
    BY <1>6 DEF CloseOutputStandby
  <2> HIDE DEF n
  <2> QED
    BY <2>1, <2>2, OutputStep
<1>7. ASSUME CloseOutputUnlink(t) PROVE StreamInv'
  <2>1. ClosedOut \in OutType /\ ClosedOut.standby
    BY DEF ClosedOut, OutType, PcmStates
  <2>2. outs' = [outs EXCEPT ![t] = ClosedOut] /\ UNCHANGED <<ins, io_handle>>
    BY <1>7 DEF CloseOutputUnlink
  <2> QED
    BY <2>1, <2>2, OutputStep
<1>8. ASSUME out_write(t) PROVE StreamInv'
  <2> DEFINE started == [o EXCEPT !.standby = FALSE, !.pcm = "open"]
             failed == [o EXCEPT !.pcm = "stale"]
  <2>1. o.standby /\ UNCHANGED <<ins, io_handle>>
    BY <1>8 DEF out_write
  <2>2. outs' = [outs EXCEPT ![t] = started] \/ outs' = [outs EXCEPT ![t] = failed]
    BY <1>8 DEF out_write, StartOutputOk, StartOutputFails, StreamInv, Streams, OutType
  <2>3. started \in OutType /\ started.pcm = "open"
    BY <1>1 DEF OutType, PcmStates
  <2>4. failed \in OutType /\ failed.standby
    BY <1>1, <2>1 DEF OutType, PcmStates
  <2> HIDE DEF started, failed
  <2> QED
    BY <2>1, <2>2, <2>3, <2>4, OutputStep
<1>9. ASSUME NEW m \in OutMasks, out_set_parameters(t, m) PROVE StreamInv'
  <2> DEFINE stop == (m \cap ScoOutDevices) # (outs[t].device \cap ScoOutDevices)
             q == IF stop THEN StandbyOut(o) ELSE o
             n == [q EXCEPT !.device = m]
  <2>1. q \in OutType /\ (~q.standby => q.pcm = "open")
    BY <1>1, <1>2
  <2>2. outs' = [outs EXCEPT ![t] = n] /\ UNCHANGED <<ins, io_handle>>
    BY <1>9 DEF out_set_parameters
  <2> HIDE DEF q
  <2>3. n \in OutType /\ (~n.standby => n.pcm = "open")
    BY <1>3, <2>1 DEF OutType
  <2> HIDE DEF n
  <2> QED
    BY <2>2, <2>3, OutputStep
<1> QED
  BY <1>4, <1>5, <1>6, <1>7, <1>8, <1>9

LEMMA InputsKeepStreams ==
  ASSUME StreamInv, NEW i \in Inputs,
         \/ \E d \in InDevs : OpenInput(i, d)
         \/ in_standby(i) \/ CloseInput(i) \/ in_read(i)
         \/ \E s \in InSources \cup {"DEFAULT"}, d \in InDevs \cup {NoDevice} :
              in_set_parameters(i, s, d)
  PROVE  StreamInv'
<1> DEFINE r == ins[i]
<1>1. r \in InType /\ (~r.standby => r.pcm = "open") /\ (~r.open => r.standby)
      /\ (io_handle = i => ~r.standby)
  BY ConstantsAssumption DEF StreamInv, Streams, TransferOnOpenPcm, ClosedIdle, HandleIsActive
<1>2. StandbyIn(r) \in InType /\ StandbyIn(r).standby /\ StandbyIn(r).open = r.open
  BY <1>1 DEF StandbyIn, InType, PcmStates
<1>3. ClosedIn \in InType /\ ClosedIn.standby
  BY DEF ClosedIn, InType, PcmStates, Sources
<1>4. ASSUME NEW d \in InDevs, OpenInput(i, d) PROVE StreamInv'
  <2> DEFINE n == [ClosedIn EXCEPT !.open = TRUE, !.device = d]
  <2>1. n \in InType /\ n.standby
    BY DEF ClosedIn, InType, PcmStates, Sources
  <2>2. ins' = [ins EXCEPT ![i] = n] /\ UNCHANGED outs /\ io_handle' = io_handle
        /\ io_handle # i
    BY <1>1, <1>4 DEF OpenInput
  <2> HIDE DEF n
  <2> QED
    BY <2>1, <2>2, InputStep
<1>5. ASSUME in_standby(i) PROVE StreamInv'
  <2>1. ins' = [ins EXCEPT ![i] = StandbyIn(r)] /\ UNCHANGED outs /\ io_handle' = NoHandle
    BY <1>5 DEF in_standby
  <2> QED
    BY <1>2, <2>1, InputStep
<1>6. ASSUME CloseInput(i) PROVE StreamInv'
  <2>1. ins' = [ins EXCEPT ![i] = ClosedIn] /\ UNCHANGED outs /\ io_handle' = NoHandle
    BY <1>6 DEF CloseInput
  <2> QED
    BY <1>3, <2>1, InputStep
<1>7. ASSUME in_read(i) PROVE StreamInv'
  <2> DEFINE started == [r EXCEPT !.standby = FALSE, !.pcm = "open"]
             failed == [r EXCEPT !.pcm = "stale"]
  <2>1. r.standby /\ r.open /\ UNCHANGED outs
    BY <1>7 DEF in_read
  <2>2. \/ ins' = [ins EXCEPT ![i] = started] /\ io_handle' \in {i, io_handle}
        \/ ins' = [ins EXCEPT ![i] = failed] /\ io_handle' = io_handle
    BY <1>7 DEF in_read, StartInputOk, StartInputFails, StreamInv, Streams, InType
  <2>3. started \in InType /\ started.pcm = "open" /\ ~started.standby /\ started.open
    BY <1>1, <2>1 DEF InType, PcmStates
  <2>4. failed \in InType /\ failed.standby /\ failed.open
    BY <1>1, <2>1 DEF InType, PcmStates
  <2>5. io_handle # i
    BY <1>1, <2>1
  <2> HIDE DEF started, failed
  <2>6. CASE ins' = [ins EXCEPT ![i] = started] /\ io_handle' \in {i, io_handle}
    BY <2>1, <2>3, <2>6, InputStep
  <2>7. CASE ins' = [ins EXCEPT ![i] = failed] /\ io_handle' = io_handle
    BY <2>1, <2>4, <2>5, <2>7, InputStep
  <2> QED
    BY <2>2, <2>6, <2>7
<1>8. ASSUME NEW s \in InSources \cup {"DEFAULT"}, NEW d \in InDevs \cup {NoDevice},
             in_set_parameters(i, s, d)
      PROVE StreamInv'
  <2> DEFINE newSource == s \notin {"DEFAULT", ins[i].source}
             newDev == d \notin {NoDevice, ins[i].device}
             stop == newDev /\ "SCO_HEADSET" \in {d, ins[i].device}
             q == IF stop THEN StandbyIn(r) ELSE r
             n == [q EXCEPT !.source = IF newSource THEN s ELSE @,
                            !.device = IF newDev THEN d ELSE @]
  <2>1. q \in InType /\ (~q.standby => q.pcm = "open") /\ (~q.open => q.standby)
        /\ (~stop => q.standby = r.standby)
    BY <1>1, <1>2
  <2>2. ins' = [ins EXCEPT ![i] = n] /\ UNCHANGED outs
        /\ io_handle' = IF stop THEN NoHandle ELSE io_handle
    BY <1>8 DEF in_set_parameters
  <2>3. s \in Sources
    BY ConstantsAssumption DEF Sources
  <2> HIDE DEF q, stop, newSource, newDev
  <2>4. n \in InType /\ n.standby = q.standby /\ n.pcm = q.pcm /\ n.open = q.open
    BY <2>1, <2>3 DEF InType
  <2> HIDE DEF n
  <2>5. CASE stop
    BY <2>1, <2>2, <2>4, <2>5, InputStep
  <2>6. CASE ~stop
    BY <1>1, <2>1, <2>2, <2>4, <2>6, InputStep
  <2> QED
    BY <2>5, <2>6
<1> QED
  BY <1>4, <1>5, <1>6, <1>7, <1>8

-----------------------------------------------------------------------------
(* The inductive invariant and the theorems.                               *)

IInv == Routed(adev) /\ StreamInv

LEMMA InitIInv ==
  ASSUME Init
  PROVE  IInv
<1>1. InitDevice \in DeviceType
  <2>1. "INIT" \in Presets /\ "INIT" # "CURRENT" /\ "reset" \in Paths
    BY DEF Presets, Paths
  <2> QED
    BY <2>1 DEF InitDevice, DeviceType, PcmStates, Sources
<1>2. Voice(InitDevice) /\ Sco(InitDevice) /\ CacheTrue(InitDevice) /\ PathTrue(InitDevice)
  BY DEF InitDevice, Voice, Sco, CacheTrue, PathTrue
<1>3. CacheCurrent(InitDevice)
  <2>1. InitDevice.out_device = {}
    BY DEF InitDevice
  <2> QED
    BY <2>1, NoOutputRouted
<1>4. ClosedOut \in OutType /\ ClosedOut.standby /\ ClosedIn \in InType /\ ClosedIn.standby
  BY DEF ClosedOut, ClosedIn, OutType, InType, PcmStates, Sources
<1>5. StreamInv
  BY <1>4 DEF Init, StreamInv, Streams, TransferOnOpenPcm, HandleIsActive, ClosedIdle
<1> QED
  BY <1>1, <1>2, <1>3, <1>5 DEF Init, IInv, Routed, Core, Frame

LEMMA NextIInv ==
  ASSUME IInv, [Next]_vars
  PROVE  IInv'
<1> USE DEF IInv
<1>1. Streams
  BY DEF StreamInv
<1>2. ASSUME NEW t \in Outputs,
             \/ \E m \in OutMasks \cup {{}} : OpenOutput(t, m)
             \/ out_standby(t) \/ CloseOutputStandby(t) \/ CloseOutputUnlink(t) \/ out_write(t)
             \/ \E m \in OutMasks : out_set_parameters(t, m)
      PROVE  IInv'
  <2>1. StreamInv'
    BY <1>2, OutputsKeepStreams
  <2>2. CASE (\E m \in OutMasks \cup {{}} : OpenOutput(t, m)) \/ CloseOutputUnlink(t)
    BY <2>1, <2>2 DEF OpenOutput, CloseOutputUnlink
  <2>3. CASE out_standby(t) \/ CloseOutputStandby(t)
    BY <1>1, <2>1, <2>3, OutStandbyRouted DEF out_standby, CloseOutputStandby
  <2>4. CASE out_write(t)
    BY <1>1, <2>1, <2>4, StartOutputRouted DEF out_write, StartOutputFails
  <2>5. CASE \E m \in OutMasks : out_set_parameters(t, m)
    BY <1>1, <2>1, <2>5, SetOutRouted
  <2> QED
    BY <1>2, <2>2, <2>3, <2>4, <2>5
<1>3. ASSUME NEW i \in Inputs,
             \/ \E d \in InDevs : OpenInput(i, d)
             \/ in_standby(i) \/ CloseInput(i) \/ in_read(i)
             \/ \E s \in InSources \cup {"DEFAULT"}, d \in InDevs \cup {NoDevice} :
                  in_set_parameters(i, s, d)
      PROVE  IInv'
  <2>1. StreamInv'
    BY <1>3, InputsKeepStreams
  <2>2. CASE \E d \in InDevs : OpenInput(i, d)
    BY <2>1, <2>2 DEF OpenInput
  <2>3. CASE in_standby(i) \/ CloseInput(i)
    BY <2>1, <2>3, InStandbyRouted DEF in_standby, CloseInput
  <2>4. CASE in_read(i)
    BY <1>1, <2>1, <2>4, StartInputRouted DEF in_read, StartInputFails
  <2>5. CASE \E s \in InSources \cup {"DEFAULT"}, d \in InDevs \cup {NoDevice} :
               in_set_parameters(i, s, d)
    BY <1>1, <2>1, <2>5, SetInRouted
  <2> QED
    BY <1>3, <2>2, <2>3, <2>4, <2>5
<1>4. ASSUME NEW mode \in Modes, adev_set_mode(mode) PROVE IInv'
  <2>1. Routed(adev')
    BY <1>4, ModeRouted
  <2>2. StreamInv'
    BY <1>4 DEF adev_set_mode, StreamInv, Streams, TransferOnOpenPcm, HandleIsActive,
                ClosedIdle
  <2> QED
    BY <2>1, <2>2
<1>5. ASSUME NEW nrec \in NrecValues, adev_set_parameters(nrec) PROVE IInv'
  <2>1. nrec \in BOOLEAN
    BY ConstantsAssumption
  <2>2. Routed(adev')
    BY <1>5, <2>1 DEF adev_set_parameters, Routed, Core, Frame, DeviceType, Voice, Sco,
                      CacheTrue, PathTrue, CacheCurrent, RouteId
  <2>3. StreamInv'
    BY <1>5 DEF adev_set_parameters, StreamInv, Streams, TransferOnOpenPcm, HandleIsActive,
                ClosedIdle
  <2> QED
    BY <2>2, <2>3
<1>6. CASE UNCHANGED vars
  BY <1>6 DEF vars, StreamInv, Streams, TransferOnOpenPcm, HandleIsActive, ClosedIdle
<1> QED
  BY <1>2, <1>3, <1>4, <1>5, <1>6 DEF Next

THEOREM Invariance == Spec => []IInv
  BY InitIInv, NextIInv, PTL DEF Spec

\* The device and the streams hold values of their types.
THEOREM TypeCorrect == Spec => []TypeOK
<1>1. IInv => TypeOK
  BY DEF IInv, Routed, Core, Frame, StreamInv, Streams, TypeOK
<1> QED
  BY <1>1, Invariance, PTL

\* The PCMs of a call are open together or not at all, never stale, and never
\* outlive the call, for every sequence of modes and every failure to open them
\* (a call whose start failed goes on with neither).
THEOREM CallPcmsFollowCall == Spec => []VoiceFollowsCall
<1>1. IInv => VoiceFollowsCall
  BY DEF IInv, Routed, Core, Voice, VoiceFollowsCall
<1> QED
  BY <1>1, Invariance, PTL

\* The two directions of SCO are open together, whoever starts and ends it.
THEOREM ScoIsWhole == Spec => []ScoBothOrNeither
<1>1. IInv => ScoBothOrNeither
  BY DEF IInv, Routed, Core, Frame, Sco, ScoBothOrNeither
<1> QED
  BY <1>1, Invariance, PTL

\* With an output device that has a route, the mixer is on the route of the
\* current devices and source: the cache of the route never hides a change.
THEOREM MixerFollowsRoute == Spec => []MixerRouted
<1>1. IInv => MixerRouted
  <2> SUFFICES ASSUME IInv, RouteId(adev)[2] # "NONE"
               PROVE  adev.ar = PathsOf(RouteFor(RouteId(adev)[1], RouteId(adev)[2],
                                                 adev.in_device))
    BY DEF MixerRouted, PathsOf
  <2>1. adev.cur_route = RouteId(adev)
    BY DEF IInv, Routed, CacheCurrent
  <2>2. adev.cur_route # NoRoute
    BY <2>1, RouteIdType DEF NoRoute, SourceIds, TabSources
  <2>3. adev.in_device \in InDevOrNone
    BY DEF IInv, Routed, Core, Frame, DeviceType, InDevOrNone
  <2> QED
    BY <2>1, <2>2, <2>3 DEF IInv, Routed, Core, Frame, CacheTrue, PathTrue
<1> QED
  BY <1>1, Invariance, PTL

\* A stream out of standby has an open PCM, however its last start went.
THEOREM TransfersAreSafe == Spec => []TransferOnOpenPcm
<1>1. IInv => TransferOnOpenPcm
  BY DEF IInv, StreamInv
<1> QED
  BY <1>1, Invariance, PTL

\* The eS325 works for no stream in standby or closed.
THEOREM HandleOfActiveInput == Spec => []HandleIsActive
<1>1. IInv => HandleIsActive
  BY DEF IInv, StreamInv
<1> QED
  BY <1>1, Invariance, PTL

\* While the RIL client is connected, the modem is on the path of the current
\* output device: the cache of the route hides no new path either.
THEOREM ModemFollowsRoute == Spec => [](RilConnected => ModemRouted)
<1>1. IInv => (RilConnected => ModemRouted)
  <2> SUFFICES ASSUME IInv, RilConnected, RouteId(adev)[2] # "NONE"
               PROVE  \E nrec \in BOOLEAN : adev.path = call_audio_path(adev.out_device, nrec)
    BY DEF ModemRouted
  <2>1. adev.cur_route = RouteId(adev)
    BY DEF IInv, Routed, CacheCurrent
  <2>2. adev.cur_route # NoRoute
    BY <2>1, RouteIdType DEF NoRoute, SourceIds, TabSources
  <2>3. adev.path \in PathsOfId(RouteId(adev)[2])
    BY <2>1, <2>2 DEF IInv, Routed, Core, Frame, PathTrue
  <2>4. RouteId(adev)[2] = get_output_device_id(adev.out_device)
    BY DEF RouteId
  <2> QED
    BY <2>3, <2>4, PathOfId
<1> QED
  BY <1>1, Invariance, PTL

-----------------------------------------------------------------------------
(* The devices follow the active streams, in calls and outside.             *)

\* An active output stream is open, and an open one has a device.
OutputsRoutable ==
  \A t \in Outputs : /\ ~outs[t].standby => outs[t].st = "open"
                     /\ outs[t].st = "open" => outs[t].device # {}

OneRecording == \A i, j \in Inputs : ~ins[i].standby /\ ~ins[j].standby => i = j

MediaInv == OutputsRoutable /\ OneRecording

\* What a step does to an output and to an input, in the words of
\* OutputsKeepRoute and RecordingKeepsRoute.
OutputKept(t) ==
  ~outs'[t].standby /\ adev'.out_device = {} =>
    /\ adev.out_device = {}
    /\ outs[t].standby => adev.in_call

RecordingKept(i) ==
  LET started == ins[i].standby /\ ~adev.in_call
      onDevice == ~ins[i].standby /\ adev.in_device = ins[i].device
      onSource == ~ins[i].standby /\ adev.input_source = ins[i].source
  IN  ~ins'[i].standby =>
        /\ started \/ onDevice => adev'.in_device = ins'[i].device
        /\ started \/ (onSource /\ adev'.in_call = adev.in_call)
             => adev'.input_source = ins'[i].source

MediaStep ==
  /\ MediaInv'
  /\ \A t \in Outputs : OutputKept(t)
  /\ \A i \in Inputs : RecordingKept(i)

\* what the input streams are about
SameInput(a, b) ==
  /\ b.in_call = a.in_call
  /\ b.in_device = a.in_device /\ b.input_source = a.input_source

LEMMA ScoLeaves ==
  ASSUME NEW a \in DeviceType, NEW e
  PROVE  \A b \in {start_bt_sco(a, e), end_bt_sco(a)} :
           SameInput(a, b) /\ b.out_device = a.out_device
<1>1. SameInput(a, start_bt_sco(a, e)) /\ start_bt_sco(a, e).out_device = a.out_device
  BY DEF DeviceType, start_bt_sco, SameInput
<1>2. SameInput(a, end_bt_sco(a)) /\ end_bt_sco(a).out_device = a.out_device
  BY DEF DeviceType, end_bt_sco, SameInput
<1> QED
  BY <1>1, <1>2

\* Standby of an output leaves the devices of the other active ones.
LEMMA OutStandbyDevice ==
  ASSUME Streams, NEW a, Routed(a), NEW t \in Outputs, NEW e \in Env
  PROVE  LET b == DoOutStandby(a, t, e)
         IN  /\ SameInput(a, b)
             /\ b.out_device = IF outs[t].standby THEN a.out_device ELSE output_devices(t)
<1> DEFINE b == IF OnSco(outs[t].device) THEN end_bt_sco(a) ELSE a
           c == [b EXCEPT !.out_device = output_devices(t)]
<1>1. Core(b) /\ SameInput(a, b)
  BY EndScoKeeps, ScoLeaves DEF Routed, Core, Frame, SameInput
<1>2. output_devices(t) \in SUBSET OutDevices
  BY DEF output_devices, Streams, OutType
<1>3. DoOutStandby(a, t, e) =
        IF outs[t].standby THEN a
        ELSE IF c.out_device = {} THEN c ELSE select_devices(c, e)
  BY DEF DoOutStandby
<1> HIDE DEF b
<1>4. Core(c) /\ c.out_device = output_devices(t)
  BY <1>1, <1>2, OutDeviceKeeps
<1>5. SameInput(b, c)
  BY <1>1 DEF Core, Frame, DeviceType, SameInput
<1> HIDE DEF c
<1>6. SameInput(c, select_devices(c, e)) /\ select_devices(c, e).out_device = c.out_device
  BY <1>4, SelectFrame DEF Core, SameInput
<1> QED
  BY <1>1, <1>3, <1>4, <1>5, <1>6 DEF SameInput

\* Standby of an input leaves the output alone.
LEMMA InStandbyDevice ==
  ASSUME NEW a, Routed(a), NEW i \in Inputs, NEW e \in Env
  PROVE  LET b == DoInStandby(a, i, e)
         IN  /\ b.out_device = a.out_device /\ b.in_call = a.in_call
             /\ ins[i].standby => b = a
<1> DEFINE b == IF ins[i].device = "SCO_HEADSET" THEN end_bt_sco(a) ELSE a
           c == [b EXCEPT !.input_source = "DEFAULT", !.in_device = NoDevice]
<1>1. Core(b) /\ b.out_device = a.out_device /\ b.in_call = a.in_call
  BY EndScoKeeps DEF Routed
<1>2. DoInStandby(a, i, e) = IF ins[i].standby THEN a ELSE select_devices(c, e)
  BY DEF DoInStandby
<1>3. "DEFAULT" \in Sources /\ NoDevice \in InDevOrNone
  BY DEF Sources, InDevOrNone
<1> HIDE DEF b
<1>4. Core(c)
  BY <1>1, <1>3, InputKeeps
<1>5. c.out_device = b.out_device /\ c.in_call = b.in_call
  BY <1>1 DEF Core, Frame, DeviceType
<1> HIDE DEF c
<1>6. select_devices(c, e).out_device = c.out_device /\ select_devices(c, e).in_call = c.in_call
  BY <1>4, SelectFrame DEF Core
<1> QED
  BY <1>1, <1>2, <1>5, <1>6

\* Routing new devices leaves them as the entry point set them.
LEMMA SelectLeaves ==
  ASSUME NEW a, Core(a), NEW e \in Env
  PROVE  LET b == select_devices(a, e)
         IN  Core(b) /\ SameInput(a, b) /\ b.out_device = a.out_device
  BY SelectKeeps, SelectFrame DEF Core, SameInput

LEMMA NewInput ==
  ASSUME NEW a, Core(a), NEW s, NEW d
  PROVE  LET b == [a EXCEPT !.input_source = s, !.in_device = d]
         IN  /\ b.input_source = s /\ b.in_device = d
             /\ b.out_device = a.out_device /\ b.in_call = a.in_call
  BY DEF Core, Frame, DeviceType

LEMMA SelectOutput ==
  ASSUME NEW a, Core(a), NEW m \in SUBSET OutDevices, NEW e \in Env
  PROVE  LET b == select_devices([a EXCEPT !.out_device = m], e)
         IN  Core(b) /\ SameInput(a, b) /\ b.out_device = m
<1> DEFINE c == [a EXCEPT !.out_device = m]
<1>1. Core(c) /\ c.out_device = m
  BY OutDeviceKeeps
<1>2. SameInput(a, c)
  BY DEF Core, Frame, DeviceType, SameInput
<1> HIDE DEF c
<1> QED
  BY <1>1, <1>2, SelectLeaves DEF SameInput, c

LEMMA OtherOutputs ==
  ASSUME OutputsRoutable, NEW t \in Outputs, NEW u \in Outputs \ {t}, ~outs[u].standby
  PROVE  output_devices(t) # {}
<1>1. outs[u].device # {} /\ Opened(outs[u])
  BY DEF OutputsRoutable, Opened
<1>2. outs[u].device \subseteq output_devices(t)
  BY <1>1 DEF output_devices
<1> QED
  BY <1>1, <1>2

\* One output changes, and the device is left to whatever is active.
LEMMA MediaOutputStep ==
  ASSUME Streams, MediaInv, NEW t \in Outputs, NEW o,
         ~o.standby => o.st = "open", o.st = "open" => o.device # {},
         outs' = [outs EXCEPT ![t] = o], UNCHANGED ins, SameInput(adev, adev'),
         ~o.standby /\ adev'.out_device = {} =>
           adev.out_device = {} /\ (outs[t].standby => adev.in_call),
         \A u \in Outputs \ {t} :
           ~outs[u].standby /\ adev'.out_device = {} => adev.out_device = {}
  PROVE  MediaStep
<1>1. OutputsRoutable'
  BY DEF MediaInv, OutputsRoutable, Streams
<1>2. \A u \in Outputs : OutputKept(u)
  BY DEF OutputKept, Streams
<1>3. OneRecording' /\ \A i \in Inputs : RecordingKept(i)
  BY DEF MediaInv, SameInput, OneRecording, RecordingKept
<1> QED
  BY <1>1, <1>2, <1>3 DEF MediaInv, MediaStep

LEMMA OutputsKeepMedia ==
  ASSUME Streams, Routed(adev), MediaInv, NEW t \in Outputs,
         \/ \E m \in OutMasks \cup {{}} : OpenOutput(t, m)
         \/ out_standby(t) \/ CloseOutputStandby(t) \/ CloseOutputUnlink(t) \/ out_write(t)
         \/ \E m \in OutMasks : out_set_parameters(t, m)
  PROVE  MediaStep
<1> DEFINE o == outs[t]
           Others(d) == \A u \in Outputs \ {t} :
                          ~outs[u].standby /\ d = {} => adev.out_device = {}
<1>1. o \in OutType /\ (~o.standby => o.st = "open") /\ (o.st = "open" => o.device # {})
  BY DEF Streams, MediaInv, OutputsRoutable
<1>2. Others(adev.out_device)
  OBVIOUS
<1>3. SameInput(adev, adev)
  BY DEF SameInput
<1>4. \A e \in Env : LET b == DoOutStandby(adev, t, e)
                     IN  SameInput(adev, b) /\ Others(b.out_device)
  <2>1. Others(output_devices(t))
    BY OtherOutputs DEF MediaInv
  <2> QED
    BY <1>2, <2>1, OutStandbyDevice
<1>5. StandbyOut(o) \in OutType /\ StandbyOut(o).standby
      /\ StandbyOut(o).st = o.st /\ StandbyOut(o).device = o.device
  BY <1>1 DEF StandbyOut, OutType, PcmStates
<1>6. \A m \in OutMasks : m \in SUBSET OutDevices /\ m # {}
  BY ConstantsAssumption
<1> HIDE DEF Others
<1>7. ASSUME NEW m \in OutMasks \cup {{}}, OpenOutput(t, m) PROVE MediaStep
  <2> DEFINE d == IF m = {} THEN {"SPEAKER"} ELSE m
             n == [st |-> "open", standby |-> TRUE, pcm |-> "null", device |-> d]
  <2>1. d # {}
    OBVIOUS
  <2>2. outs' = [outs EXCEPT ![t] = n] /\ UNCHANGED <<adev, ins>>
    BY <1>7 DEF OpenOutput
  <2> HIDE DEF d
  <2>3. n.st = "open" /\ n.standby /\ n.device = d
    OBVIOUS
  <2> HIDE DEF n
  <2> QED
    BY <1>2, <1>3, <2>1, <2>2, <2>3, MediaOutputStep DEF Others
<1>8. ASSUME out_standby(t) PROVE MediaStep
  <2>1. PICK e \in Env : adev' = DoOutStandby(adev, t, e)
    BY <1>8 DEF out_standby
  <2>2. outs' = [outs EXCEPT ![t] = StandbyOut(o)] /\ UNCHANGED ins
    BY <1>8 DEF out_standby
  <2> QED
    BY <1>1, <1>4, <1>5, <2>1, <2>2, MediaOutputStep DEF Others
<1>9. ASSUME CloseOutputStandby(t) PROVE MediaStep
  <2> DEFINE n == [StandbyOut(o) EXCEPT !.st = "closing"]
  <2>1. PICK e \in Env : adev' = DoOutStandby(adev, t, e)
    BY <1>9 DEF CloseOutputStandby
  <2>2. outs' = [outs EXCEPT ![t] = n] /\ UNCHANGED ins
    BY <1>9 DEF CloseOutputStandby
  <2>3. n.standby /\ n.st = "closing"
    BY <1>5 DEF OutType
  <2> HIDE DEF n
  <2> QED
    BY <1>4, <2>1, <2>2, <2>3, MediaOutputStep DEF Others
<1>10. ASSUME CloseOutputUnlink(t) PROVE MediaStep
  <2>1. outs' = [outs EXCEPT ![t] = ClosedOut] /\ UNCHANGED <<adev, ins>>
    BY <1>10 DEF CloseOutputUnlink
  <2>2. ClosedOut.standby /\ ClosedOut.st = "closed"
    BY DEF ClosedOut
  <2> QED
    BY <1>2, <1>3, <2>1, <2>2, MediaOutputStep DEF Others
<1>11. ASSUME out_write(t) PROVE MediaStep
  <2>1. o.st = "open" /\ o.standby /\ UNCHANGED ins
    BY <1>11 DEF out_write
  <2>2. ASSUME NEW e \in Env, StartOutputOk(t, e) PROVE MediaStep
    <3> DEFINE m == adev.out_device \cup o.device
               b == IF adev.in_call THEN adev
                    ELSE select_devices([adev EXCEPT !.out_device = m], e)
               n == [o EXCEPT !.standby = FALSE, !.pcm = "open"]
    <3>1. m \in SUBSET OutDevices /\ m # {}
      BY <1>1, <2>1 DEF OutType, Routed, Core, Frame, DeviceType
    <3>2. adev' = IF OnSco(o.device) THEN start_bt_sco(b, e) ELSE b
      BY <2>2 DEF StartOutputOk
    <3> HIDE DEF m
    <3>3. Core(b) /\ SameInput(adev, b)
          /\ b.out_device = IF adev.in_call THEN adev.out_device ELSE m
      BY <1>3, <3>1, SelectOutput DEF Routed
    <3> HIDE DEF b
    <3>4. SameInput(adev, adev')
          /\ (adev'.out_device = {} => adev.out_device = {} /\ adev.in_call)
      BY <3>1, <3>2, <3>3, ScoLeaves DEF Core, Frame, SameInput
    <3>5. outs' = [outs EXCEPT ![t] = n]
      BY <2>2 DEF StartOutputOk, Streams, OutType
    <3>6. n.st = "open" /\ n.device = o.device
      BY <1>1, <2>1 DEF OutType
    <3> HIDE DEF n
    <3> QED
      BY <1>1, <2>1, <3>4, <3>5, <3>6, MediaOutputStep
  <2>3. ASSUME StartOutputFails(t) PROVE MediaStep
    <3> DEFINE n == [o EXCEPT !.pcm = "stale"]
    <3>1. outs' = [outs EXCEPT ![t] = n] /\ UNCHANGED adev
      BY <2>3 DEF StartOutputFails, Streams
    <3>2. n.standby /\ n.st = "open" /\ n.device = o.device
      BY <1>1, <2>1 DEF OutType
    <3> HIDE DEF n
    <3> QED
      BY <1>1, <1>2, <1>3, <2>1, <3>1, <3>2, MediaOutputStep DEF Others
  <2> QED
    BY <1>11, <2>2, <2>3 DEF out_write
<1>12. ASSUME NEW m \in OutMasks, out_set_parameters(t, m) PROVE MediaStep
  <2> DEFINE stop == (m \cap ScoOutDevices) # (outs[t].device \cap ScoOutDevices)
             a(d) == IF stop THEN DoOutStandby(adev, t, d) ELSE adev
             b(d, e) == select_devices([a(d) EXCEPT !.out_device = m], e)
             q == IF stop THEN StandbyOut(o) ELSE o
             n == [q EXCEPT !.device = m]
  <2>1. PICK d \in Env, e \in Env :
          adev' = IF OnSco(m) THEN start_bt_sco(b(d, e), e) ELSE b(d, e)
    BY <1>12 DEF out_set_parameters
  <2>2. Core(a(d)) /\ SameInput(adev, a(d))
    BY <1>3, <1>4, OutStandbyRouted DEF Routed
  <2> HIDE DEF a
  <2>3. Core(b(d, e)) /\ SameInput(adev, b(d, e)) /\ b(d, e).out_device = m
    BY <1>6, <2>2, SelectOutput DEF SameInput
  <2> HIDE DEF b
  <2>4. SameInput(adev, adev') /\ adev'.out_device = m
    BY <2>1, <2>3, ScoLeaves DEF Core, Frame, SameInput
  <2>5. outs' = [outs EXCEPT ![t] = n] /\ UNCHANGED ins /\ o.st = "open"
    BY <1>12 DEF out_set_parameters
  <2>6. q \in OutType /\ q.st = "open"
    BY <1>1, <1>5, <2>5
  <2> HIDE DEF q
  <2>7. n.st = "open" /\ n.device = m
    BY <2>6 DEF OutType
  <2> HIDE DEF n
  <2> QED
    BY <1>6, <2>4, <2>5, <2>7, MediaOutputStep
<1> QED
  BY <1>7, <1>8, <1>9, <1>10, <1>11, <1>12

\* Inputs change, and those that record are one, on the route that was set.
LEMMA InputsKeepMedia ==
  ASSUME Streams, Routed(adev), MediaInv, NEW i \in Inputs,
         \/ \E d \in InDevs : OpenInput(i, d)
         \/ in_standby(i) \/ CloseInput(i) \/ in_read(i)
         \/ \E s \in InSources \cup {"DEFAULT"}, d \in InDevs \cup {NoDevice} :
              in_set_parameters(i, s, d)
  PROVE  MediaStep
<1> DEFINE r == ins[i]
           Kept(b) == b.out_device = adev.out_device /\ b.in_call = adev.in_call
           Routes(n) ==
             /\ (r.standby /\ ~adev.in_call) \/ (~r.standby /\ adev.in_device = r.device)
                  => adev'.in_device = n.device
             /\ (r.standby /\ ~adev.in_call) \/ (~r.standby /\ adev.input_source = r.source)
                  => adev'.input_source = n.source
<1>1. r \in InType /\ Core(adev)
  BY DEF Streams, Routed
\* the input that changes stops, and was the one that recorded or leaves the route
<1>2. ASSUME NEW n, n.standby, ins' = [ins EXCEPT ![i] = n], UNCHANGED outs, Kept(adev'),
             r.standby => adev' = adev
      PROVE  MediaStep
  <2>1. OneRecording'
    BY <1>2 DEF MediaInv, OneRecording, Streams
  <2>2. ASSUME NEW j \in Inputs PROVE RecordingKept(j)
    <3>1. CASE ins'[j].standby
      BY <3>1 DEF RecordingKept
    <3>2. CASE ~ins'[j].standby
      <4>1. j # i /\ ins'[j] = ins[j] /\ ~ins[j].standby
        BY <1>2, <3>2 DEF Streams
      <4>2. adev' = adev
        BY <1>2, <4>1 DEF MediaInv, OneRecording
      <4> QED
        BY <4>1, <4>2 DEF RecordingKept
    <3> QED
      BY <3>1, <3>2
  <2>3. OutputsRoutable' /\ \A t \in Outputs : OutputKept(t)
    BY <1>2 DEF MediaInv, OutputsRoutable, OutputKept
  <2> QED
    BY <2>1, <2>2, <2>3 DEF MediaInv, MediaStep
\* or it records, alone and routed
<1>3. ASSUME NEW n, ins' = [ins EXCEPT ![i] = n], UNCHANGED outs, Kept(adev'),
             \A j \in Inputs \ {i} : ins[j].standby, Routes(n)
      PROVE  MediaStep
  <2>1. OneRecording' /\ \A j \in Inputs : RecordingKept(j)
    BY <1>3 DEF OneRecording, RecordingKept, Streams
  <2>2. OutputsRoutable' /\ \A t \in Outputs : OutputKept(t)
    BY <1>3 DEF MediaInv, OutputsRoutable, OutputKept
  <2> QED
    BY <2>1, <2>2 DEF MediaInv, MediaStep
<1>4. \A e \in Env : LET b == DoInStandby(adev, i, e)
                     IN  Routed(b) /\ Kept(b) /\ (r.standby => b = adev)
  BY InStandbyDevice, InStandbyRouted
<1>5. StandbyIn(r) \in InType /\ StandbyIn(r).standby
      /\ StandbyIn(r).source = r.source /\ StandbyIn(r).device = r.device
  BY <1>1 DEF StandbyIn, InType, PcmStates
<1> HIDE DEF Kept, Routes
<1>6. ASSUME NEW d \in InDevs, OpenInput(i, d) PROVE MediaStep
  <2> DEFINE n == [ClosedIn EXCEPT !.open = TRUE, !.device = d]
  <2>1. n.standby
    BY DEF ClosedIn
  <2>2. ins' = [ins EXCEPT ![i] = n] /\ UNCHANGED <<adev, outs>>
    BY <1>6 DEF OpenInput
  <2> HIDE DEF n
  <2> QED
    BY <1>2, <2>1, <2>2 DEF Kept
<1>7. ASSUME in_standby(i) PROVE MediaStep
  <2>1. PICK e \in Env : adev' = DoInStandby(adev, i, e)
    BY <1>7 DEF in_standby
  <2>2. ins' = [ins EXCEPT ![i] = StandbyIn(r)] /\ UNCHANGED outs
    BY <1>7 DEF in_standby
  <2> QED
    BY <1>2, <1>4, <1>5, <2>1, <2>2
<1>8. ASSUME CloseInput(i) PROVE MediaStep
  <2>1. PICK e \in Env : adev' = DoInStandby(adev, i, e)
    BY <1>8 DEF CloseInput
  <2>2. ins' = [ins EXCEPT ![i] = ClosedIn] /\ UNCHANGED outs /\ ClosedIn.standby
    BY <1>8 DEF CloseInput, ClosedIn
  <2> QED
    BY <1>2, <1>4, <2>1, <2>2
<1>9. ASSUME in_read(i) PROVE MediaStep
  <2>1. (\A j \in Inputs : ins[j].standby) /\ UNCHANGED outs
    BY <1>9 DEF in_read
  <2>2. ASSUME NEW e \in Env, StartInputOk(i, e) PROVE MediaStep
    <3> DEFINE c == [adev EXCEPT !.input_source = r.source, !.in_device = r.device]
               b == IF adev.in_call THEN adev ELSE select_devices(c, e)
               n == [r EXCEPT !.standby = FALSE, !.pcm = "open"]
    <3>1. r.source \in Sources /\ r.device \in InDevOrNone
      BY <1>1 DEF InType, InDevOrNone
    <3>2. adev' = IF r.device = "SCO_HEADSET" THEN start_bt_sco(b, e) ELSE b
      BY <2>2 DEF StartInputOk
    <3>3. Core(c)
      BY <1>1, <3>1, InputKeeps
    <3>4. c.input_source = r.source /\ c.in_device = r.device
          /\ c.out_device = adev.out_device /\ c.in_call = adev.in_call
      BY <1>1, NewInput
    <3> HIDE DEF c
    <3>5. Core(b) /\ b.out_device = adev.out_device /\ b.in_call = adev.in_call
          /\ (~adev.in_call => b.input_source = r.source /\ b.in_device = r.device)
      BY <1>1, <3>3, <3>4, SelectLeaves DEF SameInput
    <3> HIDE DEF b
    <3>6. Kept(adev')
          /\ (~adev.in_call => adev'.input_source = r.source /\ adev'.in_device = r.device)
      BY <3>2, <3>5, ScoLeaves DEF Core, Frame, SameInput, Kept
    <3>7. ins' = [ins EXCEPT ![i] = n]
      BY <2>2 DEF StartInputOk, Streams, InType
    <3>8. n.source = r.source /\ n.device = r.device
      BY <1>1 DEF InType
    <3> HIDE DEF n
    <3>9. Routes(n)
      BY <2>1, <3>6, <3>8 DEF Routes
    <3> QED
      BY <1>3, <2>1, <3>6, <3>7, <3>9
  <2>3. ASSUME StartInputFails(i) PROVE MediaStep
    <3> DEFINE n == [r EXCEPT !.pcm = "stale"]
    <3>1. ins' = [ins EXCEPT ![i] = n] /\ UNCHANGED adev
      BY <2>3 DEF StartInputFails, Streams
    <3>2. n.standby
      BY <1>1, <2>1 DEF InType
    <3> HIDE DEF n
    <3> QED
      BY <1>2, <2>1, <3>1, <3>2 DEF Kept
  <2> QED
    BY <1>9, <2>2, <2>3 DEF in_read
<1>10. ASSUME NEW s \in InSources \cup {"DEFAULT"}, NEW d \in InDevs \cup {NoDevice},
              in_set_parameters(i, s, d)
       PROVE  MediaStep
  <2> DEFINE newSource == s \notin {"DEFAULT", ins[i].source}
             newDev == d \notin {NoDevice, ins[i].device}
             stop == newDev /\ "SCO_HEADSET" \in {d, ins[i].device}
             q == IF stop THEN StandbyIn(r) ELSE r
             n == [q EXCEPT !.source = IF newSource THEN s ELSE @,
                            !.device = IF newDev THEN d ELSE @]
             after == IF stop THEN {DoInStandby(adev, i, x) : x \in Env} ELSE {adev}
  <2>1. PICK a \in after :
          adev' \in IF (newSource \/ newDev) /\ ~n.standby
                    THEN {select_devices([a EXCEPT !.input_source = n.source,
                                                   !.in_device = n.device], e) : e \in Env}
                    ELSE {a}
    BY <1>10 DEF in_set_parameters
  <2>2. ins' = [ins EXCEPT ![i] = n] /\ UNCHANGED outs
    BY <1>10 DEF in_set_parameters
  <2>3. q \in InType /\ (stop => q.standby) /\ (~stop => q = r)
    BY <1>1, <1>5
  <2>4. Routed(a) /\ Kept(a) /\ (r.standby \/ ~stop => a = adev)
    BY <1>4 DEF Kept
  <2>5. s \in Sources /\ d \in InDevOrNone
    BY ConstantsAssumption DEF Sources, InDevOrNone
  <2>6. n.standby = q.standby /\ n.source = (IF newSource THEN s ELSE q.source)
        /\ n.device = (IF newDev THEN d ELSE q.device)
    <3> HIDE DEF q, newSource, newDev
    <3> QED
      BY <2>3 DEF InType
  <2>7. n.source \in Sources /\ n.device \in InDevOrNone
    <3> HIDE DEF n, newSource, newDev
    <3> QED
      BY <2>3, <2>5, <2>6 DEF InType, InDevOrNone
  <2> DEFINE changes == newSource \/ newDev
  <2>8. ~changes => n.source = r.source /\ n.device = r.device /\ ~stop
    <3> HIDE DEF n, q
    <3> QED
      BY <2>3, <2>6
  <2> HIDE DEF n, after, q, stop, newSource, newDev
  <2>9. CASE n.standby
    <3>1. adev' = a
      BY <2>1, <2>9
    <3>2. r.standby => adev' = adev
      BY <2>4, <3>1
    <3> QED
      BY <1>2, <2>2, <2>4, <2>9, <3>1, <3>2
  <2>10. CASE ~n.standby
    <3>1. ~stop /\ ~r.standby /\ a = adev
      BY <2>3, <2>4, <2>6, <2>10
    <3>2. \A j \in Inputs \ {i} : ins[j].standby
      BY <3>1 DEF MediaInv, OneRecording
    <3>3. CASE changes
      <4> DEFINE c == [adev EXCEPT !.input_source = n.source, !.in_device = n.device]
      <4>1. PICK e \in Env : adev' = select_devices(c, e)
        BY <2>1, <2>10, <3>1, <3>3 DEF changes
      <4>2. Core(c)
        BY <1>1, <2>7, InputKeeps
      <4>3. c.input_source = n.source /\ c.in_device = n.device
            /\ c.out_device = adev.out_device /\ c.in_call = adev.in_call
        BY <1>1, NewInput
      <4> HIDE DEF c
      <4>4. adev'.out_device = adev.out_device /\ adev'.in_call = adev.in_call
            /\ adev'.input_source = n.source /\ adev'.in_device = n.device
        BY <4>1, <4>2, <4>3, SelectLeaves DEF SameInput
      <4> QED
        BY <1>3, <2>2, <3>2, <4>4 DEF Kept, Routes
    <3>4. CASE ~changes
      <4>1. adev' = adev
        BY <2>1, <3>1, <3>4
      <4> QED
        BY <1>3, <2>2, <2>8, <3>1, <3>2, <3>4, <4>1 DEF Kept, Routes
    <3> QED
      BY <3>3, <3>4
  <2> QED
    BY <2>9, <2>10
<1> QED
  BY <1>6, <1>7, <1>8, <1>9, <1>10

\* A call starts with an output device, and leaves the input device; its end
\* leaves both.
LEMMA EnterCallDevices ==
  ASSUME NEW a, Frame(a), NEW e \in Env
  PROVE  LET b == EnterCall(a, e)
         IN  b.out_device # {} /\ b.in_device = a.in_device /\ b.in_call
<1> DEFINE m == IF a.out_device \in {{}, {"SPEAKER"}} THEN {"EARPIECE"} ELSE a.out_device
           b == [a EXCEPT !.out_device = m, !.input_source = "VOICE_CALL"]
           c == select_devices(b, e)
           d == start_voice_call(c, e)
<1>1. m \in SUBSET OutDevices /\ m # {}
  BY DEF Frame, DeviceType, OutDevices
<1>2. EnterCall(a, e) = [d EXCEPT !.clock = IF e.ril THEN "START" ELSE @, !.in_call = TRUE]
  BY DEF EnterCall
<1>3. Frame(b) /\ b.out_device = m /\ b.in_device = a.in_device
  <2>1. "VOICE_CALL" \in Sources
    BY DEF Sources, TabSources
  <2> HIDE DEF m
  <2> QED
    BY <1>1, <2>1 DEF Frame, DeviceType, Sco, CacheTrue, PathTrue
<1> HIDE DEF b, m
<1>4. c \in DeviceType /\ c.out_device = m /\ c.in_device = a.in_device
  BY <1>3, SelectFrame DEF Frame
<1> HIDE DEF c
<1>5. d \in DeviceType /\ d.out_device = m /\ d.in_device = a.in_device
  <2> DEFINE f == [c EXCEPT !.voice_rx = "open", !.voice_tx = "open"]
  <2>1. d = c \/ d = f
    BY DEF start_voice_call
  <2>2. f \in DeviceType /\ f.out_device = c.out_device /\ f.in_device = c.in_device
    BY <1>4 DEF DeviceType, PcmStates
  <2> HIDE DEF d, f
  <2> QED
    BY <1>4, <2>1, <2>2
<1> HIDE DEF d
<1> QED
  BY <1>1, <1>2, <1>5 DEF DeviceType

LEMMA LeaveCallDevices ==
  ASSUME NEW a, Frame(a), a.mode # "IN_CALL", NEW e \in Env
  PROVE  LET b == LeaveCall(a, e)
         IN  b.out_device = a.out_device /\ b.in_device = a.in_device /\ ~b.in_call
<1> DEFINE k == IF e.ril THEN "STOP" ELSE a.clock
           b == [a EXCEPT !.voice_rx = "null", !.voice_tx = "null",
                          !.in_call = FALSE, !.clock = k]
           c == IF OnSco(b.out_device) THEN end_bt_sco(b) ELSE b
           d == [c EXCEPT !.input_source = "DEFAULT"]
<1>1. k \in {"START", "STOP"} /\ "null" \in PcmStates
  BY DEF Frame, DeviceType, PcmStates
<1>2. Core(b) /\ b.out_device = a.out_device /\ b.in_device = a.in_device /\ b.in_call = FALSE
  <2> HIDE DEF k
  <2> QED
    BY <1>1 DEF Core, Frame, DeviceType, Voice, Sco, CacheTrue, PathTrue
<1>3. LeaveCall(a, e) = select_devices(d, e)
  <2>1. [end_voice_call(a) EXCEPT !.in_call = FALSE,
                                  !.clock = IF e.ril THEN "STOP" ELSE @] = b
    BY DEF Frame, DeviceType, end_voice_call
  <2> HIDE DEF b
  <2> QED
    BY <2>1 DEF LeaveCall
<1> HIDE DEF b
<1>4. Core(c) /\ c.out_device = a.out_device /\ c.in_device = a.in_device /\ c.in_call = FALSE
  BY <1>2, EndScoKeeps, ScoLeaves DEF Core, Frame, SameInput
<1> HIDE DEF c
<1>5. Core(d) /\ d.out_device = a.out_device /\ d.in_device = a.in_device /\ d.in_call = FALSE
  BY <1>4 DEF Core, Frame, DeviceType, Voice, Sco, CacheTrue, PathTrue, Sources
<1> HIDE DEF d
<1> QED
  BY <1>3, <1>5, SelectLeaves DEF SameInput

\* MediaInv is inductive, relative to IInv, and every step from it keeps the
\* routes of what is active.
LEMMA NextMedia ==
  ASSUME IInv, MediaInv, [Next]_vars
  PROVE  MediaStep
<1>1. Streams /\ Routed(adev)
  BY DEF IInv, StreamInv
<1>2. ASSUME NEW t \in Outputs,
             \/ \E m \in OutMasks \cup {{}} : OpenOutput(t, m)
             \/ out_standby(t) \/ CloseOutputStandby(t) \/ CloseOutputUnlink(t) \/ out_write(t)
             \/ \E m \in OutMasks : out_set_parameters(t, m)
      PROVE  MediaStep
  BY <1>1, <1>2, OutputsKeepMedia
<1>3. ASSUME NEW i \in Inputs,
             \/ \E d \in InDevs : OpenInput(i, d)
             \/ in_standby(i) \/ CloseInput(i) \/ in_read(i)
             \/ \E s \in InSources \cup {"DEFAULT"}, d \in InDevs \cup {NoDevice} :
                  in_set_parameters(i, s, d)
      PROVE  MediaStep
  BY <1>1, <1>3, InputsKeepMedia
\* no other entry point touches the streams
<1>4. ASSUME UNCHANGED <<outs, ins>>, adev'.in_device = adev.in_device,
             adev'.in_call = adev.in_call => adev'.input_source = adev.input_source,
             adev'.out_device = {} => adev.out_device = {}
      PROVE  MediaStep
  BY <1>4 DEF MediaInv, OutputsRoutable, OneRecording, MediaStep, OutputKept, RecordingKept
<1>5. Frame(adev) /\ adev \in DeviceType
  BY <1>1 DEF Routed, Core, Frame
<1>6. ASSUME NEW mode \in Modes, adev_set_mode(mode) PROVE MediaStep
  <2> DEFINE a == [adev EXCEPT !.mode = mode]
  <2>1. Frame(a) /\ a.mode = mode /\ SameInput(adev, a) /\ a.out_device = adev.out_device
    BY <1>5 DEF Frame, DeviceType, Sco, CacheTrue, PathTrue, SameInput
  <2>2. UNCHANGED <<outs, ins>>
    BY <1>6 DEF adev_set_mode
  <2>3. adev' \in IF mode = "IN_CALL" /\ ~a.in_call THEN {EnterCall(a, e) : e \in Env}
                   ELSE IF mode # "IN_CALL" /\ a.in_call THEN {LeaveCall(a, e) : e \in Env}
                   ELSE {a}
    BY <1>6 DEF adev_set_mode
  <2> HIDE DEF a
  <2>4. CASE mode = "IN_CALL" /\ ~a.in_call
    <3>1. PICK e \in Env : adev' = EnterCall(a, e)
      BY <2>3, <2>4
    <3>2. adev'.out_device # {} /\ adev'.in_device = a.in_device /\ adev'.in_call
      BY <2>1, <3>1, EnterCallDevices
    <3> QED
      BY <1>4, <2>1, <2>2, <2>4, <3>2 DEF SameInput
  <2>5. CASE mode # "IN_CALL" /\ a.in_call
    <3>1. PICK e \in Env : adev' = LeaveCall(a, e)
      BY <2>3, <2>5
    <3>2. adev'.out_device = a.out_device /\ adev'.in_device = a.in_device /\ ~adev'.in_call
      BY <2>1, <2>5, <3>1, LeaveCallDevices
    <3> QED
      BY <1>4, <2>1, <2>2, <2>5, <3>2 DEF SameInput
  <2>6. CASE a.in_call <=> mode = "IN_CALL"
    BY <1>4, <2>1, <2>2, <2>3, <2>6 DEF SameInput
  <2> QED
    BY <2>4, <2>5, <2>6
<1>7. ASSUME NEW nrec \in NrecValues, adev_set_parameters(nrec) PROVE MediaStep
  BY <1>4, <1>5, <1>7 DEF adev_set_parameters, DeviceType
<1>8. CASE UNCHANGED vars
  BY <1>4, <1>8 DEF vars
<1> QED
  BY <1>2, <1>3, <1>6, <1>7, <1>8 DEF Next

LEMMA InitMedia ==
  ASSUME Init
  PROVE  MediaInv
BY DEF Init, ClosedOut, ClosedIn, MediaInv, OutputsRoutable, OneRecording

LEMMA MediaInvariance == Spec => []MediaInv
<1>1. MediaInv /\ IInv /\ [Next]_vars => MediaInv'
  BY NextMedia DEF MediaStep
<1> QED
  BY <1>1, InitMedia, Invariance, PTL DEF Spec

\* In calls and outside, no standby, closing or rerouting of a stream, and no
\* start or end of a call, takes the device from an output that plays: whatever
\* fails to open, one plays to no device only if it started in a call.
THEOREM OutputsKeepTheirRoute == Spec => OutputsKeepRoute
<1>1. IInv /\ MediaInv /\ [Next]_vars => [\A t \in Outputs : OutputKept(t)]_vars
  BY NextMedia DEF MediaStep
<1> QED
  BY <1>1, Invariance, MediaInvariance, PTL DEF Spec, OutputsKeepRoute, OutputKept

\* In calls and outside, what the device records from follows the source and the
\* input device of the one stream that records, whichever changed last; only
\* the start and the end of a call change the source.
THEOREM RecordingKeepsItsRoute == Spec => RecordingKeepsRoute
<1>1. IInv /\ MediaInv /\ [Next]_vars => [\A i \in Inputs : RecordingKept(i)]_vars
  BY NextMedia DEF MediaStep
<1> QED
  BY <1>1, Invariance, MediaInvariance, PTL DEF Spec, RecordingKeepsRoute, RecordingKept

=============================================================================
