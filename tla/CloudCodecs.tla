------------------------------ MODULE CloudCodecs ------------------------------
(***************************************************************************)
(* The codecs of the four clouds, one of which is built: aws_iot_codec.c,  *)
(* azure_iot_hub_codec.c, nrf_cloud_codec.c and lwm2m_codec.c with its     *)
(* helpers.  The data and cloud modules call one function after the other; *)
(* a sample that a failed call left behind is taken by a later one.        *)
(***************************************************************************)
EXTENDS JsonCommon

CONSTANTS
  Clouds,         \* "aws_iot", "azure_iot_hub", "nrf_cloud", "lwm2m"
  BatchCount,     \* entries of the ring buffers
  Neighbours,     \* cells around the current one in a location request, at most 2
  Window,         \* messages that a broker may send again
  MaxCalls,       \* bound: calls of the encoder
  MaxMessages,    \* bound: messages to the decoder
  MaxVersion      \* bound: versions of the device's shadow

ASSUME CodecsAssumption ==
  /\ Clouds \subseteq {"aws_iot", "azure_iot_hub", "nrf_cloud", "lwm2m"}
  /\ BatchCount \in Nat /\ Neighbours \in 0 .. 2
  /\ Window \in Nat /\ MaxCalls \in Nat /\ MaxMessages \in Nat /\ MaxVersion \in Nat

VARIABLES
  cloud,           \* the codec that is built
  ready,           \* cloud_codec_init() has returned 0
  api,             \* the function that is executed
  valid,           \* what the latest location request has: cells, Wi-Fi access points
  taken,           \* history: samples that were queued when the function was called
  calls, messages, \* spent from the bounds
  callbacks, module_evt_handler,   \* LwM2M: registered with the engine; set
  object,          \* LwM2M: the configuration object
  version_prev,    \* JSON: version of the shadow update before
  cfg,             \* the configuration, as decoded
  shadow,          \* external: latest version of the device's shadow
  handled          \* history: the versions that were applied, in order

configVars == <<messages, callbacks, module_evt_handler, object, version_prev, cfg, shadow, handled>>
vars == <<stepVars, cloud, ready, api, valid, taken, calls, configVars>>

BufferTypes == <<"static", "dynamic", "gnss", "sensor", "ui", "impact", "battery">>
Types == Range(BufferTypes) \cup {"location", "cells", "wifi", "agnss", "pgps"}
SampleOf(type) == <<type, 1>>

Root(d) == Object("root", d)
Top == Root(NoSample)
State == Object("state", NoSample)
Reported == Object("reported", NoSample)

\* Every function that builds a tree: create the root, fill it, print it, and
\* delete the root at the label "exit", whatever happened.
Document(root, body) ==
  << <<Leaving(Create(NoSample, <<root>>, << >>))>> >>
  \o body \o << <<PrintTree(root)>>, <<Free(root)>> >>

\* {"state": {"reported": {...}}}: hung together after an error too.
ReportedDocument(body, checks) ==
  LET objects == <<Top, State, Reported>> IN
  << <<Leaving(Create(NoSample, objects, objects))>> >> \o body
  \o << <<Always(Attach(NoSample, State, Reported))>>, <<Always(Attach(NoSample, Top, State))>> >>
  \o checks \o << <<PrintTree(Top)>>, <<Free(Top)>> >>

\* A sample that is not queued is an error where it is the only one.
Only(steps) == [steps EXCEPT ![1].op = "need_queued"]

---------------------------------------------------------------------------
(* AWS IoT and Azure IoT Hub                                               *)

DataOrder == <<"ui", "impact", "static", "dynamic", "gnss", "sensor", "battery">>

DataSamples(parent) ==
  [n \in DOMAIN DataOrder |->
    SampleAdd(SampleOf(DataOrder[n]), parent, << >>) \o <<NoteAdded(SampleOf(DataOrder[n]))>>]

aws_encode_data == ReportedDocument(DataSamples(Reported), << <<NeedAdded>> >>)
aws_encode_config == ReportedDocument(<<config_add(Reported)>>, << >>)
azure_encode_data == Document(Top, DataSamples(Top) \o << <<NeedAdded>> >>)
azure_encode_config == Document(Top, <<config_add(Top)>>)

json_encode_batch ==
  LET Batch(type) == batch_data_add(type, BatchCount, Top, << >>) IN
  Document(Top,
    Batch("static") \o Batch("dynamic") \o Batch("gnss") \o Batch("sensor") \o Batch("ui")
    \o Batch("impact") \o Batch("battery") \o << <<NeedAdded>> >>)
json_encode_ui == Document(Top, <<Only(ui_data_add(SampleOf("ui"), Top, << >>))>>)
json_encode_impact == Document(Top, <<Only(impact_data_add(SampleOf("impact"), Top, << >>))>>)

\* Before the first request, err is -ENODATA from the start and the empty document
\* is printed all the same.
json_encode_location(v) ==
  LET cells == neighbor_cells_data_add(SampleOf("cells"), Neighbours, Top, << >>)
      wifi == wifi_ap_data_add(SampleOf("wifi"), Top, << >>)
  IN  IF v = {}
        THEN << <<Leaving(Create(NoSample, <<Top>>, << >>))>>, <<PresetError>>,
                <<Always(PrintTree(Top))>>, <<Free(Top)>> >>
        ELSE Document(Top, (IF "cells" \in v THEN <<cells>> ELSE << >>)
                           \o (IF "wifi" \in v THEN <<wifi>> ELSE << >>))
json_encode_agnss ==
  LET d == SampleOf("agnss") IN Document(Root(d), <<agnss_request_data_add(d, Root(d), << >>)>>)
json_encode_pgps ==
  LET d == SampleOf("pgps") IN Document(Root(d), <<pgps_request_data_add(d, Root(d), << >>)>>)

\* The codec of Azure IoT Hub has a copy of each.
azure_encode_batch == json_encode_batch
azure_encode_ui == json_encode_ui
azure_encode_impact == json_encode_impact
azure_encode_location(v) == json_encode_location(v)
azure_encode_agnss == json_encode_agnss
azure_encode_pgps == json_encode_pgps

---------------------------------------------------------------------------
(* nRF Cloud                                                               *)

\* add_data() with a string: an object of its own in the array of the message.
nrf_add_data(o, d, up) ==
  <<Create(d, <<o>>, up), Values(d, <<o>> \o up), Attach(d, Top, o)>>
\* The same with convert_time: the time stamp is converted by add_meta_data().
nrf_add_data_now(d) ==
  LET o == Obj(d) IN
  <<IfQueued(d), Create(d, <<o>>, << >>), Values(d, <<o>>), Convert(d, <<o>>),
    Values(d, <<o>>), Attach(d, Top, o), Clear(d)>>

\* The encoder of the nRF Cloud library fills the object; a time stamp that
\* cannot be converted is left out.
nrf_add_pvt_data(d) ==
  <<IfQueued(d), Create(d, <<Obj(d)>>, << >>), TryConvert(d), Check(d, <<Obj(d)>>),
    Attach(d, Top, Obj(d)), Clear(d)>>

nrf_sensor_data(d) ==
  LET Reading(role) == nrf_add_data(Object(role, d), d, << >>) IN
  <<IfQueued(d), Convert(d, << >>)>>
  \o Reading("air quality") \o Reading("humidity") \o Reading("temperature")
  \o Reading("pressure") \o <<Clear(d)>>
nrf_impact_data(d) ==
  <<IfQueued(d), Convert(d, << >>), Check(d, << >>)>>
  \o nrf_add_data(Obj(d), d, << >>) \o <<Clear(d)>>

\* The flag is cleared when the values are in an object, which goes into a
\* message of its own afterwards; the signal strength is sent once more alone.
nrf_modem_dynamic_data(d) ==
  LET content == Object("content", d) IN
  <<IfQueued(d), Convert(d, << >>), Create(d, <<Val(d)>>, << >>), Values(d, <<Val(d)>>),
    Check(d, <<Val(d)>>), Values(d, <<Val(d)>>), Clear(d),
    Create(d, <<Obj(d)>>, <<Val(d)>>), Values(d, <<Obj(d), Val(d)>>),
    Create(d, <<content>>, <<Obj(d), Val(d)>>),
    Attach(d, content, Val(d)), Attach(d, Obj(d), content), Attach(d, Top, Obj(d))>>
  \o nrf_add_data(Object("rsrp", d), d, << >>)

add_batch_data(type) ==
  [i \in 1 .. BatchCount |->
    CASE type = "gnss"    -> nrf_add_pvt_data(<<type, i>>)
      [] type = "sensor"  -> nrf_sensor_data(<<type, i>>)
      [] type = "impact"  -> nrf_impact_data(<<type, i>>)
      [] type = "dynamic" -> nrf_modem_dynamic_data(<<type, i>>)
      [] OTHER            -> nrf_add_data_now(<<type, i>>)]

nrf_encode_batch ==
  Document(Top,
    add_batch_data("gnss") \o add_batch_data("sensor") \o add_batch_data("ui")
    \o add_batch_data("impact") \o add_batch_data("battery") \o add_batch_data("dynamic")
    \o << <<NeedElements(Top)>> >>)

\* A press, an impact: the flag is cleared when the text exists.
nrf_encode_sample(d) ==
  << <<NeedQueued(d, << >>), Leaving(Create(NoSample, <<Root(d)>>, << >>)), Values(NoSample, << >>),
       Convert(d, << >>), Values(NoSample, << >>), PrintTree(Root(d)), Clear(d)>>,
     <<Free(Root(d))>> >>
nrf_encode_ui == nrf_encode_sample(SampleOf("ui"))
nrf_encode_impact == nrf_encode_sample(SampleOf("impact"))
nrf_config_add(parent) == config_add(parent)   \* a copy
nrf_encode_config == ReportedDocument(<<nrf_config_add(Reported)>>, << >>)

\* The request is created and printed by the nRF Cloud library.
nrf_encode_location ==
  LET d == SampleOf("location") IN
  << <<NeedQueued(d, << >>), Create(NoSample, <<Root(d)>>, << >>), PrintTree(Root(d)), Clear(d)>>,
     <<Free(Root(d))>> >>

\* The library has requests of its own.
nrf_encode_agnss == << <<Clear(SampleOf("agnss")), NotSupported>> >>
nrf_encode_pgps == << <<Clear(SampleOf("pgps")), NotSupported>> >>

---------------------------------------------------------------------------
(* LwM2M: samples are written to the objects of the engine, and the paths  *)
(* of the objects listed for the message.  A function returns at its first *)
(* error.                                                                  *)

set_gnss_data(d) == <<IfQueued(d), Convert(d, << >>), Write(d)>>
set_modem_dynamic_data(d) == <<IfQueued(d), Check(d, << >>), Write(d)>>
set_modem_static_data(d) == <<IfQueued(d), Write(d)>>
set_battery_data(d) == <<IfQueued(d), Write(d)>>
set_sensor_data(d) == <<IfQueued(d), Convert(d, << >>), Write(d)>>
set_user_interface_data(d) == <<NeedQueued(d, << >>), Check(d, << >>), Convert(d, << >>), Write(d)>>
set_neighbor_cell_data(d) == <<NeedQueued(d, << >>), Write(d)>>
set_agnss_data(d) == <<NeedQueued(d, << >>), Write(d)>>
set_pgps_data(d) == <<NeedQueued(d, << >>), Write(d)>>

\* set: the steps that write a sample; n: the paths that are listed for it.
Listed(set, n) ==
  LET d == set[1].d IN set \o <<AddPaths(d, n), Clear(d), NoteAdded(d)>>

lwm2m_encode_data_one_path_more ==
  <<Listed(set_gnss_data(SampleOf("gnss")), 1),
    Listed(set_modem_dynamic_data(SampleOf("dynamic")), 2),
    Listed(set_modem_static_data(SampleOf("static")), 6),
    Listed(set_battery_data(SampleOf("battery")), 1),
    Listed(set_sensor_data(SampleOf("sensor")), 6),
    <<NeedAdded>> >>
lwm2m_encode_data ==
  <<Listed(set_gnss_data(SampleOf("gnss")), 1),
    Listed(set_modem_dynamic_data(SampleOf("dynamic")), 2),
    Listed(set_modem_static_data(SampleOf("static")), 5),
    Listed(set_battery_data(SampleOf("battery")), 1),
    Listed(set_sensor_data(SampleOf("sensor")), 6),
    <<NeedAdded>> >>
lwm2m_encode_ui ==
  LET d == SampleOf("ui") IN <<set_user_interface_data(d) \o <<AddPaths(d, 1), Clear(d)>> >>
\* The flag of the cells is tested, that of the request is cleared.
lwm2m_encode_location ==
  <<set_neighbor_cell_data(SampleOf("cells")) \o <<Clear(SampleOf("location"))>> >>
lwm2m_encode_agnss == LET d == SampleOf("agnss") IN <<set_agnss_data(d) \o <<Clear(d)>> >>
lwm2m_encode_pgps == LET d == SampleOf("pgps") IN <<set_pgps_data(d) \o <<Clear(d)>> >>

---------------------------------------------------------------------------
(* The interface of cloud_codec.h                                          *)

encode_data(c) ==
  CASE c = "aws_iot"       -> aws_encode_data
    [] c = "azure_iot_hub" -> azure_encode_data
    [] c = "nrf_cloud"     -> << <<NotSupported>> >>
    [] c = "lwm2m"         -> lwm2m_encode_data
encode_batch_data(c) ==
  CASE c = "aws_iot"       -> json_encode_batch
    [] c = "azure_iot_hub" -> azure_encode_batch
    [] c = "nrf_cloud"     -> nrf_encode_batch
    [] c = "lwm2m"         -> << <<NotSupported>> >>
encode_config(c) ==
  CASE c = "aws_iot"       -> aws_encode_config
    [] c = "azure_iot_hub" -> azure_encode_config
    [] c = "nrf_cloud"     -> nrf_encode_config
    [] c = "lwm2m"         -> << <<NotSupported>> >>
encode_ui_data(c) ==
  CASE c = "aws_iot"       -> json_encode_ui
    [] c = "azure_iot_hub" -> azure_encode_ui
    [] c = "nrf_cloud"     -> nrf_encode_ui
    [] c = "lwm2m"         -> lwm2m_encode_ui
encode_impact_data(c) ==
  CASE c = "aws_iot"       -> json_encode_impact
    [] c = "azure_iot_hub" -> azure_encode_impact
    [] c = "nrf_cloud"     -> nrf_encode_impact
    [] c = "lwm2m"         -> << <<NotSupported>> >>
encode_cloud_location(c, v) ==
  CASE c = "aws_iot"       -> json_encode_location(v)
    [] c = "azure_iot_hub" -> azure_encode_location(v)
    [] c = "nrf_cloud"     -> nrf_encode_location
    [] c = "lwm2m"         -> lwm2m_encode_location
encode_agnss_request(c) ==
  CASE c = "aws_iot"       -> json_encode_agnss
    [] c = "azure_iot_hub" -> azure_encode_agnss
    [] c = "nrf_cloud"     -> nrf_encode_agnss
    [] c = "lwm2m"         -> lwm2m_encode_agnss
encode_pgps_request(c) ==
  CASE c = "aws_iot"       -> json_encode_pgps
    [] c = "azure_iot_hub" -> azure_encode_pgps
    [] c = "nrf_cloud"     -> nrf_encode_pgps
    [] c = "lwm2m"         -> lwm2m_encode_pgps

Settings == {"mode", "timeouts"}

\* cloud_codec_init(): nothing to do but for LwM2M, which writes the configuration
\* to its object before it asks to be told of writes, and sets the handler last.
create_objects_and_resources == <<Write(NoSample)>>
setup_resources == <<Write(NoSample)>>
set_configuration == Step("set_config", NoSample, << >>, << >>)
set_callback_for_config_object == Step("set_callbacks", NoSample, << >>, << >>)
\* As a mutant, in the other order.
setup_registers_first == <<set_callback_for_config_object, set_configuration>>
setup_configuration_object == <<set_configuration, set_callback_for_config_object>>
lwm2m_init ==
  <<create_objects_and_resources \o setup_resources \o setup_configuration_object
    \o <<Step("set_handler", NoSample, << >>, << >>)>> >>
codec_init(c) == IF c = "lwm2m" THEN lwm2m_init ELSE << >>

Apis == {"data", "batch", "config", "ui", "impact", "location", "agnss", "pgps"}
Valid == SUBSET {"cells", "wifi"}

\* The steps of the function a for the cloud c; v is what a location request has.
ScriptOf(c, a, v) ==
  CASE a = "init"     -> codec_init(c)
    [] a = "data"     -> encode_data(c)
    [] a = "batch"    -> encode_batch_data(c)
    [] a = "config"   -> encode_config(c)
    [] a = "ui"       -> encode_ui_data(c)
    [] a = "impact"   -> encode_impact_data(c)
    [] a = "location" -> encode_cloud_location(c, v)
    [] a = "agnss"    -> encode_agnss_request(c)
    [] a = "pgps"     -> encode_pgps_request(c)
Scripts == [c \in Clouds |-> [a \in Apis \cup {"init"} |-> [v \in Valid |-> ScriptOf(c, a, v)]]]
Script(a) == Scripts[cloud][a][valid]

---------------------------------------------------------------------------

Idle == fn = 0
Returned == fn = Len(Script(api)) + 1

Init ==
  /\ fn = 1 /\ pc = 1 /\ err = "ok" /\ heap = EmptyHeap
  /\ queued = {} /\ converted = {} /\ doc = {} /\ paths = 0 /\ unadded = 0
  /\ object_added = FALSE
  /\ cloud \in Clouds /\ ready = FALSE /\ api = "init" /\ valid = {} /\ taken = {}
  \* Encoders and decoders share nothing: a behaviour is about the one or the other.
  /\ \/ calls = 0 /\ messages = MaxMessages
     \/ calls = MaxCalls /\ messages = 0
  /\ callbacks = FALSE /\ module_evt_handler = FALSE
  /\ object = [s \in Settings |-> 0] /\ cfg = [s \in Settings |-> 0]
  /\ version_prev = 0 /\ shadow = 0 /\ handled = << >>

\* The samples a function looks at.
Looked(scr) ==
  UNION {{f[n].d : n \in {m \in DOMAIN f : f[m].op \in {"if_queued", "need_queued"}}} : f \in Range(scr)}

\* Samples that arrive before a call: all, none, or for the first call any one.
Arrivals(samples) ==
  {{}, samples} \cup IF calls = 0 THEN {{d} : d \in samples} ELSE {}

\* data_encode() asks for the location whenever it runs, with a new request or
\* without; a request replaces the one before.
Request ==
  \/ UNCHANGED <<valid, queued, converted>>
  \/ \E v \in Valid \ {{}} :
       LET new == {SampleOf(type) : type \in v \cup {"location"}} IN
       /\ valid' = v
       /\ queued' = (queued \ {SampleOf("cells"), SampleOf("wifi")}) \cup new
       /\ converted' = converted \ new

\* A later call meets what the one before has left behind.
Call(a) ==
  /\ Idle /\ ready /\ calls < MaxCalls
  /\ calls' = calls + 1 /\ api' = a /\ fn' = 1 /\ pc' = 1 /\ err' = "ok"
  /\ heap' = EmptyHeap /\ doc' = {} /\ paths' = 0 /\ unadded' = 0 /\ object_added' = FALSE
  /\ IF a = "location" THEN Request
     ELSE /\ \E new \in Arrivals(Looked(Script(a))) :
               queued' = queued \cup new /\ converted' = converted \ new
          /\ UNCHANGED valid
  /\ taken' = queued'
  /\ UNCHANGED <<cloud, ready, configVars>>

\* The caller takes the text and frees it when it is sent.
Return ==
  /\ ~Idle /\ Returned
  /\ fn' = 0 /\ pc' = 1 /\ err' = "ok" /\ doc' = {} /\ taken' = {}
  /\ paths' = 0 /\ unadded' = 0 /\ object_added' = FALSE
  /\ ready' = (ready \/ err = "ok")
  /\ heap' = [EmptyHeap EXCEPT !.fault = heap.fault]
  /\ UNCHANGED <<queued, converted, cloud, api, valid, calls, configVars>>

Encode ==
  /\ ~Idle /\ ~Returned
  /\ \E scr \in {Script(api)} : Perform(scr)
  /\ UNCHANGED <<cloud, ready, api, valid, taken, calls, configVars>>

\* The last steps of the initialisation.  The engine calls back for a write of
\* the device's own too; an error leaves some of the callbacks registered.
InitStep ==
  /\ ~Idle /\ ~Returned
  /\ \E scr \in {Script(api)} : LET s == scr[fn][pc] IN
     \/ /\ s.op = "set_config"
        /\ \/ Go(scr) /\ heap' = [heap EXCEPT !.fault = @ \/ (callbacks /\ ~module_evt_handler)]
           \/ Abort(scr, s, "ENOENT")
        /\ UNCHANGED <<callbacks, module_evt_handler>>
     \/ /\ s.op = "set_callbacks" /\ callbacks' = TRUE
        /\ \/ Go(scr) /\ UNCHANGED heap
           \/ Abort(scr, s, "ENOENT")
        /\ UNCHANGED module_evt_handler
     \/ /\ s.op = "set_handler" /\ module_evt_handler' = TRUE
        /\ UNCHANGED <<heap, callbacks>> /\ Go(scr)
  /\ UNCHANGED <<queued, converted, paths, unadded, object_added, doc, cloud, ready, api, valid,
                 taken, calls, messages, object, version_prev, cfg, shadow, handled>>

---------------------------------------------------------------------------
(* Configuration from the cloud                                            *)

\* All the settings, or an error.
get_configuration_object(now) == {now, cfg}

\* The server writes a setting of the object: the callback reads them all, or
\* fails and tells nobody.
config_update_cb ==
  /\ Idle /\ ready /\ cloud = "lwm2m" /\ shadow < MaxVersion /\ messages < MaxMessages
  /\ messages' = messages + 1 /\ shadow' = shadow + 1
  /\ \E s \in Settings :
       /\ object' = [object EXCEPT ![s] = shadow']
       /\ cfg' \in get_configuration_object(object')
  /\ UNCHANGED <<stepVars, cloud, ready, api, valid, taken, calls, callbacks, module_evt_handler,
                 version_prev, handled>>

\* A mutant of the definition below it: the version of the last update is taken again.
been_handled_if_lower(version) ==
  cloud \in {"aws_iot", "nrf_cloud"} /\ version_prev > version
\* TRUE if the version says that the update has been handled before.
has_shadow_update_been_handled(version) ==
  cloud \in {"aws_iot", "nrf_cloud"} /\ version_prev >= version
\* An update with the settings new, which may be none of the configuration's.
decode_config(version, new) ==
  IF has_shadow_update_been_handled(version) \/ new = << >>
  THEN UNCHANGED <<cfg, handled>>
  ELSE cfg' = config_get(cfg, new) /\ handled' = Append(handled, version)

\* The broker sends the next version, or one of the latest Window again.
ShadowUpdate ==
  /\ Idle /\ ready /\ cloud # "lwm2m" /\ messages < MaxMessages
  /\ messages' = messages + 1
  /\ \E version \in {shadow + 1} \cup {v \in 1 .. shadow : v + Window > shadow} :
       /\ version <= MaxVersion
       /\ shadow' = IF version > shadow THEN version ELSE shadow
       /\ version_prev' = IF cloud = "azure_iot_hub" THEN version_prev ELSE version
       /\ \E present \in SUBSET Settings : decode_config(version, [s \in present |-> version])
  /\ heap' = EmptyHeap
  /\ UNCHANGED <<fn, pc, err, queued, converted, paths, unadded, object_added, doc, cloud, ready, api,
                 valid, taken, calls, callbacks, module_evt_handler, object>>

\* Text that is not an object, or for nRF Cloud a message of its own: returned
\* before the label "exit", with the parsed tree left on the heap.
RefusedMessage ==
  /\ Idle /\ ready /\ cloud # "lwm2m" /\ messages < MaxMessages
  /\ heap' = Alloc(EmptyHeap, {Object("parsed", NoSample)})
  /\ UNCHANGED <<fn, pc, err, queued, converted, paths, unadded, object_added, doc, cloud, ready, api,
                 valid, taken, calls, configVars>>

Next ==
  \/ \E a \in Apis : Call(a)
  \/ Encode \/ InitStep \/ Return
  \/ config_update_cb \/ ShadowUpdate \/ RefusedMessage

Spec == Init /\ [][Next]_vars

---------------------------------------------------------------------------
(* Properties                                                              *)

Done == ~Idle /\ Returned
AllSamples == {<<type, i>> : type \in Types, i \in 1 .. Max({1, BatchCount})}
Errors == {"ok", "ENOMEM", "EINVAL", "ENODATA", "ENOTSUP", "ENOENT", "EPATHS"}

CodecTypeOK ==
  /\ fn \in 0 .. Len(Script(api)) + 1 /\ err \in Errors
  /\ pc \in 1 .. IF Idle \/ Returned THEN 1 ELSE Len(Script(api)[fn])
  /\ heap.in \subseteq heap.live \X heap.live /\ heap.live \subseteq heap.made
  /\ queued \subseteq AllSamples /\ converted \subseteq AllSamples
  /\ doc \subseteq AllSamples /\ taken \subseteq AllSamples
  /\ cfg \in [Settings -> 0 .. MaxVersion]
  /\ paths \in 0 .. PathListSize /\ unadded \in 0 .. MaxUnadded

\* Whichever allocation fails (json_common.c and the codecs, every "exit" label
\* and every early return): no object is deleted twice or while it is part of
\* another one, nothing is hung into what is gone, the LwM2M callback finds its
\* handler, and a call leaves nothing on the heap but the text it returns.
\* Excused is the one call that does, whenever it is made: the text of the empty
\* location request is returned with an error and so never freed.
Excused == cloud \in {"aws_iot", "azure_iot_hub"} /\ api = "location" /\ valid = {}
NothingLeft == Done => heap.live \subseteq (IF err = "ok" THEN {Text} ELSE {})
HeapSound == ~heap.fault /\ (NothingLeft \/ Excused)

\* A sample that goes into a message does not go into the next one as well: its
\* flag is cleared wherever a codec takes it ("queued: Flag signifying that the
\* data entry is to be encoded", cloud_codec.h).  Only the cells of an LwM2M
\* location request keep theirs.
SentOnceButCells == Done /\ err = "ok" => doc \cap queued \subseteq {<<"cells", 1>>}

\* A location request with cells and too few access points (json_common.c:729): the
\* codecs of AWS IoT and Azure give it up with -ENODATA, which data_encode() takes for
\* nothing to send.  The flag of the access points stays up, that of the cells is down.
TooFewAccessPoints ==
  /\ cloud \in {"aws_iot", "azure_iot_hub"} /\ api = "location" /\ valid = {"cells", "wifi"}
  /\ err = "ENODATA" /\ <<"wifi", 1>> \in queued

\* A sample whose flag a call has cleared is in the message, or the call returns
\* an error that the data module reports, or a helper of json_helpers.c has
\* deleted an item it could not add.  Two exceptions: the cells of a request with too
\* few access points are lost, against what cloud_codec.h:316 says of -ENODATA, and the
\* location request of LwM2M loses its flag in place of the cells that are sent (see
\* SentOnceButCells).
LossIsReported ==
  Done /\ err \in {"ok", "ENODATA"} /\ unadded = 0 =>
    \A d \in taken : \/ d \in doc \cup queued
                     \/ cloud = "lwm2m" /\ d[1] = "location"
                     \/ TooFewAccessPoints /\ d[1] = "cells"

\* The paths of all the objects of a message fit into its list, which
\* overlay-lwm2m.conf makes exactly as long as they are.
PathsFit == err # "EPATHS"

\* aws_iot_codec.c:23: has_shadow_update_been_handled() "determines if it has already
\* been handled": no version of the shadow is applied twice and none after a later one.
\* It holds as long as a broker repeats the latest message only.
AppliedInOrder ==
  cloud \in {"aws_iot", "nrf_cloud"} =>
    \A i, j \in DOMAIN handled : i < j => handled[i] < handled[j]
=============================================================================
