------------------------------ MODULE JsonCommon ------------------------------
(***************************************************************************)
(* The functions of json_common.c as sequences of steps, but for the one   *)
(* that adds a batch, which is a sequence of functions.  They are called   *)
(* by the codecs of AWS IoT and Azure IoT Hub with a parent object, the    *)
(* sample d to add to it, and up: what the caller deletes when they return *)
(* an error.                                                               *)
(***************************************************************************)
EXTENDS CodecSteps

Obj(d) == Object("obj", d)
Val(d) == Object("val", d)
List(d) == Object("list", d)

\* {"v": {...}, "ts": ...}: the values hang in an object of their own, which an
\* error before json_add_obj() deletes too.
ValueObject(d, parent, filled, up) ==
  LET both == <<Obj(d), Val(d)>> IN
    <<IfQueued(d), Convert(d, up), Create(d, both, both \o up)>>
    \o filled
    \o <<Attach(d, Obj(d), Val(d)), Values(d, <<Obj(d)>> \o up),
         Attach(d, parent, Obj(d)), Clear(d)>>
ValuesOf(d, up) == Values(d, <<Obj(d), Val(d)>> \o up)

modem_static_data_add(d, parent, up) == ValueObject(d, parent, <<ValuesOf(d, up)>>, up)
modem_dynamic_data_add(d, parent, up) ==
  ValueObject(d, parent,
    <<ValuesOf(d, up), Check(d, <<Obj(d), Val(d)>> \o up), ValuesOf(d, up)>>, up)
sensor_data_add(d, parent, up) == ValueObject(d, parent, <<ValuesOf(d, up)>>, up)
gnss_data_add(d, parent, up) == ValueObject(d, parent, <<ValuesOf(d, up)>>, up)

\* {"v": ..., "ts": ...}; first with an error that forgets the object, as a mutant.
FlatObjectForgotten(d, parent, up) ==
  <<IfQueued(d), Convert(d, up), Create(d, <<Obj(d)>>, <<Obj(d)>> \o up),
    Values(d, up), Attach(d, parent, Obj(d)), Clear(d)>>
FlatObject(d, parent, up) ==
  <<IfQueued(d), Convert(d, up), Create(d, <<Obj(d)>>, <<Obj(d)>> \o up),
    Values(d, <<Obj(d)>> \o up), Attach(d, parent, Obj(d)), Clear(d)>>

ui_data_add(d, parent, up) == FlatObject(d, parent, up)
impact_data_add(d, parent, up) == FlatObject(d, parent, up)
battery_data_never_cleared(d, parent, up) ==
  <<IfQueued(d), Convert(d, up), Create(d, <<Obj(d)>>, <<Obj(d)>> \o up),
    Values(d, <<Obj(d)>> \o up), Attach(d, parent, Obj(d))>>
battery_data_add(d, parent, up) == FlatObject(d, parent, up)

SampleAdd(d, parent, up) ==
  CASE d[1] = "static"  -> modem_static_data_add(d, parent, up)
    [] d[1] = "dynamic" -> modem_dynamic_data_add(d, parent, up)
    [] d[1] = "sensor"  -> sensor_data_add(d, parent, up)
    [] d[1] = "gnss"    -> gnss_data_add(d, parent, up)
    [] d[1] = "ui"      -> ui_data_add(d, parent, up)
    [] d[1] = "impact"  -> impact_data_add(d, parent, up)
    [] d[1] = "battery" -> battery_data_add(d, parent, up)

\* The samples of one buffer in an array, which is left out when it has none.
batch_data_add(type, count, parent, up) ==
  LET array == Object("array", <<type, 0>>) IN
    << <<Create(NoSample, <<array>>, up)>> >>
    \o [i \in 1 .. count |-> SampleAdd(<<type, i>>, array, <<array>> \o up)]
    \o << <<AttachIfFilled(parent, array)>> >>

\* The cells around: an array of objects, one per neighbour.
neighbor_cells_data_add(d, neighbours, parent, up) ==
  LET OneCell(cell) == <<Create(d, <<cell>>, <<Obj(d), List(d)>> \o up),
                         Values(d, <<Obj(d), List(d), cell>> \o up),
                         Attach(d, List(d), cell)>>
      Cells == <<Create(d, <<List(d)>>, <<Obj(d)>> \o up)>>
               \o OneCell(Object("cell 1", d))
               \o (IF neighbours > 1 THEN OneCell(Object("cell 2", d)) ELSE << >>)
               \o <<Attach(d, Obj(d), List(d))>>
  IN  <<NeedQueued(d, up), Create(d, <<Obj(d)>>, up), Convert(d, <<Obj(d)>> \o up),
        Values(d, <<Obj(d)>> \o up)>>
      \o (IF neighbours > 0 THEN Cells ELSE << >>)
      \o <<Attach(d, parent, Obj(d)), Clear(d)>>

\* As a mutant: the flag is cleared too early.
wifi_ap_data_cleared_first(d, parent, up) ==
  <<NeedQueued(d, up), Create(d, <<Obj(d)>>, up), Convert(d, <<Obj(d)>> \o up), Clear(d),
    Values(d, <<Obj(d)>> \o up), CreateOrLeaveOut(d, List(d), <<Obj(d)>>),
    Element(d, <<List(d), Obj(d)>> \o up),
    Attach(d, Obj(d), List(d)), Attach(d, parent, Obj(d))>>
\* Without memory for the array the function returns 0 and has added nothing.
wifi_ap_data_add(d, parent, up) ==
  <<NeedQueued(d, up), Create(d, <<Obj(d)>>, up), Convert(d, <<Obj(d)>> \o up),
    Values(d, <<Obj(d)>> \o up), CheckData(d, <<Obj(d)>> \o up),
    CreateOrLeaveOut(d, List(d), <<Obj(d)>>), Element(d, <<List(d), Obj(d)>> \o up),
    Attach(d, Obj(d), List(d)), Attach(d, parent, Obj(d)), Clear(d)>>

agnss_request_data_add(d, parent, up) ==
  <<NeedQueued(d, up), Values(d, up), Create(d, <<List(d)>>, up),
    Values(d, <<List(d)>> \o up), CheckData(d, <<List(d)>> \o up),
    Attach(d, parent, List(d)), Clear(d)>>

pgps_request_data_add(d, parent, up) == <<NeedQueued(d, up), Values(d, up), Clear(d)>>

\* The array of the kinds of data not to sample is filled before it is added.
config_add(parent) ==
  LET cfg == Object("config", NoSample)  list == Object("nod_list", NoSample) IN
  <<Create(NoSample, <<cfg>>, <<cfg>>), Values(NoSample, <<cfg>>),
    Create(NoSample, <<list>>, <<cfg>>), Values(NoSample, <<list, cfg>>),
    Attach(NoSample, cfg, list), Attach(NoSample, parent, cfg)>>

config_get_from_nothing(cfg, settings) == settings
\* config_get(): the settings that a message has replace those of the copy.
config_get(cfg, settings) ==
  [s \in DOMAIN cfg |-> IF s \in DOMAIN settings THEN settings[s] ELSE cfg[s]]
===============================================================================
