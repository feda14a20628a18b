---------------------------- MODULE MCSampleCycle ----------------------------
(* Instances of SampleCycle without the sensor module: three data types.       *)
EXTENDS SampleCycle

MCSensorTypes == {}
MCDataTypes == {"MODEM_DYNAMIC", "MODEM_STATIC", "LOCATION"}
MCConfigs == {{"location"}, {"active", "location"}}
=============================================================================
