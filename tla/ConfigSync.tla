------------------------------ MODULE ConfigSync ------------------------------
(***************************************************************************)
(* How the device's configuration follows the cloud's: the cloud module    *)
(* decodes an update into its own copy, in the thread of the cloud         *)
(* library (cloud_module.c, config_data_handle); the data module puts it   *)
(* in force, stores it, hands it to the other modules and reports it       *)
(* (data_module.c, new_config_handle); the cloud module's thread takes     *)
(* what the data module hands out as its new copy, while the library may   *)
(* be decoding the next update into it.                                    *)
(*                                                                         *)
(* An event goes through the queue of the event manager and that of the    *)
(* module; each event here has one receiver that matters, and the two      *)
(* queues on its way are one.                                              *)
(***************************************************************************)
EXTENDS Naturals, Sequences, Functions

CONSTANTS
  Settings,      \* of struct cloud_data_cfg
  Positive,      \* those of which only values above 0 are taken
  Values,
  Default,       \* the configuration the device is built with
  MaxChanges,    \* bound: changes a user makes to the cloud's configuration
  MaxDrops,      \* bound: lost connections
  MaxReboots     \* bound: reboots

ASSUME ConfigAssumption ==
  /\ Positive \subseteq Settings /\ Values \subseteq Nat
  /\ Default \in [Settings -> Values] /\ \A s \in Positive : Default[s] > 0
  /\ MaxChanges \in Nat /\ MaxDrops \in Nat /\ MaxReboots \in Nat

VARIABLES
  current_cfg,       \* data module: the configuration in force
  flash,             \* what settings_save_one() has stored
  copy_cfg,          \* cloud module: its copy
  lib,               \* thread of the cloud library: the settings it has yet to decode
  decoding,          \* it has a message to report when it has decoded them
  assigning,         \* cloud module's thread: what it has yet to copy of CONFIG_READY
  dataQ,             \* to the data module: CONFIG_RECEIVED, CONFIG_EMPTY
  cloudQ,            \* to the cloud module: CONFIG_READY, CONFIG_SEND
  pending,           \* reports in the QoS library
  link,              \* connected to the cloud
  desired, reported, \* external: the two halves of the device's shadow
  inbox,             \* external: updates on their way to the device
  changes, drops, reboots

dataVars == <<current_cfg, flash>>
cloudVars == <<copy_cfg, lib, decoding, assigning, pending>>
shadowVars == <<desired, reported, inbox>>
bounds == <<changes, drops, reboots>>
vars == <<dataVars, cloudVars, dataQ, cloudQ, link, shadowVars, bounds>>

Accepted(s, v) == s \in Positive => v > 0

Init ==
  /\ current_cfg = Default /\ flash = Default /\ copy_cfg = Default
  /\ lib = << >> /\ decoding = FALSE /\ assigning = << >> /\ pending = {}
  /\ dataQ = << >> /\ cloudQ = << >>
  /\ link = FALSE /\ desired = << >> /\ reported = << >> /\ inbox = << >>
  /\ changes = 0 /\ drops = 0 /\ reboots = 0

---------------------------------------------------------------------------
(* The cloud.  An update of either half that leaves them different is      *)
(* published, as the settings that differ; a device that connects is given *)
(* all that is desired ("the nRF Cloud library automatically requests the  *)
(* cloud-side state upon an established connection").                      *)

Delta(d, r) == Restrict(d, {s \in DOMAIN d : s \notin DOMAIN r \/ d[s] # r[s]})
Published(d, r) == IF link /\ Delta(d, r) # << >> THEN Append(inbox, Delta(d, r)) ELSE inbox

With(d, s, v) == [t \in DOMAIN d \cup {s} |-> IF t = s THEN v ELSE d[t]]

UserChange ==
  /\ changes < MaxChanges
  /\ changes' = changes + 1
  /\ \E s \in Settings, v \in Values : desired' = With(desired, s, v)
  /\ inbox' = Published(desired', reported)
  /\ UNCHANGED <<dataVars, cloudVars, dataQ, cloudQ, link, reported, drops, reboots>>

Connect ==
  /\ ~link
  /\ link' = TRUE
  /\ inbox' = Append(inbox, desired)
  /\ UNCHANGED <<dataVars, cloudVars, dataQ, cloudQ, desired, reported, bounds>>

Disconnect ==
  /\ link /\ drops < MaxDrops
  /\ link' = FALSE /\ drops' = drops + 1 /\ inbox' = << >>
  /\ UNCHANGED <<dataVars, cloudVars, dataQ, cloudQ, desired, reported, changes, reboots>>

\* CONFIG_INIT hands the stored configuration to the cloud module before it connects.
Reboot ==
  /\ reboots < MaxReboots
  /\ reboots' = reboots + 1
  /\ current_cfg' = flash /\ copy_cfg' = flash
  /\ lib' = << >> /\ decoding' = FALSE /\ assigning' = << >> /\ pending' = {}
  /\ dataQ' = << >> /\ cloudQ' = << >> /\ link' = FALSE /\ inbox' = << >>
  /\ UNCHANGED <<flash, desired, reported, changes, drops>>

---------------------------------------------------------------------------
(* The cloud module *)

\* config_data_handle() begins with a message; one without settings is empty.
config_data_handle ==
  /\ inbox # << >> /\ ~decoding
  /\ inbox' = Tail(inbox)
  /\ IF Head(inbox) = << >>
       THEN dataQ' = Append(dataQ, [type |-> "EMPTY"]) /\ UNCHANGED <<lib, decoding>>
       ELSE lib' = Head(inbox) /\ decoding' = TRUE /\ UNCHANGED dataQ
  /\ UNCHANGED <<dataVars, copy_cfg, assigning, pending, cloudQ, link, desired, reported, bounds>>

\* cloud_codec_decode_config() writes the settings of the message one by one.
DecodeSetting ==
  /\ \E s \in DOMAIN lib :
       /\ copy_cfg' = [copy_cfg EXCEPT ![s] = lib[s]]
       /\ lib' = Restrict(lib, DOMAIN lib \ {s})
  /\ UNCHANGED <<dataVars, decoding, assigning, pending, dataQ, cloudQ, link, shadowVars, bounds>>

send_config_received ==
  /\ decoding /\ lib = << >>
  /\ decoding' = FALSE
  /\ dataQ' = Append(dataQ, [type |-> "RECEIVED", cfg |-> copy_cfg])
  /\ UNCHANGED <<dataVars, copy_cfg, lib, assigning, pending, cloudQ, link, shadowVars, bounds>>

LibraryThread == config_data_handle \/ DecodeSetting \/ send_config_received

\* CONFIG_READY: copy_cfg = cfg, setting by setting.
TakeReady ==
  /\ assigning = << >> /\ cloudQ # << >> /\ Head(cloudQ).type = "READY"
  /\ assigning' = Head(cloudQ).cfg /\ cloudQ' = Tail(cloudQ)
  /\ UNCHANGED <<dataVars, copy_cfg, lib, decoding, pending, dataQ, link, shadowVars, bounds>>
AssignSetting ==
  /\ \E s \in DOMAIN assigning :
       /\ copy_cfg' = [copy_cfg EXCEPT ![s] = assigning[s]]
       /\ assigning' = Restrict(assigning, DOMAIN assigning \ {s})
  /\ UNCHANGED <<dataVars, lib, decoding, pending, dataQ, cloudQ, link, shadowVars, bounds>>

\* CONFIG_SEND goes to the QoS library, unless LTE is lost, when it is ignored.
TakeSend ==
  /\ assigning = << >> /\ cloudQ # << >> /\ Head(cloudQ).type = "SEND"
  /\ cloudQ' = Tail(cloudQ)
  /\ \/ pending' = pending \cup {Head(cloudQ).cfg}
     \/ ~link /\ UNCHANGED pending
  /\ UNCHANGED <<dataVars, copy_cfg, lib, decoding, assigning, dataQ, link, shadowVars, bounds>>

CloudThread == TakeReady \/ AssignSetting \/ TakeSend

\* The library notifies of its messages in an order of its own; a report that
\* reaches the cloud replaces the one before.
SendReport ==
  /\ link
  /\ \E c \in pending :
       /\ pending' = pending \ {c}
       /\ reported' = c
       /\ inbox' = Published(desired, c)
  /\ UNCHANGED <<dataVars, copy_cfg, lib, decoding, assigning, dataQ, cloudQ, link, desired, bounds>>

---------------------------------------------------------------------------
(* The data module *)

Ready(c) == [type |-> "READY", cfg |-> c]
Send(c) == [type |-> "SEND", cfg |-> c]

\* The settings of a received configuration that may be put in force; the others
\* keep their value (in the mutants: are taken too, or are lost).
AppliedUnchecked(new) == new
AppliedPartly(new) == Restrict(new, {s \in Settings : Accepted(s, new[s])})
Applied(new) == [s \in Settings |-> IF Accepted(s, new[s]) THEN new[s] ELSE current_cfg[s]]

\* Mutants of the definition after them: report changes only; hand out first.
new_config_handle_reports_changes(new) ==
  /\ current_cfg' = Applied(new)
  /\ IF current_cfg' # current_cfg
       THEN flash' \in {flash, current_cfg'}
            /\ cloudQ' = cloudQ \o <<Ready(current_cfg'), Send(current_cfg')>>
       ELSE UNCHANGED <<flash, cloudQ>>
new_config_handle_distributes_first(new) ==
  /\ current_cfg' = Applied(new)
  /\ IF current_cfg' # current_cfg
       THEN flash' \in {flash, current_cfg'}
            /\ cloudQ' = cloudQ \o <<Ready(current_cfg), Send(current_cfg')>>
       ELSE flash' = flash /\ cloudQ' = Append(cloudQ, Send(current_cfg))

\* A configuration that cannot be stored is in force all the same, and handed
\* out; every one received is answered with a report.
new_config_handle(new) ==
  /\ current_cfg' = Applied(new)
  /\ IF current_cfg' # current_cfg
       THEN flash' \in {flash, current_cfg'}
            /\ cloudQ' = cloudQ \o <<Ready(current_cfg'), Send(current_cfg')>>
       ELSE flash' = flash /\ cloudQ' = Append(cloudQ, Send(current_cfg))

config_send == cloudQ' = Append(cloudQ, Send(current_cfg)) /\ UNCHANGED dataVars
config_send_nothing == UNCHANGED <<cloudQ, dataVars>>
on_config_empty == config_send

DataThread ==
  /\ dataQ # << >>
  /\ dataQ' = Tail(dataQ)
  /\ IF Head(dataQ).type = "EMPTY" THEN on_config_empty
                                  ELSE new_config_handle(Head(dataQ).cfg)
  /\ UNCHANGED <<cloudVars, link, shadowVars, bounds>>

---------------------------------------------------------------------------

Next ==
  \/ UserChange \/ Connect \/ Disconnect \/ Reboot
  \/ LibraryThread \/ CloudThread \/ SendReport \/ DataThread

Spec == Init /\ [][Next]_vars

\* The threads run, and the QoS library retries while there is a connection.
Fairness ==
  /\ WF_vars(LibraryThread) /\ WF_vars(CloudThread)
  /\ WF_vars(SendReport) /\ WF_vars(DataThread)
FairSpec == Spec /\ Fairness

---------------------------------------------------------------------------
(* Properties *)

Config == [Settings -> Values]
Partial == UNION {[S -> Values] : S \in SUBSET Settings}
DataMessages == [type : {"EMPTY"}] \cup [type : {"RECEIVED"}, cfg : Config]
CloudMessages == [type : {"READY", "SEND"}, cfg : Config]

\* Configurations are complete, also those of a partial update: the settings it
\* does not name come from the cloud module's copy ("This way we avoid sending
\* uninitialized variables to the Data module", cloud_module.c).
ConfigTypeOK ==
  /\ current_cfg \in Config /\ flash \in Config /\ copy_cfg \in Config
  /\ lib \in Partial /\ assigning \in Partial /\ desired \in Partial /\ reported \in Partial
  /\ dataQ \in Seq(DataMessages) /\ cloudQ \in Seq(CloudMessages)
  /\ pending \subseteq Config /\ inbox \in Seq(Partial)
  /\ decoding \in BOOLEAN /\ link \in BOOLEAN

\* No value out of range is ever in force, stored or handed to the modules
\* (new_config_handle, the guards on the timeouts), although the cloud module's
\* copy may hold one for as long as nothing else changes.
OnlyAccepted ==
  \A c \in {current_cfg, flash} \cup {cloudQ[n].cfg : n \in DOMAIN cloudQ} :
    \A s \in Settings : Accepted(s, c[s])

\* When no event is on its way, the cloud module's copy is what is in force, but
\* for values out of range: what was handed out last has overwritten, or been
\* overwritten by, what the library decoded at the same time (cloud_module.c,
\* on_all_states and config_data_handle).
Quiet == dataQ = << >> /\ cloudQ = << >> /\ ~decoding /\ assigning = << >>
CopyFollows ==
  Quiet => \A s \in Settings : Accepted(s, copy_cfg[s]) => copy_cfg[s] = current_cfg[s]

\* Once the device stays connected, what the user wants comes into force and stays
\* so, although an update may be lost between the two threads, a report may be
\* lost or overtaken, and a configuration that was not stored is gone with a
\* reboot.  (Where two settings are desired, both come into force.)
Converges ==
  <>[]link => <>[](\A s \in DOMAIN desired : Accepted(s, desired[s]) => current_cfg[s] = desired[s])

\* ... and the cloud knows what is in force: "Always acknowledge all configurations
\* back to cloud to avoid a potential mismatch" (data_module.c).
CloudKnows == <>[]link => <>[](reported = current_cfg)
=============================================================================
