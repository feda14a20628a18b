------------------------------- MODULE AppModule -------------------------------
(***************************************************************************)
(* The application module (main.c): decides when a sample request is made. *)
(* Its thread handles one message at a time; its timers expire in          *)
(* interrupt context, between any two steps of the thread.                 *)
(*                                                                         *)
(* An event is [type, data].  `data' is the list of a DATA_GET, the type   *)
(* answered by an ANSWER, or the settings of a configuration.              *)
(***************************************************************************)
EXTENDS Naturals, Sequences, FiniteSets, EventManager

CONSTANT SensorTypes   \* data types sampled by the sensor module, {} without it

AppDataTypes == {"MODEM_DYNAMIC", "MODEM_STATIC", "LOCATION"} \cup SensorTypes

\* app_cfg: active_mode is set; some location method is not in no_data.
Settings == {"active", "location"}

VARIABLES
  app_state,               \* INIT, RUNNING, SHUTDOWN
  sub_state,               \* ACTIVE, PASSIVE
  app_cfg,                 \* a subset of Settings
  modem_static_sampled,
  sample_request_ongoing,
  activity,
  initial_sampling_requested,
  timers,                  \* the running timers
  appQ                     \* msgq_app

appFlags == <<modem_static_sampled, sample_request_ongoing, activity,
              initial_sampling_requested>>
appVars == <<app_state, sub_state, app_cfg, appFlags, timers, appQ>>

Ev(type, data) == [type |-> type, data |-> data]

EventTypes == {"CONFIG_INIT", "CONFIG_READY", "ACTIVITY", "INACTIVITY", "IMPACT",
               "CLOUD_CONNECTED", "DATA_GET", "DATA_GET_ALL", "DATA_READY", "STATIC_READY",
               "ANSWER", "ERROR", "SHUTDOWN_REQUEST", "APP_SHUTDOWN_READY",
               "DATA_SHUTDOWN_READY"}

AppInit ==
  /\ app_state = "INIT"
  /\ sub_state = "ACTIVE"
  /\ app_cfg = {}
  /\ modem_static_sampled = FALSE
  /\ sample_request_ongoing = FALSE
  /\ activity = FALSE
  /\ initial_sampling_requested = FALSE
  /\ timers = {}
  /\ appQ = << >>

-----------------------------------------------------------------------------
(* Timers                                                                   *)

passive_mode_timers == {"data_sample", "movement_resolution", "movement_timeout"}
active_mode_timers == {"data_sample"}
ModeTimers(cfg) == IF "active" \in cfg THEN active_mode_timers ELSE passive_mode_timers
Mode(cfg) == IF "active" \in cfg THEN "ACTIVE" ELSE "PASSIVE"

\* data_sample_timer_handler() for a periodic timer, in interrupt context.
data_sample_timer_handler(timer) ==
  /\ timer \in timers \cap {"data_sample", "movement_timeout"}
  /\ ~sample_request_ongoing
  /\ ~(timer = "data_sample" /\ sub_state = "PASSIVE" /\ ~activity)
  /\ Submit(Ev("DATA_GET_ALL", {}))
  /\ UNCHANGED appVars

\* The one-shot resolution timer runs out; it has no handler.
ResolutionExpires ==
  /\ "movement_resolution" \in timers
  /\ timers' = timers \ {"movement_resolution"}
  /\ UNCHANGED <<app_state, sub_state, app_cfg, appFlags, appQ, events>>

-----------------------------------------------------------------------------
(* The thread.  Msg(type) takes the oldest message.                         *)

Msg(type) ==
  /\ appQ # << >>
  /\ Head(appQ).type = type
  /\ appQ' = Tail(appQ)

\* data_get(): what to sample now.
RequestList ==
  {"MODEM_DYNAMIC"} \cup SensorTypes
    \cup (IF modem_static_sampled THEN {} ELSE {"MODEM_STATIC"})
    \cup (IF "location" \in app_cfg THEN {"LOCATION"} ELSE {})
data_get == Submit(Ev("DATA_GET", RequestList))

OnConfigInit ==
  /\ Msg("CONFIG_INIT")
  /\ app_state = "INIT"
  /\ app_cfg' = Head(appQ).data
  /\ timers' = ModeTimers(app_cfg')
  /\ app_state' = "RUNNING"
  /\ sub_state' = Mode(app_cfg')
  /\ UNCHANGED <<appFlags, events>>

OnConfigReadyKeepsTimers ==
  /\ Msg("CONFIG_READY")
  /\ app_state = "RUNNING"
  /\ app_cfg' = Head(appQ).data
  /\ timers' = timers \cup ModeTimers(app_cfg')
  /\ sub_state' = Mode(app_cfg')
  /\ UNCHANGED <<app_state, appFlags, events>>

OnConfigReady ==
  /\ Msg("CONFIG_READY")
  /\ app_state = "RUNNING"
  /\ app_cfg' = Head(appQ).data
  /\ timers' = ModeTimers(app_cfg')
  /\ sub_state' = Mode(app_cfg')
  /\ UNCHANGED <<app_state, appFlags, events>>

\* activity_event_handle(), in passive mode.
OnMovement ==
  \E detected \in BOOLEAN :
    /\ Msg(IF detected THEN "ACTIVITY" ELSE "INACTIVITY")
    /\ app_state = "RUNNING" /\ sub_state = "PASSIVE"
    /\ activity' = detected
    /\ IF sample_request_ongoing \/ (detected /\ "movement_resolution" \in timers)
       THEN UNCHANGED <<events, timers>>
       ELSE /\ Submit(Ev("DATA_GET_ALL", {}))
            /\ timers' = passive_mode_timers
    /\ UNCHANGED <<app_state, sub_state, app_cfg, modem_static_sampled,
                   sample_request_ongoing, initial_sampling_requested>>

\* Only the first connection to the cloud triggers sampling.
OnCloudConnected ==
  /\ Msg("CLOUD_CONNECTED")
  /\ app_state = "RUNNING"
  /\ ~initial_sampling_requested
  /\ data_get
  /\ initial_sampling_requested' = TRUE
  /\ UNCHANGED <<app_state, sub_state, app_cfg, modem_static_sampled,
                 sample_request_ongoing, activity, timers>>

OnDataGetAll ==
  /\ Msg("DATA_GET_ALL")
  /\ app_state = "RUNNING"
  /\ data_get
  /\ UNCHANGED <<app_state, sub_state, app_cfg, appFlags, timers>>

\* on_all_events(), whatever the state.
OnAllEvents ==
  \/ /\ Msg("SHUTDOWN_REQUEST")
     /\ timers' = {}
     /\ Submit(Ev("APP_SHUTDOWN_READY", {}))
     /\ app_state' = "SHUTDOWN"
     /\ UNCHANGED <<sub_state, app_cfg, appFlags>>
  \/ /\ Msg("STATIC_READY")
     /\ modem_static_sampled' = TRUE
     /\ UNCHANGED <<app_state, sub_state, app_cfg, sample_request_ongoing, activity,
                    initial_sampling_requested, timers, events>>
  \/ /\ \/ /\ Msg("DATA_GET")
           /\ sample_request_ongoing' = TRUE
        \/ /\ Msg("DATA_READY")
           /\ sample_request_ongoing' = FALSE
     /\ UNCHANGED <<app_state, sub_state, app_cfg, modem_static_sampled, activity,
                    initial_sampling_requested, timers, events>>
  \/ /\ Msg("IMPACT")
     /\ Submit(Ev("DATA_GET_ALL", {}))
     /\ UNCHANGED <<app_state, sub_state, app_cfg, appFlags, timers>>

\* A message the current state has no handler for is dropped.
Ignored(type) ==
  CASE type = "CONFIG_INIT" -> app_state # "INIT"
    [] type \in {"CONFIG_READY", "DATA_GET_ALL"} -> app_state # "RUNNING"
    [] type \in {"ACTIVITY", "INACTIVITY"} -> ~(app_state = "RUNNING" /\ sub_state = "PASSIVE")
    [] type = "CLOUD_CONNECTED" -> app_state # "RUNNING" \/ initial_sampling_requested
    [] type \in {"SHUTDOWN_REQUEST", "STATIC_READY", "DATA_GET", "DATA_READY", "IMPACT"} -> FALSE
    [] OTHER -> TRUE

IgnoreMessage ==
  /\ appQ # << >>
  /\ Ignored(Head(appQ).type)
  /\ appQ' = Tail(appQ)
  /\ UNCHANGED <<app_state, sub_state, app_cfg, appFlags, timers, events>>

AppThread ==
  \/ OnConfigInit \/ OnConfigReady \/ OnMovement \/ OnCloudConnected
  \/ OnDataGetAll \/ OnAllEvents \/ IgnoreMessage

AppTypeOK ==
  /\ app_state \in {"INIT", "RUNNING", "SHUTDOWN"}
  /\ sub_state \in {"ACTIVE", "PASSIVE"}
  /\ app_cfg \subseteq Settings
  /\ modem_static_sampled \in BOOLEAN /\ sample_request_ongoing \in BOOLEAN
  /\ activity \in BOOLEAN /\ initial_sampling_requested \in BOOLEAN
  /\ timers \subseteq passive_mode_timers
  /\ appQ \in Seq([type : EventTypes, data : SUBSET (AppDataTypes \cup Settings)])
=============================================================================
