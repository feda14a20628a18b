------------------------------ MODULE SampleCycle ------------------------------
(***************************************************************************)
(* The sample cycle: the application module asks for data, the modem,      *)
(* sensor and location modules answer, the data module collects the        *)
(* answers and reports DATA_READY, which ends the request for the          *)
(* application module.  Composed of AppModule and DataRequests over the    *)
(* event manager; the sampling modules are reduced to the answers they     *)
(* still owe, and the utility module to the request it makes on an error.  *)
(***************************************************************************)
EXTENDS AppModule, DataRequests, MessageQueue

CONSTANTS
  QueueSize,        \* APP_QUEUE_ENTRY_COUNT and DATA_QUEUE_ENTRY_COUNT
  Configs,          \* the configurations the data module may distribute
  LocationAnswers,  \* answers one location request can give (a fallback to the
                    \* next method answers again)
  Strict,           \* TRUE: threads run by priority and only block on their queues:
                    \* the workqueue before main(), main() before the threads of the
                    \* modules, which do not preempt each other; FALSE: in any order
  MaxStimuli        \* bound: timer expirations, sensor, cloud and config events

ASSUME CycleAssumption ==
  /\ DataTypes = AppDataTypes
  /\ QueueSize \in Nat \ {0}
  /\ Configs \subseteq SUBSET Settings
  /\ LocationAnswers \in Nat \ {0}
  /\ Strict \in BOOLEAN
  /\ MaxStimuli \in Nat

VARIABLES
  owed,            \* owed[t]: answers the sampling modules may still give
  error_signaled,  \* the utility module has requested the shutdown
  stimuli

vars == <<appVars, dataVars, events, owed, error_signaled, stimuli>>

Init ==
  /\ AppInit
  /\ DataInit
  /\ \E cfg \in Configs : events = <<Ev("CONFIG_INIT", cfg)>>
  /\ owed = [t \in DataTypes |-> 0]
  /\ error_signaled = FALSE
  /\ stimuli = 0

-----------------------------------------------------------------------------
NoEvents == Strict => events = << >>
MainWaits == Strict => appQ = << >>
ThreadsWait == Strict => pc = "idle"

Stimulus == stimuli < MaxStimuli /\ stimuli' = stimuli + 1

TimerExpires ==
  /\ Stimulus /\ NoEvents
  /\ \E timer \in timers : data_sample_timer_handler(timer)
  /\ UNCHANGED <<dataVars, owed, error_signaled>>

ResolutionTimer ==
  /\ ResolutionExpires
  /\ UNCHANGED <<dataVars, owed, error_signaled, stimuli>>

\* Movement and impact from the sensor module, a connection from the cloud
\* module, a new configuration from the data module.
OutsideEvent ==
  /\ Stimulus /\ NoEvents /\ MainWaits /\ ThreadsWait
  /\ \/ \E type \in {"ACTIVITY", "INACTIVITY", "IMPACT", "CLOUD_CONNECTED"} : Submit(Ev(type, {}))
     \/ \E cfg \in Configs : Submit(Ev("CONFIG_READY", cfg))
  /\ UNCHANGED <<appVars, dataVars, owed, error_signaled>>

\* A sampling module answers: data ready, not ready, not supported or timed out.
Answer(t) ==
  /\ NoEvents /\ MainWaits /\ ThreadsWait
  /\ owed[t] > 0
  /\ owed' = [owed EXCEPT ![t] = @ - 1]
  /\ \/ Submit(Ev("ANSWER", {t}))
     \/ t = "MODEM_STATIC" /\ Submit(Ev("STATIC_READY", {}))
  /\ UNCHANGED <<appVars, dataVars, error_signaled, stimuli>>

-----------------------------------------------------------------------------
\* The event manager hands out one event.  Only location events pass main.c by.
ForApp(e) == ~(e.type = "ANSWER" /\ "LOCATION" \in e.data)

\* The modem and sensor threads answer every request; the location module has one
\* search at a time, which a new request may restart.
NowOwes(t) == IF t = "LOCATION" THEN LocationAnswers ELSE owed[t] + 1

Deliver ==
  LET e == Head(events)
      appFull == ForApp(e) /\ Overflows(appQ, QueueSize)
      dataFull == Overflows(dataQ, QueueSize)
      shutdown == e.type = "ERROR" /\ ~error_signaled
      When(p, x) == IF p THEN <<x>> ELSE << >>
  IN
  /\ events # << >>
  /\ appQ' = IF ForApp(e) THEN Enqueue(appQ, e, QueueSize) ELSE appQ
  /\ dataQ' = Enqueue(dataQ, e, QueueSize)
  /\ events' = Tail(events)
                 \o When(appFull, Ev("ERROR", {})) \o When(dataFull, Ev("ERROR", {}))
                 \o When(shutdown, Ev("SHUTDOWN_REQUEST", {}))
  /\ error_signaled' = (error_signaled \/ shutdown)
  /\ owed' = IF e.type = "DATA_GET"
             THEN [t \in DataTypes |-> IF t \in e.data THEN NowOwes(t) ELSE owed[t]]
             ELSE owed
  /\ UNCHANGED <<app_state, sub_state, app_cfg, appFlags, timers, pc, answer, loaded,
                 counters, pending, history, stimuli>>

AppStep == NoEvents /\ AppThread /\ UNCHANGED <<dataVars, owed, error_signaled, stimuli>>
DataStep == NoEvents /\ MainWaits /\ DataThread /\ UNCHANGED <<appVars, owed, error_signaled, stimuli>>
WorkStep == NoEvents /\ TimeoutWork /\ UNCHANGED <<appVars, owed, error_signaled, stimuli>>

Next ==
  \/ TimerExpires \/ ResolutionTimer \/ OutsideEvent
  \/ \E t \in DataTypes : Answer(t)
  \/ Deliver \/ AppStep \/ DataStep \/ WorkStep

\* Threads and the system workqueue run, and the delayable work expires.  No
\* sampling module has to answer and nothing has to happen outside.
Fairness ==
  /\ WF_vars(Deliver)
  /\ WF_vars(AppStep)
  /\ WF_vars(DataStep)
  /\ WF_vars(WorkStep)

Spec == Init /\ [][Next]_vars
FairSpec == Spec /\ Fairness

-----------------------------------------------------------------------------
TypeOK ==
  /\ AppTypeOK
  /\ DataTypeOK
  /\ owed \in [DataTypes -> Nat]
  /\ error_signaled \in BOOLEAN
  /\ stimuli \in 0..MaxStimuli

\* The application never goes silent and never keeps a timer of the wrong mode:
\* after any sequence of configurations, activity and restarts of the timers, the
\* periodic timers running are those of the configuration in force, in passive
\* mode with the movement timeout that samples a device at rest; after a shutdown
\* request none runs (main.c, sub_state_set and the *_timers_start_all functions).
TimersFollowMode ==
  /\ app_state = "RUNNING" =>
       /\ sub_state = Mode(app_cfg)
       /\ timers \cup {"movement_resolution"} = ModeTimers(app_cfg) \cup {"movement_resolution"}
       /\ sub_state = "ACTIVE" => "movement_resolution" \notin timers
  /\ app_state = "SHUTDOWN" => timers = {}

\* The fail-safe of the sample timeout: whatever the sampling modules answer, a
\* request comes to its DATA_READY and the application module may sample again,
\* unless an overflow has started a reboot (main.c, data_module.c).
RequestCompletes == sample_request_ongoing ~> (~sample_request_ongoing \/ error_signaled)

\* The application module believes a request is ongoing only if its end is still
\* to come: pending, being handled, or on its way (main.c, data_module.c).
DataGetUnderway ==
  \/ pending \/ pc # "idle"
  \/ \E i \in 1..Len(dataQ) : dataQ[i].type = "DATA_GET"
ReadyUnderway ==
  \/ InFlight("DATA_READY")
  \/ \E i \in 1..Len(appQ) : appQ[i].type = "DATA_READY"
OngoingHasAnEnd ==
  sample_request_ongoing => DataGetUnderway \/ ReadyUnderway \/ InFlight("ERROR") \/ error_signaled

=============================================================================
