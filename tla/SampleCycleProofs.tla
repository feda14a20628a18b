--------------------------- MODULE SampleCycleProofs ---------------------------
(* Proofs about the data module's tracking of sample requests, in the sample    *)
(* cycle as a whole.                                                            *)
EXTENDS SampleCycle, FiniteSetTheorems, SequenceTheorems, TLAPS

-----------------------------------------------------------------------------
(* The events that travel.                                                      *)

\* A DATA_GET asks for something, it and the answers name known data types, and a
\* configuration consists of settings.
Event ==
  {e \in [type : EventTypes, data : SUBSET (DataTypes \cup Settings)] :
     /\ e.type \in {"DATA_GET", "ANSWER"} => e.data \subseteq DataTypes
     /\ e.type = "DATA_GET" => e.data # {}
     /\ e.type \in {"CONFIG_INIT", "CONFIG_READY"} => e.data \subseteq Settings}

EventsOK == events \in Seq(Event) /\ appQ \in Seq(Event) /\ dataQ \in Seq(Event)

LEMMA RequestListOK ==
  ASSUME CycleAssumption
  PROVE  RequestList \subseteq DataTypes /\ RequestList # {}
<1>1. RequestList \subseteq AppDataTypes
  BY DEF RequestList, AppDataTypes
<1>2. "MODEM_DYNAMIC" \in RequestList
  BY DEF RequestList
<1> QED BY <1>1, <1>2 DEF CycleAssumption

\* The application module submits events of that set.
LEMMA AppEvents ==
  ASSUME CycleAssumption, EventsOK, AppThread
  PROVE  events' \in Seq(Event) /\ appQ' \in Seq(Event)
<1>1. ASSUME data_get PROVE events' \in Seq(Event)
  <2>1. Ev("DATA_GET", RequestList) \in Event
    BY RequestListOK DEF Ev, Event, EventTypes
  <2> QED BY <1>1, <2>1 DEF data_get, Submit, EventsOK
<1>2. ASSUME Submit(Ev("DATA_GET_ALL", {})) PROVE events' \in Seq(Event)
  <2>1. Ev("DATA_GET_ALL", {}) \in Event
    BY DEF Ev, Event, EventTypes
  <2> QED BY <1>2, <2>1 DEF Submit, EventsOK
<1>3. ASSUME Submit(Ev("APP_SHUTDOWN_READY", {})) PROVE events' \in Seq(Event)
  <2>1. Ev("APP_SHUTDOWN_READY", {}) \in Event
    BY DEF Ev, Event, EventTypes
  <2> QED BY <1>3, <2>1 DEF Submit, EventsOK
<1>4. appQ # << >> /\ appQ' = Tail(appQ)
  BY DEF AppThread, OnConfigInit, OnConfigReady, OnMovement, OnCloudConnected, OnDataGetAll,
     OnAllEvents, IgnoreMessage, Msg
<1>5. CASE OnConfigInit \/ OnConfigReady \/ IgnoreMessage
  BY <1>4, <1>5 DEF OnConfigInit, OnConfigReady, IgnoreMessage, EventsOK
<1>6. CASE OnMovement
  BY <1>4, <1>6, <1>2 DEF OnMovement, EventsOK
<1>7. CASE OnCloudConnected
  BY <1>4, <1>7, <1>1 DEF OnCloudConnected, EventsOK
<1>8. CASE OnDataGetAll
  BY <1>4, <1>8, <1>1 DEF OnDataGetAll, EventsOK
<1>9. CASE OnAllEvents
  BY <1>4, <1>9, <1>2, <1>3 DEF OnAllEvents, EventsOK
<1> QED BY <1>5, <1>6, <1>7, <1>8, <1>9 DEF AppThread

\* So does the data module.
LEMMA DataEvents ==
  ASSUME EventsOK, DataThread \/ TimeoutWork
  PROVE  events' \in Seq(Event) /\ dataQ' \in Seq(Event)
<1>1. Ready \in Event /\ [type |-> "DATA_SHUTDOWN_READY", data |-> {}] \in Event
  BY DEF Ready, Event, EventTypes
<1>2. events' = events \/ \E e \in Event : events' = Append(events, e)
  BY <1>1 DEF Submit, DataThread, TimeoutWork, TakeDataGet, Reschedule, TakeAnswer,
     Count, Store, Compare, Send, Clear, Cancel, TakeOther
<1>3. dataQ' = dataQ \/ (dataQ # << >> /\ dataQ' = Tail(dataQ))
  BY DEF DataThread, TimeoutWork, TakeDataGet, Reschedule, TakeAnswer,
     Count, Store, Compare, Send, Clear, Cancel, TakeOther
<1>4. events' \in Seq(Event)
  BY <1>2 DEF EventsOK
<1>5. dataQ' \in Seq(Event)
  BY <1>3 DEF EventsOK
<1> QED BY <1>4, <1>5

\* The timers, the outside world and the sampling modules submit events of that
\* set too.
LEMMA OutsideEvents ==
  ASSUME CycleAssumption, EventsOK,
         \/ TimerExpires \/ ResolutionTimer \/ OutsideEvent \/ \E t \in DataTypes : Answer(t)
  PROVE  EventsOK'
<1>1. appQ' = appQ /\ dataQ' = dataQ
  BY DEF TimerExpires, data_sample_timer_handler, ResolutionTimer, ResolutionExpires,
     OutsideEvent, Answer, appVars, dataVars
<1>2. events' = events \/ \E e \in Event : events' = Append(events, e)
  <2>1. CASE TimerExpires
    <3>1. Ev("DATA_GET_ALL", {}) \in Event
      BY DEF Ev, Event, EventTypes
    <3> QED BY <2>1, <3>1 DEF Submit, TimerExpires, data_sample_timer_handler
  <2>2. CASE ResolutionTimer
    BY <2>2 DEF ResolutionTimer, ResolutionExpires
  <2>3. CASE OutsideEvent
    <3>1. \A type \in {"ACTIVITY", "INACTIVITY", "IMPACT", "CLOUD_CONNECTED"} :
            Ev(type, {}) \in Event
      BY DEF Ev, Event, EventTypes
    <3>2. \A cfg \in Configs : Ev("CONFIG_READY", cfg) \in Event
      BY DEF CycleAssumption, Ev, Event, EventTypes
    <3> QED BY <2>3, <3>1, <3>2 DEF Submit, OutsideEvent
  <2>4. ASSUME NEW t \in DataTypes, Answer(t)
        PROVE  \E e \in Event : events' = Append(events, e)
    <3>1. Ev("ANSWER", {t}) \in Event /\ Ev("STATIC_READY", {}) \in Event
      BY DEF Ev, Event, EventTypes
    <3> QED BY <2>4, <3>1 DEF Submit, Answer
  <2> QED BY <2>1, <2>2, <2>3, <2>4
<1> QED BY <1>1, <1>2 DEF EventsOK

\* The event manager moves them to the queues and reports overflows.
LEMMA DeliverEvents ==
  ASSUME EventsOK, Deliver PROVE EventsOK'
<1> DEFINE When(p, x) == IF p THEN <<x>> ELSE << >>
<1>1. Ev("ERROR", {}) \in Event /\ Ev("SHUTDOWN_REQUEST", {}) \in Event
  BY DEF Ev, Event, EventTypes
<1>2. \A p, x : x \in Event => When(p, x) \in Seq(Event)
  OBVIOUS
<1>3. events \in Seq(Event) /\ events # << >>
  BY DEF EventsOK, Deliver
<1>4. Head(events) \in Event /\ Tail(events) \in Seq(Event)
  BY <1>3
<1>5. appQ' \in Seq(Event) /\ dataQ' \in Seq(Event)
  BY <1>4 DEF EventsOK, Deliver, Enqueue
<1>6. \E p, q, r : events' = Tail(events) \o When(p, Ev("ERROR", {}))
                       \o When(q, Ev("ERROR", {})) \o When(r, Ev("SHUTDOWN_REQUEST", {}))
  BY DEF Deliver
<1>7. events' \in Seq(Event)
  <2> HIDE DEF When
  <2> QED BY <1>1, <1>2, <1>4, <1>6
<1> QED BY <1>5, <1>7 DEF EventsOK

LEMMA EventsInit ==
  ASSUME CycleAssumption, Init PROVE EventsOK
<1>1. \A cfg \in Configs : Ev("CONFIG_INIT", cfg) \in Event
  BY DEF CycleAssumption, Ev, Event, EventTypes
<1> QED BY <1>1 DEF Init, AppInit, DataInit, EventsOK

LEMMA EventsStep ==
  ASSUME CycleAssumption, EventsOK, [Next]_vars PROVE EventsOK'
<1>1. CASE AppStep
  BY <1>1, AppEvents DEF AppStep, EventsOK, dataVars
<1>2. CASE DataStep \/ WorkStep
  BY <1>2, DataEvents DEF DataStep, WorkStep, EventsOK, appVars
<1>3. CASE UNCHANGED vars
  BY <1>3 DEF vars, appVars, dataVars, EventsOK
<1> QED BY <1>1, <1>2, <1>3, OutsideEvents, DeliverEvents DEF Next

-----------------------------------------------------------------------------
(* Types.                                                                       *)

LEMMA EventIsTyped ==
  ASSUME CycleAssumption
  PROVE  Event \subseteq [type : EventTypes, data : SUBSET (AppDataTypes \cup Settings)]
BY DEF Event, CycleAssumption

LEMMA AppTypes ==
  ASSUME CycleAssumption, EventsOK, AppTypeOK, AppThread
  PROVE  AppTypeOK'
<1> DEFINE Typed == [type : EventTypes, data : SUBSET (AppDataTypes \cup Settings)]
<1>1. appQ' \in Seq(Typed)
  <2>1. appQ' \in Seq(Event)
    BY AppEvents
  <2> QED BY <2>1, EventIsTyped, SeqMonotonic
<1>2. ASSUME appQ # << >> PROVE Head(appQ) \in Event
  BY <1>2 DEF EventsOK
<1>3. \A cfg : ModeTimers(cfg) \subseteq passive_mode_timers /\ Mode(cfg) \in {"ACTIVE", "PASSIVE"}
  BY DEF ModeTimers, Mode, passive_mode_timers, active_mode_timers
<1>4. CASE OnConfigInit \/ OnConfigReady
  <2>1. app_cfg' \subseteq Settings
    BY <1>2, <1>4 DEF OnConfigInit, OnConfigReady, Msg, Event
  <2> QED
    BY <1>1, <1>3, <1>4, <2>1 DEF OnConfigInit, OnConfigReady, appFlags, AppTypeOK
<1>5. CASE OnMovement
  BY <1>1, <1>5 DEF OnMovement, AppTypeOK
<1>6. CASE OnCloudConnected \/ OnDataGetAll \/ IgnoreMessage
  BY <1>1, <1>6 DEF OnCloudConnected, OnDataGetAll, IgnoreMessage, appFlags, AppTypeOK
<1>7. CASE OnAllEvents
  BY <1>1, <1>7 DEF OnAllEvents, appFlags, AppTypeOK
<1> QED BY <1>4, <1>5, <1>6, <1>7 DEF AppThread

LEMMA AnswersAreDataTypes ==
  ASSUME CycleAssumption, NEW e \in Event
  PROVE  AnswerTypes(e) \subseteq DataTypes
BY DEF CycleAssumption, AppDataTypes, AnswerTypes, Event

LEMMA DataTypesKept ==
  ASSUME CycleAssumption, EventsOK, DataTypeOK, DataThread \/ TimeoutWork
  PROVE  DataTypeOK'
<1>1. ASSUME dataQ # << >> PROVE Head(dataQ) \in Event
  BY <1>1 DEF EventsOK
<1>2. CASE TakeDataGet
  <2>1. Head(dataQ).data \subseteq DataTypes
    BY <1>1, <1>2 DEF TakeDataGet, Event
  <2>2. Cardinality(Head(dataQ).data) \in Nat
    BY <2>1, DataTypesAssumption, FS_Subset, FS_CardinalityType
  <2> QED BY <1>2, <2>1, <2>2 DEF TakeDataGet, DataTypeOK, PCs, counters
<1>3. CASE TakeAnswer
  BY <1>1, <1>3, AnswersAreDataTypes DEF TakeAnswer, DataTypeOK, PCs, counters
<1>4. CASE Reschedule \/ Compare
  BY <1>4 DEF Reschedule, Compare, DataTypeOK, PCs, counters, history
<1>5. CASE Count
  BY <1>5 DEF Count, DataTypeOK, PCs, counters, history
<1>6. CASE Store
  BY <1>6 DEF Store, DataTypeOK, PCs, history
<1>7. CASE Send \/ TakeOther
  BY <1>7 DEF Send, TakeOther, DataTypeOK, PCs, counters, history
<1>8. CASE Clear
  BY <1>8 DEF Clear, DataTypeOK, PCs, history, requested_data_clear
<1>10. CASE Cancel
  BY <1>10 DEF Cancel, DataTypeOK, PCs, counters
<1>9. CASE TimeoutWork
  BY <1>9 DEF TimeoutWork, DataTypeOK, PCs, requested_data_clear
<1> QED BY <1>2, <1>3, <1>4, <1>5, <1>6, <1>7, <1>8, <1>9, <1>10 DEF DataThread

LEMMA TypesStep ==
  ASSUME CycleAssumption, EventsOK, TypeOK, [Next]_vars
  PROVE  TypeOK'
<1> USE DEF TypeOK
<1>1. CASE UNCHANGED vars
  BY <1>1 DEF vars, appVars, appFlags, dataVars, counters, history, AppTypeOK, DataTypeOK
<1>2. ASSUME Stimulus PROVE stimuli' \in 0..MaxStimuli
  BY <1>2 DEF Stimulus, CycleAssumption
<1>3. ASSUME UNCHANGED dataVars PROVE DataTypeOK'
  BY <1>3 DEF dataVars, counters, history, DataTypeOK
<1>4. ASSUME UNCHANGED appVars PROVE AppTypeOK'
  BY <1>4 DEF appVars, appFlags, AppTypeOK
<1>5. CASE TimerExpires
  BY <1>2, <1>3, <1>4, <1>5 DEF TimerExpires, data_sample_timer_handler
<1>6. CASE ResolutionTimer
  BY <1>3, <1>6 DEF ResolutionTimer, ResolutionExpires, AppTypeOK, appFlags
<1>7. CASE OutsideEvent
  BY <1>2, <1>3, <1>4, <1>7 DEF OutsideEvent
<1>8. ASSUME NEW t \in DataTypes, Answer(t) PROVE TypeOK'
  <2>1. owed' \in [DataTypes -> Nat]
    BY <1>8 DEF Answer
  <2> QED BY <1>3, <1>4, <1>8, <2>1 DEF Answer
<1>9. CASE Deliver
  <2>1. appQ' \in Seq([type : EventTypes, data : SUBSET (AppDataTypes \cup Settings)])
    <3>1. appQ' \in Seq(Event)
      BY <1>9, DeliverEvents DEF EventsOK
    <3> QED BY <3>1, EventIsTyped, SeqMonotonic
  <2>2. AppTypeOK'
    BY <1>9, <2>1 DEF Deliver, AppTypeOK, appFlags
  <2>3. DataTypeOK'
    BY <1>9 DEF Deliver, DataTypeOK, counters, history
  <2>4. \A t \in DataTypes : NowOwes(t) \in Nat
    BY DEF NowOwes, CycleAssumption
  <2>5. owed' \in [DataTypes -> Nat]
    BY <1>9, <2>4 DEF Deliver
  <2>6. error_signaled' \in BOOLEAN
    BY <1>9 DEF Deliver
  <2> QED BY <1>9, <2>2, <2>3, <2>5, <2>6 DEF Deliver
<1>10. CASE AppStep
  BY <1>3, <1>10, AppTypes DEF AppStep
<1>11. CASE DataStep \/ WorkStep
  BY <1>4, <1>11, DataTypesKept DEF DataStep, WorkStep
<1> QED BY <1>1, <1>5, <1>6, <1>7, <1>8, <1>9, <1>10, <1>11 DEF Next

LEMMA TypesInit ==
  ASSUME CycleAssumption, Init PROVE TypeOK
<1>1. \A S : << >> \in Seq(S)
  OBVIOUS
<1>2. AppTypeOK
  BY <1>1 DEF Init, AppInit, AppTypeOK
<1>3. DataTypeOK
  BY DEF Init, DataInit, DataTypeOK, PCs
<1>4. owed \in [DataTypes -> Nat] /\ error_signaled \in BOOLEAN
  BY DEF Init
<1>5. stimuli \in 0..MaxStimuli
  BY DEF Init, CycleAssumption
<1> QED BY <1>2, <1>3, <1>4, <1>5 DEF TypeOK

\* The variables of the composition keep their types, and every message in a
\* queue or on its way is one the code can send (main.c, data_module.c).
THEOREM TypeCorrect == Spec => [](EventsOK /\ TypeOK)
<1>1. Init => EventsOK /\ TypeOK
  BY CycleAssumption, EventsInit, TypesInit
<1>2. EventsOK /\ TypeOK /\ [Next]_vars => (EventsOK /\ TypeOK)'
  BY CycleAssumption, EventsStep, TypesStep
<1> QED BY <1>1, <1>2, PTL DEF Spec

-----------------------------------------------------------------------------
(* The timers follow the mode.                                                  *)

LEMMA TimersStep ==
  ASSUME TimersFollowMode, [Next]_vars PROVE TimersFollowMode'
<1>1. ASSUME UNCHANGED <<app_state, sub_state, app_cfg, timers>> PROVE TimersFollowMode'
  BY <1>1 DEF TimersFollowMode
<1>2. CASE UNCHANGED appVars
  BY <1>1, <1>2 DEF appVars
<1>3. CASE ResolutionTimer
  BY <1>3 DEF ResolutionTimer, ResolutionExpires, TimersFollowMode
<1>4. CASE Deliver
  BY <1>1, <1>4 DEF Deliver
<1>5. CASE AppThread
  <2>1. CASE OnConfigInit \/ OnConfigReady
    BY <2>1 DEF OnConfigInit, OnConfigReady, TimersFollowMode, Mode, ModeTimers,
       active_mode_timers
  <2>2. CASE OnMovement
    BY <2>2 DEF OnMovement, TimersFollowMode, Mode, ModeTimers
  <2>3. CASE OnCloudConnected \/ OnDataGetAll \/ IgnoreMessage
    BY <1>1, <2>3 DEF OnCloudConnected, OnDataGetAll, IgnoreMessage
  <2>4. CASE OnAllEvents
    BY <2>4 DEF OnAllEvents, TimersFollowMode
  <2> QED BY <1>5, <2>1, <2>2, <2>3, <2>4 DEF AppThread
<1> QED
  BY <1>2, <1>3, <1>4, <1>5 DEF Next, vars, TimerExpires, data_sample_timer_handler,
     OutsideEvent, Answer, AppStep, DataStep, WorkStep

\* After any sequence of configurations, movement and timer expirations, the
\* periodic timers running are those of the mode in force, and none runs after a
\* shutdown request (main.c, on_sub_state_* and the *_timers_start_all functions).
THEOREM TimersAlwaysFollowMode == Spec => []TimersFollowMode
<1>1. Init => TimersFollowMode
  BY DEF Init, AppInit, TimersFollowMode
<1>2. TimersFollowMode /\ [Next]_vars => TimersFollowMode'
  BY TimersStep
<1> QED BY <1>1, <1>2, PTL DEF Spec

-----------------------------------------------------------------------------
(* The count of a request.                                                      *)
(*                                                                              *)
(* NoCompleteRequestWaits holds in every idle state whether or not the timeout  *)
(* is pending, because the thread clears the counters before it cancels the     *)
(* timeout.  ReadyMeansAllAnswered needs to know what req_data_count counts at  *)
(* every step of the thread.                                                    *)

NoneComplete ==
  /\ pc \in {"idle", "reschedule"} =>
       recv_req_data_count = 0 \/ req_data_count # recv_req_data_count
  /\ pc = "cancel" => recv_req_data_count = 0

got == answered \cap req_type_list

Counted ==
  clean =>
    /\ pending \/ pc = "reschedule"
    /\ pc # "cancel" => recv_req_data_count = Cardinality(req_type_list) /\ req_type_list # {}
    /\ pc \in {"idle", "reschedule", "compare"} => req_data_count = Cardinality(got)
    /\ pc = "count" => answer \in answered /\ req_data_count = Cardinality(got \ {answer})
    /\ pc = "store" => loaded + 1 = Cardinality(got)
    /\ pc = "send" => req_type_list \subseteq answered

\* A DATA_GET always carries a list the data module accepts.
LEMMA ListAccepted ==
  ASSUME EventsOK, TakeDataGet
  PROVE  /\ req_type_list' = Head(dataQ).data
         /\ recv_req_data_count' = Cardinality(req_type_list')
         /\ req_data_count' = 0
         /\ req_type_list' \subseteq DataTypes /\ req_type_list' # {}
         /\ Cardinality(req_type_list') \in Nat \ {0}
<1>1. Head(dataQ) \in Event /\ Head(dataQ).type = "DATA_GET"
  BY DEF EventsOK, TakeDataGet
<1>2. Head(dataQ).data \subseteq DataTypes /\ Head(dataQ).data # {}
  BY <1>1 DEF Event
<1>3. /\ IsFiniteSet(Head(dataQ).data)
      /\ Cardinality(Head(dataQ).data) <= Cardinality(DataTypes)
  BY <1>2, DataTypesAssumption, FS_Subset
<1>4. Cardinality(Head(dataQ).data) \in Nat \ {0}
  BY <1>2, <1>3, FS_CardinalityType, FS_EmptySet
<1> QED BY <1>2, <1>3, <1>4 DEF TakeDataGet

LEMMA NoneCompleteStep ==
  ASSUME EventsOK, DataTypeOK, NoneComplete, DataThread \/ TimeoutWork
  PROVE  NoneComplete'
<1>1. CASE TakeDataGet
  BY <1>1, ListAccepted DEF TakeDataGet, NoneComplete
<1>2. CASE TakeAnswer \/ TakeOther
  BY <1>2 DEF TakeAnswer, TakeOther, NoneComplete, counters
<1>3. CASE Reschedule \/ Count \/ Store \/ Compare
  BY <1>3 DEF Reschedule, Count, Store, Compare, NoneComplete, counters
<1>4. CASE Send \/ Clear \/ Cancel
  BY <1>4 DEF Send, Clear, Cancel, NoneComplete, counters, requested_data_clear
<1>5. CASE TimeoutWork
  BY <1>5 DEF TimeoutWork, NoneComplete, requested_data_clear
<1> QED BY <1>1, <1>2, <1>3, <1>4, <1>5 DEF DataThread

LEMMA CountedStep ==
  ASSUME CycleAssumption, EventsOK, DataTypeOK, Counted, DataThread \/ TimeoutWork
  PROVE  Counted'
<1>1. /\ IsFiniteSet(req_type_list) /\ IsFiniteSet(got)
      /\ Cardinality(req_type_list) \in Nat /\ Cardinality(got) \in Nat
  BY DataTypesAssumption, FS_Subset, FS_CardinalityType DEF DataTypeOK, got
<1>2. CASE TakeDataGet
  <2>1. got' = {} /\ Cardinality({}) = 0
    BY <1>2, FS_EmptySet DEF TakeDataGet, got
  <2> QED BY <1>2, <2>1, ListAccepted DEF TakeDataGet, Counted
<1>3. CASE TakeAnswer
  <2>1. PICK type \in AnswerTypes(Head(dataQ)) :
          /\ answer' = IF pending THEN type ELSE NoType
          /\ answered' = answered \cup {type}
          /\ clean' = (clean /\ type \notin answered)
          /\ pc' = IF pending THEN "count" ELSE IF type = "LOCATION" THEN "send" ELSE "idle"
    BY <1>3 DEF TakeAnswer
  <2>2. SUFFICES ASSUME clean' PROVE Counted'
    BY DEF Counted
  <2>3. clean /\ type \notin answered /\ pending /\ pc = "idle"
    BY <1>3, <2>1, <2>2 DEF TakeAnswer, Counted
  <2>4. pc' = "count" /\ answer' = type /\ answer' \in answered'
    BY <2>1, <2>3
  <2>5. UNCHANGED <<req_type_list, recv_req_data_count, req_data_count, pending>>
    BY <1>3 DEF TakeAnswer, counters
  <2>6. got' \ {answer'} = got
    BY <2>1, <2>3, <2>4, <2>5 DEF got
  <2> QED BY <2>3, <2>4, <2>5, <2>6 DEF Counted
<1>4. CASE Count
  <2>1. got' = got /\ UNCHANGED <<counters, pending, history>>
    BY <1>4 DEF Count, got, counters, history
  <2>2. SUFFICES ASSUME clean PROVE Counted'
    BY <2>1 DEF Counted, history
  <2>3. /\ pc = "count" /\ answer \in answered /\ req_data_count = Cardinality(got \ {answer})
        /\ recv_req_data_count = Cardinality(req_type_list) /\ req_type_list # {} /\ pending
    BY <1>4, <2>2 DEF Count, Counted
  <2>4. recv_req_data_count > 0
    BY <1>1, <2>3, FS_EmptySet
  <2>5. CASE answer \in req_type_list
    <3>1. Cardinality(got) = Cardinality(got \ {answer}) + 1
      <4>1. IsFiniteSet(got \ {answer}) /\ got = (got \ {answer}) \cup {answer}
        BY <1>1, <2>3, <2>5, FS_Subset DEF got
      <4> QED BY <4>1, FS_AddElement
    <3>2. pc' = "store" /\ loaded' = req_data_count
      BY <1>4, <2>4, <2>5 DEF Count
    <3> QED BY <2>1, <2>3, <3>1, <3>2 DEF Counted, counters, history
  <2>6. CASE answer \notin req_type_list
    <3>1. got \ {answer} = got
      BY <2>6 DEF got
    <3>2. pc' = "compare"
      BY <1>4, <2>6 DEF Count
    <3> QED BY <2>1, <2>3, <3>1, <3>2 DEF Counted, counters, history
  <2> QED BY <2>5, <2>6
<1>5. CASE Store
  BY <1>5 DEF Store, Counted, got, history
<1>6. CASE Compare
  <2>1. got' = got /\ UNCHANGED <<counters, pending, history>>
    BY <1>6 DEF Compare, got, counters, history
  <2>2. SUFFICES ASSUME clean PROVE Counted'
    BY <2>1 DEF Counted, history
  <2>3. /\ pc = "compare" /\ req_data_count = Cardinality(got) /\ req_type_list # {} /\ pending
        /\ recv_req_data_count = Cardinality(req_type_list)
    BY <1>6, <2>2 DEF Compare, Counted
  <2>4. CASE req_data_count = recv_req_data_count
    <3>1. got = req_type_list
      BY <1>1, <2>3, <2>4, FS_Subset DEF got
    <3>2. pc' = "send"
      BY <1>6, <2>4 DEF Compare
    <3> QED BY <2>1, <2>3, <3>1, <3>2 DEF Counted, got, counters, history
  <2>5. CASE req_data_count # recv_req_data_count
    <3>1. pc' = "idle"
      BY <1>6, <2>5 DEF Compare
    <3> QED BY <2>1, <2>3, <3>1 DEF Counted, counters, history
  <2> QED BY <2>4, <2>5
<1>7. CASE Reschedule
  BY <1>7 DEF Reschedule, Counted, got, counters, history
<1>8. CASE Send \/ TakeOther
  BY <1>8 DEF Send, TakeOther, Counted, got, counters, history
<1>9. CASE Clear
  BY <1>9 DEF Clear, Counted, history
<1>10. CASE Cancel \/ TimeoutWork
  BY <1>10 DEF Cancel, TimeoutWork, Counted
<1> QED
  BY <1>2, <1>3, <1>4, <1>5, <1>6, <1>7, <1>8, <1>9, <1>10 DEF DataThread

RequestInv == EventsOK /\ TypeOK /\ NoneComplete /\ Counted

LEMMA RequestInit == CycleAssumption /\ Init => RequestInv
<1> SUFFICES ASSUME CycleAssumption, Init PROVE RequestInv
  OBVIOUS
<1>1. NoneComplete /\ Counted
  BY DEF Init, DataInit, NoneComplete, Counted
<1> QED BY <1>1, EventsInit, TypesInit DEF RequestInv

\* Only the data module touches what the count is about.
LEMMA RequestStep ==
  CycleAssumption /\ RequestInv /\ [Next]_vars => RequestInv'
<1> SUFFICES ASSUME CycleAssumption, RequestInv, [Next]_vars PROVE RequestInv'
  OBVIOUS
<1>1. EventsOK' /\ TypeOK'
  BY EventsStep, TypesStep DEF RequestInv
<1>2. CASE UNCHANGED <<pc, answer, loaded, counters, pending, history>>
  BY <1>1, <1>2 DEF RequestInv, NoneComplete, Counted, got, counters, history
<1>3. CASE DataThread \/ TimeoutWork
  BY <1>1, <1>3, NoneCompleteStep, CountedStep DEF RequestInv, TypeOK
<1>4. \/ UNCHANGED <<pc, answer, loaded, counters, pending, history>>
      \/ DataThread \/ TimeoutWork
  BY DEF Next, vars, dataVars, TimerExpires, ResolutionTimer, OutsideEvent, Answer, Deliver,
     AppStep, DataStep, WorkStep
<1> QED BY <1>2, <1>3, <1>4

\* Between two messages the data module never holds a request all of whose types
\* it has counted (requested_data_status_set): such a request is not left to its
\* timeout, however the work item interrupts the thread.
THEOREM CompleteRequestsAreSent == Spec => []NoCompleteRequestWaits
<1>1. RequestInv => NoCompleteRequestWaits
  BY DEF RequestInv, NoneComplete, NoCompleteRequestWaits
<1> QED BY <1>1, CycleAssumption, RequestInit, RequestStep, PTL DEF Spec

\* The thread reports a request that neither replaced a pending one, nor timed out,
\* nor had a type answered twice, only when every requested type has been answered
\* (requested_data_status_set and data_send_work_fn).
THEOREM ReadyOnlyWhenAnswered == Spec => []ReadyMeansAllAnswered
<1>1. RequestInv => ReadyMeansAllAnswered
  BY DEF RequestInv, Counted, ReadyMeansAllAnswered
<1> QED BY <1>1, CycleAssumption, RequestInit, RequestStep, PTL DEF Spec

-----------------------------------------------------------------------------
(* Every request the application module knows of has an end ahead of it.        *)

Has(q, type) == \E i \in DOMAIN q : q[i].type = type
HasAfter(q, n, type) == \E i \in DOMAIN q : i > n /\ q[i].type = type

\* What will still make a DATA_READY, or end in a reboot.  Once the thread has sent
\* the DATA_READY (clear, cancel), the timeout it is about to cancel counts no more.
EndAhead ==
  \/ error_signaled \/ Has(events, "ERROR") \/ Has(events, "DATA_READY")
  \/ Has(dataQ, "DATA_GET") \/ pc \in {"reschedule", "send"}
  \/ pending /\ pc \notin {"clear", "cancel"}

\* Otherwise a DATA_READY is in the application module's queue behind every
\* DATA_GET, and there is one if a request is ongoing.
EndInv ==
  \/ EndAhead
  \/ /\ sample_request_ongoing => Has(appQ, "DATA_READY")
     /\ \A i \in DOMAIN appQ : appQ[i].type = "DATA_GET" => HasAfter(appQ, i, "DATA_READY")

LEMMA HasAppend ==
  ASSUME NEW S, NEW q \in Seq(S), NEW e
  PROVE  \A type : Has(Append(q, e), type) <=> Has(q, type) \/ e.type = type
<1>1. /\ Len(q) \in Nat /\ DOMAIN q = 1 .. Len(q) /\ DOMAIN Append(q, e) = 1 .. Len(q) + 1
      /\ \A i \in DOMAIN q : Append(q, e)[i] = q[i]
      /\ Append(q, e)[Len(q) + 1] = e
  OBVIOUS
<1> QED BY <1>1 DEF Has

LEMMA HasConcat ==
  ASSUME NEW S, NEW q \in Seq(S), NEW r \in Seq(S)
  PROVE  \A type : Has(q \o r, type) <=> Has(q, type) \/ Has(r, type)
<1> DEFINE s == q \o r
<1>1. /\ Len(q) \in Nat /\ Len(r) \in Nat /\ DOMAIN q = 1 .. Len(q) /\ DOMAIN r = 1 .. Len(r)
      /\ DOMAIN s = 1 .. Len(q) + Len(r)
      /\ \A i \in DOMAIN q : s[i] = q[i]
      /\ \A i \in DOMAIN r : s[Len(q) + i] = r[i]
      /\ \A i \in DOMAIN s : i \in DOMAIN q \/ (i - Len(q) \in DOMAIN r /\ s[i] = r[i - Len(q)])
  OBVIOUS
<1> HIDE DEF s
<1>2. /\ DOMAIN q \subseteq DOMAIN s
      /\ \A i \in DOMAIN r : Len(q) + i \in DOMAIN s
  BY <1>1
<1>3. \A type : Has(s, type) <=> Has(q, type) \/ Has(r, type)
  BY <1>1, <1>2 DEF Has
<1> QED BY <1>3 DEF s

LEMMA HasTail ==
  ASSUME NEW S, NEW q \in Seq(S), q # << >>
  PROVE  /\ \A type : Has(q, type) <=> Head(q).type = type \/ Has(Tail(q), type)
         /\ \A type : HasAfter(q, 1, type) <=> Has(Tail(q), type)
         /\ \A type : \A n \in DOMAIN Tail(q) : HasAfter(q, n + 1, type) <=> HasAfter(Tail(q), n, type)
<1> DEFINE r == Tail(q)
<1>1. /\ Len(q) \in Nat /\ DOMAIN q = 1 .. Len(q) /\ DOMAIN r = 1 .. Len(q) - 1
      /\ \A i \in DOMAIN r : i + 1 \in DOMAIN q /\ r[i] = q[i + 1]
      /\ Head(q) = q[1] /\ 1 \in DOMAIN q
      /\ \A i \in DOMAIN q : i = 1 \/ (i - 1 \in DOMAIN r /\ r[i - 1] = q[i])
  OBVIOUS
<1> DEFINE h == Head(q)
<1> HIDE DEF r, h
<1>2. \A type : Has(q, type) <=> h.type = type \/ Has(r, type)
  BY <1>1 DEF Has, h
<1>3. \A type : HasAfter(q, 1, type) <=> Has(r, type)
  BY <1>1 DEF Has, HasAfter
<1>4. ASSUME NEW type, NEW n \in DOMAIN r
      PROVE  HasAfter(q, n + 1, type) <=> HasAfter(r, n, type)
  BY <1>1 DEF HasAfter
<1> QED BY <1>2, <1>3, <1>4 DEF r, h

\* Steps that leave the application module's queue alone, and with it the order.
LEMMA EndKept ==
  ASSUME EndInv, UNCHANGED <<appQ, sample_request_ongoing>>, EndAhead => EndAhead'
  PROVE  EndInv'
  BY DEF EndInv, Has, HasAfter

\* Submitting an event takes nothing away.
LEMMA SubmitKeepsEnd ==
  ASSUME EventsOK, EndAhead, NEW e, events' = events \/ Submit(e),
         UNCHANGED <<dataQ, pc, pending, error_signaled>>
  PROVE  EndAhead'
<1>1. \A type : Has(events, type) => Has(events, type)'
  BY HasAppend DEF EventsOK, Submit
<1> QED BY <1>1 DEF EndAhead

LEMMA OutsideKeepsEnd ==
  ASSUME EventsOK, EndInv,
         \/ TimerExpires \/ ResolutionTimer \/ OutsideEvent \/ \E t \in DataTypes : Answer(t)
  PROVE  EndInv'
<1>1. \E e : events' = events \/ Submit(e)
  BY DEF TimerExpires, data_sample_timer_handler, ResolutionTimer, ResolutionExpires,
     OutsideEvent, Answer
<1>2. UNCHANGED <<appQ, sample_request_ongoing, dataQ, pc, pending, error_signaled>>
  BY DEF TimerExpires, data_sample_timer_handler, ResolutionTimer, ResolutionExpires,
     OutsideEvent, Answer, appVars, appFlags, dataVars
<1> QED BY <1>1, <1>2, SubmitKeepsEnd, EndKept

\* The data module: only a DATA_GET is taken from what lies ahead, and it becomes
\* the pending timeout; the timeout and the last answer become a DATA_READY.
LEMMA DataKeepsEnd ==
  ASSUME EventsOK, EndInv, DataThread \/ TimeoutWork,
         UNCHANGED <<appQ, sample_request_ongoing, error_signaled>>
  PROVE  EndInv'
<1>q. dataQ \in Seq(Event) /\ events \in Seq(Event)
  BY DEF EventsOK
<1>s. ASSUME Submit(Ready) PROVE EndAhead'
  BY <1>q, <1>s, HasAppend DEF Submit, Ready, EndAhead
<1>t. ASSUME dataQ # << >>, dataQ' = Tail(dataQ), Head(dataQ).type # "DATA_GET"
      PROVE  Has(dataQ, "DATA_GET") => Has(dataQ, "DATA_GET")'
  BY <1>q, <1>t, HasTail
<1> SUFFICES EndAhead => EndAhead'
  BY EndKept
<1>1. CASE TakeDataGet \/ Reschedule
  BY <1>1 DEF TakeDataGet, Reschedule, EndAhead
<1>2. CASE TakeAnswer
  <2>1. Head(dataQ).type # "DATA_GET"
    BY <1>2 DEF TakeAnswer, AnswerTypes
  <2> QED BY <1>2, <1>t, <2>1 DEF TakeAnswer, EndAhead
<1>3. CASE Count \/ Store \/ Compare
  BY <1>3 DEF Count, Store, Compare, EndAhead
<1>4. CASE Send \/ TimeoutWork
  BY <1>4, <1>s DEF Send, TimeoutWork
<1>5. CASE Clear \/ Cancel
  BY <1>5 DEF Clear, Cancel, EndAhead
<1>6. CASE TakeOther
  <2>1. \A type : Has(events, type) => Has(events, type)'
    <3>1. events' = events \/ \E e : events' = Append(events, e)
      BY <1>6 DEF TakeOther, Submit
    <3> QED BY <1>q, <3>1, HasAppend
  <2> QED BY <1>6, <1>t, <2>1 DEF TakeOther, EndAhead
<1> QED BY <1>1, <1>2, <1>3, <1>4, <1>5, <1>6 DEF DataThread

\* The application module takes its oldest message.
LEMMA AppKeepsEnd ==
  ASSUME EventsOK, EndInv, AppThread, UNCHANGED <<dataQ, pc, pending, error_signaled>>
  PROVE  EndInv'
<1>1. appQ \in Seq(Event) /\ appQ # << >> /\ appQ' = Tail(appQ)
  BY DEF EventsOK, AppThread, OnConfigInit, OnConfigReady, OnMovement, OnCloudConnected,
     OnDataGetAll, OnAllEvents, IgnoreMessage, Msg
<1>2. \E e : events' = events \/ Submit(e)
  BY DEF AppThread, OnConfigInit, OnConfigReady, OnMovement, OnCloudConnected, OnDataGetAll,
     OnAllEvents, IgnoreMessage, data_get
<1>3. /\ sample_request_ongoing' => sample_request_ongoing \/ Head(appQ).type = "DATA_GET"
      /\ Head(appQ).type = "DATA_READY" => ~sample_request_ongoing'
  BY DEF AppThread, OnConfigInit, OnConfigReady, OnMovement, OnCloudConnected, OnDataGetAll,
     OnAllEvents, IgnoreMessage, Msg, Ignored, appFlags
<1>4. CASE EndAhead
  BY <1>2, <1>4, SubmitKeepsEnd DEF EndInv
<1>5. CASE ~EndAhead
  <2>1. /\ sample_request_ongoing => Has(appQ, "DATA_READY")
        /\ \A i \in DOMAIN appQ : appQ[i].type = "DATA_GET" => HasAfter(appQ, i, "DATA_READY")
    BY <1>5 DEF EndInv
  <2>2. /\ Head(appQ) = appQ[1] /\ 1 \in DOMAIN appQ
        /\ \A i \in DOMAIN Tail(appQ) : i + 1 \in DOMAIN appQ /\ Tail(appQ)[i] = appQ[i + 1]
    BY <1>1
  <2>3. sample_request_ongoing' => Has(Tail(appQ), "DATA_READY")
    BY <1>1, <1>3, <2>1, <2>2, HasTail
  <2>4. \A i \in DOMAIN Tail(appQ) :
          Tail(appQ)[i].type = "DATA_GET" => HasAfter(Tail(appQ), i, "DATA_READY")
    <3> SUFFICES ASSUME NEW i \in DOMAIN Tail(appQ), Tail(appQ)[i].type = "DATA_GET"
                 PROVE  HasAfter(Tail(appQ), i, "DATA_READY")
      OBVIOUS
    <3>1. HasAfter(appQ, i + 1, "DATA_READY")
      BY <2>1, <2>2
    <3>2. HasAfter(appQ, i + 1, "DATA_READY") <=> HasAfter(Tail(appQ), i, "DATA_READY")
      <4> HIDE DEF HasAfter
      <4> QED BY <1>1, HasTail
    <3> QED BY <3>1, <3>2
  <2> QED BY <1>1, <2>3, <2>4 DEF EndInv
<1> QED BY <1>4, <1>5

\* The event manager: what ends a request arrives behind what began it.
LEMMA DeliverKeepsEnd ==
  ASSUME CycleAssumption, EventsOK, EndInv, Deliver
  PROVE  EndInv'
<1> DEFINE When(p, x) == IF p THEN <<x>> ELSE << >>
           e == Head(events)
           appFull == ForApp(e) /\ Overflows(appQ, QueueSize)
           dataFull == Overflows(dataQ, QueueSize)
           shutdown == e.type = "ERROR" /\ ~error_signaled
           late == When(appFull, Ev("ERROR", {})) \o When(dataFull, Ev("ERROR", {}))
                     \o When(shutdown, Ev("SHUTDOWN_REQUEST", {}))
<1>1. /\ events \in Seq(Event) /\ events # << >> /\ appQ \in Seq(Event) /\ dataQ \in Seq(Event)
      /\ appQ' = (IF ForApp(e) THEN Enqueue(appQ, e, QueueSize) ELSE appQ)
      /\ dataQ' = Enqueue(dataQ, e, QueueSize)
      /\ events' = Tail(events) \o When(appFull, Ev("ERROR", {})) \o When(dataFull, Ev("ERROR", {}))
                     \o When(shutdown, Ev("SHUTDOWN_REQUEST", {}))
      /\ error_signaled' = (error_signaled \/ shutdown)
      /\ UNCHANGED <<pc, pending, sample_request_ongoing>>
  BY DEF Deliver, EventsOK, appFlags
<1>2. Ev("ERROR", {}) \in Event /\ Ev("SHUTDOWN_REQUEST", {}) \in Event /\ Ev("ERROR", {}).type = "ERROR"
  BY DEF Ev, Event, EventTypes
<1>3. /\ \A p, x : x \in Event => When(p, x) \in Seq(Event)
      /\ \A p, x : p => Has(When(p, x), x.type)
  BY DEF Has
<1>4. Tail(events) \in Seq(Event)
  BY <1>1
<1> HIDE DEF When
<1>5. /\ \A type : Has(Tail(events), type) => Has(events, type)'
      /\ appFull \/ dataFull => Has(events, "ERROR")'
  <2>1. \A p, q, x, y : x \in Event /\ y \in Event =>
          When(p, x) \o When(q, y) \in Seq(Event)
    BY <1>3
  <2> DEFINE a == When(appFull, Ev("ERROR", {}))
             d == When(dataFull, Ev("ERROR", {}))
             s == When(shutdown, Ev("SHUTDOWN_REQUEST", {}))
  <2>2. a \in Seq(Event) /\ d \in Seq(Event) /\ s \in Seq(Event)
    BY <1>2, <1>3
  <2>3. events' = ((Tail(events) \o a) \o d) \o s
    BY <1>1
  <2>4. (appFull => Has(a, "ERROR")) /\ (dataFull => Has(d, "ERROR"))
    BY <1>2, <1>3
  <2> DEFINE t == Tail(events)
  <2> HIDE DEF a, d, s, appFull, dataFull, t
  <2>5. t \in Seq(Event)
    BY <1>4 DEF t
  <2>6. t \o a \in Seq(Event) /\ (t \o a) \o d \in Seq(Event)
    BY <2>2, <2>5
  <2>7. \A type : /\ Has(t \o a, type) <=> Has(t, type) \/ Has(a, type)
                  /\ Has((t \o a) \o d, type) <=> Has(t \o a, type) \/ Has(d, type)
                  /\ Has(((t \o a) \o d) \o s, type) <=> Has((t \o a) \o d, type) \/ Has(s, type)
    <3>1. \A type : Has(t \o a, type) <=> Has(t, type) \/ Has(a, type)
      BY <2>2, <2>5, HasConcat
    <3> DEFINE ta == t \o a
    <3>2. ta \in Seq(Event)
      BY <2>6
    <3> HIDE DEF ta
    <3>3. \A type : Has(ta \o d, type) <=> Has(ta, type) \/ Has(d, type)
      BY <2>2, <3>2, HasConcat
    <3> DEFINE tad == ta \o d
    <3>4. tad \in Seq(Event)
      BY <2>2, <3>2
    <3> HIDE DEF tad
    <3>5. \A type : Has(tad \o s, type) <=> Has(tad, type) \/ Has(s, type)
      BY <2>2, <3>4, HasConcat
    <3> QED BY <3>1, <3>3, <3>5 DEF ta, tad
  <2> QED BY <2>3, <2>4, <2>7 DEF t
<1>6. CASE appFull \/ dataFull \/ e.type = "ERROR"
  BY <1>1, <1>5, <1>6 DEF EndInv, EndAhead
<1>7. CASE ~appFull /\ ~dataFull /\ e.type # "ERROR"
  <2>1. dataQ' = Append(dataQ, e) /\ appQ' = (IF ForApp(e) THEN Append(appQ, e) ELSE appQ)
    BY <1>1, <1>7 DEF Enqueue
  <2>2. \A type : Has(dataQ, type)' <=> Has(dataQ, type) \/ e.type = type
    <3> HIDE DEF e
    <3>1. \A type : Has(Append(dataQ, e), type) <=> Has(dataQ, type) \/ e.type = type
      BY <1>1, HasAppend
    <3> QED BY <2>1, <3>1
  <2>3. CASE e.type = "DATA_GET"
    BY <2>2, <2>3 DEF EndInv, EndAhead
  <2>4. CASE e.type = "DATA_READY"
    <3>1. appQ' = Append(appQ, e)
      BY <2>1, <2>4 DEF ForApp
    <3>2. /\ Len(appQ) \in Nat /\ DOMAIN appQ' = 1 .. Len(appQ) + 1
          /\ appQ'[Len(appQ) + 1].type = "DATA_READY"
      BY <1>1, <2>4, <3>1
    <3>3. Has(appQ', "DATA_READY")
      BY <3>2 DEF Has
    <3>4. \A i \in DOMAIN appQ' : appQ'[i].type = "DATA_GET" => HasAfter(appQ', i, "DATA_READY")
      BY <3>2 DEF HasAfter
    <3> QED BY <3>3, <3>4 DEF EndInv
  <2>5. CASE e.type \notin {"DATA_GET", "DATA_READY"}
    <3>1. EndAhead => EndAhead'
      <4>1. \A type \in {"ERROR", "DATA_READY"} : Has(events, type) => Has(Tail(events), type)
        BY <1>1, <1>7, <2>5, HasTail
      <4> QED BY <1>1, <1>5, <2>2, <4>1 DEF EndAhead
    <3>2. CASE appQ' = appQ
      BY <1>1, <3>1, <3>2, EndKept
    <3>3. CASE appQ' = Append(appQ, e)
      <4>1. /\ Len(appQ) \in Nat /\ DOMAIN appQ = 1 .. Len(appQ) /\ DOMAIN appQ' = 1 .. Len(appQ) + 1
            /\ \A i \in DOMAIN appQ : appQ'[i] = appQ[i]
            /\ appQ'[Len(appQ) + 1].type # "DATA_GET"
        <5>1. e.type # "DATA_GET"
          BY <2>5
        <5> HIDE DEF e, appFull, dataFull, shutdown
        <5>2. appQ \in Seq(Event)
          BY <1>1
        <5> QED BY <3>3, <5>1, <5>2
      <4>2. \A n : HasAfter(appQ, n, "DATA_READY") => HasAfter(appQ', n, "DATA_READY")
        BY <4>1 DEF HasAfter
      <4>3. Has(appQ, "DATA_READY") => Has(appQ', "DATA_READY")
        BY <4>1 DEF Has
      <4>4. CASE ~EndAhead
        <5>1. \A i \in DOMAIN appQ : appQ[i].type = "DATA_GET" => HasAfter(appQ, i, "DATA_READY")
          BY <4>4 DEF EndInv
        <5>2. \A i \in DOMAIN appQ' : i \in DOMAIN appQ \/ i = Len(appQ) + 1
          BY <4>1
        <5>3. \A i \in DOMAIN appQ' : appQ'[i].type = "DATA_GET" => HasAfter(appQ', i, "DATA_READY")
          BY <4>1, <4>2, <5>1, <5>2
        <5> QED BY <1>1, <4>3, <4>4, <5>3 DEF EndInv
      <4> QED BY <3>1, <4>4 DEF EndInv
    <3> QED BY <2>1, <3>2, <3>3
  <2> QED BY <2>3, <2>4, <2>5
<1> QED BY <1>6, <1>7

LEMMA EndStep ==
  ASSUME CycleAssumption, EventsOK, EndInv, [Next]_vars PROVE EndInv'
<1>1. CASE AppStep
  BY <1>1, AppKeepsEnd DEF AppStep, dataVars
<1>2. CASE DataStep \/ WorkStep
  BY <1>2, DataKeepsEnd DEF DataStep, WorkStep, appVars, appFlags
<1>3. CASE UNCHANGED vars
  BY <1>3 DEF vars, appVars, appFlags, dataVars, EndInv, EndAhead, Has, HasAfter
<1> QED BY <1>1, <1>2, <1>3, OutsideKeepsEnd, DeliverKeepsEnd DEF Next

\* With queues of any size, threads in any order and answers that come late, twice
\* or never: while the application module takes a request to be ongoing, which
\* stops it from sampling, the DATA_READY that ends the request is still to come,
\* or the reboot after an overflow (main.c, data_module.c).
THEOREM RequestHasAnEnd == Spec => []OngoingHasAnEnd
<1>1. Init => EndInv
  BY DEF Init, AppInit, EndInv
<1>2. EventsOK /\ TypeOK /\ EndInv /\ [Next]_vars => EndInv'
  BY CycleAssumption, EndStep
<1>3. EventsOK /\ EndInv => OngoingHasAnEnd
  <2> SUFFICES ASSUME EventsOK, EndInv, sample_request_ongoing
               PROVE  DataGetUnderway \/ ReadyUnderway \/ InFlight("ERROR") \/ error_signaled
    BY DEF OngoingHasAnEnd
  <2>1. DOMAIN events = 1..Len(events) /\ DOMAIN appQ = 1..Len(appQ) /\ DOMAIN dataQ = 1..Len(dataQ)
    BY DEF EventsOK
  <2>2. /\ Has(events, "ERROR") => InFlight("ERROR")
        /\ Has(events, "DATA_READY") => ReadyUnderway
        /\ Has(appQ, "DATA_READY") => ReadyUnderway
        /\ Has(dataQ, "DATA_GET") => DataGetUnderway
    BY <2>1 DEF Has, InFlight, ReadyUnderway, DataGetUnderway
  <2> QED BY <2>2 DEF EndInv, EndAhead, DataGetUnderway
<1> QED BY <1>1, <1>2, <1>3, TypeCorrect, PTL DEF Spec

=============================================================================
