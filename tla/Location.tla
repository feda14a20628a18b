-------------------------------- MODULE Location --------------------------------
(***************************************************************************)
(* The location module (location_module.c) between the event manager and   *)
(* the location library.  The module has no thread: its handlers run in    *)
(* the event manager's work, which nothing preempts.  The library calls    *)
(* location_event_handler() from its own, preemptible, thread, so a        *)
(* handler can run between any two steps of the callback.                  *)
(*                                                                         *)
(* The module follows its own search through its own events: ACTIVE and    *)
(* INACTIVE pass through the event queue before sub_state changes.         *)
(***************************************************************************)
EXTENDS Naturals, Sequences, SequencesExt, EventManager

CONSTANTS
  Methods,          \* the methods built in; Wi-Fi and cells are one, CLOUD
  FirstMethod,      \* the one the library tries before the other
  Settings,         \* the sets of methods a configuration may leave enabled
  LibraryMayRefuse, \* location_request() may fail although no search is on
  MaxRequests,      \* bound: DATA_GET events with the location in their list
  MaxConfigs        \* bound: configuration changes at run time

ASSUME LocationAssumption ==
  /\ Methods \subseteq {"GNSS", "CLOUD"} /\ FirstMethod \in Methods
  /\ Settings \subseteq SUBSET {"GNSS", "CLOUD"}
  /\ LibraryMayRefuse \in BOOLEAN
  /\ MaxRequests \in Nat /\ MaxConfigs \in Nat

VARIABLES
  state,            \* INIT, RUNNING, SHUTDOWN
  sub_state,        \* IDLE, SEARCH
  enabled,          \* copy_cfg.no_data, as the methods it leaves
  cloud_location_request_pending,
  search,           \* the library: [phase, plan, ext, answered]
  callback,         \* what location_event_handler() has left to do
  cloud,            \* location requests the cloud has not answered
  requests, configs \* spent from the bounds

moduleVars == <<state, sub_state, enabled>>
vars == <<events, moduleVars, cloud_location_request_pending, search, callback, cloud,
          requests, configs>>

Answers == {"GNSS_DATA_READY", "CLOUD_LOCATION_DATA_READY", "TIMEOUT", "DATA_NOT_READY"}
Results == {"SUCCESS", "ERROR", "UNKNOWN"}

Ev(type, data) == [type |-> type, data |-> data]
Plain(type) == Ev(type, "none")

\* phase is off, try (a method of the plan is being tried) or wait (for ext, the
\* result from the cloud).  answered: something was reported for this search.
\* plan: the methods not given up yet.
NoSearch == [phase |-> "off", plan |-> {}, ext |-> "none", answered |-> FALSE]
Searching(plan) == [phase |-> "try", plan |-> plan, ext |-> "none", answered |-> FALSE]

Init ==
  /\ events = <<Plain("START"), Plain("MODEM_INITIALIZED")>>
  /\ state = "INIT" /\ sub_state = "IDLE"
  /\ enabled \in Settings
  /\ cloud_location_request_pending = FALSE
  /\ search = NoSearch /\ callback = << >>
  /\ cloud = 0
  /\ requests = 0 /\ configs = 0

-----------------------------------------------------------------------------
(* The callback, one externally visible effect at a time.  RETURN hands the *)
(* thread back to the library: only then is a search over.                  *)

inactive_send_keeps_pending == <<"INACTIVE">>

inactive_send == <<"CLEAR", "INACTIVE">>

\* Mutant: a search that ends undefined is not announced to have ended.
location_event_end_unknown(id) ==
  CASE id = "CLOUD_LOCATION_EXT_REQUEST" -> <<"SET", "RETURN_TO_WAIT">>
    [] id = "RESULT_UNKNOWN" -> <<"RETURN">>
    [] OTHER -> inactive_send \o <<"RETURN">>

\* How every callback ends: the search goes on only while the cloud is asked.
location_event_end(id) ==
  CASE id = "CLOUD_LOCATION_EXT_REQUEST" -> <<"SET", "RETURN_TO_WAIT">>
    [] OTHER -> inactive_send \o <<"RETURN">>

location_event_report_no_timeout(id, method) ==
  CASE id = "LOCATION" /\ method = "GNSS" -> <<"GNSS_DATA_READY">>
    [] id = "ERROR" -> <<"DATA_NOT_READY">>
    [] id = "CLOUD_LOCATION_EXT_REQUEST" -> <<"CLOUD_LOCATION_DATA_READY">>
    [] OTHER -> << >>

\* What it tells the data module first.  A location from the cloud and an
\* undefined result tell nothing: the request to the cloud already did.
location_event_report(id, method) ==
  CASE id = "LOCATION" /\ method = "GNSS" -> <<"GNSS_DATA_READY">>
    [] id = "TIMEOUT" -> <<"TIMEOUT">>
    [] id = "ERROR" -> <<"DATA_NOT_READY">>
    [] id = "CLOUD_LOCATION_EXT_REQUEST" -> <<"CLOUD_LOCATION_DATA_READY">>
    [] OTHER -> << >>

location_event_handler(id, method) == location_event_report(id, method) \o location_event_end(id)

Returns == {"RETURN", "RETURN_TO_WAIT"}

\* A search cancelled while its callback runs is no longer the one reported on.
Orphaned == Last(callback) \notin Returns

CallbackStep ==
  /\ callback # << >>
  /\ callback' = Tail(callback)
  /\ LET op == Head(callback) IN
     /\ IF op \in Answers \cup {"INACTIVE"} THEN Submit(Plain(op)) ELSE UNCHANGED events
     /\ cloud_location_request_pending' =
          CASE op = "SET" -> TRUE [] op = "CLEAR" -> FALSE
            [] OTHER -> cloud_location_request_pending
     /\ search' =
          CASE op = "RETURN" -> NoSearch
            [] op = "RETURN_TO_WAIT" -> [search EXCEPT !.phase = "wait", !.ext = "none"]
            [] op \in Answers /\ ~Orphaned -> [search EXCEPT !.answered = TRUE]
            [] OTHER -> search
  /\ UNCHANGED <<moduleVars, cloud, requests, configs>>

-----------------------------------------------------------------------------
(* The location library.  One method after the other; the cloud's answer    *)
(* counts only while it waits for one.                                      *)

Trying == IF FirstMethod \in search.plan THEN FirstMethod ELSE CHOOSE m \in search.plan : TRUE

\* The method being tried yields nothing: the next one, or the end.
Fallback(id) ==
  IF search.plan # {Trying}
  THEN /\ search' = [search EXCEPT !.phase = "try", !.plan = @ \ {Trying}, !.ext = "none"]
       /\ UNCHANGED callback
  ELSE /\ callback' = location_event_handler(id, Trying)
       /\ UNCHANGED search

Report(id) ==
  /\ callback' = location_event_handler(id, Trying)
  /\ UNCHANGED search

LibraryStep ==
  /\ callback = << >>
  /\ search.phase # "off"
  /\ \/ /\ search.phase = "try" /\ Trying = "GNSS"
        /\ \/ Report("LOCATION")
           \/ Fallback("ERROR")
     \/ search.phase = "try" /\ Trying = "CLOUD" /\ Report("CLOUD_LOCATION_EXT_REQUEST")
     \/ /\ search.phase = "wait"
        /\ \/ search.ext = "SUCCESS" /\ Report("LOCATION")
           \/ search.ext = "ERROR" /\ Fallback("ERROR")
           \/ search.ext = "UNKNOWN" /\ Fallback("RESULT_UNKNOWN")
     \/ Report("TIMEOUT")
  /\ UNCHANGED <<events, moduleVars, cloud_location_request_pending, cloud, requests, configs>>

\* location_request_cancel(): no callback for this search any more, but one
\* that runs goes on.
Cancelled == IF callback = << >> \/ Orphaned THEN callback ELSE Front(callback)

-----------------------------------------------------------------------------
(* The handlers.  Emit takes the event being processed and appends what the *)
(* handler submits.                                                         *)

Emit(s) == events' = Tail(events) \o s

Plan == Methods \cap enabled

\* search_start(), with the library in the state lib.
search_start(lib) ==
  \/ /\ Plan = {} \/ lib.phase # "off" \/ LibraryMayRefuse
     /\ Emit(<<Plain("DATA_NOT_READY")>>)
     /\ search' = lib
  \/ /\ Plan # {} /\ lib.phase = "off"
     /\ Emit(<<Plain("ACTIVE")>>)
     /\ search' = Searching(Plan)

Processing(type) == events # << >> /\ Head(events).type = type

OnStart ==
  /\ Processing("START")
  /\ Emit(<< >>)
  /\ state' = "INIT"
  /\ UNCHANGED <<sub_state, enabled, cloud_location_request_pending, search, callback, cloud>>

\* A failing setup() is reported; the module runs nevertheless.
OnModemInitialized ==
  /\ Processing("MODEM_INITIALIZED")
  /\ state = "INIT"
  /\ state' = "RUNNING"
  /\ \E failed \in {FALSE, LibraryMayRefuse} :
       Emit(IF failed THEN <<Plain("ERROR")>> ELSE << >>)
  /\ UNCHANGED <<sub_state, enabled, cloud_location_request_pending, search, callback, cloud>>

OnSearchEvent ==
  /\ \/ Processing("ACTIVE") /\ sub_state = "IDLE" /\ sub_state' = "SEARCH"
     \/ Processing("INACTIVE") /\ sub_state = "SEARCH" /\ sub_state' = "IDLE"
  /\ state = "RUNNING"
  /\ Emit(<< >>)
  /\ UNCHANGED <<state, enabled, cloud_location_request_pending, search, callback, cloud>>

OnDataGetIdle ==
  /\ Processing("DATA_GET")
  /\ state = "RUNNING" /\ sub_state = "IDLE"
  /\ search_start(search)
  /\ UNCHANGED <<moduleVars, cloud_location_request_pending, callback, cloud>>

\* Only a search waiting for the cloud is given up for a new one.
OnDataGetSearch ==
  /\ Processing("DATA_GET")
  /\ state = "RUNNING" /\ sub_state = "SEARCH"
  /\ IF cloud_location_request_pending
     THEN /\ callback' = Cancelled
          /\ cloud_location_request_pending' = FALSE
          /\ search_start(NoSearch)
     ELSE Emit(<< >>) /\ UNCHANGED <<callback, cloud_location_request_pending, search>>
  /\ UNCHANGED <<moduleVars, cloud>>

\* location_cloud_location_ext_result_set()
OnCloudLocation ==
  /\ Processing("CLOUD_LOCATION")
  /\ Emit(<< >>)
  /\ search' = IF state = "RUNNING" /\ sub_state = "SEARCH" /\ search.phase = "wait"
                    /\ search.ext = "none"
               THEN [search EXCEPT !.ext = Head(events).data] ELSE search
  /\ UNCHANGED <<moduleVars, cloud_location_request_pending, callback, cloud>>

OnConfig ==
  /\ Processing("CONFIG")
  /\ Emit(<< >>)
  /\ enabled' = Head(events).data
  /\ UNCHANGED <<state, sub_state, cloud_location_request_pending, search, callback, cloud>>

\* Nothing to shut down: a search goes on.
OnShutdownRequest ==
  /\ Processing("SHUTDOWN_REQUEST")
  /\ Emit(<<Plain("SHUTDOWN_READY")>>)
  /\ state' = "SHUTDOWN"
  /\ UNCHANGED <<sub_state, enabled, cloud_location_request_pending, search, callback, cloud>>

\* Events the module has no handler for, now or ever.  The data module sends
\* what a CLOUD_LOCATION_DATA_READY carries to the cloud.
IgnoreEvent ==
  /\ \/ Processing("DATA_GET") /\ state # "RUNNING"
     \/ Processing("MODEM_INITIALIZED") /\ state # "INIT"
     \/ Processing("ACTIVE") /\ ~(state = "RUNNING" /\ sub_state = "IDLE")
     \/ Processing("INACTIVE") /\ ~(state = "RUNNING" /\ sub_state = "SEARCH")
     \/ \E type \in Answers \cup {"ERROR", "SHUTDOWN_READY"} : Processing(type)
  /\ Emit(<< >>)
  /\ cloud' = IF Processing("CLOUD_LOCATION_DATA_READY") THEN cloud + 1 ELSE cloud
  /\ UNCHANGED <<moduleVars, cloud_location_request_pending, search, callback>>

ProcessEvent ==
  /\ \/ OnStart \/ OnModemInitialized \/ OnSearchEvent \/ OnDataGetIdle \/ OnDataGetSearch
     \/ OnCloudLocation \/ OnConfig \/ OnShutdownRequest \/ IgnoreEvent
  /\ UNCHANGED <<requests, configs>>

-----------------------------------------------------------------------------
(* The other modules and the cloud.                                         *)

CloudAnswers ==
  /\ cloud > 0
  /\ cloud' = cloud - 1
  /\ \E r \in Results : Submit(Ev("CLOUD_LOCATION", r))
  /\ UNCHANGED <<moduleVars, cloud_location_request_pending, search, callback, requests, configs>>

OthersSubmit ==
  /\ \/ /\ requests < MaxRequests
        /\ requests' = requests + 1
        /\ Submit(Plain("DATA_GET")) /\ UNCHANGED configs
     \/ /\ configs < MaxConfigs
        /\ configs' = configs + 1
        /\ UNCHANGED requests
        /\ \/ \E s \in Settings : Submit(Ev("CONFIG", s))
           \/ Submit(Plain("SHUTDOWN_REQUEST"))
  /\ UNCHANGED <<moduleVars, cloud_location_request_pending, search, callback, cloud>>

Next == CallbackStep \/ LibraryStep \/ ProcessEvent \/ CloudAnswers \/ OthersSubmit

Spec == Init /\ [][Next]_vars

\* The workqueue and the library's thread run; the cloud need not answer,
\* and nobody need ask for anything.
Fairness == WF_vars(CallbackStep) /\ WF_vars(LibraryStep) /\ WF_vars(ProcessEvent)
FairSpec == Spec /\ Fairness

-----------------------------------------------------------------------------
(* Properties                                                               *)

\* The module as its users see it: what has become of the search that is on.
phase == IF search.phase = "off" THEN "idle" ELSE IF search.answered THEN "answered" ELSE "open"
Service == INSTANCE LocationService WITH phase <- phase

\* No search ends, or is given up, before something was reported for it, and
\* every search ends (location_event_handler(): a location from the cloud and an
\* undefined result report nothing, because the request to the cloud did).
KeepsPromise == Service!Spec

\* The flag that lets a search be cancelled speaks of the search that is on: it
\* is not set for a search that has reported nothing
\* (cloud_location_request_pending, written by both threads).
PendingMeansAsked ==
  cloud_location_request_pending /\ search.phase # "off" /\ callback = << >> => search.answered

\* The module does not stay in SUB_STATE_SEARCH: every search it waits for is
\* announced to have ended.
LeavesSearch == (state = "RUNNING" /\ sub_state = "SEARCH") ~> (state # "RUNNING" \/ sub_state = "IDLE")

\* doc/location_module.rst: in SUB_STATE_SEARCH a location request is ongoing.
\* Events under way and a running callback excuse the module.
SearchStateIsOngoing ==
  (state = "RUNNING" /\ sub_state = "SEARCH" /\ callback = << >> /\ events = << >>)
    => search.phase # "off"
=============================================================================
