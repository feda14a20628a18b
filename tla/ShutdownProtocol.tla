--------------------------- MODULE ShutdownProtocol ---------------------------
(***************************************************************************)
(* The graceful shutdown of the nRF9151 application: util_module.c, the    *)
(* module registry of modules_common.c, and what every other module does   *)
(* with UTIL_EVT_SHUTDOWN_REQUEST.                                         *)
(*                                                                         *)
(* Modules with a thread (app, data, cloud, modem, sensor) read a bounded  *)
(* queue; the others (util, debug, location, ui) run inside the event      *)
(* manager, on the system workqueue.  The workqueue thread is cooperative, *)
(* so no module thread runs while an event is being handed out             *)
(* (`current' is not None).                                                *)
(*                                                                         *)
(* An event is [type, id]; the id is that of the acknowledging module.     *)
(* One ERROR stands for every *_EVT_ERROR, reboot request and FOTA_DONE    *)
(* event, which util_module.c treats alike; one OTHER stands for the       *)
(* events that only fill queues.                                           *)
(***************************************************************************)
EXTENDS Naturals, Sequences, FiniteSets, EventManager, MessageQueue

CONSTANTS
  Threaded,     \* modules with a thread and a queue
  Threadless,   \* modules that run in the event manager's callback
  App,          \* the module whose thread is main()
  Util,         \* the utility module
  Supports,     \* modules whose module_data has supports_shutdown = true
  QueueSize,    \* entries of a module's queue
  SameCycle,    \* may two calls of k_cycle_get_32() return the same value?
  MaxErrors,    \* bound: errors the modules report of their own
  MaxOther      \* bound: OTHER events

Modules == Threaded \cup Threadless

\* Every module with a thread supports the shutdown (the module_data of main.c,
\* data_module.c, cloud_module.c, modem_module.c and sensor_module.c).
ASSUME ModulesAssumption ==
  /\ Threaded \cap Threadless = {}
  /\ App \in Threaded
  /\ Util \in Threadless \ Supports
  /\ Threaded \subseteq Supports /\ Supports \subseteq Modules
  /\ IsFiniteSet(Modules)
  /\ QueueSize \in Nat \ {0}
  /\ SameCycle \in BOOLEAN
  /\ MaxErrors \in Nat
  /\ MaxOther \in Nat

VARIABLES
  current,      \* the event being handed to its subscribers
  todo,         \* threadless subscribers that have not seen it yet
  queue,        \* queue[t]: the msg_q of a threaded module
  phase,        \* phase[m]: boot, counted (inside module_start), running, shutdown
  id,           \* id[m]: module_data.id, 0 until module_start
  cycle,        \* the cycle counter behind k_cycle_get_32()
  module_list,  \* modules linked in the registry
  active_modules_count,
  shutdown_supported_count,
  mainStarted,  \* main() has submitted APP_EVT_START
  util_state,
  error_signaled,
  reboot_work,  \* the delayable work: idle, long (CONFIG_REBOOT_TIMEOUT) or short (5 s)
  rebooted,
  dropped,      \* history: some queue has been purged
  errors, others

registry == <<id, cycle, module_list, active_modules_count, shutdown_supported_count>>
util == <<util_state, error_signaled, reboot_work>>
bounds == <<errors, others>>
vars == <<events, current, todo, queue, phase, registry, mainStarted, util, rebooted,
          dropped, bounds>>

EventTypes == {"APP_START", "ERROR", "SHUTDOWN_REQUEST", "SHUTDOWN_READY", "OTHER"}
Ev(type) == [type |-> type, id |-> 0]
Ack(m) == [type |-> "SHUTDOWN_READY", id |-> id[m]]
None == [type |-> "none", id |-> 0]

Idle == current = None

Init ==
  /\ events = << >>
  /\ current = None
  /\ todo = {}
  /\ queue = [t \in Threaded |-> << >>]
  /\ phase = [m \in Modules |-> "boot"]
  /\ id = [m \in Modules |-> 0]
  /\ cycle = 1
  /\ module_list = {}
  /\ active_modules_count = 0
  /\ shutdown_supported_count = 0
  /\ mainStarted = FALSE
  /\ util_state = "STATE_INIT"
  /\ error_signaled = FALSE
  /\ reboot_work = "idle"
  /\ rebooted = FALSE
  /\ dropped = FALSE
  /\ errors = 0
  /\ others = 0

-----------------------------------------------------------------------------
(* module_start(), in the two parts a preemption can separate.              *)

StartCountEvery(m) ==
  /\ cycle' = cycle + 1
  /\ id' = [id EXCEPT ![m] = cycle + 1]
  /\ active_modules_count' = active_modules_count + 1
  /\ shutdown_supported_count' = shutdown_supported_count + 1

StartCountNone(m) ==
  /\ cycle' = cycle + 1
  /\ id' = [id EXCEPT ![m] = cycle + 1]
  /\ active_modules_count' = active_modules_count + 1
  /\ UNCHANGED shutdown_supported_count

StartCount(m) ==
  /\ \E now \in {cycle + 1} \cup (IF SameCycle THEN {cycle} ELSE {}) :
       /\ cycle' = now
       /\ id' = [id EXCEPT ![m] = now]
  /\ active_modules_count' = active_modules_count + 1
  /\ shutdown_supported_count' =
       IF m \in Supports THEN shutdown_supported_count + 1 ELSE shutdown_supported_count

StartList(m) == module_list' = module_list \cup {m}

\* main(): APP_EVT_START is submitted before app calls module_start().
MainStart ==
  /\ Idle /\ ~rebooted
  /\ ~mainStarted
  /\ mainStarted' = TRUE
  /\ Submit(Ev("APP_START"))
  /\ UNCHANGED <<current, todo, queue, phase, registry, util, rebooted, dropped, bounds>>

ThreadStart(t) ==
  /\ Idle /\ ~rebooted
  /\ t = App => mainStarted
  /\ \/ /\ phase[t] = "boot"
        /\ phase' = [phase EXCEPT ![t] = "counted"]
        /\ StartCount(t)
        /\ UNCHANGED module_list
     \/ /\ phase[t] = "counted"
        /\ phase' = [phase EXCEPT ![t] = "running"]
        /\ StartList(t)
        /\ UNCHANGED <<id, cycle, active_modules_count, shutdown_supported_count>>
  /\ UNCHANGED <<events, current, todo, queue, mainStarted, util, rebooted, dropped, bounds>>

\* A module reports an irrecoverable error, in setup or later.
ReportError(m) ==
  /\ Idle /\ ~rebooted
  /\ phase[m] # "boot"
  /\ errors < MaxErrors
  /\ errors' = errors + 1
  /\ Submit(Ev("ERROR"))
  /\ UNCHANGED <<current, todo, queue, phase, registry, mainStarted, util, rebooted,
                 dropped, others>>

\* Any event that only occupies the queues of the threaded modules.
Traffic ==
  /\ Idle /\ ~rebooted
  /\ others < MaxOther
  /\ others' = others + 1
  /\ Submit(Ev("OTHER"))
  /\ UNCHANGED <<current, todo, queue, phase, registry, mainStarted, util, rebooted,
                 dropped, errors>>

\* The thread takes a message; only the shutdown request changes its state.
ThreadHandle(t) ==
  /\ Idle /\ ~rebooted
  /\ phase[t] \in {"running", "shutdown"}
  /\ queue[t] # << >>
  /\ queue' = [queue EXCEPT ![t] = Tail(@)]
  /\ IF Head(queue[t]).type = "SHUTDOWN_REQUEST"
     THEN /\ phase' = [phase EXCEPT ![t] = "shutdown"]
          /\ Submit(Ack(t))
     ELSE UNCHANGED <<phase, events>>
  /\ UNCHANGED <<current, todo, registry, mainStarted, util, rebooted, dropped, bounds>>

-----------------------------------------------------------------------------
(* The event manager takes the oldest event and calls its subscribers: the  *)
(* threaded modules' app_event_handler() enqueue it, or purge and report;   *)
(* then each threadless module handles it, in any order.                    *)

ReportNothing(full) == << >>
OverflowErrors(full) == [i \in 1..Cardinality(full) |-> Ev("ERROR")]

Deliver ==
  LET full == {t \in Threaded : Overflows(queue[t], QueueSize)} IN
  /\ Idle /\ ~rebooted
  /\ events # << >>
  /\ current' = Head(events)
  /\ todo' = Threadless
  /\ queue' = [t \in Threaded |-> Enqueue(queue[t], Head(events), QueueSize)]
  /\ events' = Tail(events) \o OverflowErrors(full)
  /\ dropped' = (dropped \/ full # {})
  /\ UNCHANGED <<phase, registry, mainStarted, util, rebooted, bounds>>

\* The walk over the subscribers goes on: m has seen the event.
Seen(m) ==
  /\ m \in todo
  /\ ~rebooted
  /\ todo' = todo \ {m}
  /\ current' = IF todo = {m} THEN None ELSE current

\* location, ui and debug: they start on APP_EVT_START, and those that support
\* shutdown acknowledge it in their callback, started or not.
NotifyThreadless(m) ==
  /\ m # Util
  /\ Seen(m)
  /\ IF current.type = "APP_START"
     THEN /\ StartCount(m)
          /\ StartList(m)
          /\ phase' = [phase EXCEPT ![m] = "running"]
          /\ UNCHANGED events
     ELSE /\ IF current.type = "SHUTDOWN_REQUEST" /\ m \in Supports
             THEN /\ phase' = [phase EXCEPT ![m] = "shutdown"]
                  /\ Submit(Ack(m))
             ELSE UNCHANGED <<phase, events>>
          /\ UNCHANGED registry
  /\ UNCHANGED <<queue, mainStarted, util, rebooted, dropped, bounds>>

-----------------------------------------------------------------------------
(* The utility module.                                                      *)

send_reboot_request_untimed ==
  IF error_signaled
  THEN UNCHANGED <<events, util>>
  ELSE /\ Submit(Ev("SHUTDOWN_REQUEST"))
       /\ util_state' = "STATE_REBOOT_PENDING"
       /\ error_signaled' = TRUE
       /\ UNCHANGED reboot_work

send_reboot_request ==
  IF error_signaled
  THEN UNCHANGED <<events, util>>
  ELSE /\ reboot_work' = "long"
       /\ Submit(Ev("SHUTDOWN_REQUEST"))
       /\ util_state' = "STATE_REBOOT_PENDING"
       /\ error_signaled' = TRUE

\* "All modules in the application have reported a shutdown."
AllReportedEarly(count) == count <= 1
AllReportedLate(count) == count + 1 = 0
AllReported(count) == count = 0

\* modules_shutdown_register() and reboot_ack_check().  The list's order follows
\* the link order and the scheduler; with equal ids any match may come first.
reboot_ack_check(ackId) ==
  LET matching == {m \in module_list : id[m] = ackId} IN
  IF ackId = 0
  THEN UNCHANGED <<module_list, active_modules_count, shutdown_supported_count, reboot_work>>
  ELSE \/ \E m \in matching \ Supports :
            UNCHANGED <<module_list, active_modules_count, shutdown_supported_count,
                        reboot_work>>
       \/ /\ matching = {} \/ matching \cap Supports # {}
          /\ \/ \E m \in matching \cap Supports :
                  /\ module_list' = module_list \ {m}
                  /\ active_modules_count' = active_modules_count - 1
                  /\ shutdown_supported_count' = shutdown_supported_count - 1
             \/ /\ matching = {}
                /\ UNCHANGED <<module_list, active_modules_count, shutdown_supported_count>>
          /\ reboot_work' = IF AllReported(shutdown_supported_count') THEN "short" ELSE reboot_work

on_state_init ==
  IF current.type = "ERROR"
  THEN send_reboot_request
  ELSE UNCHANGED <<events, util>>

\* on_all_states() follows the state's handler and puts the state back to
\* STATE_INIT when the application starts.
NotifyUtil ==
  /\ Seen(Util)
  /\ IF current.type = "APP_START"
     THEN /\ StartCount(Util)
          /\ StartList(Util)
          /\ phase' = [phase EXCEPT ![Util] = "running"]
          /\ util_state' = "STATE_INIT"
          /\ UNCHANGED <<events, error_signaled, reboot_work>>
     ELSE /\ UNCHANGED <<phase, id, cycle>>
          /\ \/ /\ util_state = "STATE_INIT"
                /\ on_state_init
                /\ UNCHANGED <<module_list, active_modules_count, shutdown_supported_count>>
             \/ /\ util_state = "STATE_REBOOT_PENDING"
                /\ IF current.type = "SHUTDOWN_READY"
                   THEN reboot_ack_check(current.id)
                   ELSE UNCHANGED <<module_list, active_modules_count,
                                    shutdown_supported_count, reboot_work>>
                /\ UNCHANGED <<events, util_state, error_signaled>>
  /\ UNCHANGED <<queue, mainStarted, rebooted, dropped, bounds>>

\* reboot_work_fn(): either timeout ends in sys_reboot().  The work item runs
\* on the system workqueue, never during the handling of an event.
Reboot ==
  /\ Idle /\ ~rebooted
  /\ reboot_work # "idle"
  /\ rebooted' = TRUE
  /\ UNCHANGED <<events, current, todo, queue, phase, registry, mainStarted, util, dropped,
                 bounds>>

-----------------------------------------------------------------------------
Next ==
  \/ MainStart
  \/ \E t \in Threaded : ThreadStart(t) \/ ThreadHandle(t)
  \/ \E m \in Modules : ReportError(m)
  \/ Traffic
  \/ Deliver
  \/ \E m \in Threadless : NotifyThreadless(m)
  \/ NotifyUtil
  \/ Reboot

\* The event manager and the delayable work run; threads are scheduled.  Nobody
\* has to report an error or submit other events.
Fairness ==
  /\ WF_vars(Deliver)
  /\ WF_vars(NotifyUtil)
  /\ \A m \in Threadless : WF_vars(NotifyThreadless(m))
  /\ WF_vars(Reboot)

Spec == Init /\ [][Next]_vars
FairSpec == Spec /\ Fairness

-----------------------------------------------------------------------------
(* Properties                                                               *)

EventSet == [type : EventTypes, id : Nat]

TypeOK ==
  /\ events \in Seq(EventSet)
  /\ current \in EventSet \cup {None}
  /\ todo \subseteq Threadless
  /\ queue \in [Threaded -> Seq(EventSet)]
  /\ phase \in [Modules -> {"boot", "counted", "running", "shutdown"}]
  /\ id \in [Modules -> Nat]
  /\ cycle \in Nat
  /\ module_list \subseteq Modules
  /\ active_modules_count \in Nat
  /\ shutdown_supported_count \in Nat
  /\ mainStarted \in BOOLEAN
  /\ util_state \in {"STATE_INIT", "STATE_REBOOT_PENDING"}
  /\ error_signaled \in BOOLEAN
  /\ reboot_work \in {"idle", "long", "short"}
  /\ rebooted \in BOOLEAN
  /\ dropped \in BOOLEAN
  /\ errors \in 0..MaxErrors
  /\ others \in 0..MaxOther

\* The reboot is brought forward to 5 s only once every supporting module that
\* has started acknowledges the shutdown (util_module.c, reboot_ack_check).
EarlyRebootOnlyAfterAllAcks ==
  [][(reboot_work' = "short" /\ reboot_work # "short") =>
       \A m \in Supports : id[m] # 0 => phase[m] = "shutdown"]_vars

\* Conversely, when every supporting module that has started has acknowledged and
\* the acknowledgements have been read, the early reboot is scheduled: the device
\* does not sit out CONFIG_REBOOT_TIMEOUT (util_module.c, reboot_ack_check).
Started == {m \in Supports : id[m] # 0}
AllAcksRead ==
  /\ util_state = "STATE_REBOOT_PENDING"
  /\ Idle
  /\ Started # {}
  /\ \A m \in Started : phase[m] = "shutdown"
  /\ ~InFlight("SHUTDOWN_READY")
AllAcksStartEarlyReboot == AllAcksRead => reboot_work = "short"

\* The registry's counter is the number of supporting modules that are inside or
\* past module_start() and have not been deregistered (modules_common.c).
Pending == {m \in Supports : m \in module_list \/ phase[m] = "counted"}
CountMatchesRegistry == shutdown_supported_count = Cardinality(Pending)

\* A purged queue never goes unnoticed, whatever it held: the error it raised is
\* on its way to the utility module or has started a reboot.
PurgeIsReported ==
  dropped => \/ error_signaled
             \/ current.type = "ERROR"
             \/ InFlight("ERROR")

\* A reported error always ends in a reboot, even if acknowledgements are lost in
\* a purge, never sent, or ignored after APP_EVT_START reset the utility module.
ErrorEndsInReboot == (current.type = "ERROR" \/ dropped) ~> rebooted
=============================================================================
