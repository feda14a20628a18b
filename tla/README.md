# TLA+ models of the Thingy:91 X asset tracker firmware

Models, model checking and proofs for the application in
`src/thingy9151lite_nrf9151_app` (called `app/` below): an asset tracker built
from modules that talk through events. The code is the reference; where a
document or a comment says something else, the models follow the code and the
difference is a run of its own or stands in section 4.

## 1. The system

The nRF9151 runs one application. `main()` is the application module; the other
modules are in `app/src/modules`. They share no state: a module submits an event,
the event manager queues it and hands it to every subscriber on the system
workqueue. A module with a thread only copies the event into its message queue
there and handles it later in its own thread; a module without one acts in the
callback.

| Component | State | Operations | Models |
|---|---|---|---|
| Module registry and queues (`modules_common.c`) | `module_list`, `active_modules_count`, `shutdown_supported_count`, a `k_msgq` per module | `module_start`, `module_enqueue_msg` (purges a full queue), `modules_shutdown_register` | `ShutdownProtocol`, `MessageQueue` |
| Utility (`util_module.c`) | `state`, `error_signaled`, the delayable work `reboot_work` | requests the shutdown on the first error, collects acknowledgements, reboots | `ShutdownProtocol` |
| Application (`main.c`) | `state`, `sub_state` (active, passive), `app_cfg`, three timers, `sample_request_ongoing` | samples by timer, movement, impact, first connection | `AppModule`, `SampleCycle` |
| Data (`data_module.c`): requests | the requested types, two counters, `data_send_work` | counts the answers, ends a request | `DataRequests`, `SampleCycle` |
| Data: storing and sending (with the ring buffers and the nRF Cloud codec) | `state`, ring buffers, `cloud_location`, messages on the heap | stores, encodes, hands over | `DataSender`, `DataDelivery` |
| Data: configuration | `current_cfg`, settings storage | takes, stores, distributes and acknowledges a configuration | `ConfigSync` |
| Cloud (`cloud_module.c`): connection | `state`, `sub_state`, `connect_retries`, `connect_check_work` | connects, backs off, disconnects; user association | `CloudLink` |
| Cloud: QoS | the QoS library's pending list | takes messages, sends on notification, frees buffers | `CloudSender`, `DataDelivery` |
| Cloud: configuration | `copy_cfg` | decodes updates into its copy, hands them on | `ConfigSync` |
| Location (`location_module.c`) | `state`, `sub_state`, `cloud_location_request_pending`, `copy_cfg` | starts, restarts and cancels searches, reports results | `Location`, `LocationService` |
| Modem (`modem_module.c`) | `state`, the modem's own link | connects, goes offline, samples the modem, follows its link | `Modem`, `Connectivity` |
| UI and LED (`ui_module.c`, `led_module.c`) | three levels of state, the LED pattern list and its work, `previous_led_state` | shows the state | `UserInterface`, `Connectivity` |
| Codecs (`app/src/cloud/cloud_codec`) | the flags and time stamps of the samples, cJSON trees, the LwM2M path list and configuration object, `version_prev` | encode each kind of message, decode configurations | `CodecSteps`, `JsonCommon`, `CloudCodecs` |
| Sensor, debug, watchdog, integrations of the other clouds, drivers, nRF5340 cores | | | see section 9 |

How they interact:

* **Sample cycle.** `APP_EVT_DATA_GET` goes to the data module (which notes what was
  asked for and starts the timeout) and to modem, sensor and location, whose
  answers the data module counts. `DATA_EVT_DATA_READY` ends the request: it
  makes the data module encode and the application clear its flag.
* **Delivery.** Encoded messages go as events with a pointer into the heap to the
  cloud module, into the QoS library's list, and out when the library notifies
  of them. Both modules follow the connection, each through its own queue.
* **Configuration.** The cloud library's thread decodes an update into the cloud
  module's copy, which goes to the data module; what the data module puts in force
  goes to every module, the cloud module's copy among them, and back to the cloud.
* **Location.** A request starts a search of the location library, whose thread
  reports coordinates or asks the cloud through two more modules, and whose end the
  location module learns from its own event.
* **Connection.** LTE events of the modem module, which follows its link through its own events, and the callbacks of the cloud
  library drive the cloud module; a delayable work retries.
* **Shutdown.** An error of any module, a reboot request or a finished update makes
  the utility module send `UTIL_EVT_SHUTDOWN_REQUEST`; modules acknowledge, the
  last acknowledgement brings the reboot forward from
  `CONFIG_REBOOT_TIMEOUT` to 5 s.

What is hard here: messages handled after the state they report has changed;
counters shared by a thread and the workqueue without a lock; a full queue that
drops everything it holds; requests that overlap; answers that come twice or
never; retries that race with callbacks; buffers whose owner changes with a
message that may be ignored. `PROJECT.json` lists these hazards with their lines
and the properties that cover them.

What makes each component correct:

* shutdown: every error ends in a reboot; the reboot is brought forward exactly
  when all supporting modules have acknowledged; a purge does not go unnoticed;
* application: the timers are always those of the configuration in force; a
  request it believes to be ongoing has an end to come;
* requests: `DATA_READY` before the timeout only when all answers are there, and
  then without delay; the timeout ends every other request;
* delivery: a sample is encoded at most once, the newest samples are kept, the
  buffers are emptied when the connection is back, each message buffer has one
  owner and is freed;
* connection: never disconnected without something that leads out of it, never
  wrong about the connection without a correction under way, backoff in its table;
* configuration: nothing out of range is ever in force; device and cloud come to
  agree on what is in force and on what the user wants;
* location: no search ends in silence, and the module does not stay in a search;
* modem, UI: what the module believes and what the LEDs show settle on the truth;
* codecs: the heap is sound whichever allocation fails, a sample goes out once, and
  if it is lost the caller hears of it; configurations are applied in order.

## 2. Modules and their correspondence with the code

`PROJECT.json` maps each definition to its lines. Names are the source's.

* **`MessageQueue`**: `module_enqueue_msg()`: append, or purge when full and then
  append. A failed call makes the caller send its `*_EVT_ERROR`.
* **`EventManager`** (external): one FIFO of events in flight.
* **`ShutdownProtocol`**: threads that start (`StartCount`, `StartList`: the two
  halves of `module_start()`, between which another thread can run), main's
  `APP_EVT_START`, delivery to all modules, each module's handling of the request,
  the utility module's two states and its work. An event is delivered one module
  at a time (`current`, `todo`), because a threadless module starts inside the
  delivery of `APP_EVT_START`.
* **`AppModule`**: `main.c` as one action per handler and state: configuration,
  movement, connection, `DATA_GET_ALL`, timers. `RequestList` is what `data_get()`
  puts into a request, static modem data only once.
* **`DataRequests`**: `requested_data_list_set`, `requested_data_status_set` and
  `data_send_work_fn`. The thread is split (`Count`, `Store`, `Compare`, `Send`,
  `Clear`, `Cancel`) where the workqueue can run in between and be noticed.
* **`SampleCycle`**: composes the two over the event manager. The sampling modules
  are the set of answers they still owe; the utility module is the flag
  `error_signaled` and its request.
* **`CloudLink`**: the cloud module's super and sub state, `connect_cloud()` split
  around the call of the library, `connect_check_work_fn`, the library's
  callbacks with the user association, and LTE and carrier updates as the
  modem reports them.
* **`DeliveryQueues`**, **`DataSender`**, **`CloudSender`**, **`DataDelivery`**: storing
  (`StoreSample`, `Populate`), sending at once (`data_press_send`, for button
  presses and impacts), `data_encode()` in its two parts (`encode_cloud_location`,
  `encode_batch_data`, with an event of each in between), the cloud module's
  `TakeMessage` and `SendMessage`, and the QoS library's `NotifyAgain` and
  `Remove`. The heap is a function from addresses to message types, addresses
  are reused. `encoded` is a history variable.
* **`Location`**: the handlers of `location_module.c` run in the event manager's work
  (`ProcessEvent`), `location_event_handler()` in the library's thread, as the sequence
  of its visible effects (`CallbackStep`), between any two of which a handler can run.
  The library has a set of methods left to try, `FirstMethod` first (`Trying`, `LibraryStep`);
  Wi-Fi and cells are one method, `CLOUD`, so that a search asks the cloud at most once; the
  cloud answers late, twice after a new request, or never.
* **`LocationService`**: the abstract specification: a search is open, then answered,
  then over; it may start anew only when something has been reported. `Location`
  implements it with the mapping `phase`, read from the library's search.
* **`Modem`**: the module's states, with `lte_connect()` split between the modem's call
  and the event that follows it (`Announce`); the link is what the modem does.
  **`UserInterface`**: the UI module's states, the pattern list, the work that walks it, and
  `update_led`. **`Connectivity`** composes the two over the event manager.
* **`CodecSteps`**: what one statement of a codec does: take a sample if it is queued,
  convert its time stamp, create objects, add values, attach, clear the flag, print,
  delete, each with its failures. **`JsonCommon`** and **`CloudCodecs`** write every function
  of `json_common.c` and of the four codecs as a sequence of such steps, with where
  it goes on an error (`ScriptOf`: cloud, function, request); the decoders and the LwM2M
  configuration object are actions.
* **`CodecDiscipline`** (no code of its own): the notes that hold before each step of a
  script, when a script keeps to them, and the invariant of a call that follows. It is what the C
  silently relies on: who holds which object, which flags are still to clear, how many paths are used.
* **`ConfigSync`**: the cloud's two documents (`desired`, `reported`), the library's thread
  (`config_data_handle`, `DecodeSetting`, `send_config_received`), the cloud module's
  thread, the data module's `new_config_handle`, a storage that may fail, reboots.

## 3. Runs

`tlc -config <file>.cfg <module>`; states are distinct states.

| Run | Configuration | Question | States |
|---|---|---|---|
| `shutdown` | `MCShutdown.cfg` | `AllAcksStartEarlyReboot`, `EarlyRebootOnlyAfterAllAcks`: the early reboot comes when, and only when, all supporting modules that have started acknowledge. `CountMatchesRegistry`: the counter agrees with the list through late starts. `PurgeIsReported`, `ErrorEndsInReboot` (liveness) | 1.0 M |
| `shutdown_same_cycle` | `MCShutdownSameCycle.cfg` | as `AllAcksStartEarlyReboot`, if two modules may read the same cycle counter: violated | |
| `sample_cycle` | `MCSampleCycle.cfg` | `TimersFollowMode`, `NoCompleteRequestWaits`, `ReadyMeansAllAnswered`, `OngoingHasAnEnd`, with threads run by priority; `RequestCompletes` (liveness): a request ends whatever the modules answer | 0.65 M |
| `cloud_link` | `MCCloudLink.cfg` | `BackoffInTable`, `NeverStranded`, `ConnectedIsCorrected`, `DisconnectionEnds` (liveness) | 0.53 M |
| `delivery` | `MCDataDelivery.cfg` | `OldestIsOverwritten`, `QueuedUntilEncoded`, `OneOwner`, while impacts go round a ring of two, beside a location | 0.74 M |
| `delivery_live` | `MCDeliveryLive.cfg` | `BuffersEmptied`, `TakenIsSent` (liveness) | 0.27 M |
| `delivery_orphan` | `MCDeliveryOrphan.cfg` | `NoBufferOrphaned`, the comment on `data_encode()`: violated | |
| `location` | `MCLocation.cfg` | `KeepsPromise`: implements `LocationService`, liveness included. `PendingMeansAsked`: the flag never cancels a search that has reported nothing. `LeavesSearch` (liveness) | 0.19 M |
| `location_stuck` | `MCLocationStuck.cfg` | `SearchStateIsOngoing`, what `location_module.rst` says of `SUB_STATE_SEARCH`: violated | |
| `connectivity` | `MCConnectivity.cfg` | `ModemFollowsLink`, `LedsFollowState`: at rest, state and LEDs are the truth. `PatternsEnd` (liveness) | 0.63 M |
| `codecs` | `MCCloudCodecs.cfg` | `HeapSound`, `SentOnceButCells`, `LossIsReported`, `PathsFit`, `AppliedInOrder` | 0.35 M |
| `config_sync` | `MCConfigSync.cfg` | `OnlyAccepted`, `CopyFollows`; `Converges`, `CloudKnows` (liveness): what the user wants comes into force, and the cloud knows what is | 0.52 M |

A type invariant (`TypeOK`, `CodecTypeOK`, `ConfigTypeOK`) is checked where types depend on what the code does. Each property of a passing run has
a mutant in `PROJECT.json`: a plausible slip in one definition (`...Late`,
`..._keeps_flag`) under which TLC finds the property violated. These operators stand
next to the definition they deform and are used nowhere else.

Deadlock is not checked: the stimuli are bounded, a device that has rebooted or
sits idle with nothing to sample does nothing more, and that is no fault.

## 4. What the models show of the code

Properties that are violated:

* **Same id.** `module_start()` takes the module's id from the cycle counter and
  acknowledgements are matched by it. The utility module and the location module
  start in the same event; with one id between them the acknowledgement is spent
  on the module that does not count, and the reboot waits for the full timeout.
* **Orphaned buffer.** The data module sends while the cloud module has already
  left the connected state (or its list is full). The event is ignored, the
  buffer is never freed and the samples are no longer in the ring buffers.
* **A search that never was.** While the answer of the cloud is awaited, a request cancels
  the search and starts a new one. If none can start (the configuration
  has disabled every method, or the library refuses), no `INACTIVE` event follows, and
  the module stays in `SUB_STATE_SEARCH`, leaving every later request to that search.

Observations, described by the models but not by a run of their own:

* **Overlapping requests.** An impact or the first connection starts a request
  while another is under way. The first `DATA_READY` clears `sample_request_ongoing`
  (`main.c:521`), and the next timer starts a third request although the second still
  runs; `main.c:83` calls the flag "set high whenever a sample request is ongoing".
* **Answers are counted** (`data_module.c:761`). A location search that falls back answers
  twice; the second answer stands in for a type still missing, and `DATA_READY` is
  sent before "all the data types present in the list is received"
  (`doc/data_module.rst:22`). `ReadyMeansAllAnswered` speaks of requests answered once.
* **Cells lost in silence.** With cells and access points in a location request, the
  codecs of AWS IoT and Azure add the cells, whose flag falls (`json_common.c:692`), before
  they find that there are too few access points (`json_common.c:729`) and give the message
  up with `-ENODATA`: "if data object is not marked valid" (`cloud_codec.h:316`).
  `data_encode()` takes that for nothing to encode (`data_module.c:580`), so that the cells are
  gone and no error is raised. `LossIsReported` holds with this exception, named
  `TooFewAccessPoints`; without it, the run `codecs` finds the loss.
* **Cells again and again.** The LwM2M `cloud_codec_encode_cloud_location()` clears the flag
  of the request where its helper tests that of the cells (`lwm2m_codec.c:88-103`): every
  later request sends the same cells. `SentOnceButCells` names them.
* **Leaks of the codecs.** The text of a location request without cells or access points
  (AWS IoT, Azure) is returned with `-ENODATA` and not freed (`Excused` in `HeapSound`);
  `decode_config()` of all three JSON codecs returns `-ENOENT` before the label that frees the
  parsed message (`RefusedMessage`).
* **Errors lost.** `json_add_obj()` deletes an item it could not add and tells nobody;
  `json_common_wifi_ap_data_add()` returns 0 when the array cannot be allocated (the flag
  stays set, so that the sample is not lost); in the nRF Cloud codec, the check on the air
  quality is `>= 0 || <= 500`, which every value passes; the LwM2M configuration has no
  Wi-Fi setting, and each update of another one enables Wi-Fi again.
* **Time stamps** are converted in place; a sample whose message failed after the
  conversion is refused with `-EINVAL` the next time, and every message with it.
* **Versions.** `version_prev` follows every update, also those that are ignored
  (`aws_iot_codec.c:47`). When the broker sends the latest two again in their order, the first
  lowers it and the second is applied once more: with `Window = 2` and four messages, TLC
  finds `AppliedInOrder` violated. Messages without a version are always applied.
* **Configuration.** A `CONFIG_READY` overwrites what the library has decoded meanwhile: the
  update still comes into force, but a setting may go back for a while. A desired
  value out of range is never taken and keeps coming back as a difference.
* **UI.** It may leave its `SHUTDOWN` state for `LTE_CONNECTING` after it has acknowledged the
  shutdown. **Modem.** A disconnection requested between `lte_connect()` and the module's
  own `LTE_CONNECTING` is lost; `APP_EVT_LTE_DISCONNECT` (`doc/modem_module.rst:33`) is never sent.
* **Watchdog.** `doc/util_module.rst:37` has it supervise the system workqueue; it is fed from
  a work queue of its own.

## 5. Bounds

* `shutdown`: two threads (main's and one more), the utility module and one
  threadless module that supports shutdown: one of each kind the registry tells
  apart. Queues of two entries purge within the bound of two other events; one
  error of a module's own, besides those of purges.
* `sample_cycle`: three data types (modem dynamic, modem static which is asked for only
  once, location) and two stimuli, which is what an overlap of two requests takes;
  the sensor types behave as modem dynamic does. Queues of two entries, filled by
  two requests. Configurations: active and passive, location sampled. Threads in any
  order and answers that repeat are left to the proofs.
* `cloud_link`: two retries and a table of five entries keep the relation the build
  asserts; three changes of LTE or carrier update, two losses of the
  connection and one association allow each to happen inside another.
* `delivery`: three impacts (sent at once, and in the batch) on a ring of two, and a location
  (the slot without a ring): the head wraps with the second impact, and the third has to
  choose the older of two entries, before, between and after the steps that send either; one
  loss of LTE or of the connection, noticed by either module first; a list of one
  message, so that it is found full. A kind that is sent in the batch only takes the same
  steps without the event; several kinds, longer rings and more of everything are left to
  the proofs.
* `delivery_live`: an impact, a location and a configuration, one message of each way
  of sending, and two changes, so that a connection is lost and comes back.
  A message is notified again only when the last notification was taken up and
  it has not been sent: the library's timer could fire more often, to the same
  effect.

* `location`, `location_stuck`: a method of the device's own and one that asks the cloud, the
  cloud first; two requests, so that one finds the search of the other in any of its
  phases; one change of the configuration or shutdown. `location` leaves out the refusals
  that `location_stuck` shows.
* `connectivity`: a queue of three, two changes of the link or requests of the carrier,
  and two events of the other modules out of fourteen, each of which sets a pattern.
* `codecs`: two entries per ring buffer, two cells, two calls: what the first call leaves
  behind is met by the second, and a third meets nothing new. Any step can
  fail, once or more. A list of A-GNSS data and one of access points may be too short
  (`MaybeEmpty`: the two for which the code returns `-ENODATA` after the flag test). Fifteen paths
  is what `overlay-lwm2m.conf` gives the list. Three messages with two versions, the latest of
  which may be repeated.
* `config_sync`: a setting with and one without a range, values below, at and above the
  limit; two changes of the user, one lost connection, one reboot, any storage failing.

Counters of these bounds (`MaxErrors`, `MaxOther`, `MaxStimuli`, `MaxChanges`,
`MaxDrops`, `MaxReboots`, `MaxAssociations`, `MaxSamples`, `MaxConfigs`, `MaxRequests`,
`MaxOutside`, `MaxLinkChanges`, `MaxCalls`, `MaxMessages`, `MaxVersion`) guard only events from
outside the modelled modules.

## 6. Fairness

* Event delivery, module threads and the workqueue are weakly fair: the event
  manager's work and the threads of an embedded scheduler run when they are
  ready and nothing of higher priority runs forever.
* A delayable work that stays scheduled expires: `connect_check_work_fn`, `Reboot`,
  `TimeoutWork` (inside `WorkStep`), `AssociationTimeout`. A closing connection closes.
* In `DataDelivery`, sample cycles keep ending in `DATA_READY` (`RequestCompletes` and
  the timers), and the QoS library notifies again of what it holds.
* In `Location`, the library's thread and its callback run; a method ends in a result or
  a timeout, the cloud need not answer. In `Connectivity`, delivery, the modem's
  thread and the pattern timer. In `ConfigSync`, the three threads, and the QoS library
  retries while there is a connection.
* Nothing else: no module has to answer a request, no connection attempt to succeed,
  no user to associate, no message to be acknowledged, LTE never has to come back.
  `BuffersEmptied`, `TakenIsSent`, `Converges` and `CloudKnows` assume in their statement that the connection
  stays from some time on.

## 7. Proofs

Checked by `tlapm` for all values of the constants that meet the modules' named
assumptions: any bounds, queue sizes, data types or configurations.

**`SampleCycleProofs`** (from `CycleAssumption`, whether `Strict` or not):
`TypeCorrect`; `TimersAlwaysFollowMode`, inductive as it stands;
`CompleteRequestsAreSent` and `ReadyOnlyWhenAnswered`, from

    RequestInv == EventsOK /\ TypeOK /\ NoneComplete /\ Counted

`EventsOK` types the events in flight: that an `ANSWER` carries one type and a
`DATA_GET` only data types is needed before anything can be counted.
`NoneComplete` says, for each point of the thread at which the workqueue can run,
that counters are equal only where the thread is about to compare them.
`Counted` relates the counter at each of these points to the set of types answered: one
behind between the answer's arrival and the store, equal otherwise. Without it, the
counter's value tells nothing of which types have answered.
`RequestHasAnEnd`, from `EndInv`: something that makes a `DATA_READY` is ahead, or there is one in the
application's queue behind every `DATA_GET` in it. The second half is needed because the
application notes a request only when it reads its own `DATA_GET`, perhaps after the data
module has ended it.

**`CloudLinkProofs`** (from `CloudAssumption`): `TypeCorrect`; `BackoffNeverOverrun`
through `RetriesBounded` (the counter is at most one above the limit, and not above
it while the library's call is under way, which a reset by a callback can only
help); `AlwaysARetry` through `FotaAnswered` (a queued `FOTA_PENDING` whose update is
over is followed in the queue by its `FOTA_STOPPED`): without it, the thread could
disconnect for an update that has already ended and wait for good. `WrongBeliefEnds`, from
`CorrectionInv`: while the connection is gone, every `CONNECTED` in the queue has a `DISCONNECTED`
behind it, so that a belief taken from the queue is corrected from the queue.

**`DataDeliveryProofs`** (from `BuffersAssumption`, `DeliveryAssumption`), for any kinds of
samples, ring sizes and pending limit. `BuffersHaveOneOwner` from

    OwnerInv == QueuesTyped /\ HeapTyped /\ pending \subseteq Nat
                  /\ Owned(cloudQ, pending, Allocated)

`Owned` is the property itself over a queue, a list and a set of addresses; what has
to be added is that the queues hold only the events meant for them (a `PRESS_READY`
names a kind that can be sent) and that finitely many buffers are allocated, so
that an allocation finds a free address (`FreeIsNotAllocated`, by counting). The
lemmas on a queue (`AppendSend`, `AppendOther`, `TakeHead`) carry the argument: a SEND
is appended only with an address nobody has, and taken only once.

`BuffersHoldTheNewest` and `SamplesAreEncodedOnce` from

    RingInv == SamplesTyped /\ NewestKept /\ (~error => FlagsTell)

`NewestKept` gives the number in each entry by its `Age`, the distance to the head
around the ring, which is what makes "the last samples" inductive: storing adds one to every
age but that of the entry it overwrites (`PopulateKeepsRing`). The encoders only let flags
fall (`FlagsFall`); where none fails, exactly those of the samples they put into the message
(`EncodingKeepsRing`), and since no two entries that are in use have the same number
(`NumbersDiffer`), no other entry's flag speaks of a sample that has gone. `TypeCorrect` uses it
once more: what is queued is in no message yet, so each message holds a sample that is in
no other (`QueuedIsNew`) or is a configuration, and `HeapCounted` bounds the addresses.

**`ConfigSyncProofs`** (from `ConfigAssumption`), for any settings, values and accepted
ranges: `TypeCorrect`; `OutOfRangeStaysOut`, from `UsableInv`, which adds that what a
`READY` or `SEND` on its way carries is in range, else the copy could be assigned anything;
`CopyIsWhatIsInForce`, from

    CopyInv == (DOMAIN lib # {} => decoding) /\ LastReady(cloudQ, current_cfg) /\ Agree

The property speaks of quiet states only, and no step preserves it as it stands.
`LastReady`: the last `READY` in the cloud module's queue carries what is in force, so
that earlier ones do no lasting harm. `Agree`: while no `READY` is on its way, each
setting is `Explained`: about to be assigned what is in force, equal to it, out of range,
still being decoded, or as the last `RECEIVED` on its way to the data module has it.
The data module answers that one with a `READY` if it takes the value; nothing else can
let the copy drift.

**`ShutdownProofs`** (from `ModulesAssumption`), for any modules, queue sizes and numbers of
errors: `TypeCorrect`, `CountIsRegistry`, `PurgesAreReported`, `EarlyRebootWaits`, from

    RegistryInv == TypeOK /\ Counted /\ StartInv /\ AppStartInv /\ RequestInv
                     /\ AcksInv /\ PurgeInv

`Counted`, that the counters are the sizes of two sets, rests on `StartInv` and `AppStartInv`: a
module starts once, and has its id before it is linked. When the counter is zero, they do not say
who has acknowledged. `AcksInv` counts: the modules deregistered and the acknowledgements
still to be read are together no more than the modules that have shut down. It holds whichever
module an id stands for, so the early reboot is never too early, also where ids coincide. It needs
`RequestInv`: the request is submitted once, and whom it may still reach has not acknowledged.
`AllAcksAreHeard`, that the early reboot is scheduled once all acknowledgements are read, has the
hypothesis `~SameCycle` and adds `IdsDiffer` and `EarlyInv`: for each module that has shut down and
is still registered, an acknowledgement with its id is on its way. Without the hypothesis
it is false, which is the run `shutdown_same_cycle`.

**`LocationProofs`** (from `LocationAssumption`), for any configurations, either method first, and
a library that may refuse or not: `PendingSpeaksOfTheSearch` and
`NoSearchEndsInSilence`, that every step is one of `LocationService` or none: `KeepsPromise`
without its liveness. The invariant `LocationInv` consists of `CallbackInv` (a callback that has a search
to end has answered before), `SearchInv` (a search waits only for the cloud, and after it has been
answered) and `PendingInv`: while the flag is up, the search that is on has asked the cloud and
has no second request of that kind ahead of it. The last part depends on Wi-Fi and cells being one method
of the plan: a list of methods that has GNSS between the two is outside the model, and
there a second request would find the flag up.

**`ConnectivityProofs`** (from `ConnectivityAssumption`: no other module reports the link or drives
the LEDs), for any events of the other modules: `ModuleFollowsLink` and `LedsComeToRest`.
Both properties speak of states at rest; the invariants say what each queue will settle
on, `Settles(queue, types, before, after)`: the last event of these types is `after`, or there is
none and `after` is `before`. `LinkInv` chains it from the module's state through `modemQ` and `events`
to the link; `ShownInv` does so from the LEDs through `events` to the pattern announced last, and `ListInv`
says that the pattern list ends in one that is held and fits the state.

**`CodecsProofs`** (from `CodecsAssumption`): `UpdatesApplyInOrder`, with the hypothesis `Window <= 1`
(the broker repeats at most the latest message): `version_prev` is then the version of the
shadow, and no version above it has been applied. With a larger window it is false (section 4).

The other four are about the encoders, for any of the clouds, ring sizes, numbers of neighbours,
calls and failures: `CodecsTyped`, `HeapStaysSound`, `SamplesSentOnce`, and `PathListSuffices`, which has
the hypothesis `PathsNeeded <= PathListSize`: the path list has at least the 15 entries that
`overlay-lwm2m.conf` gives it. The first three hold for a list of any size: where it is full, the
call fails and stays sound. They come from one invariant,

    CodecInv == HeapOK(heap) /\ StateInv /\ CallInv /\ InitInv /\ (Idle => pc = 1)

and the argument has two halves. The static one is about the source, not about behaviours: every function of every
codec is a *disciplined* script (`EveryScript`). Before each of its steps there is a note,
of the objects that the function has to hang somewhere or to delete (`held`), those that it
may have created (`made`), the samples that are in an object while their flag is still up (`due`), those whose
flag is down (`done`), those the message may have from above (`sent`) and the paths used at most; each step
makes the next note of its own, and each error deletes exactly what the function holds, once
(`StepGood`, `FunctionGood`, `ScriptGood`). One lemma per helper of `json_common.c` and one per
function of each codec build this up from below, a ring buffer of any size at once.
The dynamic half takes any disciplined script: one lemma per kind of step shows that whatever the step does,
succeed, skip the sample or fail, the heap and the flags are again as the note of wherever the call goes on
says (`CallInv`). Neither half could be left out: `HeapSound` is not inductive, since that a
deletion finds its object alive and in no tree depends on what all the steps before it have done,
and which objects a step finds depends on the sizes of buffers the theorem does not fix.

Proofs stay with safety. Liveness under fairness and everything that needs `ENABLED` is only
model-checked: `ErrorEndsInReboot`, `RequestCompletes`, `DisconnectionEnds`, `BuffersEmptied`,
`TakenIsSent`, `LeavesSearch`, the fairness in `KeepsPromise`, `PatternsEnd`, `Converges` and `CloudKnows`.
Of the safety invariants that hold, only `LossIsReported` has no proof. The notes bound what is in a message from
above, and it asks for the converse: that what has lost its flag is in the tree that is printed. That
needs a second discipline for every script, of where in the tree each sample hangs, with the
cells that wait for the access points of their request as its one exception.
The properties of the violated runs are false. No
module declares a recursive operator.

## 8. Simplifications

* Submitting an event and its delivery are one step in `CloudLink` and `DataDelivery`
  (the event manager runs on the cooperative workqueue, above the modules' threads);
  `ShutdownProtocol`, `SampleCycle`, `Location` and `Connectivity` keep the event
  manager's queue. In `ConfigSync` the event manager's queue and the receiver's are one.
* Payloads, JSON text and wording are left out; messages carry their type,
  and a sample its kind and number. Timeouts are "some time later".
* The watchdog and `sys_reboot()` are the end of a run. After an error a reboot
  follows (`ErrorEndsInReboot`), so `DataDelivery` stops there.
* The connection evaluation of `CONFIG_DATA_GRANT_SEND_ON_CONNECTION_QUALITY` is not
  modelled: with that option `grant_send()` refers to `NEIGHBOR_CELLS`, which its
  enumeration does not have, and does not compile. Without it all data is granted.
* `cloud_codec_encode_data()` of the nRF Cloud codec always returns `-ENOTSUP`, so that
  `data_encode()` has two parts that can send, not three.
* The codecs are modelled one call after the other; a failed allocation may come at any
  statement, whatever the heap holds. What a key or number is called is left out.
* In `ConfigSync` the copies of a configuration between threads are made setting by setting
  in any order where one is assigned, and at once where one is read: with the order
  free, a reader sees every mixture.
* `CloudLink`, `SampleCycle` and `DataDelivery` keep their own reduced environments in place of
  `Modem` and `Location`: the composition of all of them has too many states.
* The QoS library gives a message up after a number of notifications; `Remove` may
  happen at any time and stands for that and for the acknowledgement.

## 9. Not modelled, and the plan

Left to do:

1. Proofs: what the liveness properties rest on, as invariants: once an error is signaled the
   reboot is scheduled (`ErrorEndsInReboot`), a disconnected link has a work to come.
2. `LossIsReported` as a theorem, from notes of where in the tree each sample hangs.
3. `SampleCycle` as an implementation of an abstract request (asked, answered or timed
   out, ended once), and `DataDelivery` of a bounded buffer.

Not modelled:

* the sensor module: no state beyond running and shutdown; `SampleCycle` has it as an
  environment that may leave a request unanswered;
* the debug module: Memfault reports that no other module reads;
* the watchdog: three works on one queue around a hardware timer;
* the integrations of AWS IoT, Azure and LwM2M: translation of library calls; only their
  codecs are modelled;
* external sensor and board add-on drivers (register access), shells;
* the nRF5340: a sample of the BLE stack, a USB-UART bridge and the vendor's controller,
  firmware of their own;
* A-GNSS, P-GPS and Memfault messages beyond their encoding: they take the way of the
  messages in `DataDelivery` and add no state to it.
