------------------------------- MODULE CloudLink -------------------------------
(***************************************************************************)
(* How the cloud module keeps the cloud connection (cloud_module.c, with   *)
(* the user association of nrf_cloud_integration.c): its super state       *)
(* follows LTE, its sub state follows the cloud library, and the delayable *)
(* work connect_check_work drives the retries.                             *)
(*                                                                         *)
(* Four actors interleave: the module's thread, the delayable works, the   *)
(* library's thread with its callbacks, and the modem.  The event manager  *)
(* and the module's message queue are one FIFO here, since the module      *)
(* thread is the only reader that matters.                                 *)
(***************************************************************************)
EXTENDS Naturals, Sequences, MessageQueue

CONSTANTS
  ConnectRetries,   \* CONFIG_CLOUD_CONNECT_RETRIES
  BackoffEntries,   \* entries of the table backoff_delay
  QueueSize,        \* CLOUD_QUEUE_ENTRY_COUNT
  MaxChanges,       \* bound: LTE and carrier FOTA changes
  MaxDrops,         \* bound: established connections that are lost
  MaxAssociations   \* bound: user associations

\* cloud_module.c asserts the relation at build time: retries < 14 of 16 entries.
ASSUME CloudAssumption ==
  /\ ConnectRetries \in Nat
  /\ BackoffEntries \in Nat /\ ConnectRetries + 2 < BackoffEntries
  /\ QueueSize \in Nat \ {0}
  /\ MaxChanges \in Nat /\ MaxDrops \in Nat /\ MaxAssociations \in Nat

VARIABLES
  state,
  sub_state,
  connect_retries,
  connect_check_work,  \* scheduled
  pc,                  \* the thread: idle, or inside cloud_wrap_connect()
  cloudQ,              \* msgq_cloud
  error,               \* CLOUD_EVT_ERROR has been sent; a reboot will follow
  link,                \* the library: off, connecting, connected, closing
  user_associating_work,
  lte,                 \* the modem: off, down, up
  fota,                \* the carrier updates the modem
  changes, drops, associations

thread == <<state, sub_state, connect_retries, pc>>
modem == <<lte, fota, changes>>
bounds == <<drops, associations>>
vars == <<thread, connect_check_work, cloudQ, error, link, user_associating_work, modem, bounds>>

Init ==
  /\ state = "LTE_INIT"
  /\ sub_state = "CLOUD_DISCONNECTED"
  /\ connect_retries = 0
  /\ connect_check_work = FALSE
  /\ pc = "idle"
  /\ cloudQ = << >>
  /\ error = FALSE
  /\ link = "off"
  /\ user_associating_work = FALSE
  /\ lte = "off"
  /\ fota = FALSE
  /\ changes = 0 /\ drops = 0 /\ associations = 0

\* What the thread can find in its queue; OTHER stands for messages without effect here.
MessageTypes ==
  {"INITIALIZED", "LTE_CONNECTED", "LTE_DISCONNECTED", "FOTA_PENDING", "FOTA_STOPPED",
   "CONNECTED", "DISCONNECTED", "TIMEOUT", "SHUTDOWN_REQUEST", "OTHER"}

\* An event reaches the queue, or finds it full and purges it.
Put(type) ==
  /\ cloudQ' = Enqueue(cloudQ, type, QueueSize)
  /\ error' = (error \/ Overflows(cloudQ, QueueSize))

Awaits(type) == \E i \in 1..Len(cloudQ) : cloudQ[i] = type

-----------------------------------------------------------------------------
(* The modem module, as the cloud module sees it.                           *)

ModemInitialized ==
  /\ lte = "off"
  /\ lte' = "down"
  /\ Put("INITIALIZED")
  /\ UNCHANGED <<thread, connect_check_work, link, user_associating_work, fota, changes, bounds>>

LteChange ==
  /\ lte # "off" /\ changes < MaxChanges
  /\ changes' = changes + 1
  /\ lte' = IF lte = "up" THEN "down" ELSE "up"
  /\ Put(IF lte = "up" THEN "LTE_DISCONNECTED" ELSE "LTE_CONNECTED")
  /\ UNCHANGED <<thread, connect_check_work, link, user_associating_work, fota, bounds>>

CarrierFota ==
  /\ lte # "off" /\ changes < MaxChanges
  /\ changes' = changes + 1
  /\ fota' = ~fota
  /\ Put(IF fota THEN "FOTA_STOPPED" ELSE "FOTA_PENDING")
  /\ UNCHANGED <<thread, connect_check_work, link, user_associating_work, lte, bounds>>

-----------------------------------------------------------------------------
(* The cloud library and cloud_wrap_event_handler(), on the library's       *)
(* thread.                                                                  *)

Established ==
  /\ link = "connecting"
  /\ link' = "connected"
  /\ Put("CONNECTED")
  /\ UNCHANGED <<thread, connect_check_work, user_associating_work, modem, bounds>>

ConnectFails ==
  /\ link = "connecting"
  /\ link' = "off"
  /\ UNCHANGED <<thread, connect_check_work, cloudQ, error, user_associating_work, modem, bounds>>

Dropped ==
  /\ link = "connected"
  /\ drops < MaxDrops
  /\ drops' = drops + 1
  /\ link' = "closing"
  /\ UNCHANGED <<thread, connect_check_work, cloudQ, error, user_associating_work, modem,
                 associations>>

Closed ==
  /\ link = "closing"
  /\ link' = "off"
  /\ Put("DISCONNECTED")
  /\ UNCHANGED <<thread, connect_check_work, user_associating_work, modem, bounds>>

\* The reconnection routine rests until the device has been added to nRF Cloud.
\* The thread may be in the middle of connect_retries++, which then wins.
AssociationRequested ==
  /\ link = "connecting"
  /\ associations < MaxAssociations
  /\ associations' = associations + 1
  /\ user_associating_work' = TRUE
  /\ connect_check_work' = FALSE
  /\ connect_retries' \in {0} \cup (IF pc = "connecting" THEN {connect_retries} ELSE {})
  /\ Put("OTHER")
  /\ UNCHANGED <<state, sub_state, pc, link, modem, drops>>

\* The association is completed by a new connection; nrf_cloud_disconnect() may fail.
Associated ==
  /\ link = "connecting"
  /\ user_associating_work
  /\ \/ /\ user_associating_work' = FALSE
        /\ link' = "closing"
        /\ connect_check_work' = TRUE
        /\ Put("OTHER")
     \/ /\ error' = TRUE
        /\ UNCHANGED <<user_associating_work, link, connect_check_work, cloudQ>>
  /\ UNCHANGED <<thread, modem, bounds>>

AssociationTimeout ==
  /\ user_associating_work
  /\ user_associating_work' = FALSE
  /\ error' = TRUE
  /\ UNCHANGED <<thread, connect_check_work, cloudQ, link, modem, bounds>>

-----------------------------------------------------------------------------
\* connect_check_work_fn(), on the system workqueue.
connect_check_work_fn ==
  /\ connect_check_work
  /\ connect_check_work' = FALSE
  /\ IF (state = "LTE_CONNECTED" /\ sub_state = "CLOUD_CONNECTED") \/ state = "LTE_DISCONNECTED"
     THEN UNCHANGED <<cloudQ, error>>
     ELSE Put("TIMEOUT")
  /\ UNCHANGED <<thread, link, user_associating_work, modem, bounds>>

\* The utility module answers an error with its shutdown request.
ShutdownRequested ==
  /\ error
  /\ state # "SHUTDOWN" /\ ~Awaits("SHUTDOWN_REQUEST")
  /\ Put("SHUTDOWN_REQUEST")
  /\ UNCHANGED <<thread, connect_check_work, link, user_associating_work, modem, bounds>>

-----------------------------------------------------------------------------
(* The thread.                                                              *)

Msg(type) ==
  /\ pc = "idle"
  /\ cloudQ # << >>
  /\ Head(cloudQ) = type
  /\ cloudQ' = Tail(cloudQ)

connect_cloud_unlimited ==
  /\ pc' = "connecting"
  /\ link' = IF link = "off" THEN "connecting" ELSE link
  /\ UNCHANGED error

\* connect_cloud(), up to and including the call of cloud_wrap_connect(), which
\* fails unless the library is at rest; the failure is ignored.
connect_cloud ==
  \/ /\ connect_retries > ConnectRetries
     /\ error' = TRUE
     /\ UNCHANGED <<pc, link>>
  \/ /\ connect_retries <= ConnectRetries
     /\ pc' = "connecting"
     /\ link' = IF link = "off" THEN "connecting" ELSE link
     /\ UNCHANGED error

ConnectReturnsDown ==
  /\ pc = "connecting"
  /\ pc' = "idle"
  /\ connect_retries' = connect_retries - 1
  /\ connect_check_work' = TRUE
  /\ UNCHANGED <<state, sub_state, cloudQ, error, link, user_associating_work, modem, bounds>>

ConnectReturnsUnchecked ==
  /\ pc = "connecting"
  /\ pc' = "idle"
  /\ connect_retries' = connect_retries + 1
  /\ UNCHANGED <<state, sub_state, connect_check_work, cloudQ, error, link,
                 user_associating_work, modem, bounds>>

\* connect_cloud(), after the call.
ConnectReturns ==
  /\ pc = "connecting"
  /\ pc' = "idle"
  /\ connect_retries' = connect_retries + 1
  /\ connect_check_work' = TRUE
  /\ UNCHANGED <<state, sub_state, cloudQ, error, link, user_associating_work, modem, bounds>>

disconnect_cloud ==
  /\ link' \in IF link = "connected" THEN {"closing"}
               ELSE IF link = "connecting" THEN {"closing", "off"} ELSE {link}
  /\ connect_retries' = 0
  /\ connect_check_work' = FALSE

on_state_init ==
  /\ Msg("INITIALIZED")
  /\ state = "LTE_INIT"
  /\ state' = "LTE_DISCONNECTED"
  /\ UNCHANGED <<sub_state, connect_retries, pc, connect_check_work, error, link>>

on_state_lte_disconnected ==
  /\ Msg("LTE_CONNECTED")
  /\ state = "LTE_DISCONNECTED"
  /\ state' = "LTE_CONNECTED"
  /\ connect_cloud
  /\ UNCHANGED <<sub_state, connect_retries, connect_check_work>>

on_state_lte_connected_keeps_sub_state ==
  /\ state = "LTE_CONNECTED"
  /\ Msg("LTE_DISCONNECTED")
  /\ state' = "LTE_DISCONNECTED"
  /\ disconnect_cloud
  /\ UNCHANGED <<sub_state, pc, error>>

on_state_lte_connected ==
  /\ state = "LTE_CONNECTED"
  /\ \/ /\ Msg("LTE_DISCONNECTED")
        /\ sub_state' = "CLOUD_DISCONNECTED"
        /\ state' = "LTE_DISCONNECTED"
        /\ disconnect_cloud
        /\ UNCHANGED <<pc, error>>
     \/ /\ Msg("FOTA_PENDING")
        /\ sub_state' = "CLOUD_DISCONNECTED"
        /\ disconnect_cloud
        /\ UNCHANGED <<state, pc, error>>
     \/ /\ Msg("FOTA_STOPPED")
        /\ connect_cloud
        /\ UNCHANGED <<state, sub_state, connect_retries, connect_check_work>>

on_sub_state_cloud_connected_no_retry ==
  /\ Msg("DISCONNECTED")
  /\ state = "LTE_CONNECTED" /\ sub_state = "CLOUD_CONNECTED"
  /\ sub_state' = "CLOUD_DISCONNECTED"
  /\ UNCHANGED <<state, connect_retries, connect_check_work, pc, error, link>>

on_sub_state_cloud_connected ==
  /\ Msg("DISCONNECTED")
  /\ state = "LTE_CONNECTED" /\ sub_state = "CLOUD_CONNECTED"
  /\ sub_state' = "CLOUD_DISCONNECTED"
  /\ connect_check_work' = TRUE
  /\ UNCHANGED <<state, connect_retries, pc, error, link>>

on_sub_state_cloud_disconnected ==
  /\ state = "LTE_CONNECTED" /\ sub_state = "CLOUD_DISCONNECTED"
  /\ \/ /\ Msg("CONNECTED")
        /\ sub_state' = "CLOUD_CONNECTED"
        /\ connect_retries' = 0
        /\ connect_check_work' = FALSE
        /\ UNCHANGED <<state, pc, error, link>>
     \/ /\ Msg("TIMEOUT")
        /\ connect_cloud
        /\ UNCHANGED <<state, sub_state, connect_retries, connect_check_work>>

on_all_states ==
  /\ Msg("SHUTDOWN_REQUEST")
  /\ state' = "SHUTDOWN"
  /\ UNCHANGED <<sub_state, connect_retries, pc, connect_check_work, error, link>>

\* Messages the state has no handler for.
Ignored(type) ==
  CASE type = "INITIALIZED" -> state # "LTE_INIT"
    [] type = "LTE_CONNECTED" -> state # "LTE_DISCONNECTED"
    [] type \in {"LTE_DISCONNECTED", "FOTA_PENDING", "FOTA_STOPPED"} -> state # "LTE_CONNECTED"
    [] type = "DISCONNECTED" -> state # "LTE_CONNECTED" \/ sub_state # "CLOUD_CONNECTED"
    [] type \in {"CONNECTED", "TIMEOUT"} ->
         state # "LTE_CONNECTED" \/ sub_state # "CLOUD_DISCONNECTED"
    [] type = "SHUTDOWN_REQUEST" -> FALSE
    [] OTHER -> TRUE

IgnoreMessage ==
  \E type \in MessageTypes :
    /\ Msg(type)
    /\ Ignored(type)
    /\ UNCHANGED <<thread, connect_check_work, error, link>>

HandleMessage ==
  /\ \/ on_state_init \/ on_state_lte_disconnected \/ on_state_lte_connected
     \/ on_sub_state_cloud_connected \/ on_sub_state_cloud_disconnected
     \/ on_all_states \/ IgnoreMessage
  /\ UNCHANGED <<user_associating_work, modem, bounds>>

ModuleThread == HandleMessage \/ ConnectReturns

-----------------------------------------------------------------------------
Library ==
  \/ Established \/ ConnectFails \/ Dropped \/ Closed
  \/ AssociationRequested \/ Associated \/ AssociationTimeout

Next ==
  \/ ModemInitialized \/ LteChange \/ CarrierFota
  \/ Library
  \/ connect_check_work_fn \/ ShutdownRequested
  \/ ModuleThread

\* The thread is scheduled, scheduled works expire and a closing connection is
\* closed.  The library never has to connect, nor the user to associate.
Fairness ==
  /\ WF_vars(ModuleThread)
  /\ WF_vars(connect_check_work_fn)
  /\ WF_vars(AssociationTimeout)
  /\ WF_vars(Closed)

Spec == Init /\ [][Next]_vars
FairSpec == Spec /\ Fairness

-----------------------------------------------------------------------------
(* Properties                                                               *)

TypeOK ==
  /\ state \in {"LTE_INIT", "LTE_DISCONNECTED", "LTE_CONNECTED", "SHUTDOWN"}
  /\ sub_state \in {"CLOUD_DISCONNECTED", "CLOUD_CONNECTED"}
  /\ connect_retries \in Nat
  /\ connect_check_work \in BOOLEAN
  /\ pc \in {"idle", "connecting"}
  /\ cloudQ \in Seq(MessageTypes)
  /\ error \in BOOLEAN
  /\ link \in {"off", "connecting", "connected", "closing"}
  /\ user_associating_work \in BOOLEAN
  /\ lte \in {"off", "down", "up"}
  /\ fota \in BOOLEAN
  /\ changes \in 0..MaxChanges /\ drops \in 0..MaxDrops /\ associations \in 0..MaxAssociations

\* connect_cloud() reads backoff_delay[connect_retries] before it compares the
\* retries with their limit; through every race of the retries with the resets of
\* the library's callbacks the index stays inside the table (cloud_module.c).
BackoffInTable == connect_retries < BackoffEntries

\* While LTE is up and no carrier update holds it back, a module that is not
\* connected to the cloud is never stranded: a retry is scheduled or in the queue,
\* the user association is awaited, or the error that reboots the device has been
\* sent (cloud_module.c, connect_check_work).
Disconnected == state = "LTE_CONNECTED" /\ sub_state = "CLOUD_DISCONNECTED"
HeldBack == fota \/ Awaits("FOTA_STOPPED")
NeverStranded ==
  (Disconnected /\ pc = "idle" /\ ~HeldBack) =>
    connect_check_work \/ Awaits("TIMEOUT") \/ user_associating_work \/ error

\* The module never stays wrong about the connection: if it believes to be
\* connected and is not, the DISCONNECTED that corrects it is still to come
\* (cloud_module.c, sub_state).
ConnectedIsCorrected ==
  (state = "LTE_CONNECTED" /\ sub_state = "CLOUD_CONNECTED") =>
    link \in {"connected", "closing"} \/ Awaits("DISCONNECTED") \/ error

\* "If the module is disconnected, it will try to reconnect while the LTE
\* connection is still valid" and gives up with CLOUD_EVT_ERROR (cloud_module.rst):
\* being disconnected always comes to an end, one way or the other.
DisconnectionEnds == Disconnected ~> (~Disconnected \/ HeldBack \/ error)

=============================================================================
