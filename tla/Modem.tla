--------------------------------- MODULE Modem ---------------------------------
(***************************************************************************)
(* The modem module (modem_module.c) and the modem's link.  The module's   *)
(* thread handles one message at a time; the modem's notices come from     *)
(* another thread at any time and reach the module, like everybody else,   *)
(* as events: modem_state follows the module's own events.                 *)
(***************************************************************************)
EXTENDS Naturals, Sequences, EventManager, MessageQueue

CONSTANT ModemQueueSize   \* MODEM_QUEUE_ENTRY_COUNT
ASSUME ModemAssumption == ModemQueueSize \in Nat \ {0}

VARIABLES
  modem_state,   \* DISCONNECTED, CONNECTING, CONNECTED, SHUTDOWN; BOOT before the first
  modemQ,        \* msgq_modem
  announcing,    \* lte_connect() has asked the modem and not yet sent LTE_CONNECTING
  lte,           \* the modem: offline, searching, attached
  failed         \* MODEM_EVT_ERROR was sent: the utility module reboots the device

modemVars == <<modem_state, modemQ, announcing, lte, failed>>

Ev(type, data) == [type |-> type, data |-> data]
Plain(type) == Ev(type, "none")

CarrierRequests == {"LINK_UP_REQUEST", "LINK_DOWN_REQUEST", "POWER_OFF_REQUEST"}
CloudRequests == {"CLOUD_LTE_CONNECT", "CLOUD_LTE_DISCONNECT"}
PsmRequests == {"USER_ASSOCIATION_REQUEST", "USER_ASSOCIATED"}
ModemSubscribed ==
  {"START", "DATA_GET", "SHUTDOWN_REQUEST", "LTE_CONNECTING", "LTE_CONNECTED",
   "LTE_DISCONNECTED"} \cup CarrierRequests \cup CloudRequests \cup PsmRequests

ModemInit ==
  /\ modem_state = "BOOT" /\ modemQ = << >>
  /\ announcing = FALSE /\ lte = "offline" /\ failed = FALSE

\* app_event_handler(): the event in the module's queue, or the queue purged.
PutModem(e) ==
  IF e.type \in ModemSubscribed
  THEN /\ modemQ' = Enqueue(modemQ, e, ModemQueueSize)
       /\ failed' = (failed \/ Overflows(modemQ, ModemQueueSize))
  ELSE UNCHANGED <<modemQ, failed>>

-----------------------------------------------------------------------------
(* The modem: pdn_event_handler() and the carrier library's requests.       *)

pdn_event_handler ==
  /\ \/ lte = "searching" /\ lte' = "attached" /\ Submit(Plain("LTE_CONNECTED"))
     \/ lte = "attached" /\ lte' = "searching" /\ Submit(Plain("LTE_DISCONNECTED"))
  /\ UNCHANGED <<modem_state, modemQ, announcing, failed>>

lwm2m_carrier_event_handler ==
  /\ \E r \in CarrierRequests : Submit(Plain(r))
  /\ UNCHANGED modemVars

\* The link goes down with the radio; a link that was up is reported.
RadioOff ==
  /\ lte' = "offline"
  /\ IF lte = "attached" THEN Submit(Plain("LTE_DISCONNECTED")) ELSE UNCHANGED events

-----------------------------------------------------------------------------
(* The thread.                                                              *)

Boot ==
  /\ modem_state = "BOOT"
  /\ modem_state' = "DISCONNECTED"
  /\ \E ok \in BOOLEAN :
       /\ failed' = (failed \/ ~ok)
       /\ Submit(Plain("MODEM_INITIALIZED"))
  /\ UNCHANGED <<modemQ, announcing, lte>>

Taking(type) ==
  /\ modem_state # "BOOT" /\ ~announcing
  /\ modemQ # << >> /\ Head(modemQ).type = type
  /\ modemQ' = Tail(modemQ)

\* lte_connect() up to lte_lc_connect_async(), and the event that follows.
lte_connect ==
  \/ /\ announcing' = TRUE
     /\ lte' = IF lte = "offline" THEN "searching" ELSE lte
     /\ UNCHANGED <<events, failed>>
  \/ /\ failed' = TRUE
     /\ UNCHANGED <<announcing, lte, events>>

Announce ==
  /\ announcing
  /\ announcing' = FALSE
  /\ Submit(Plain("LTE_CONNECTING"))
  /\ UNCHANGED <<modem_state, modemQ, lte, failed>>

\* An error of the modem goes unnoticed.
GoOffline_unchecked ==
  \/ RadioOff /\ modem_state' = "DISCONNECTED" /\ UNCHANGED <<announcing, failed>>
  \/ modem_state' = "DISCONNECTED" /\ UNCHANGED <<failed, announcing, lte, events>>

\* lte_lc_offline() or lte_lc_power_off(), then the new state; or an error.
GoOffline ==
  \/ RadioOff /\ modem_state' = "DISCONNECTED" /\ UNCHANGED <<announcing, failed>>
  \/ failed' = TRUE /\ UNCHANGED <<modem_state, announcing, lte, events>>

StateSet(s) == modem_state' = s /\ UNCHANGED <<announcing, lte, failed, events>>

on_state_disconnected ==
  /\ modem_state = "DISCONNECTED"
  /\ \/ Taking("LTE_CONNECTED") /\ StateSet("CONNECTED")
     \/ Taking("LTE_CONNECTING") /\ StateSet("CONNECTING")
     \/ /\ Taking("LINK_UP_REQUEST") \/ Taking("CLOUD_LTE_CONNECT")
        /\ lte_connect
        /\ UNCHANGED modem_state

on_state_connecting ==
  /\ modem_state = "CONNECTING"
  /\ \/ Taking("CLOUD_LTE_DISCONNECT") /\ GoOffline
     \/ Taking("LTE_CONNECTED") /\ StateSet("CONNECTED")

on_state_connected ==
  /\ modem_state = "CONNECTED"
  /\ \/ Taking("LTE_DISCONNECTED") /\ StateSet("DISCONNECTED")
     \/ /\ \E r \in {"LINK_DOWN_REQUEST", "CLOUD_LTE_DISCONNECT", "POWER_OFF_REQUEST"} : Taking(r)
        /\ GoOffline

\* A request to sample the modem is answered whatever the state.
DataGet(types) ==
  /\ \E ready \in SUBSET types :
       events' = events \o
         (IF "MODEM_STATIC" \in types
          THEN <<Ev("MODEM_STATIC", "MODEM_STATIC" \in ready)>> ELSE << >>)
         \o (IF "MODEM_DYNAMIC" \in types
             THEN <<Ev("MODEM_DYNAMIC", "MODEM_DYNAMIC" \in ready)>> ELSE << >>)
  /\ UNCHANGED <<modem_state, announcing, lte, failed>>

on_all_states ==
  \/ Taking("START") /\ lte_connect /\ UNCHANGED modem_state
  \/ /\ \E r \in PsmRequests : Taking(r)
     /\ failed' \in {failed, TRUE}
     /\ UNCHANGED <<modem_state, announcing, lte, events>>
  \/ Taking("DATA_GET") /\ DataGet(Head(modemQ).data)
  \/ /\ Taking("SHUTDOWN_REQUEST")
     /\ modem_state' = "SHUTDOWN"
     /\ lte' = "offline"
     /\ events' = events
          \o (IF lte = "attached" THEN <<Plain("LTE_DISCONNECTED")>> ELSE << >>)
          \o <<Plain("MODEM_SHUTDOWN_READY")>>
     /\ UNCHANGED <<announcing, failed>>

\* A message the state has no handler for.
Dropped(type) ==
  CASE type = "LTE_CONNECTED" -> modem_state \in {"CONNECTED", "SHUTDOWN"}
    [] type = "LTE_DISCONNECTED" -> modem_state # "CONNECTED"
    [] type \in {"LTE_CONNECTING", "LINK_UP_REQUEST", "CLOUD_LTE_CONNECT"} ->
         modem_state # "DISCONNECTED"
    [] type \in {"LINK_DOWN_REQUEST", "POWER_OFF_REQUEST"} -> modem_state # "CONNECTED"
    [] type = "CLOUD_LTE_DISCONNECT" -> modem_state \notin {"CONNECTING", "CONNECTED"}
    [] OTHER -> FALSE

DropMessage ==
  /\ \E type \in ModemSubscribed : Taking(type) /\ Dropped(type)
  /\ UNCHANGED <<modem_state, announcing, lte, failed, events>>

module_thread_fn ==
  \/ Boot \/ Announce
  \/ on_state_disconnected \/ on_state_connecting \/ on_state_connected \/ on_all_states
  \/ DropMessage
=============================================================================
