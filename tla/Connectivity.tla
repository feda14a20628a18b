------------------------------ MODULE Connectivity ------------------------------
(***************************************************************************)
(* The modem module and the user interface on the event manager: what the  *)
(* modem does, what its module knows of it, and what the LEDs tell the     *)
(* user, each one step behind the other.  The remaining modules are the    *)
(* environment.                                                            *)
(***************************************************************************)
EXTENDS Modem, UserInterface

CONSTANTS
  OutsideEvents,   \* what the other modules may submit
  MaxOutside,      \* bound: how many of those
  MaxLinkChanges,  \* bound: changes of the link and requests of the carrier
  Strict           \* the workqueue runs before every other thread, as on the device

\* No other module reports the link or drives the LEDs.
ASSUME ConnectivityAssumption ==
  /\ \A e \in OutsideEvents : e.type \notin {"LTE_CONNECTED", "LTE_DISCONNECTED", "LED_STATE"}
  /\ MaxOutside \in Nat /\ MaxLinkChanges \in Nat /\ Strict \in BOOLEAN

VARIABLES outside, linkChanges   \* spent from the bounds

vars == <<events, modemVars, uiVars, outside, linkChanges>>

Init ==
  /\ events = <<Plain("START")>>
  /\ ModemInit /\ UiInit
  /\ outside = 0 /\ linkChanges = 0

\* The system workqueue is cooperative: an event is delivered before any other
\* thread goes on.
Preempted == Strict /\ events # << >>

\* The event manager's work: the oldest event to both modules.
Deliver ==
  /\ events # << >>
  /\ LET e == Head(events) IN
     /\ PutModem(e)
     /\ message_handler(e)
     /\ events' = Tail(events) \o UiSubmits(e)
  /\ UNCHANGED <<modem_state, announcing, lte, outside, linkChanges>>

LedWork == led_pattern_update_work_fn /\ UNCHANGED <<modemVars, outside, linkChanges>>

ModemThread == ~Preempted /\ module_thread_fn /\ UNCHANGED <<uiVars, outside, linkChanges>>

\* Bound: nothing new once the device is about to reboot.
LinkChanges ==
  /\ ~Preempted /\ ~failed
  /\ linkChanges < MaxLinkChanges
  /\ linkChanges' = linkChanges + 1
  /\ pdn_event_handler \/ (modem_state # "BOOT" /\ lwm2m_carrier_event_handler)
  /\ UNCHANGED <<uiVars, outside>>

OthersSubmit ==
  /\ ~Preempted /\ ~failed
  /\ outside < MaxOutside
  /\ outside' = outside + 1
  /\ \E e \in OutsideEvents : Submit(e)
  /\ UNCHANGED <<modemVars, uiVars, linkChanges>>

Next == Deliver \/ LedWork \/ ModemThread \/ LinkChanges \/ OthersSubmit

Spec == Init /\ [][Next]_vars

\* The workqueue and the module's thread are scheduled, and a timer expires.
FairSpec == Spec /\ WF_vars(Deliver) /\ WF_vars(LedWork) /\ WF_vars(ModemThread)

-----------------------------------------------------------------------------
(* Properties                                                               *)

Quiet == events = << >> /\ modemQ = << >> /\ ~announcing

\* Once its messages are handled, the module's state is the truth about the
\* link: CONNECTED exactly when the modem is attached, although both change it
\* (PDN_EVENT_* against lte_lc_offline() in on_state_*).
ModemFollowsLink ==
  (Quiet /\ ~failed /\ modem_state \notin {"BOOT", "SHUTDOWN"})
    => (modem_state = "CONNECTED") = (lte = "attached")

Shown(led) == shown = [i \in Leds |-> IF i \in LedsOf(led) THEN led ELSE "TURN_OFF"]

\* Whatever patterns were left in the list or on their timer, the LEDs settle on
\* the state the module is in (doc/ui_module.rst: "the correct LED pattern").
LedsFollowState ==
  (events = << >> /\ ~led_pattern_update_work) =>
    CASE ui_state \in {"LTE_CONNECTING", "CLOUD_CONNECTING", "CLOUD_ASSOCIATING", "FOTA_UPDATING"} ->
           Shown(ui_state)
      [] ui_state = "SHUTDOWN" -> Shown("FOTA_UPDATE_REBOOT") \/ Shown("ERROR_SYSTEM_FAULT")
      [] ui_state = "RUNNING" ->
           \/ Shown("TURN_OFF") \/ Shown("CLOUD_ASSOCIATED")
           \/ sub_sub_state = "LOCATION_ACTIVE" /\ Shown("LOCATION_SEARCHING")
      [] OTHER -> TRUE

\* The patterns of limited duration run out: the work comes to rest.
PatternsEnd == led_pattern_update_work ~> ~led_pattern_update_work
=============================================================================
