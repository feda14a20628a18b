----------------------------- MODULE UserInterface -----------------------------
(***************************************************************************)
(* The user interface: the UI module (ui_module.c), which has no thread,   *)
(* its delayed work that walks a list of LED patterns, and the LED module  *)
(* (led_module.c), which turns a pattern into what each LED shows.  The    *)
(* handlers and the work run on the same workqueue, one at a time.         *)
(***************************************************************************)
EXTENDS Naturals, Sequences, EventManager

CONSTANTS
  Leds,       \* LED_ID_1 ...
  LedsOf(_)   \* led_state_def.h: the LEDs a pattern lights

VARIABLES
  ui_state,                \* INIT, RUNNING, *_CONNECTING, CLOUD_ASSOCIATING, ...
  sub_state,               \* ACTIVE, PASSIVE
  sub_sub_state,           \* LOCATION_ACTIVE, LOCATION_INACTIVE
  pattern_transition_list, \* [led, hold]: hold is HOLD_FOREVER
  led_pattern_update_work, \* the work is pending
  previous_led_state,
  shown                    \* what each LED shows

uiVars == <<ui_state, sub_state, sub_sub_state, pattern_transition_list,
            led_pattern_update_work, previous_led_state, shown>>

UiEvent(type, data) == [type |-> type, data |-> data]

UiInit ==
  /\ ui_state = "INIT" /\ sub_state = "ACTIVE" /\ sub_sub_state = "LOCATION_INACTIVE"
  /\ pattern_transition_list = << >> /\ led_pattern_update_work = FALSE
  /\ previous_led_state = "COUNT"
  /\ shown = [i \in Leds |-> "TURN_OFF"]

-----------------------------------------------------------------------------
(* The pattern list.                                                        *)

Pattern(led, hold) == [led |-> led, hold |-> hold]
Forever(led) == <<Pattern(led, TRUE)>>

ShowAppends(patterns) ==
  /\ pattern_transition_list' = pattern_transition_list \o patterns
  /\ led_pattern_update_work' = TRUE

\* transition_list_clear(), transition_list_append() and k_work_reschedule().
Show(patterns) ==
  /\ pattern_transition_list' = patterns
  /\ led_pattern_update_work' = TRUE

\* Publication, then the mode, then what the location search shows.
Publication ==
  <<Pattern("CLOUD_PUBLISHING", FALSE),
    Pattern(IF sub_state = "ACTIVE" THEN "ACTIVE_MODE" ELSE "PASSIVE_MODE", FALSE)>>
  \o Forever(IF sub_sub_state = "LOCATION_ACTIVE" THEN "LOCATION_SEARCHING" ELSE "TURN_OFF")

\* The pattern shown stays in the list.
led_pattern_update_work_peeks ==
  /\ led_pattern_update_work
  /\ IF pattern_transition_list = << >>
     THEN /\ led_pattern_update_work' = FALSE
          /\ UNCHANGED <<previous_led_state, events>>
     ELSE LET next == Head(pattern_transition_list) IN
          /\ previous_led_state' = next.led
          /\ IF next.led # previous_led_state
             THEN Submit(UiEvent("LED_STATE", next.led)) ELSE UNCHANGED events
          /\ led_pattern_update_work' = ~next.hold
  /\ UNCHANGED <<ui_state, sub_state, sub_sub_state, shown, pattern_transition_list>>

\* The work: the next pattern, announced unless it is the one shown last.
led_pattern_update_work_fn ==
  /\ led_pattern_update_work
  /\ IF pattern_transition_list = << >>
     THEN /\ led_pattern_update_work' = FALSE
          /\ UNCHANGED <<pattern_transition_list, previous_led_state, events>>
     ELSE LET next == Head(pattern_transition_list) IN
          /\ pattern_transition_list' = Tail(pattern_transition_list)
          /\ previous_led_state' = next.led
          /\ IF next.led # previous_led_state
             THEN Submit(UiEvent("LED_STATE", next.led)) ELSE UNCHANGED events
          /\ led_pattern_update_work' = ~next.hold
  /\ UNCHANGED <<ui_state, sub_state, sub_sub_state, shown>>

\* led_module.c: every LED outside the pattern is turned off.
update_led(led) == shown' = [i \in Leds |-> IF i \in LedsOf(led) THEN led ELSE "TURN_OFF"]

-----------------------------------------------------------------------------
(* The handlers, for the event e being delivered.  StateOf is what the      *)
(* state handlers make of it, on_all_states() what follows in every state.  *)

CloudRelated == {"DATA_SEND", "CLOUD_CONNECTED"}

\* In RUNNING: publications and location searches.
on_state_running(e) ==
  /\ ui_state = "RUNNING"
  /\ \/ e.type \in CloudRelated /\ Show(Publication)
     \/ e.type = "LOCATION_ACTIVE" /\ Show(Forever("LOCATION_SEARCHING"))
     \/ e.type = "LOCATION_INACTIVE" /\ Show(Forever("TURN_OFF"))
  /\ UNCHANGED ui_state

\* The states that wait for an event to return to RUNNING.
Awaited(e) ==
  \/ ui_state = "LTE_CONNECTING" /\ e.type = "LTE_CONNECTED"
  \/ ui_state = "CLOUD_CONNECTING" /\ e.type = "CLOUD_CONNECTED"
  \/ ui_state \in {"CLOUD_CONNECTING", "CLOUD_ASSOCIATING"} /\ e.type = "USER_ASSOCIATED"
  \/ ui_state = "FOTA_UPDATING" /\ e.type = "FOTA_ENDED"

on_state_waiting(e) ==
  /\ Awaited(e)
  /\ Show(Forever(IF e.type = "USER_ASSOCIATED" THEN "CLOUD_ASSOCIATED" ELSE "TURN_OFF"))
  /\ ui_state' = "RUNNING"

\* on_all_states(): what an event shows, and the state it leads to.
Leading ==
  [LTE_CONNECTING |-> "LTE_CONNECTING", CLOUD_CONNECTING |-> "CLOUD_CONNECTING",
   FOTA_START |-> "FOTA_UPDATING", USER_ASSOCIATION_REQUEST |-> "CLOUD_ASSOCIATING"]

on_all_states_leading_appends(e) ==
  /\ e.type \in DOMAIN Leading
  /\ ShowAppends(Forever(Leading[e.type]))
  /\ ui_state' = Leading[e.type]

on_all_states_leading(e) ==
  /\ e.type \in DOMAIN Leading
  /\ Show(Forever(Leading[e.type]))
  /\ ui_state' = Leading[e.type]

on_shutdown_request(e) ==
  /\ e.type = "SHUTDOWN_REQUEST"
  /\ Show(Forever(IF e.data = "FOTA_UPDATE" THEN "FOTA_UPDATE_REBOOT" ELSE "ERROR_SYSTEM_FAULT"))
  /\ ui_state' = "SHUTDOWN"

on_state_init(e) ==
  /\ ui_state = "INIT" /\ e.type = "START"
  /\ ui_state' = "RUNNING"
  /\ UNCHANGED <<pattern_transition_list, led_pattern_update_work>>

Indifferent(e) ==
  /\ ~(ui_state = "RUNNING" /\ e.type \in CloudRelated \cup {"LOCATION_ACTIVE", "LOCATION_INACTIVE"})
  /\ ~Awaited(e) /\ e.type \notin DOMAIN Leading \cup {"SHUTDOWN_REQUEST"}
  /\ ~(ui_state = "INIT" /\ e.type = "START")
  /\ UNCHANGED <<ui_state, pattern_transition_list, led_pattern_update_work>>

\* The sub states follow the configuration and the location module in any state.
SubStates(e) ==
  /\ sub_state' = CASE e.type = "CONFIG" -> e.data
                    [] ui_state = "INIT" /\ e.type = "START" -> "ACTIVE"
                    [] OTHER -> sub_state
  /\ sub_sub_state' = CASE e.type = "LOCATION_ACTIVE" -> "LOCATION_ACTIVE"
                        [] e.type = "LOCATION_INACTIVE" -> "LOCATION_INACTIVE"
                        [] ui_state = "INIT" /\ e.type = "START" -> "LOCATION_INACTIVE"
                        [] OTHER -> sub_sub_state

\* What the handler submits.
UiSubmits(e) == IF e.type = "SHUTDOWN_REQUEST" THEN <<UiEvent("UI_SHUTDOWN_READY", "none")>> ELSE << >>

\* Both modules of the user interface, for one event.
message_handler(e) ==
  /\ \/ on_state_init(e) \/ on_state_running(e) \/ on_state_waiting(e)
     \/ on_all_states_leading(e) \/ on_shutdown_request(e) \/ Indifferent(e)
  /\ SubStates(e)
  /\ IF e.type = "LED_STATE" THEN update_led(e.data) ELSE UNCHANGED shown
  /\ UNCHANGED previous_led_state
=============================================================================
