------------------------------ MODULE CloudSender ------------------------------
(***************************************************************************)
(* The cloud module as the carrier of messages (cloud_module.c): it takes  *)
(* the data module's messages into the pending list of the QoS library     *)
(* while it is connected, sends a message each time the library notifies   *)
(* it of one, and frees the buffer when the library lets go of it.         *)
(*                                                                         *)
(* The states are those of CloudLink, without the reconnection.            *)
(***************************************************************************)
EXTENDS DeliveryQueues, FiniteSets

CONSTANT PendingMax   \* CONFIG_QOS_PENDING_MESSAGES_MAX

ASSUME PendingAssumption == PendingMax \in Nat \ {0}

VARIABLES
  state,
  sub_state,
  pending,   \* the messages in the QoS library's list
  sent       \* those of them that have been given to the cloud library

cloudVars == <<state, sub_state, pending, sent>>

CloudInit ==
  /\ state = "LTE_CONNECTED"
  /\ sub_state = "CLOUD_CONNECTED"
  /\ pending = {}
  /\ sent = {}

Connected == state = "LTE_CONNECTED" /\ sub_state = "CLOUD_CONNECTED"
Connecting == state = "LTE_CONNECTED" /\ sub_state = "CLOUD_DISCONNECTED"

CloudMsg(type) == cloudQ # << >> /\ Head(cloudQ).type = type

Notification(m, type) == [type |-> "DATA_SEND_QOS", msg |-> m, of |-> type]

-----------------------------------------------------------------------------
\* Only a configuration may be sent while the connection is being established.
MaySend(type) == Connected \/ (Connecting /\ type = "CONFIG")

\* A message of the data module: add_qos_message().  The library notifies of a new
\* message at once; when its list is full it returns an error that is only logged.
TakeMessage ==
  /\ CloudMsg("SEND")
  /\ LET m == Head(cloudQ).msg
         type == Head(cloudQ).of
     IN  IF MaySend(type) /\ Cardinality(pending) < PendingMax
         THEN /\ pending' = pending \cup {m}
              /\ Deliver(Notification(m, type), dataQ, Tail(cloudQ))
         ELSE /\ cloudQ' = Tail(cloudQ)
              /\ UNCHANGED <<pending, dataQ>>
  /\ UNCHANGED <<state, sub_state, sent, error>>

SendMessage_no_location ==
  /\ CloudMsg("DATA_SEND_QOS")
  /\ cloudQ' = Tail(cloudQ)
  /\ sent' = IF MaySend(Head(cloudQ).of) /\ Head(cloudQ).of # "CLOUD_LOCATION"
             THEN sent \cup ({Head(cloudQ).msg} \cap pending)
             ELSE sent
  /\ UNCHANGED <<state, sub_state, pending, dataQ, error>>

\* CLOUD_EVT_DATA_SEND_QOS: cloud_wrap_<type>_send(), whose errors are only logged.
\* What is sent of a message that has been removed meanwhile is not followed.
SendMessage ==
  /\ CloudMsg("DATA_SEND_QOS")
  /\ cloudQ' = Tail(cloudQ)
  /\ sent' = IF MaySend(Head(cloudQ).of) THEN sent \cup ({Head(cloudQ).msg} \cap pending)
             ELSE sent
  /\ UNCHANGED <<state, sub_state, pending, dataQ, error>>

\* The state of the module.
SetState(type, from, s, sub) ==
  /\ CloudMsg(type)
  /\ from
  /\ state' = s
  /\ sub_state' = sub
  /\ cloudQ' = Tail(cloudQ)
  /\ UNCHANGED <<pending, sent, dataQ, error>>

on_state ==
  \/ SetState("LTE_CONNECTED", state = "LTE_DISCONNECTED", "LTE_CONNECTED", sub_state)
  \/ SetState("LTE_DISCONNECTED", state = "LTE_CONNECTED",
              "LTE_DISCONNECTED", "CLOUD_DISCONNECTED")
  \/ SetState("CONNECTED", Connecting, state, "CLOUD_CONNECTED")
  \/ SetState("DISCONNECTED", Connected, state, "CLOUD_DISCONNECTED")

CloudIgnores ==
  /\ \/ CloudMsg("LTE_CONNECTED") /\ state # "LTE_DISCONNECTED"
     \/ CloudMsg("LTE_DISCONNECTED") /\ state # "LTE_CONNECTED"
     \/ CloudMsg("CONNECTED") /\ ~Connecting
     \/ CloudMsg("DISCONNECTED") /\ ~Connected
  /\ cloudQ' = Tail(cloudQ)
  /\ UNCHANGED <<cloudVars, dataQ, error>>

CloudThread ==
  TakeMessage \/ SendMessage \/ on_state \/ CloudIgnores

-----------------------------------------------------------------------------
(* The QoS library, with qos_event_handler().                               *)

\* The library's timer or a ping's answer: notify once more of a pending message.
\* Bounds: not before the module has taken up the last notification, and not of a
\* message that has been sent.
NotifyAgain(m, type) ==
  /\ m \in pending \ sent
  /\ Notification(m, type) \notin {cloudQ[i] : i \in DOMAIN cloudQ}
  /\ Deliver(Notification(m, type), dataQ, cloudQ)
  /\ UNCHANGED <<cloudVars, error>>

\* The message is acknowledged, or was notified too often: its buffer is freed.
Remove(m) ==
  /\ m \in pending
  /\ pending' = pending \ {m}
  /\ sent' = sent \ {m}
  /\ UNCHANGED <<state, sub_state, dataQ, cloudQ, error>>

=============================================================================
