---------------------------- MODULE DeliveryQueues ----------------------------
(***************************************************************************)
(* The way from the data module's thread to the cloud module's, for the    *)
(* events the journey of a sample depends on.                              *)
(*                                                                         *)
(* Both threads have the lowest priority and the event manager's work runs *)
(* on the system workqueue: an event is in the queues before either thread *)
(* takes its next step, so that submitting and delivering are one step.    *)
(* Only events whose order matters are in the queues: an input from        *)
(* outside that a single thread acts on is taken in when it is handled,    *)
(* which cannot be told from its having waited.  A queue that overflows    *)
(* ends in a reboot (MessageQueue, ShutdownProtocol) and is left out.      *)
(***************************************************************************)
EXTENDS Naturals, Sequences

VARIABLES
  dataQ,    \* msgq_data
  cloudQ,   \* msgq_cloud
  error     \* DATA_EVT_ERROR or CLOUD_EVT_ERROR has been sent; the device will reboot

queues == <<dataQ, cloudQ>>

Event(type) == [type |-> type]

ForData(e) == e.type \in {"PRESS_READY", "CONNECTED", "DISCONNECTED"}
ForCloud(e) ==
  e.type \in {"SEND", "DATA_SEND_QOS", "LTE_CONNECTED", "LTE_DISCONNECTED", "CONNECTED",
             "DISCONNECTED"}

\* Both modules' app_event_handler(), given what is left in the queues.
Deliver(e, toData, toCloud) ==
  /\ dataQ' = IF ForData(e) THEN Append(toData, e) ELSE toData
  /\ cloudQ' = IF ForCloud(e) THEN Append(toCloud, e) ELSE toCloud

=============================================================================
