----------------------------- MODULE DataRequests -----------------------------
(***************************************************************************)
(* The sample-request tracking of the data module (data_module.c): the     *)
(* data types a DATA_GET asks for are counted as their answers arrive, and *)
(* DATA_READY is sent when all have been counted or when data_send_work,   *)
(* a delayable work item, times out.                                       *)
(*                                                                         *)
(* The module's thread is preempted by the system workqueue, which runs    *)
(* data_send_work and shares the counters with it, without a lock.  The    *)
(* thread is split wherever that can be seen.  The events with which the   *)
(* module hands on encoded data and configurations are left out: they ask  *)
(* nothing of the request tracking.                                        *)
(***************************************************************************)
EXTENDS Naturals, Sequences, FiniteSets, EventManager

CONSTANT DataTypes   \* enum app_module_data_type

ASSUME DataTypesAssumption == IsFiniteSet(DataTypes)

VARIABLES
  dataQ,                \* msgq_data
  pc,                   \* where the thread is in the handling of a message
  answer,               \* data_type argument of requested_data_status_set(), until used
  loaded,               \* req_data_count as read by the increment, until stored
  req_type_list,        \* the requested types
  recv_req_data_count,  \* how many types are requested
  req_data_count,       \* how many requested types have been counted
  pending,              \* data_send_work is scheduled
  answered,             \* history: types answered since the DATA_GET was handled
  clean                 \* history: the request is neither ended nor was any type
                        \* of it answered twice; it did not replace a pending one

counters == <<req_type_list, recv_req_data_count, req_data_count>>
history == <<answered, clean>>
dataVars == <<dataQ, pc, answer, loaded, counters, pending, history>>

Ready == [type |-> "DATA_READY", data |-> {}]
NoType == "none"

DataInit ==
  /\ dataQ = << >>
  /\ pc = "idle"
  /\ answer = NoType
  /\ loaded = 0
  /\ req_type_list = {}
  /\ recv_req_data_count = 0
  /\ req_data_count = 0
  /\ pending = FALSE
  /\ answered = {}
  /\ clean = FALSE

\* The types an event answers; MODEM_EVT_MODEM_STATIC_DATA_READY is told apart
\* from the other answers because the application module looks at it too.
AnswerTypes(msg) ==
  IF msg.type = "STATIC_READY" THEN {"MODEM_STATIC"}
  ELSE IF msg.type = "ANSWER" THEN msg.data ELSE {}

-----------------------------------------------------------------------------
(* data_send_work_fn() on the system workqueue, which the thread cannot     *)
(* preempt: send, clear and cancel are one step.                            *)

requested_data_clear == recv_req_data_count' = 0 /\ req_data_count' = 0

TimeoutWorkSilent ==
  /\ pending
  /\ requested_data_clear
  /\ pending' = FALSE
  /\ clean' = FALSE
  /\ UNCHANGED <<dataQ, pc, answer, loaded, req_type_list, answered, events>>

TimeoutWork ==
  /\ pending
  /\ Submit(Ready)
  /\ requested_data_clear
  /\ pending' = FALSE
  /\ clean' = FALSE
  /\ UNCHANGED <<dataQ, pc, answer, loaded, req_type_list, answered>>

-----------------------------------------------------------------------------
(* The thread.                                                              *)

TakeDataGetNoClear ==
  /\ pc = "idle"
  /\ dataQ # << >>
  /\ Head(dataQ).type = "DATA_GET"
  /\ dataQ' = Tail(dataQ)
  /\ req_type_list' = Head(dataQ).data
  /\ recv_req_data_count' = Cardinality(Head(dataQ).data)
  /\ pc' = "reschedule"
  /\ answered' = {}
  /\ clean' = ~pending
  /\ UNCHANGED <<answer, loaded, req_data_count, pending, events>>

\* DATA_GET: requested_data_list_set().  Firing of the old work between its
\* assignments cannot be told from firing before or after them.
TakeDataGet ==
  /\ pc = "idle"
  /\ dataQ # << >>
  /\ Head(dataQ).type = "DATA_GET"
  /\ dataQ' = Tail(dataQ)
  /\ IF Head(dataQ).data # {} /\ Cardinality(Head(dataQ).data) <= Cardinality(DataTypes)
     THEN /\ req_type_list' = Head(dataQ).data
          /\ recv_req_data_count' = Cardinality(Head(dataQ).data)
          /\ req_data_count' = 0
     ELSE UNCHANGED counters
  /\ pc' = "reschedule"
  /\ answered' = {}
  /\ clean' = ~pending
  /\ UNCHANGED <<answer, loaded, pending, events>>

RescheduleForgotten ==
  /\ pc = "reschedule"
  /\ pc' = "idle"
  /\ UNCHANGED <<dataQ, answer, loaded, counters, pending, history, events>>

Reschedule ==
  /\ pc = "reschedule"
  /\ pending' = TRUE
  /\ pc' = "idle"
  /\ UNCHANGED <<dataQ, answer, loaded, counters, history, events>>

\* An answer: requested_data_status_set() looks whether the work is pending.  A
\* late LOCATION is passed on, any other late answer waits for the next request.
TakeAnswer ==
  /\ pc = "idle"
  /\ dataQ # << >>
  /\ \E type \in AnswerTypes(Head(dataQ)) :
       /\ answer' = IF pending THEN type ELSE NoType
       /\ answered' = answered \cup {type}
       /\ clean' = (clean /\ type \notin answered)
       /\ pc' = IF pending THEN "count" ELSE IF type = "LOCATION" THEN "send" ELSE "idle"
  /\ dataQ' = Tail(dataQ)
  /\ UNCHANGED <<loaded, counters, pending, events>>

\* The loop over the first recv_req_data_count types, up to the load of
\* req_data_count++ ...
Count ==
  /\ pc = "count"
  /\ IF recv_req_data_count > 0 /\ answer \in req_type_list
     THEN pc' = "store" /\ loaded' = req_data_count
     ELSE pc' = "compare" /\ UNCHANGED loaded
  /\ answer' = NoType
  /\ UNCHANGED <<dataQ, counters, pending, history, events>>

StoreDown ==
  /\ pc = "store"
  /\ req_data_count' = loaded - 1
  /\ loaded' = 0
  /\ pc' = "compare"
  /\ UNCHANGED <<dataQ, answer, req_type_list, recv_req_data_count, pending, history,
                 events>>

\* ... and its store.
Store ==
  /\ pc = "store"
  /\ req_data_count' = loaded + 1
  /\ loaded' = 0
  /\ pc' = "compare"
  /\ UNCHANGED <<dataQ, answer, req_type_list, recv_req_data_count, pending, history,
                 events>>

CompareMore ==
  /\ pc = "compare"
  /\ pc' = IF req_data_count > recv_req_data_count THEN "send" ELSE "idle"
  /\ UNCHANGED <<dataQ, answer, loaded, counters, pending, history, events>>

Compare ==
  /\ pc = "compare"
  /\ pc' = IF req_data_count = recv_req_data_count THEN "send" ELSE "idle"
  /\ UNCHANGED <<dataQ, answer, loaded, counters, pending, history, events>>

\* data_send_work_fn() called by the thread: send, clear, cancel.
Send ==
  /\ pc = "send"
  /\ Submit(Ready)
  /\ pc' = "clear"
  /\ UNCHANGED <<dataQ, answer, loaded, counters, pending, history>>

Clear ==
  /\ pc = "clear"
  /\ requested_data_clear
  /\ pc' = "cancel"
  /\ UNCHANGED <<dataQ, answer, loaded, req_type_list, pending, history, events>>

Cancel ==
  /\ pc = "cancel"
  /\ pending' = FALSE
  /\ clean' = FALSE
  /\ pc' = "idle"
  /\ UNCHANGED <<dataQ, answer, loaded, counters, answered, events>>

\* Messages that do not concern the request (the shutdown request is
\* acknowledged; sample requests are tracked in every state of the module).
TakeOther ==
  /\ pc = "idle"
  /\ dataQ # << >>
  /\ Head(dataQ).type # "DATA_GET"
  /\ AnswerTypes(Head(dataQ)) = {}
  /\ dataQ' = Tail(dataQ)
  /\ IF Head(dataQ).type = "SHUTDOWN_REQUEST"
     THEN Submit([type |-> "DATA_SHUTDOWN_READY", data |-> {}])
     ELSE UNCHANGED events
  /\ UNCHANGED <<pc, answer, loaded, counters, pending, history>>

DataThread ==
  \/ TakeDataGet \/ Reschedule \/ TakeAnswer \/ Count \/ Store \/ Compare
  \/ Send \/ Clear \/ Cancel \/ TakeOther

-----------------------------------------------------------------------------
PCs == {"idle", "reschedule", "count", "store", "compare", "send", "clear", "cancel"}

DataTypeOK ==
  /\ pc \in PCs
  /\ answer \in DataTypes \cup {NoType}
  /\ loaded \in Nat
  /\ req_type_list \in SUBSET DataTypes
  /\ recv_req_data_count \in Nat
  /\ req_data_count \in Nat
  /\ pending \in BOOLEAN
  /\ answered \in SUBSET DataTypes
  /\ clean \in BOOLEAN

\* A request whose answers have all been counted is never left to its timeout:
\* between messages, a pending request still misses an answer
\* (requested_data_status_set).
NoCompleteRequestWaits ==
  (pc = "idle" /\ pending) =>
    recv_req_data_count = 0 \/ req_data_count # recv_req_data_count

\* Unless the request replaced a pending one, timed out, or had a type answered
\* twice, the thread sends DATA_READY only when every requested type has been
\* answered (requested_data_status_set).
ReadyMeansAllAnswered == (pc = "send" /\ clean) => req_type_list \subseteq answered

=============================================================================
