------------------------------ MODULE DataSender ------------------------------
(***************************************************************************)
(* The data module as the keeper and sender of samples (data_module.c with *)
(* cloud_codec_ringbuffer.c and the nRF Cloud codec): samples are kept in  *)
(* ring buffers, one per kind, marked as queued; when data is ready and    *)
(* the cloud connected, what is queued is encoded into messages on the     *)
(* heap and handed to the cloud module.                                    *)
(***************************************************************************)
EXTENDS DeliveryQueues, FiniteSets

CONSTANTS
  BatchOrder,    \* the buffered kinds, in the order the batch encoder takes them
  Immediate,     \* kinds that are also sent at once: button presses and impacts
  BufferCount    \* BufferCount[k]: entries of the ring buffer of kind k

Kinds == {BatchOrder[n] : n \in DOMAIN BatchOrder}
Location == "cloud_location"

\* A press or an impact is a message of the type of its kind.
MessageTypes == Kinds \cup {"CLOUD_LOCATION", "BATCH", "CONFIG"}

ASSUME BuffersAssumption ==
  /\ BatchOrder \in Seq(STRING)
  /\ Location \notin Kinds
  /\ Immediate \subseteq Kinds
  /\ BufferCount \in [Kinds -> Nat \ {0}]

VARIABLES
  data_state,
  pc,               \* the thread: idle, or between the two parts of data_encode()
  buf,              \* buf[k][i]: an entry, the number of a sample and its queued flag
  head,             \* head[k]: index of the newest entry
  cloud_location,   \* the entry of the kind that is not buffered
  stored,           \* stored[k]: samples of kind k so far, which numbers them
  date_time_is_valid,
  heap,             \* heap[m]: the type of message whose buffer is at address m
  encoded           \* history: the samples that have been put into a message

buffers == <<buf, head, cloud_location, stored>>
dataVars == <<data_state, pc, buffers, heap, encoded>>

Indices(k) == 0 .. BufferCount[k] - 1
NoEntry == [n |-> 0, queued |-> FALSE]

DataInit ==
  /\ data_state = "CLOUD_CONNECTED"
  /\ pc = "idle"
  /\ buf = [k \in Kinds |-> [i \in Indices(k) |-> NoEntry]]
  /\ head = [k \in Kinds |-> 0]
  /\ cloud_location = NoEntry
  /\ stored = [k \in Kinds \cup {Location} |-> 0]
  /\ heap = << >>
  /\ encoded = {}

Idle == pc = "idle"
Msg(type) == Idle /\ dataQ # << >> /\ Head(dataQ).type = type

Sample(k, n) == [kind |-> k, n |-> n]

\* k_malloc(): an address that is free, which may have been used before.
Allocated == DOMAIN heap
FreeAddress == CHOOSE m \in 1 .. Cardinality(Allocated) + 1 : m \notin Allocated

-----------------------------------------------------------------------------
(* Storing.                                                                 *)

NextIndexUnwrapped(k) == head[k] + 1

\* cloud_codec_populate_<kind>_buffer(): the head moves first, and wraps.
NextIndex(k) == IF head[k] + 1 = BufferCount[k] THEN 0 ELSE head[k] + 1

Populate_over_newest(k) ==
  LET i == IF buf[k][NextIndex(k)].queued THEN head[k] ELSE NextIndex(k)
  IN  /\ head' = [head EXCEPT ![k] = i]
      /\ buf' = [buf EXCEPT ![k][i] = [n |-> stored[k] + 1, queued |-> TRUE]]
      /\ UNCHANGED cloud_location

Populate(k) ==
  /\ head' = [head EXCEPT ![k] = NextIndex(k)]
  /\ buf' = [buf EXCEPT ![k][NextIndex(k)] = [n |-> stored[k] + 1, queued |-> TRUE]]
  /\ UNCHANGED cloud_location

\* A sample arrives.  A press or an impact is stored, and an event of the
\* module's own has it sent.
StoreSample(k) ==
  /\ Idle
  /\ stored' = [stored EXCEPT ![k] = stored[k] + 1]
  /\ IF k = Location
     THEN /\ cloud_location' = [n |-> stored[k] + 1, queued |-> TRUE]
          /\ UNCHANGED <<buf, head>>
     ELSE Populate(k)
  /\ IF k \in Immediate
     THEN Deliver([type |-> "PRESS_READY", kind |-> k], dataQ, cloudQ)
     ELSE UNCHANGED queues
  /\ UNCHANGED <<data_state, pc, heap, encoded, error>>

-----------------------------------------------------------------------------
(* Sending.                                                                 *)

\* data_send(): the event carries the buffer, from here on the receiver's to free.
Send(type, samples, toData) ==
  /\ heap' = [m \in Allocated \cup {FreeAddress} |-> IF m = FreeAddress THEN type ELSE heap[m]]
  /\ encoded' = encoded \cup samples
  /\ Deliver([type |-> "SEND", msg |-> FreeAddress, of |-> type], toData, cloudQ)
  /\ UNCHANGED error

\* SEND_ERROR after an encoder failed, its message thrown away.
Fail(toData) ==
  /\ error' = TRUE
  /\ dataQ' = toData
  /\ UNCHANGED <<cloudQ, heap, encoded>>

SendNothing(toData) ==
  /\ dataQ' = toData
  /\ UNCHANGED <<buffers, cloudQ, error, heap, encoded>>

data_press_send_keeps_flag ==
  /\ Msg("PRESS_READY")
  /\ data_state = "CLOUD_CONNECTED" /\ date_time_is_valid
  /\ LET k == Head(dataQ).kind
         newest == buf[k][head[k]]
     IN  /\ newest.queued
         /\ Send(k, {Sample(k, newest.n)}, Tail(dataQ))
  /\ UNCHANGED <<data_state, pc, buffers>>

\* data_ui_send() and data_impact_send(): the newest entry, unless it has gone already.
data_press_send ==
  /\ Msg("PRESS_READY")
  /\ data_state = "CLOUD_CONNECTED"
  /\ LET k == Head(dataQ).kind
         newest == buf[k][head[k]]
     IN  \/ /\ date_time_is_valid /\ newest.queued
            /\ Send(k, {Sample(k, newest.n)}, Tail(dataQ))
            /\ buf' = [buf EXCEPT ![k][head[k]].queued = FALSE]
            /\ UNCHANGED <<head, cloud_location, stored>>
         \/ /\ date_time_is_valid /\ newest.queued
            /\ Fail(Tail(dataQ))
            /\ UNCHANGED buffers
         \/ /\ ~date_time_is_valid \/ ~newest.queued
            /\ SendNothing(Tail(dataQ))
  /\ UNCHANGED <<data_state, pc>>

encode_cloud_location_alone ==
  /\ Idle
  /\ data_state = "CLOUD_CONNECTED" /\ date_time_is_valid
  /\ cloud_location.queued
  /\ Send("CLOUD_LOCATION", {Sample(Location, cloud_location.n)}, dataQ)
  /\ cloud_location' = [cloud_location EXCEPT !.queued = FALSE]
  /\ pc' = "batch"
  /\ UNCHANGED <<data_state, buf, head, stored>>

\* DATA_READY: data_encode(), up to the location, which is a message of its own.
\* Without a valid time, or without connection, DATA_READY has no effect.
encode_cloud_location ==
  /\ Idle
  /\ data_state = "CLOUD_CONNECTED" /\ date_time_is_valid
  /\ \/ /\ cloud_location.queued
        /\ Send("CLOUD_LOCATION", {Sample(Location, cloud_location.n)}, dataQ)
        /\ cloud_location' = [cloud_location EXCEPT !.queued = FALSE]
        /\ pc' = "batch"
        /\ UNCHANGED <<buf, head, stored>>
     \/ /\ cloud_location.queued
        /\ Fail(dataQ)
        /\ UNCHANGED <<buffers, pc>>
     \/ /\ ~cloud_location.queued
        /\ SendNothing(dataQ)
        /\ pc' = "batch"
  /\ UNCHANGED data_state

\* The buffers when the batch has got to index j of the m-th kind.
Before(k, i, m, j) ==
  \E p \in DOMAIN BatchOrder : BatchOrder[p] = k /\ (p < m \/ (p = m /\ i < j))

Cleared(m, j) ==
  [k \in Kinds |-> [i \in Indices(k) |->
     IF Before(k, i, m, j) THEN [buf[k][i] EXCEPT !.queued = FALSE] ELSE buf[k][i]]]

QueuedOf(k) == {Sample(k, buf[k][i].n) : i \in {j \in Indices(k) : buf[k][j].queued}}
Queued == UNION {QueuedOf(k) : k \in Kinds}

\* data_encode(), the batch: every queued entry of every buffer.  The flags are
\* cleared entry by entry, and stay cleared when the encoder fails.
encode_batch_data ==
  /\ pc = "batch"
  /\ pc' = "idle"
  /\ \/ /\ Queued # {}
        /\ Send("BATCH", Queued, dataQ)
        /\ buf' = Cleared(Len(BatchOrder) + 1, 0)
        /\ UNCHANGED <<head, cloud_location, stored>>
     \/ /\ Queued # {}
        /\ \E m \in DOMAIN BatchOrder : \E j \in 0 .. BufferCount[BatchOrder[m]] :
             buf' = Cleared(m, j)
        /\ Fail(dataQ)
        /\ UNCHANGED <<head, cloud_location, stored>>
     \/ Queued = {} /\ SendNothing(dataQ)
  /\ UNCHANGED data_state

\* config_send(): the cloud has no configuration of the device, or has sent one
\* that is acknowledged with what is in force, whatever the state.
config_send ==
  /\ Idle
  /\ Send("CONFIG", {}, dataQ) \/ Fail(dataQ)
  /\ UNCHANGED <<data_state, pc, buffers>>

-----------------------------------------------------------------------------
(* The state of the module.                                                 *)

SetDataState(type, from, to) ==
  /\ Msg(type)
  /\ data_state \in from
  /\ data_state' = to
  /\ dataQ' = Tail(dataQ)
  /\ UNCHANGED <<pc, buffers, heap, encoded, cloudQ, error>>

on_cloud_state ==
  \/ SetDataState("CONNECTED", {"CLOUD_DISCONNECTED"}, "CLOUD_CONNECTED")
  \/ SetDataState("DISCONNECTED", {"CLOUD_CONNECTED"}, "CLOUD_DISCONNECTED")

\* Messages the state has no handler for.
DataIgnores ==
  /\ \/ Msg("PRESS_READY") /\ data_state # "CLOUD_CONNECTED"
     \/ Msg("CONNECTED") /\ data_state # "CLOUD_DISCONNECTED"
     \/ Msg("DISCONNECTED") /\ data_state # "CLOUD_CONNECTED"
  /\ dataQ' = Tail(dataQ)
  /\ UNCHANGED <<dataVars, cloudQ, error>>

\* Messages of the queue, and the rest of what has been begun.
DataThread ==
  data_press_send \/ encode_batch_data \/ on_cloud_state \/ DataIgnores

=============================================================================
