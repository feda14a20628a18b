----------------------------- MODULE DataDelivery -----------------------------
(***************************************************************************)
(* The journey of a sample to the cloud: DataSender and CloudSender over   *)
(* the message queues.  The two modules follow the connection each in its  *)
(* own time, and the cloud module also looks at LTE: what the data module  *)
(* sends may find the cloud module in another state.                       *)
(***************************************************************************)
EXTENDS DataSender, CloudSender

CONSTANTS
  MaxSamples,   \* bound: MaxSamples[k] samples of kind k
  MaxChanges,   \* bound: changes of LTE and of the cloud connection
  MaxConfigs    \* bound: configuration notices from the cloud

ASSUME DeliveryAssumption ==
  /\ MaxSamples \in [Kinds \cup {Location} -> Nat]
  /\ MaxChanges \in Nat /\ MaxConfigs \in Nat

VARIABLES
  lte,        \* LTE is up
  link,       \* the cloud library is connected
  changes, configs

outside == <<lte, link, date_time_is_valid, changes, configs>>
vars == <<queues, error, dataVars, cloudVars, outside>>

Init ==
  /\ dataQ = << >> /\ cloudQ = << >> /\ error = FALSE
  /\ DataInit /\ CloudInit
  /\ date_time_is_valid = FALSE
  /\ lte = TRUE /\ link = TRUE
  /\ changes = 0 /\ configs = 0

Submit(e) == Deliver(e, dataQ, cloudQ)

-----------------------------------------------------------------------------
(* What comes from outside.                                                 *)

\* The connection comes and goes; the cloud library needs LTE to connect and
\* notices its loss only later.
LinkChange ==
  /\ changes < MaxChanges
  /\ changes' = changes + 1
  /\ \/ /\ lte' = ~lte
        /\ Submit(Event(IF lte THEN "LTE_DISCONNECTED" ELSE "LTE_CONNECTED"))
        /\ UNCHANGED link
     \/ /\ lte \/ link
        /\ link' = ~link
        /\ Submit(Event(IF link THEN "DISCONNECTED" ELSE "CONNECTED"))
        /\ UNCHANGED lte
  /\ UNCHANGED <<date_time_is_valid, configs, error>>

TimeObtained ==
  /\ ~date_time_is_valid
  /\ date_time_is_valid' = TRUE
  /\ UNCHANGED <<queues, error, lte, link, changes, configs>>

Outside == LinkChange \/ TimeObtained

-----------------------------------------------------------------------------
DataStep == DataThread /\ UNCHANGED <<cloudVars, outside>>

\* The sampling modules have a sample; the sample cycle has come to its end; the
\* cloud has sent a configuration, or none.
SampleStep ==
  /\ \E k \in Kinds \cup {Location} : stored[k] < MaxSamples[k] /\ StoreSample(k)
  /\ UNCHANGED <<cloudVars, outside>>
ReadyStep == encode_cloud_location /\ UNCHANGED <<cloudVars, outside>>
ConfigStep ==
  /\ configs < MaxConfigs
  /\ configs' = configs + 1
  /\ config_send
  /\ UNCHANGED <<cloudVars, lte, link, date_time_is_valid, changes>>

CloudStep == CloudThread /\ UNCHANGED <<dataVars, outside>>

Notify(m) == NotifyAgain(m, heap[m]) /\ UNCHANGED <<dataVars, outside>>
Removed_still_pending(m) ==
  /\ m \in pending
  /\ heap' = [a \in Allocated \ {m} |-> heap[a]]
  /\ UNCHANGED <<cloudVars, queues, error, data_state, pc, buffers, encoded, outside>>

Removed(m) ==
  /\ Remove(m)
  /\ heap' = [a \in Allocated \ {m} |-> heap[a]]
  /\ UNCHANGED <<data_state, pc, buffers, encoded, outside>>
NotifyOrRemove == \E m \in pending : Notify(m) \/ Removed(m)

\* An error ends the run: the device reboots (ShutdownProtocol).
Next ==
  /\ ~error
  /\ \/ Outside /\ UNCHANGED <<dataVars, cloudVars>>
     \/ DataStep \/ SampleStep \/ ReadyStep \/ ConfigStep
     \/ CloudStep \/ NotifyOrRemove

Spec == Init /\ [][Next]_vars

\* No more messages than samples and configurations are ever allocated.
Samples == UNION {{Sample(k, n) : n \in 1 .. MaxSamples[k]} : k \in Kinds \cup {Location}}
Addresses == 1 .. Cardinality(Samples) + MaxConfigs

\* Sample cycles keep ending in DATA_READY, both threads run, and the library
\* notifies of a message until it lets go of it.
Fairness ==
  /\ WF_vars(ReadyStep /\ ~error)
  /\ WF_vars(DataStep /\ ~error)
  /\ WF_vars(CloudStep /\ ~error)
  /\ \A m \in Addresses : WF_vars(m \in pending /\ Notify(m) /\ ~error)

FairSpec == Spec /\ Fairness

-----------------------------------------------------------------------------
(* Properties.                                                              *)

Entry == [n : Nat, queued : BOOLEAN]
DataEvents ==
  [type : {"CONNECTED", "DISCONNECTED"}] \cup [type : {"PRESS_READY"}, kind : Immediate]
CloudEvents ==
  [type : {"LTE_CONNECTED", "LTE_DISCONNECTED", "CONNECTED", "DISCONNECTED"}]
    \cup [type : {"SEND", "DATA_SEND_QOS"}, msg : Nat, of : MessageTypes]

\* The types of the variables; heads of the buffers are within them.
TypeOK ==
  /\ data_state \in {"CLOUD_CONNECTED", "CLOUD_DISCONNECTED"}
  /\ pc \in {"idle", "batch"}
  /\ DOMAIN buf = Kinds /\ DOMAIN head = Kinds
  /\ \A k \in Kinds : buf[k] \in [Indices(k) -> Entry] /\ head[k] \in Indices(k)
  /\ cloud_location \in Entry
  /\ encoded \subseteq UNION {{Sample(k, n) : n \in 1 .. stored[k]} : k \in DOMAIN stored}
  /\ Allocated \subseteq Addresses
  /\ state \in {"LTE_CONNECTED", "LTE_DISCONNECTED"}
  /\ sub_state \in {"CLOUD_CONNECTED", "CLOUD_DISCONNECTED"}
  /\ dataQ \in Seq(DataEvents) /\ cloudQ \in Seq(CloudEvents)
  /\ heap \in [Allocated -> MessageTypes]

\* docs/data_module.rst: "If the ringbuffer is full, the oldest entry is always
\* overwritten": a buffer holds exactly the last samples of its kind, whatever has
\* been sent of them meanwhile.
OldestIsOverwritten ==
  \A k \in Kinds : \A n \in 1 .. stored[k] :
    (n + BufferCount[k] > stored[k]) <=> \E i \in Indices(k) : buf[k][i].n = n

\* A sample is encoded into one message at most, and an entry's flag tells whether
\* that is still to come: presses are sent from the queue and by the batch, and a
\* location is replaced between two of them.  (A failing encoder may clear flags
\* of samples it has not encoded; the device then reboots.)
QueuedUntilEncoded ==
  ~error =>
    /\ \A k \in Kinds : \A i \in Indices(k) :
         buf[k][i].n >= 1 => (buf[k][i].queued <=> Sample(k, buf[k][i].n) \notin encoded)
    /\ cloud_location.n >= 1 =>
         (cloud_location.queued <=> Sample(Location, cloud_location.n) \notin encoded)

\* The messages that are on their way from the data module to the cloud module.
Handed == {cloudQ[i].msg : i \in {j \in DOMAIN cloudQ : cloudQ[j].type = "SEND"}}

\* A message's buffer has one owner: no event hands over a buffer that is in the
\* library's list already or in another event, and the library has no message
\* whose buffer has been freed, whichever way addresses are reused.
OneOwner ==
  /\ pending \cup Handed \subseteq Allocated
  /\ pending \cap Handed = {}
  /\ \A i, j \in DOMAIN cloudQ :
       i # j /\ cloudQ[i].type = "SEND" /\ cloudQ[j].type = "SEND"
         => cloudQ[i].msg # cloudQ[j].msg

\* "This function allocates buffer on the heap, which needs to be freed after use"
\* (data_module.c): somebody still has every buffer.
NoBufferOrphaned == Allocated = pending \cup Handed

\* Nothing waits to be encoded.
NothingQueued == Queued = {} /\ ~cloud_location.queued

\* Once the connection stays and the time is known, what is in the buffers leaves
\* them, unless an encoder fails: no sample is overlooked by the batch because of
\* what comes with it.
BuffersEmptied ==
  <>[](data_state = "CLOUD_CONNECTED" /\ date_time_is_valid)
    => []<>(NothingQueued \/ error)

\* A message the library has taken is sent, if the module stays connected from
\* some time on, unless the library gives it up: also one whose notification was
\* handled while the connection was away.
TakenIsSent ==
  <>[](Connected /\ ~error) =>
    \A m \in Addresses : []<>(m \notin pending \/ m \in sent)

=============================================================================
