-------------------------- MODULE DataDeliveryProofs --------------------------
(* Proofs about DataDelivery: who owns a message's buffer, what the ring buffers *)
(* hold, and the types.                                                         *)
EXTENDS DataDelivery, FiniteSetTheorems, TLAPS

-----------------------------------------------------------------------------
\* An allocation finds an address that is free (k_malloc).
LEMMA FreeIsNotAllocated ==
  ASSUME IsFiniteSet(Allocated)
  PROVE  /\ FreeAddress \in Nat /\ FreeAddress \notin Allocated
         /\ FreeAddress \in 1 .. Cardinality(Allocated) + 1
<1> DEFINE n == Cardinality(Allocated)
<1>1. n \in Nat
  BY FS_CardinalityType
<1>2. Cardinality(1 .. n + 1) = n + 1
  BY <1>1, FS_Interval
<1>3. ~(1 .. n + 1 \subseteq Allocated)
  <2> SUFFICES ASSUME 1 .. n + 1 \subseteq Allocated PROVE FALSE
    OBVIOUS
  <2>1. Cardinality(1 .. n + 1) <= n
    BY FS_Subset
  <2> QED BY <1>1, <1>2, <2>1
<1>4. \E m \in 1 .. n + 1 : m \notin Allocated
  BY <1>3
<1>5. FreeAddress \in 1 .. n + 1 /\ FreeAddress \notin Allocated
  BY <1>4 DEF FreeAddress
<1> QED BY <1>1, <1>5

-----------------------------------------------------------------------------
(* The queues and the heap.                                                    *)

\* The SEND at position i of a queue.
IsSend(q, i) == q[i].type = "SEND"
Sends(q) == {q[i].msg : i \in {j \in DOMAIN q : IsSend(q, j)}}
Distinct(q) ==
  \A i, j \in DOMAIN q : i # j /\ IsSend(q, i) /\ IsSend(q, j) => q[i].msg # q[j].msg

Owned(q, p, addresses) ==
  /\ p \cup Sends(q) \subseteq addresses
  /\ p \cap Sends(q) = {}
  /\ Distinct(q)

QueuesTyped == dataQ \in Seq(DataEvents) /\ cloudQ \in Seq(CloudEvents)
HeapTyped == IsFiniteSet(Allocated) /\ heap \in [Allocated -> MessageTypes]

\* The inductive invariant: the queues are sequences of the events they are meant
\* for, only finitely many buffers are allocated, and each has one owner.
OwnerInv == QueuesTyped /\ HeapTyped /\ pending \subseteq Nat /\ Owned(cloudQ, pending, Allocated)

\* An event other than SEND at the end changes no owner.
LEMMA AppendOther ==
  ASSUME NEW q \in Seq(CloudEvents), NEW e \in CloudEvents, e.type # "SEND"
  PROVE  /\ Append(q, e) \in Seq(CloudEvents)
         /\ Sends(Append(q, e)) = Sends(q)
         /\ Distinct(q) => Distinct(Append(q, e))
<1> DEFINE r == Append(q, e)
<1>1. /\ r \in Seq(CloudEvents) /\ Len(r) = Len(q) + 1 /\ r[Len(q) + 1] = e
      /\ DOMAIN r = 1 .. Len(q) + 1 /\ DOMAIN q = 1 .. Len(q) /\ Len(q) \in Nat
      /\ \A i \in DOMAIN q : r[i] = q[i]
  OBVIOUS
<1>2. \A i \in DOMAIN r : IsSend(r, i) => i \in DOMAIN q /\ r[i] = q[i]
  BY <1>1 DEF IsSend
<1>3. Sends(r) = Sends(q)
  BY <1>1, <1>2 DEF Sends, IsSend
<1>4. Distinct(q) => Distinct(r)
  BY <1>1, <1>2 DEF Distinct, IsSend
<1> QED BY <1>1, <1>3, <1>4

\* A SEND of a buffer that is nowhere yet.
LEMMA AppendSend ==
  ASSUME NEW q \in Seq(CloudEvents), NEW e \in CloudEvents, e.type = "SEND", e.msg \notin Sends(q)
  PROVE  /\ Append(q, e) \in Seq(CloudEvents)
         /\ Sends(Append(q, e)) = Sends(q) \cup {e.msg}
         /\ Distinct(q) => Distinct(Append(q, e))
<1> DEFINE r == Append(q, e)
<1>1. /\ r \in Seq(CloudEvents) /\ Len(r) = Len(q) + 1 /\ r[Len(q) + 1] = e
      /\ DOMAIN r = 1 .. Len(q) + 1 /\ DOMAIN q = 1 .. Len(q) /\ Len(q) \in Nat
      /\ \A i \in DOMAIN q : r[i] = q[i]
  OBVIOUS
<1>2. \A i \in DOMAIN r : i \in DOMAIN q \/ i = Len(q) + 1
  BY <1>1
<1>3. Sends(r) = Sends(q) \cup {e.msg}
  <2>1. Sends(r) \subseteq Sends(q) \cup {e.msg}
    BY <1>1, <1>2 DEF Sends, IsSend
  <2>2. Sends(q) \subseteq Sends(r)
    BY <1>1 DEF Sends, IsSend
  <2>3. e.msg \in Sends(r)
    BY <1>1 DEF Sends, IsSend
  <2> QED BY <2>1, <2>2, <2>3
<1>4. Distinct(q) => Distinct(r)
  <2> SUFFICES ASSUME Distinct(q), NEW i \in DOMAIN r, NEW j \in DOMAIN r,
                      i # j, IsSend(r, i), IsSend(r, j)
               PROVE  r[i].msg # r[j].msg
    BY DEF Distinct
  <2>1. CASE i \in DOMAIN q /\ j \in DOMAIN q
    BY <1>1, <2>1 DEF Distinct, IsSend
  <2>2. CASE i = Len(q) + 1 /\ j \in DOMAIN q
    <3>1. r[j].msg \in Sends(q)
      BY <1>1, <2>2 DEF Sends, IsSend
    <3> QED BY <1>1, <2>2, <3>1
  <2>3. CASE j = Len(q) + 1 /\ i \in DOMAIN q
    <3>1. r[i].msg \in Sends(q)
      BY <1>1, <2>3 DEF Sends, IsSend
    <3> QED BY <1>1, <2>3, <3>1
  <2> QED BY <1>2, <2>1, <2>2, <2>3
<1> QED BY <1>1, <1>3, <1>4

\* The thread takes the first event; the buffer of a SEND is then its alone.
LEMMA TakeHead ==
  ASSUME NEW q \in Seq(CloudEvents), q # << >>
  PROVE  /\ Head(q) \in CloudEvents
         /\ Tail(q) \in Seq(CloudEvents)
         /\ Sends(Tail(q)) \subseteq Sends(q)
         /\ Distinct(q) => Distinct(Tail(q))
         /\ Head(q).type = "SEND" =>
              /\ Head(q).msg \in Sends(q)
              /\ Distinct(q) => Head(q).msg \notin Sends(Tail(q))
<1> DEFINE r == Tail(q)
<1>1. /\ r \in Seq(CloudEvents) /\ Len(q) \in Nat \ {0} /\ Len(r) = Len(q) - 1
      /\ DOMAIN q = 1 .. Len(q) /\ DOMAIN r = 1 .. Len(q) - 1
      /\ \A i \in DOMAIN r : r[i] = q[i + 1] /\ i + 1 \in DOMAIN q
      /\ Head(q) = q[1] /\ 1 \in DOMAIN q /\ q[1] \in CloudEvents
  OBVIOUS
<1>2. Sends(r) \subseteq Sends(q)
  BY <1>1 DEF Sends, IsSend
<1>3. Distinct(q) => Distinct(r)
  <2> SUFFICES ASSUME Distinct(q), NEW i \in DOMAIN r, NEW j \in DOMAIN r,
                      i # j, IsSend(r, i), IsSend(r, j)
               PROVE  r[i].msg # r[j].msg
    BY DEF Distinct
  <2>1. i + 1 \in DOMAIN q /\ j + 1 \in DOMAIN q /\ i + 1 # j + 1
    BY <1>1
  <2> QED BY <1>1, <2>1 DEF Distinct, IsSend
<1>4. ASSUME Head(q).type = "SEND"
      PROVE  Head(q).msg \in Sends(q)
  BY <1>1, <1>4 DEF Sends, IsSend
<1>5. ASSUME Head(q).type = "SEND", Distinct(q), Head(q).msg \in Sends(r)
      PROVE  FALSE
  <2>1. PICK i \in DOMAIN r : IsSend(r, i) /\ r[i].msg = q[1].msg
    BY <1>1, <1>5 DEF Sends
  <2>2. i + 1 \in DOMAIN q /\ i + 1 # 1
    BY <1>1
  <2> QED BY <1>1, <1>5, <2>1, <2>2 DEF Distinct, IsSend
<1> QED BY <1>1, <1>2, <1>3, <1>4, <1>5

-----------------------------------------------------------------------------
(* The steps of the data module.                                               *)

\* What is left in either queue when neither the list nor the heap change.
LEMMA QueuesShrink ==
  ASSUME OwnerInv, dataQ' \in Seq(DataEvents), cloudQ' \in Seq(CloudEvents),
         Sends(cloudQ') \subseteq Sends(cloudQ), Distinct(cloudQ'),
         UNCHANGED <<pending, heap>>
  PROVE  OwnerInv'
  BY DEF OwnerInv, QueuesTyped, HeapTyped, Owned, Allocated

\* data_send() hands over a buffer that nobody else knows of.
LEMMA SendKeepsOwners ==
  ASSUME OwnerInv, NEW type \in MessageTypes, NEW samples, NEW toData \in Seq(DataEvents),
         Send(type, samples, toData), UNCHANGED pending
  PROVE  OwnerInv'
<1> DEFINE a == FreeAddress
           e == [type |-> "SEND", msg |-> a, of |-> type]
<1>1. a \in Nat /\ a \notin Allocated
  BY FreeIsNotAllocated DEF OwnerInv, HeapTyped
<1>2. e \in CloudEvents /\ e.type = "SEND" /\ e.msg = a
  BY <1>1 DEF CloudEvents
<1>3. cloudQ' = Append(cloudQ, e) /\ dataQ' = toData
  BY DEF Send, Deliver, ForData, ForCloud
<1>4. Allocated' = Allocated \cup {a} /\ heap' \in [Allocated' -> MessageTypes]
  BY DEF Send, Allocated, OwnerInv, HeapTyped
<1>5. IsFiniteSet(Allocated')
  BY <1>4, FS_AddElement DEF OwnerInv, HeapTyped
<1>6. e.msg \notin Sends(cloudQ)
  BY <1>1, <1>2 DEF OwnerInv, Owned
<1>7. /\ cloudQ' \in Seq(CloudEvents)
      /\ Sends(cloudQ') = Sends(cloudQ) \cup {a}
      /\ Distinct(cloudQ')
  <2> HIDE DEF e
  <2> QED BY <1>2, <1>3, <1>6, AppendSend DEF OwnerInv, QueuesTyped, Owned
<1>8. Owned(cloudQ', pending', Allocated')
  BY <1>1, <1>4, <1>7 DEF OwnerInv, Owned
<1> QED BY <1>3, <1>4, <1>5, <1>7, <1>8 DEF OwnerInv, QueuesTyped, HeapTyped

\* The rest of a queue of the data module's events.
LEMMA DataTail ==
  ASSUME OwnerInv, dataQ # << >>
  PROVE  Head(dataQ) \in DataEvents /\ Tail(dataQ) \in Seq(DataEvents)
  BY DEF OwnerInv, QueuesTyped

\* An encoder that fails or finds nothing leaves the messages alone.
LEMMA NothingSent ==
  ASSUME OwnerInv, NEW toData \in Seq(DataEvents), Fail(toData) \/ SendNothing(toData),
         UNCHANGED pending
  PROVE  OwnerInv'
  BY QueuesShrink DEF OwnerInv, Owned, QueuesTyped, Fail, SendNothing

LEMMA DataThreadKeepsOwners ==
  ASSUME BuffersAssumption, OwnerInv, DataThread, UNCHANGED pending
  PROVE  OwnerInv'
<1>1. CASE data_press_send
  <2>1. Head(dataQ) \in DataEvents /\ Tail(dataQ) \in Seq(DataEvents)
        /\ Head(dataQ).type = "PRESS_READY"
    BY <1>1, DataTail DEF data_press_send, Msg
  <2>2. Head(dataQ).kind \in MessageTypes
    BY <2>1 DEF DataEvents, MessageTypes, BuffersAssumption
  <2>3. CASE \E samples : Send(Head(dataQ).kind, samples, Tail(dataQ))
    BY <2>1, <2>2, <2>3, SendKeepsOwners
  <2>4. CASE Fail(Tail(dataQ)) \/ SendNothing(Tail(dataQ))
    BY <2>1, <2>4, NothingSent
  <2> QED BY <1>1, <2>3, <2>4 DEF data_press_send
<1>2. CASE encode_batch_data
  <2>1. dataQ \in Seq(DataEvents) /\ "BATCH" \in MessageTypes
    BY DEF OwnerInv, QueuesTyped, MessageTypes
  <2>2. CASE Send("BATCH", Queued, dataQ)
    BY <2>1, <2>2, SendKeepsOwners
  <2>3. CASE Fail(dataQ) \/ SendNothing(dataQ)
    BY <2>1, <2>3, NothingSent
  <2> QED BY <1>2, <2>2, <2>3 DEF encode_batch_data
<1>3. CASE on_cloud_state \/ DataIgnores
  <2>1. dataQ # << >> /\ dataQ' = Tail(dataQ) /\ UNCHANGED <<cloudQ, heap>>
    BY <1>3 DEF on_cloud_state, SetDataState, DataIgnores, Msg, dataVars
  <2> QED BY <2>1, DataTail, QueuesShrink DEF OwnerInv, Owned, QueuesTyped
<1> QED BY <1>1, <1>2, <1>3 DEF DataThread

\* A sample only puts an event into the module's own queue.
LEMMA SampleKeepsOwners ==
  ASSUME BuffersAssumption, OwnerInv, NEW k \in Kinds \cup {Location}, StoreSample(k),
         UNCHANGED pending
  PROVE  OwnerInv'
<1>1. UNCHANGED heap
  BY DEF StoreSample
<1>2. CASE k \in Immediate
  <2> DEFINE e == [type |-> "PRESS_READY", kind |-> k]
  <2>1. e \in DataEvents
    BY <1>2 DEF DataEvents
  <2>2. dataQ' = Append(dataQ, e) /\ UNCHANGED cloudQ
    BY <1>2 DEF StoreSample, Deliver, ForData, ForCloud
  <2> QED BY <1>1, <2>1, <2>2, QueuesShrink DEF OwnerInv, Owned, QueuesTyped
<1>3. CASE k \notin Immediate
  <2>1. UNCHANGED <<dataQ, cloudQ>>
    BY <1>3 DEF StoreSample, queues
  <2> QED BY <1>1, <2>1, QueuesShrink DEF OwnerInv, Owned, QueuesTyped
<1> QED BY <1>2, <1>3

LEMMA EncodersKeepOwners ==
  ASSUME OwnerInv, encode_cloud_location \/ config_send, UNCHANGED pending
  PROVE  OwnerInv'
<1>1. dataQ \in Seq(DataEvents) /\ {"CLOUD_LOCATION", "CONFIG"} \subseteq MessageTypes
  BY DEF OwnerInv, QueuesTyped, MessageTypes
<1>2. CASE Fail(dataQ) \/ SendNothing(dataQ)
  BY <1>1, <1>2, NothingSent
<1>3. CASE \E samples : Send("CLOUD_LOCATION", samples, dataQ) \/ Send("CONFIG", samples, dataQ)
  BY <1>1, <1>3, SendKeepsOwners
<1> QED BY <1>2, <1>3 DEF encode_cloud_location, config_send

-----------------------------------------------------------------------------
(* The steps of the cloud module, the QoS library and the outside.             *)

\* Any other event for the two modules.
LEMMA NoticeKeepsOwners ==
  ASSUME OwnerInv, NEW e, e.type # "SEND",
         ForData(e) => e \in DataEvents, ForCloud(e) => e \in CloudEvents,
         Deliver(e, dataQ, cloudQ), UNCHANGED <<pending, heap>>
  PROVE  OwnerInv'
<1>1. dataQ' \in Seq(DataEvents)
  BY DEF Deliver, OwnerInv, QueuesTyped
<1>2. CASE ForCloud(e)
  <2>1. cloudQ' = Append(cloudQ, e)
    BY <1>2 DEF Deliver
  <2> QED BY <1>1, <1>2, <2>1, AppendOther, QueuesShrink DEF OwnerInv, Owned, QueuesTyped
<1>3. CASE ~ForCloud(e)
  BY <1>1, <1>3, QueuesShrink DEF Deliver, OwnerInv, Owned, QueuesTyped
<1> QED BY <1>2, <1>3

LEMMA NotificationType ==
  ASSUME NEW m \in Nat, NEW type \in MessageTypes
  PROVE  /\ Notification(m, type) \in CloudEvents
         /\ Notification(m, type).type # "SEND"
         /\ ~ForData(Notification(m, type)) /\ ForCloud(Notification(m, type))
  BY DEF Notification, CloudEvents, ForData, ForCloud

\* A message taken into the list leaves the queue; one that is not taken has no
\* owner any more, but no two.
LEMMA CloudThreadKeepsOwners ==
  ASSUME OwnerInv, CloudThread, UNCHANGED heap
  PROVE  OwnerInv'
<1> DEFINE e == Head(cloudQ)
           rest == Tail(cloudQ)
<1>1. cloudQ # << >>
  BY DEF CloudThread, TakeMessage, SendMessage, on_state, SetState, CloudIgnores, CloudMsg
<1>2. /\ e \in CloudEvents
      /\ rest \in Seq(CloudEvents)
      /\ Sends(rest) \subseteq Sends(cloudQ)
      /\ Distinct(rest)
      /\ e.type = "SEND" => e.msg \in Sends(cloudQ) \ Sends(rest)
  <2> HIDE DEF e, rest
  <2> QED BY <1>1, TakeHead DEF OwnerInv, QueuesTyped, Owned, e, rest
<1>3. CASE UNCHANGED <<pending, dataQ>> /\ cloudQ' = rest
  BY <1>2, <1>3, QueuesShrink DEF OwnerInv, QueuesTyped
<1>4. CASE /\ e.type = "SEND"
           /\ pending' = pending \cup {e.msg}
           /\ Deliver(Notification(e.msg, e.of), dataQ, rest)
  <2>1. e.msg \in Nat /\ e.of \in MessageTypes
    BY <1>2, <1>4 DEF CloudEvents
  <2>2. dataQ' = dataQ /\ cloudQ' = Append(rest, Notification(e.msg, e.of))
    BY <1>4, <2>1, NotificationType DEF Deliver
  <2>3. /\ cloudQ' \in Seq(CloudEvents)
        /\ Sends(cloudQ') = Sends(rest)
        /\ Distinct(cloudQ')
    BY <1>2, <2>1, <2>2, NotificationType, AppendOther
  <2>4. Owned(cloudQ', pending', Allocated')
    BY <1>2, <1>4, <2>3 DEF OwnerInv, Owned, Allocated
  <2> QED BY <1>4, <2>1, <2>2, <2>3, <2>4 DEF OwnerInv, QueuesTyped, HeapTyped, Allocated
<1>5. CASE TakeMessage
  BY <1>3, <1>4, <1>5 DEF TakeMessage, CloudMsg
<1>6. CASE SendMessage \/ on_state \/ CloudIgnores
  BY <1>3, <1>6 DEF SendMessage, on_state, SetState, CloudIgnores, cloudVars
<1> QED BY <1>5, <1>6 DEF CloudThread

\* A buffer is freed when the library has let go of it and no event hands it over.
LEMMA LibraryKeepsOwners ==
  ASSUME OwnerInv, NotifyOrRemove
  PROVE  OwnerInv'
<1>1. PICK m \in pending : Notify(m) \/ Removed(m)
  BY DEF NotifyOrRemove
<1>2. m \in Nat /\ m \in Allocated /\ heap[m] \in MessageTypes
  BY DEF OwnerInv, Owned, HeapTyped
<1>3. CASE Notify(m)
  <2>1. Deliver(Notification(m, heap[m]), dataQ, cloudQ) /\ UNCHANGED <<pending, heap>>
    BY <1>3 DEF Notify, NotifyAgain, cloudVars, dataVars
  <2> QED BY <1>2, <2>1, NotificationType, NoticeKeepsOwners
<1>4. CASE Removed(m)
  <2>1. /\ pending' = pending \ {m} /\ UNCHANGED <<dataQ, cloudQ>>
        /\ heap' = [a \in Allocated \ {m} |-> heap[a]]
    BY <1>4 DEF Removed, Remove
  <2>2. Allocated' = Allocated \ {m} /\ heap' \in [Allocated' -> MessageTypes]
    BY <2>1 DEF Allocated, OwnerInv, HeapTyped
  <2>3. IsFiniteSet(Allocated')
    BY <2>2, FS_RemoveElement DEF OwnerInv, HeapTyped
  <2>4. Owned(cloudQ', pending', Allocated')
    BY <2>1, <2>2 DEF OwnerInv, Owned
  <2> QED BY <2>1, <2>2, <2>3, <2>4 DEF OwnerInv, QueuesTyped, HeapTyped
<1> QED BY <1>1, <1>3, <1>4

LEMMA OutsideKeepsOwners ==
  ASSUME OwnerInv, Outside, UNCHANGED <<dataVars, cloudVars>>
  PROVE  OwnerInv'
<1>1. UNCHANGED <<pending, heap>>
  BY DEF dataVars, cloudVars
<1>2. CASE LinkChange
  <2>1. PICK type \in {"LTE_CONNECTED", "LTE_DISCONNECTED", "CONNECTED", "DISCONNECTED"} :
          Deliver(Event(type), dataQ, cloudQ)
    BY <1>2 DEF LinkChange, Submit
  <2>2. /\ Event(type).type # "SEND" /\ Event(type) \in CloudEvents
        /\ ForData(Event(type)) => Event(type) \in DataEvents
    BY DEF Event, CloudEvents, DataEvents, ForData
  <2> QED BY <1>1, <2>1, <2>2, NoticeKeepsOwners
<1>3. CASE TimeObtained
  BY <1>1, <1>3, QueuesShrink DEF TimeObtained, queues, OwnerInv, QueuesTyped, Owned
<1> QED BY <1>2, <1>3 DEF Outside

-----------------------------------------------------------------------------
LEMMA OwnersInit == Init => OwnerInv
<1> SUFFICES ASSUME Init PROVE OwnerInv
  OBVIOUS
<1>1. /\ dataQ = << >> /\ cloudQ = << >> /\ heap = << >> /\ pending = {}
  BY DEF Init, DataInit, CloudInit
<1>2. Allocated = {} /\ heap \in [Allocated -> MessageTypes]
  BY <1>1 DEF Allocated
<1>3. IsFiniteSet(Allocated)
  BY <1>2, FS_EmptySet
<1>4. Owned(cloudQ, pending, Allocated)
  BY <1>1 DEF Owned, Sends, Distinct
<1> QED BY <1>1, <1>2, <1>3, <1>4 DEF OwnerInv, QueuesTyped, HeapTyped

LEMMA OwnersStep ==
  ASSUME BuffersAssumption, OwnerInv, [Next]_vars PROVE OwnerInv'
<1>1. CASE Outside /\ UNCHANGED <<dataVars, cloudVars>>
  BY <1>1, OutsideKeepsOwners
<1>2. CASE DataStep
  BY <1>2, DataThreadKeepsOwners DEF DataStep, cloudVars
<1>3. CASE SampleStep
  BY <1>3, SampleKeepsOwners DEF SampleStep, cloudVars
<1>4. CASE ReadyStep \/ ConfigStep
  BY <1>4, EncodersKeepOwners DEF ReadyStep, ConfigStep, cloudVars
<1>5. CASE CloudStep
  BY <1>5, CloudThreadKeepsOwners DEF CloudStep, dataVars
<1>6. CASE NotifyOrRemove
  BY <1>6, LibraryKeepsOwners
<1>7. CASE UNCHANGED vars
  BY <1>7, QueuesShrink DEF vars, queues, dataVars, cloudVars, OwnerInv, QueuesTyped, Owned
<1> QED BY <1>1, <1>2, <1>3, <1>4, <1>5, <1>6, <1>7 DEF Next

\* Whatever the number of samples, buffers and pending messages, and whenever the
\* connection changes under the two modules: a message's buffer belongs to one event
\* or to the QoS library, never to both or to two events, and neither holds one that
\* has been freed (data_send, add_qos_message, qos_event_handler).
THEOREM BuffersHaveOneOwner == Spec => []OneOwner
<1>1. OwnerInv => OneOwner
  BY DEF OwnerInv, Owned, OneOwner, Handed, Sends, Distinct, IsSend
<1> QED BY <1>1, BuffersAssumption, OwnersInit, OwnersStep, PTL DEF Spec

-----------------------------------------------------------------------------
(* The ring buffers.                                                           *)

AllKinds == Kinds \cup {Location}

SamplesTyped ==
  /\ DOMAIN buf = Kinds /\ DOMAIN head = Kinds
  /\ \A k \in Kinds : buf[k] \in [Indices(k) -> Entry] /\ head[k] \in Indices(k)
  /\ cloud_location \in Entry
  /\ stored \in [AllKinds -> Nat]
  /\ \A k \in AllKinds : stored[k] <= MaxSamples[k]
  /\ encoded \subseteq UNION {{Sample(k, n) : n \in 1 .. stored[k]} : k \in AllKinds}

\* How many entries have been written after entry i.
Age(k, i) == IF i <= head[k] THEN head[k] - i ELSE head[k] - i + BufferCount[k]

\* The entries hold the last samples, the newest at the head; those not yet
\* written are empty.
NewestKept ==
  /\ \A k \in Kinds : \A i \in Indices(k) :
       /\ buf[k][i].n = IF Age(k, i) < stored[k] THEN stored[k] - Age(k, i) ELSE 0
       /\ buf[k][i].queued => buf[k][i].n >= 1
  /\ cloud_location.n = stored[Location]
  /\ cloud_location.queued => cloud_location.n >= 1

\* What the flags say, without the exception for errors.
FlagsTell ==
  /\ \A k \in Kinds : \A i \in Indices(k) :
       buf[k][i].n >= 1 => (buf[k][i].queued <=> Sample(k, buf[k][i].n) \notin encoded)
  /\ cloud_location.n >= 1 =>
       (cloud_location.queued <=> Sample(Location, cloud_location.n) \notin encoded)

RingInv == SamplesTyped /\ NewestKept /\ (~error => FlagsTell)

LEMMA CountFacts ==
  ASSUME BuffersAssumption, NEW k \in Kinds
  PROVE  /\ BufferCount[k] \in Nat \ {0}
         /\ Indices(k) = 0 .. BufferCount[k] - 1
         /\ NextIndex(k) = IF head[k] + 1 = BufferCount[k] THEN 0 ELSE head[k] + 1
         /\ k \in AllKinds /\ k # Location
  BY DEF BuffersAssumption, Indices, NextIndex, AllKinds

\* Nothing is encoded that has not been stored.
LEMMA EncodedIsStored ==
  ASSUME SamplesTyped, NEW k, NEW n, Sample(k, n) \in encoded
  PROVE  k \in AllKinds /\ n \in 1 .. stored[k]
<1>1. PICK c \in AllKinds : Sample(k, n) \in {Sample(c, m) : m \in 1 .. stored[c]}
  BY DEF SamplesTyped
<1>2. PICK m \in 1 .. stored[c] : Sample(k, n) = Sample(c, m)
  BY <1>1
<1>3. k = c /\ n = m
  BY <1>2 DEF Sample
<1> QED BY <1>2, <1>3

\* Going round a buffer of b entries.
LEMMA Ages ==
  ASSUME NEW b \in Nat \ {0}, NEW h \in 0 .. b - 1, NEW i \in 0 .. b - 1
  PROVE  LET age(n) == IF n <= h THEN h - n ELSE h - n + b
         IN  /\ age(i) \in 0 .. b - 1
             /\ \A j \in 0 .. b - 1 : i # j => age(i) # age(j)
  OBVIOUS

LEMMA AgeFacts ==
  ASSUME BuffersAssumption, SamplesTyped, NEW k \in Kinds, NEW i \in Indices(k)
  PROVE  /\ Age(k, i) \in 0 .. BufferCount[k] - 1 /\ Age(k, i) \in Nat
         /\ \A j \in Indices(k) : i # j => Age(k, i) # Age(k, j)
         /\ head'[k] = NextIndex(k) =>
              Age(k, i)' = IF i = NextIndex(k) THEN 0 ELSE Age(k, i) + 1
<1> DEFINE b == BufferCount[k]
           h == head[k]
<1>1. b \in Nat \ {0} /\ h \in 0 .. b - 1 /\ Indices(k) = 0 .. b - 1
  BY CountFacts DEF SamplesTyped
<1>2. /\ \A j \in Indices(k) : Age(k, j) = IF j <= h THEN h - j ELSE h - j + b
      /\ Age(k, i)' = IF i <= head'[k] THEN head'[k] - i ELSE head'[k] - i + b
      /\ NextIndex(k) = IF h + 1 = b THEN 0 ELSE h + 1
  BY DEF Age, NextIndex
<1> HIDE DEF b, h
<1>3. /\ Age(k, i) \in 0 .. b - 1
      /\ \A j \in Indices(k) : i # j => Age(k, i) # Age(k, j)
  BY <1>1, <1>2, Ages
<1>4. ASSUME head'[k] = NextIndex(k)
      PROVE  Age(k, i)' = IF i = NextIndex(k) THEN 0 ELSE Age(k, i) + 1
  <2> DEFINE next == IF h + 1 = b THEN 0 ELSE h + 1
  <2>1. NextIndex(k) = next /\ Age(k, i)' = IF i <= next THEN next - i ELSE next - i + b
    BY <1>2, <1>4
  <2>2. Age(k, i) = IF i <= h THEN h - i ELSE h - i + b
    BY <1>2
  <2>3. i \in 0 .. b - 1
    BY <1>1
  <2> QED BY <1>1, <2>1, <2>2, <2>3
<1>5. Age(k, i) \in Nat
  BY <1>1, <1>3
<1> QED BY <1>3, <1>4, <1>5 DEF b

\* Two entries do not hold the same sample.
LEMMA NumbersDiffer ==
  ASSUME BuffersAssumption, SamplesTyped, NewestKept, NEW k \in Kinds,
         NEW i \in Indices(k), NEW j \in Indices(k), i # j, buf[k][i].n >= 1
  PROVE  buf[k][i].n # buf[k][j].n
<1>1. /\ BufferCount[k] \in Nat \ {0} /\ i \in 0 .. BufferCount[k] - 1 /\ j \in 0 .. BufferCount[k] - 1
      /\ head[k] \in 0 .. BufferCount[k] - 1 /\ stored[k] \in Nat
  BY CountFacts DEF SamplesTyped
<1>2. Age(k, i) # Age(k, j) /\ Age(k, i) \in Nat /\ Age(k, j) \in Nat
  BY AgeFacts
<1>3. /\ buf[k][i].n = IF Age(k, i) < stored[k] THEN stored[k] - Age(k, i) ELSE 0
      /\ buf[k][j].n = IF Age(k, j) < stored[k] THEN stored[k] - Age(k, j) ELSE 0
  BY DEF NewestKept
<1> QED BY <1>1, <1>2, <1>3

\* What a store does to the buffer of its kind.
LEMMA PopulateFacts ==
  ASSUME BuffersAssumption, SamplesTyped, NEW k \in Kinds, Populate(k),
         stored' = [stored EXCEPT ![k] = stored[k] + 1]
  PROVE  /\ NextIndex(k) \in Indices(k)
         /\ DOMAIN buf' = Kinds /\ DOMAIN head' = Kinds
         /\ head'[k] = NextIndex(k) /\ stored'[k] = stored[k] + 1
         /\ buf'[k][NextIndex(k)] = [n |-> stored[k] + 1, queued |-> TRUE]
         /\ buf'[k] \in [Indices(k) -> Entry]
         /\ \A i \in Indices(k) : i # NextIndex(k) => buf'[k][i] = buf[k][i]
         /\ \A c \in Kinds : c # k => buf'[c] = buf[c] /\ head'[c] = head[c]
         /\ stored' \in [AllKinds -> Nat]
         /\ \A c \in AllKinds : c # k => stored'[c] = stored[c]
         /\ cloud_location' = cloud_location
<1>1. /\ BufferCount[k] \in Nat \ {0} /\ Indices(k) = 0 .. BufferCount[k] - 1
      /\ head[k] \in Indices(k) /\ stored[k] \in Nat /\ k \in AllKinds
      /\ buf[k] \in [Indices(k) -> Entry]
      /\ NextIndex(k) = IF head[k] + 1 = BufferCount[k] THEN 0 ELSE head[k] + 1
  BY CountFacts DEF SamplesTyped
<1>2. NextIndex(k) \in Indices(k)
  BY <1>1
<1> DEFINE e == [n |-> stored[k] + 1, queued |-> TRUE]
<1>3. e \in Entry
  BY <1>1 DEF Entry
<1>4. /\ buf' = [buf EXCEPT ![k] = [buf[k] EXCEPT ![NextIndex(k)] = e]]
      /\ head' = [head EXCEPT ![k] = NextIndex(k)] /\ UNCHANGED cloud_location
  BY DEF Populate
<1> HIDE DEF e
<1>5. /\ DOMAIN buf' = Kinds /\ DOMAIN head' = Kinds /\ head'[k] = NextIndex(k)
      /\ buf'[k] = [buf[k] EXCEPT ![NextIndex(k)] = e]
      /\ \A c \in Kinds : c # k => buf'[c] = buf[c] /\ head'[c] = head[c]
  BY <1>4 DEF SamplesTyped
<1>6. /\ buf'[k] \in [Indices(k) -> Entry] /\ buf'[k][NextIndex(k)] = e
      /\ \A i \in Indices(k) : i # NextIndex(k) => buf'[k][i] = buf[k][i]
  BY <1>1, <1>2, <1>3, <1>5
<1>7. /\ stored' \in [AllKinds -> Nat] /\ stored'[k] = stored[k] + 1
      /\ \A c \in AllKinds : c # k => stored'[c] = stored[c]
  BY <1>1 DEF SamplesTyped
<1> QED BY <1>2, <1>4, <1>5, <1>6, <1>7 DEF e

LEMMA StoredTyped ==
  ASSUME SamplesTyped, NEW k \in AllKinds, stored[k] < MaxSamples[k],
         stored' = [stored EXCEPT ![k] = stored[k] + 1], UNCHANGED encoded
  PROVE  /\ stored' \in [AllKinds -> Nat]
         /\ \A c \in AllKinds : stored'[c] <= MaxSamples[c]
         /\ encoded' \subseteq UNION {{Sample(c, n) : n \in 1 .. stored'[c]} : c \in AllKinds}
<1>1. stored \in [AllKinds -> Nat] /\ \A c \in AllKinds : MaxSamples[c] \in Nat
  BY DeliveryAssumption DEF SamplesTyped, DeliveryAssumption, AllKinds
<1>2. \A c \in AllKinds : /\ stored[c] \in Nat /\ stored'[c] \in Nat
                          /\ stored'[c] <= MaxSamples[c] /\ stored[c] <= stored'[c]
  BY <1>1 DEF SamplesTyped
<1>3. ASSUME NEW s \in encoded
      PROVE  \E c \in AllKinds : \E n \in 1 .. stored'[c] : s = Sample(c, n)
  <2>1. PICK c \in AllKinds : \E n \in 1 .. stored[c] : s = Sample(c, n)
    BY DEF SamplesTyped
  <2> QED BY <1>2, <2>1
<1> QED BY <1>1, <1>2, <1>3

LEMMA PopulateKeepsRing ==
  ASSUME BuffersAssumption, RingInv, NEW k \in Kinds, Populate(k), stored[k] < MaxSamples[k],
         stored' = [stored EXCEPT ![k] = stored[k] + 1], UNCHANGED <<encoded, error>>
  PROVE  RingInv'
<1>0. SamplesTyped /\ NewestKept /\ (~error => FlagsTell)
  BY DEF RingInv
<1>1. /\ BufferCount[k] \in Nat \ {0} /\ Indices(k) = 0 .. BufferCount[k] - 1
      /\ head[k] \in Indices(k) /\ stored[k] \in Nat /\ k \in AllKinds /\ k # Location
      /\ NextIndex(k) = IF head[k] + 1 = BufferCount[k] THEN 0 ELSE head[k] + 1
      /\ NextIndex(k) \in Indices(k) /\ Location \in AllKinds
  BY <1>0, CountFacts, PopulateFacts DEF SamplesTyped, AllKinds
<1>2. SamplesTyped'
  <2>3. \A c \in Kinds : buf'[c] \in [Indices(c) -> Entry] /\ head'[c] \in Indices(c)
    BY <1>0, <1>1, PopulateFacts DEF SamplesTyped
  <2> QED BY <1>0, <1>1, <2>3, PopulateFacts, StoredTyped DEF SamplesTyped
<1>3. NewestKept'
  <2>1. ASSUME NEW c \in Kinds, NEW i \in Indices(c)
        PROVE  /\ buf'[c][i].n = IF Age(c, i)' < stored'[c] THEN stored'[c] - Age(c, i)' ELSE 0
               /\ buf'[c][i].queued => buf'[c][i].n >= 1
    <3>1. CASE c # k
      <4>1. buf'[c] = buf[c] /\ head'[c] = head[c] /\ stored'[c] = stored[c]
        BY <1>0, <2>1, <3>1, PopulateFacts DEF AllKinds
      <4>2. Age(c, i)' = Age(c, i)
        BY <4>1 DEF Age
      <4> QED BY <1>0, <2>1, <4>1, <4>2 DEF NewestKept
    <3>2. CASE c = k /\ i = NextIndex(k)
      <4>1. Age(k, i)' = 0 /\ stored'[k] = stored[k] + 1
        BY <1>0, <2>1, <3>2, PopulateFacts, AgeFacts
      <4>2. buf'[k][i] = [n |-> stored[k] + 1, queued |-> TRUE]
        BY <1>0, <3>2, PopulateFacts
      <4>3. buf'[k][i].n = stored[k] + 1
        BY <4>2
      <4> QED BY <1>1, <3>2, <4>1, <4>3
    <3>3. CASE c = k /\ i # NextIndex(k)
      <4>2. Age(k, i)' = Age(k, i) + 1 /\ Age(k, i) \in Nat
        BY <1>0, <2>1, <3>3, PopulateFacts, AgeFacts
      <4>3. buf'[k][i] = buf[k][i] /\ stored'[k] = stored[k] + 1
        BY <1>0, <2>1, <3>3, PopulateFacts
      <4>4. /\ buf[k][i].n = IF Age(k, i) < stored[k] THEN stored[k] - Age(k, i) ELSE 0
            /\ buf[k][i].queued => buf[k][i].n >= 1
        BY <1>0, <2>1, <3>3 DEF NewestKept
      <4>5. buf'[k][i].n = IF Age(k, i)' < stored'[k] THEN stored'[k] - Age(k, i)' ELSE 0
        BY <1>1, <4>2, <4>3, <4>4
      <4> QED BY <3>3, <4>3, <4>4, <4>5
    <3> QED BY <3>1, <3>2, <3>3
  <2> QED BY <1>0, <1>1, <2>1, PopulateFacts DEF NewestKept
<1>4. ASSUME ~error PROVE FlagsTell'
  <2>1. Sample(k, stored[k] + 1) \notin encoded
    BY <1>0, <1>1, EncodedIsStored
  <2>2. ASSUME NEW c \in Kinds, NEW i \in Indices(c), buf'[c][i].n >= 1
        PROVE  buf'[c][i].queued <=> Sample(c, buf'[c][i].n) \notin encoded
    <3>1. CASE c = k /\ i = NextIndex(k)
      <4>1. buf'[k][i] = [n |-> stored[k] + 1, queued |-> TRUE]
        BY <1>0, <3>1, PopulateFacts
      <4> QED BY <2>1, <3>1, <4>1
    <3>2. CASE ~(c = k /\ i = NextIndex(k))
      <4>1. buf'[c][i] = buf[c][i]
        BY <1>0, <2>2, <3>2, PopulateFacts
      <4> QED BY <1>0, <1>4, <2>2, <4>1 DEF FlagsTell
    <3> QED BY <3>1, <3>2
  <2> QED BY <1>0, <1>4, <2>2, PopulateFacts DEF FlagsTell
<1> QED BY <1>2, <1>3, <1>4 DEF RingInv

\* A location replaces the one before.
LEMMA LocationKeepsRing ==
  ASSUME BuffersAssumption, RingInv, stored[Location] < MaxSamples[Location],
         stored' = [stored EXCEPT ![Location] = stored[Location] + 1],
         cloud_location' = [n |-> stored[Location] + 1, queued |-> TRUE],
         UNCHANGED <<buf, head, encoded, error>>
  PROVE  RingInv'
<1>0. SamplesTyped /\ NewestKept /\ (~error => FlagsTell)
  BY DEF RingInv
<1>1. Location \in AllKinds /\ stored[Location] \in Nat /\ \A c \in Kinds : c # Location /\ c \in AllKinds
  BY <1>0, CountFacts DEF SamplesTyped, AllKinds
<1>2. /\ stored'[Location] = stored[Location] + 1
      /\ \A c \in Kinds : stored'[c] = stored[c]
  BY <1>0, <1>1 DEF SamplesTyped
<1>3. cloud_location' \in Entry /\ cloud_location'.n = stored[Location] + 1 /\ cloud_location'.queued
  BY <1>1 DEF Entry
<1>4. SamplesTyped'
  BY <1>0, <1>1, <1>3, StoredTyped DEF SamplesTyped
<1>5. NewestKept'
  <2>1. \A c \in Kinds : \A i \in Indices(c) : Age(c, i)' = Age(c, i)
    BY DEF Age
  <2> QED BY <1>0, <1>1, <1>2, <1>3, <2>1 DEF NewestKept
<1>6. Sample(Location, stored[Location] + 1) \notin encoded
  BY <1>0, <1>1, EncodedIsStored
<1>7. ASSUME ~error PROVE FlagsTell'
  BY <1>0, <1>3, <1>6, <1>7 DEF FlagsTell
<1> QED BY <1>4, <1>5, <1>7 DEF RingInv

\* An entry that is not empty holds a sample that has been stored.
LEMMA EntryIsStored ==
  ASSUME BuffersAssumption, SamplesTyped, NewestKept, NEW k \in Kinds, NEW i \in Indices(k),
         buf[k][i].n >= 1
  PROVE  buf[k][i].n \in 1 .. stored[k]
<1>1. Age(k, i) \in Nat /\ stored[k] \in Nat
  BY AgeFacts, CountFacts DEF SamplesTyped
<1>2. buf[k][i].n = IF Age(k, i) < stored[k] THEN stored[k] - Age(k, i) ELSE 0
  BY DEF NewestKept
<1> QED BY <1>1, <1>2

\* Flags fall, and nothing else changes in the buffers.
FlagsFall ==
  /\ DOMAIN buf' = Kinds
  /\ \A k \in Kinds :
       /\ buf'[k] \in [Indices(k) -> Entry]
       /\ \A i \in Indices(k) :
            buf'[k][i].n = buf[k][i].n /\ (buf'[k][i].queued => buf[k][i].queued)
  /\ cloud_location' \in Entry /\ cloud_location'.n = cloud_location.n
  /\ cloud_location'.queued => cloud_location.queued
  /\ UNCHANGED <<head, stored>>

LEMMA FallKeepsSamples ==
  ASSUME SamplesTyped, NewestKept, FlagsFall,
         \A s \in encoded' \ encoded : \E k \in AllKinds : \E n \in 1 .. stored[k] : s = Sample(k, n)
  PROVE  SamplesTyped' /\ NewestKept'
<1>1. encoded' \subseteq UNION {{Sample(c, n) : n \in 1 .. stored'[c]} : c \in AllKinds}
  <2> SUFFICES ASSUME NEW s \in encoded'
               PROVE  \E c \in AllKinds : \E n \in 1 .. stored'[c] : s = Sample(c, n)
    OBVIOUS
  <2>1. UNCHANGED stored
    BY DEF FlagsFall
  <2> QED BY <2>1 DEF SamplesTyped
<1>2. SamplesTyped'
  BY <1>1 DEF SamplesTyped, FlagsFall
<1>3. \A c \in Kinds : \A i \in Indices(c) : Age(c, i)' = Age(c, i)
  BY DEF FlagsFall, Age
<1>4. NewestKept'
  BY <1>3 DEF NewestKept, FlagsFall
<1> QED BY <1>2, <1>4

\* A message takes exactly the samples whose flags fall.
LEMMA EncodingKeepsRing ==
  ASSUME RingInv, ~error, FlagsFall, NEW samples, encoded' = encoded \cup samples, UNCHANGED error,
         \A s \in samples : \E k \in AllKinds : \E n \in 1 .. stored[k] : s = Sample(k, n),
         \A k \in Kinds : \A i \in Indices(k) :
           buf[k][i].queued => (buf'[k][i].queued <=> Sample(k, buf[k][i].n) \notin samples),
         cloud_location.queued =>
           (cloud_location'.queued <=> Sample(Location, cloud_location.n) \notin samples)
  PROVE  RingInv'
<1>1. SamplesTyped' /\ NewestKept'
  BY FallKeepsSamples DEF RingInv
<1>2. FlagsTell'
  <2>1. ASSUME NEW k \in Kinds, NEW i \in Indices(k), buf'[k][i].n >= 1
        PROVE  buf'[k][i].queued <=> Sample(k, buf'[k][i].n) \notin encoded'
    <3>1. /\ buf'[k][i].n = buf[k][i].n /\ (buf'[k][i].queued => buf[k][i].queued)
          /\ buf[k][i].queued <=> Sample(k, buf[k][i].n) \notin encoded
      BY <2>1 DEF RingInv, FlagsTell, FlagsFall
    <3>2. buf[k][i].queued => (buf'[k][i].queued <=> Sample(k, buf[k][i].n) \notin samples)
      OBVIOUS
    <3> QED BY <3>1, <3>2
  <2>2. ASSUME cloud_location'.n >= 1
        PROVE  cloud_location'.queued <=> Sample(Location, cloud_location'.n) \notin encoded'
    BY <2>2 DEF RingInv, FlagsTell, FlagsFall
  <2> QED BY <2>1, <2>2 DEF FlagsTell
<1> QED BY <1>1, <1>2 DEF RingInv

-----------------------------------------------------------------------------
(* What the steps of the data module do to them.                               *)

LEMMA UnchangedFall ==
  ASSUME SamplesTyped, UNCHANGED buffers PROVE FlagsFall
  BY DEF SamplesTyped, buffers, FlagsFall

\* Steps that encode nothing.
LEMMA QuietKeepsRing ==
  ASSUME RingInv, FlagsFall, UNCHANGED encoded,
         error' = TRUE \/ UNCHANGED <<error, buf, cloud_location>>
  PROVE  RingInv'
<1>1. SamplesTyped' /\ NewestKept'
  BY FallKeepsSamples DEF RingInv
<1>2. CASE error' = TRUE
  BY <1>1, <1>2 DEF RingInv
<1>3. CASE UNCHANGED <<error, buf, cloud_location>>
  <2>1. ~error => FlagsTell'
    BY <1>3 DEF RingInv, FlagsTell
  <2> QED BY <1>1, <1>3, <2>1 DEF RingInv
<1> QED BY <1>2, <1>3

\* The batch goes through every entry of every kind in turn.
LEMMA ClearedFall ==
  ASSUME SamplesTyped, NEW m, NEW j, buf' = Cleared(m, j), UNCHANGED <<head, cloud_location, stored>>
  PROVE  /\ FlagsFall
         /\ \A k \in Kinds : \A i \in Indices(k) : Before(k, i, m, j) => ~buf'[k][i].queued
<1> DEFINE entry(k, i) == IF Before(k, i, m, j) THEN [buf[k][i] EXCEPT !.queued = FALSE] ELSE buf[k][i]
<1>1. /\ DOMAIN buf' = Kinds
      /\ \A k \in Kinds : buf'[k] = [i \in Indices(k) |-> entry(k, i)]
  BY DEF Cleared
<1>2. ASSUME NEW k \in Kinds, NEW i \in Indices(k)
      PROVE  /\ buf'[k][i] \in Entry /\ buf'[k][i].n = buf[k][i].n
             /\ buf'[k][i].queued => buf[k][i].queued
             /\ Before(k, i, m, j) => ~buf'[k][i].queued
  <2>1. buf[k][i] \in Entry
    BY DEF SamplesTyped
  <2>2. buf'[k][i] = entry(k, i)
    <3> HIDE DEF entry
    <3> QED BY <1>1, <1>2
  <2> QED BY <2>1, <2>2 DEF Entry
<1>3. \A k \in Kinds : buf'[k] \in [Indices(k) -> Entry]
  BY <1>1, <1>2
<1> QED BY <1>1, <1>2, <1>3 DEF FlagsFall, SamplesTyped

LEMMA BatchIsAll ==
  ASSUME BuffersAssumption, NEW k \in Kinds, NEW i
  PROVE  Before(k, i, Len(BatchOrder) + 1, 0)
<1>1. PICK p \in DOMAIN BatchOrder : BatchOrder[p] = k
  BY DEF Kinds
<1>2. DOMAIN BatchOrder = 1 .. Len(BatchOrder) /\ Len(BatchOrder) \in Nat
  BY DEF BuffersAssumption
<1>3. p < Len(BatchOrder) + 1
  BY <1>2
<1> QED BY <1>1, <1>3 DEF Before

\* data_ui_send() and data_impact_send() take the newest entry only.
LEMMA PressKeepsRing ==
  ASSUME BuffersAssumption, QueuesTyped, RingInv, ~error, data_press_send PROVE RingInv'
<1> DEFINE k == Head(dataQ).kind
           i == head[k]
<1>0. SamplesTyped /\ NewestKept
  BY DEF RingInv
<1>1. k \in Kinds
  <2>1. dataQ # << >> /\ Head(dataQ).type = "PRESS_READY"
    BY DEF data_press_send, Msg
  <2>2. Head(dataQ) \in DataEvents
    BY <2>1 DEF QueuesTyped
  <2> QED BY <2>1, <2>2 DEF DataEvents, BuffersAssumption
<1>2. i \in Indices(k) /\ buf[k][i] \in Entry /\ buf[k] \in [Indices(k) -> Entry]
  BY <1>0, <1>1 DEF SamplesTyped
<1>3. CASE Fail(Tail(dataQ)) /\ UNCHANGED buffers
  BY <1>0, <1>3, UnchangedFall, QuietKeepsRing DEF Fail
<1>4. CASE SendNothing(Tail(dataQ))
  BY <1>0, <1>4, UnchangedFall, QuietKeepsRing DEF SendNothing, buffers
<1>5. CASE /\ buf[k][i].queued
           /\ Send(k, {Sample(k, buf[k][i].n)}, Tail(dataQ))
           /\ buf' = [buf EXCEPT ![k][i].queued = FALSE]
           /\ UNCHANGED <<head, cloud_location, stored>>
  <2> DEFINE samples == {Sample(k, buf[k][i].n)}
  <2>1. encoded' = encoded \cup samples /\ UNCHANGED error
    BY <1>5 DEF Send
  <2> HIDE DEF k, i
  <2>2. /\ DOMAIN buf' = Kinds
        /\ buf'[k] = [buf[k] EXCEPT ![i] = [buf[k][i] EXCEPT !.queued = FALSE]]
        /\ \A c \in Kinds : c # k => buf'[c] = buf[c]
    BY <1>0, <1>1, <1>5 DEF SamplesTyped
  <2>3. /\ buf'[k][i] \in Entry /\ buf'[k][i].n = buf[k][i].n /\ ~buf'[k][i].queued
        /\ \A c \in Indices(k) : c # i => buf'[k][c] = buf[k][c]
    BY <1>2, <2>2 DEF Entry
  <2>4. buf'[k] \in [Indices(k) -> Entry]
    BY <1>2, <2>2, <2>3
  <2>5. FlagsFall
    BY <1>0, <1>1, <1>5, <2>2, <2>3, <2>4 DEF FlagsFall, SamplesTyped
  <2>6. buf[k][i].n >= 1 /\ buf[k][i].n \in 1 .. stored[k] /\ k \in AllKinds /\ k # Location
    BY <1>0, <1>1, <1>2, <1>5, EntryIsStored, CountFacts DEF NewestKept
  <2>7. ASSUME NEW c \in Kinds, NEW a \in Indices(c), buf[c][a].queued
        PROVE  buf'[c][a].queued <=> Sample(c, buf[c][a].n) \notin samples
    <3>1. CASE c = k /\ a = i
      BY <2>3, <3>1
    <3>2. CASE c = k /\ a # i
      <4>1. buf[k][a].n >= 1 /\ buf'[k][a] = buf[k][a]
        BY <1>0, <2>3, <2>7, <3>2 DEF NewestKept
      <4>2. buf[k][a].n # buf[k][i].n
        BY <1>0, <1>1, <1>2, <2>7, <3>2, <4>1, NumbersDiffer
      <4> QED BY <2>7, <3>2, <4>1, <4>2 DEF Sample
    <3>3. CASE c # k
      BY <2>2, <2>7, <3>3 DEF Sample
    <3> QED BY <3>1, <3>2, <3>3
  <2>8. cloud_location'.queued = cloud_location.queued /\ Sample(Location, cloud_location.n) \notin samples
    BY <1>5, <2>6 DEF Sample
  <2>9. \A s \in samples : \E c \in AllKinds : \E n \in 1 .. stored[c] : s = Sample(c, n)
    BY <2>6
  <2> QED BY <2>1, <2>5, <2>7, <2>8, <2>9, EncodingKeepsRing
<1> QED BY <1>3, <1>4, <1>5 DEF data_press_send

LEMMA LocationSendKeepsRing ==
  ASSUME BuffersAssumption, RingInv, ~error, encode_cloud_location PROVE RingInv'
<1>0. SamplesTyped /\ NewestKept
  BY DEF RingInv
<1>1. CASE Fail(dataQ) /\ UNCHANGED buffers
  BY <1>0, <1>1, UnchangedFall, QuietKeepsRing DEF Fail
<1>2. CASE SendNothing(dataQ)
  BY <1>0, <1>2, UnchangedFall, QuietKeepsRing DEF SendNothing, buffers
<1>3. CASE /\ cloud_location.queued
           /\ Send("CLOUD_LOCATION", {Sample(Location, cloud_location.n)}, dataQ)
           /\ cloud_location' = [cloud_location EXCEPT !.queued = FALSE]
           /\ UNCHANGED <<buf, head, stored>>
  <2> DEFINE samples == {Sample(Location, cloud_location.n)}
  <2>1. encoded' = encoded \cup samples /\ UNCHANGED error
    BY <1>3 DEF Send
  <2>2. cloud_location' \in Entry /\ cloud_location'.n = cloud_location.n /\ ~cloud_location'.queued
    BY <1>0, <1>3 DEF SamplesTyped, Entry
  <2>3. FlagsFall
    BY <1>0, <1>3, <2>2 DEF FlagsFall, SamplesTyped
  <2>4. cloud_location.n \in 1 .. stored[Location] /\ Location \in AllKinds
    <3>1. stored[Location] \in Nat /\ Location \in AllKinds
      BY <1>0 DEF SamplesTyped, AllKinds
    <3>2. cloud_location.n = stored[Location] /\ cloud_location.n >= 1
      BY <1>0, <1>3 DEF NewestKept
    <3> QED BY <3>1, <3>2
  <2>5. \A c \in Kinds : \A a \in Indices(c) :
          /\ buf'[c][a].queued = buf[c][a].queued
          /\ Sample(c, buf[c][a].n) \notin samples
    BY <1>3, CountFacts DEF Sample
  <2>6. \A s \in samples : \E c \in AllKinds : \E n \in 1 .. stored[c] : s = Sample(c, n)
    BY <2>4
  <2> QED BY <2>1, <2>2, <2>3, <2>5, <2>6, EncodingKeepsRing
<1> QED BY <1>1, <1>2, <1>3 DEF encode_cloud_location

LEMMA BatchKeepsRing ==
  ASSUME BuffersAssumption, RingInv, ~error, encode_batch_data PROVE RingInv'
<1>0. SamplesTyped /\ NewestKept
  BY DEF RingInv
<1>1. CASE SendNothing(dataQ)
  BY <1>0, <1>1, UnchangedFall, QuietKeepsRing DEF SendNothing, buffers
<1>2. CASE /\ \E m \in DOMAIN BatchOrder : \E j \in 0 .. BufferCount[BatchOrder[m]] :
                buf' = Cleared(m, j)
           /\ Fail(dataQ)
           /\ UNCHANGED <<head, cloud_location, stored>>
  <2>1. FlagsFall
    BY <1>0, <1>2, ClearedFall
  <2> QED BY <1>2, <2>1, QuietKeepsRing DEF Fail
<1>3. CASE /\ Send("BATCH", Queued, dataQ)
           /\ buf' = Cleared(Len(BatchOrder) + 1, 0)
           /\ UNCHANGED <<head, cloud_location, stored>>
  <2>1. encoded' = encoded \cup Queued /\ UNCHANGED error
    BY <1>3 DEF Send
  <2>2. FlagsFall /\ \A k \in Kinds : \A i \in Indices(k) : ~buf'[k][i].queued
    BY <1>0, <1>3, ClearedFall, BatchIsAll
  <2>3. \A k \in Kinds : \A i \in Indices(k) : buf[k][i].queued => Sample(k, buf[k][i].n) \in Queued
    BY DEF Queued, QueuedOf
  <2>4. ASSUME NEW s \in Queued
        PROVE  \E k \in Kinds : \E n \in 1 .. stored[k] : s = Sample(k, n)
    <3>1. PICK k \in Kinds : s \in QueuedOf(k)
      BY <2>4 DEF Queued
    <3>2. PICK i \in Indices(k) : buf[k][i].queued /\ s = Sample(k, buf[k][i].n)
      BY <3>1 DEF QueuedOf
    <3>3. buf[k][i].n >= 1
      BY <1>0, <3>2 DEF NewestKept
    <3> QED BY <1>0, <3>2, <3>3, EntryIsStored
  <2>5. Sample(Location, cloud_location.n) \notin Queued
    BY <2>4, CountFacts DEF Sample
  <2>6. \A s \in Queued : \E k \in AllKinds : \E n \in 1 .. stored[k] : s = Sample(k, n)
    BY <2>4 DEF AllKinds
  <2>7. cloud_location'.queued = cloud_location.queued
    BY <1>3
  <2> QED BY <2>1, <2>2, <2>3, <2>5, <2>6, <2>7, EncodingKeepsRing
<1> QED BY <1>1, <1>2, <1>3 DEF encode_batch_data

LEMMA ConfigKeepsRing ==
  ASSUME RingInv, ~error, config_send PROVE RingInv'
<1>1. SamplesTyped /\ FlagsFall
  BY UnchangedFall DEF RingInv, config_send
<1>2. CASE Send("CONFIG", {}, dataQ)
  <2>1. UNCHANGED <<encoded, error>>
    BY <1>2 DEF Send
  <2> QED BY <1>1, <2>1, QuietKeepsRing DEF config_send, buffers
<1>3. CASE Fail(dataQ)
  BY <1>1, <1>3, QuietKeepsRing DEF Fail
<1> QED BY <1>2, <1>3 DEF config_send

LEMMA SampleKeepsRing ==
  ASSUME BuffersAssumption, RingInv, NEW k \in AllKinds, stored[k] < MaxSamples[k], StoreSample(k)
  PROVE  RingInv'
<1>1. stored' = [stored EXCEPT ![k] = stored[k] + 1] /\ UNCHANGED <<encoded, error>>
  BY DEF StoreSample
<1>2. CASE k = Location
  BY <1>1, <1>2, LocationKeepsRing DEF StoreSample
<1>3. CASE k # Location
  BY <1>1, <1>3, PopulateKeepsRing DEF StoreSample, AllKinds
<1> QED BY <1>2, <1>3

LEMMA RingStep ==
  ASSUME BuffersAssumption, QueuesTyped, RingInv, [Next]_vars PROVE RingInv'
<1>q. ASSUME UNCHANGED <<buffers, encoded, error>> PROVE RingInv'
  BY <1>q, UnchangedFall, QuietKeepsRing DEF RingInv, buffers
<1>1. CASE Outside /\ UNCHANGED <<dataVars, cloudVars>>
  BY <1>1, <1>q DEF Outside, LinkChange, TimeObtained, dataVars
<1>2. CASE DataStep /\ ~error
  <2>1. CASE on_cloud_state \/ DataIgnores
    BY <2>1, <1>q DEF on_cloud_state, SetDataState, DataIgnores, dataVars
  <2> QED BY <1>2, <2>1, PressKeepsRing, BatchKeepsRing DEF DataStep, DataThread
<1>3. CASE SampleStep
  BY <1>3, SampleKeepsRing DEF SampleStep, AllKinds
<1>4. CASE (ReadyStep \/ ConfigStep) /\ ~error
  BY <1>4, LocationSendKeepsRing, ConfigKeepsRing DEF ReadyStep, ConfigStep
<1>5. CASE CloudStep
  BY <1>5, <1>q DEF CloudStep, CloudThread, TakeMessage, SendMessage, on_state, SetState,
     CloudIgnores, dataVars
<1>6. CASE NotifyOrRemove
  BY <1>6, <1>q DEF NotifyOrRemove, Notify, NotifyAgain, Removed, Remove, dataVars
<1>7. CASE UNCHANGED vars
  BY <1>7, <1>q DEF vars, dataVars
<1> QED BY <1>1, <1>2, <1>3, <1>4, <1>5, <1>6, <1>7 DEF Next

LEMMA RingInit == ASSUME BuffersAssumption, Init PROVE RingInv
<1>1. /\ buf = [k \in Kinds |-> [i \in Indices(k) |-> NoEntry]]
      /\ head = [k \in Kinds |-> 0] /\ stored = [k \in AllKinds |-> 0]
      /\ cloud_location = NoEntry /\ encoded = {}
  BY DEF Init, DataInit, AllKinds
<1>2. NoEntry \in Entry /\ NoEntry.n = 0 /\ ~NoEntry.queued
  BY DEF NoEntry, Entry
<1>3. \A k \in Kinds : 0 \in Indices(k) /\ k \in AllKinds
  BY CountFacts
<1>4. \A k \in AllKinds : 0 <= MaxSamples[k]
  BY DeliveryAssumption DEF DeliveryAssumption, AllKinds
<1>5. SamplesTyped
  BY <1>1, <1>2, <1>3, <1>4 DEF SamplesTyped
<1>6. NewestKept
  <2>1. ASSUME NEW k \in Kinds, NEW i \in Indices(k)
        PROVE  /\ buf[k][i].n = IF Age(k, i) < stored[k] THEN stored[k] - Age(k, i) ELSE 0
               /\ buf[k][i].queued => buf[k][i].n >= 1
    <3>1. Age(k, i) \in Nat /\ stored[k] = 0 /\ buf[k][i] = NoEntry
      BY <1>1, <1>3, <1>5, <2>1, AgeFacts
    <3> QED BY <1>2, <3>1
  <2> QED BY <1>1, <1>2, <2>1 DEF NewestKept, AllKinds
<1>7. FlagsTell
  BY <1>1, <1>2 DEF FlagsTell
<1> QED BY <1>5, <1>6, <1>7 DEF RingInv

LEMMA RingAlways == Spec => [](OwnerInv /\ RingInv)
<1>1. Init => OwnerInv /\ RingInv
  BY BuffersAssumption, OwnersInit, RingInit
<1>2. OwnerInv /\ RingInv /\ [Next]_vars => (OwnerInv /\ RingInv)'
  BY BuffersAssumption, OwnersStep, RingStep DEF OwnerInv
<1> QED BY <1>1, <1>2, PTL DEF Spec

\* For buffers of any size and any number of samples, and wherever sending and
\* failing encoders clear the flags: a buffer holds exactly the last samples of its
\* kind (cloud_codec_ringbuffer.c).
THEOREM BuffersHoldTheNewest == Spec => []OldestIsOverwritten
<1>1. RingInv => OldestIsOverwritten
  <2> SUFFICES ASSUME SamplesTyped, NewestKept, NEW k \in Kinds, NEW n \in 1 .. stored[k]
               PROVE  (n + BufferCount[k] > stored[k]) <=> \E i \in Indices(k) : buf[k][i].n = n
    BY DEF RingInv, OldestIsOverwritten
  <2> DEFINE b == BufferCount[k]
             h == head[k]
             t == stored[k]
  <2>1. b \in Nat \ {0} /\ Indices(k) = 0 .. b - 1 /\ h \in 0 .. b - 1 /\ t \in Nat /\ n \in 1 .. t
    BY BuffersAssumption, CountFacts DEF SamplesTyped
  <2>2. \A i \in Indices(k) : /\ Age(k, i) = IF i <= h THEN h - i ELSE h - i + b
                              /\ buf[k][i].n = IF Age(k, i) < t THEN t - Age(k, i) ELSE 0
    BY DEF NewestKept, Age
  <2> HIDE DEF b, h, t
  <2>3. ASSUME n + b > t PROVE \E i \in Indices(k) : buf[k][i].n = n
    <3> DEFINE i == IF t - n <= h THEN h - (t - n) ELSE h - (t - n) + b
    <3>1. i \in Indices(k)
      BY <2>1, <2>3
    <3>2. Age(k, i) = t - n
      BY <2>1, <2>2, <2>3, <3>1
    <3> HIDE DEF i
    <3>3. buf[k][i].n = n
      BY <2>1, <2>2, <3>1, <3>2
    <3> QED BY <3>1, <3>3
  <2>4. ASSUME NEW i \in Indices(k), buf[k][i].n = n PROVE n + b > t
    <3>1. Age(k, i) \in 0 .. b - 1
      BY <2>1, <2>2
    <3> QED BY <2>1, <2>2, <2>4, <3>1
  <2> QED BY <2>3, <2>4 DEF b, t
<1> QED BY <1>1, RingAlways, PTL

\* Whatever order presses, locations and batches are sent in, and whatever has
\* been overwritten meanwhile: the flag of an entry tells whether its sample has
\* been put into a message, so none is sent twice (data_ui_send, data_encode).
THEOREM SamplesAreEncodedOnce == Spec => []QueuedUntilEncoded
<1>1. RingInv => QueuedUntilEncoded
  BY DEF RingInv, FlagsTell, QueuedUntilEncoded
<1> QED BY <1>1, RingAlways, PTL

-----------------------------------------------------------------------------
(* The types.  No more messages are allocated than samples have been encoded    *)
(* and configurations sent, which bounds the addresses.                         *)

\* There are finitely many samples to send.
LEMMA SamplesFinite ==
  ASSUME BuffersAssumption, DeliveryAssumption
  PROVE  IsFiniteSet(Samples)
<1> DEFINE f == [k \in AllKinds |-> {Sample(k, n) : n \in 1 .. MaxSamples[k]}]
           F == {f[k] : k \in AllKinds}
<1>1. IsFiniteSet(AllKinds)
  <2>1. DOMAIN BatchOrder = 1 .. Len(BatchOrder) /\ Len(BatchOrder) \in Nat
    BY DEF BuffersAssumption
  <2>2. IsFiniteSet(DOMAIN BatchOrder)
    BY <2>1, FS_Interval
  <2>3. BatchOrder \in Surjection(DOMAIN BatchOrder, Kinds)
    <3>1. BatchOrder \in [DOMAIN BatchOrder -> Kinds]
      BY <2>1 DEF Kinds, BuffersAssumption
    <3>2. \A k \in Kinds : \E n \in DOMAIN BatchOrder : BatchOrder[n] = k
      BY DEF Kinds
    <3> QED BY <3>1, <3>2 DEF Surjection
  <2>4. IsFiniteSet(Kinds)
    BY <2>2, <2>3, FS_Surjection
  <2> QED BY <2>4, FS_AddElement DEF AllKinds
<1>2. IsFiniteSet(F)
  <2>1. f \in Surjection(AllKinds, F)
    BY DEF Surjection
  <2> QED BY <1>1, <2>1, FS_Surjection
<1>3. \A T \in F : IsFiniteSet(T)
  <2> SUFFICES ASSUME NEW k \in AllKinds PROVE IsFiniteSet(f[k])
    OBVIOUS
  <2> DEFINE number == [n \in 1 .. MaxSamples[k] |-> Sample(k, n)]
  <2>1. IsFiniteSet(1 .. MaxSamples[k])
    <3>1. MaxSamples[k] \in Nat
      BY DEF DeliveryAssumption, AllKinds
    <3>2. \A b \in Nat : IsFiniteSet(1 .. b)
      BY FS_Interval
    <3> QED BY <3>1, <3>2
  <2>2. number \in Surjection(1 .. MaxSamples[k], f[k])
    BY DEF Surjection
  <2> QED BY <2>1, <2>2, FS_Surjection
<1>4. IsFiniteSet(UNION F)
  BY <1>2, <1>3, FS_UNION
<1>5. Samples = UNION F
  <2>1. F = {{Sample(k, n) : n \in 1 .. MaxSamples[k]} : k \in AllKinds}
    OBVIOUS
  <2> HIDE DEF F
  <2> QED BY <2>1 DEF Samples, AllKinds
<1> QED BY <1>4, <1>5

\* What is encoded is among them.
LEMMA EncodedAreSamples ==
  ASSUME DeliveryAssumption, NEW samples, NEW count \in [AllKinds -> Nat],
         \A k \in AllKinds : count[k] <= MaxSamples[k],
         samples \subseteq UNION {{Sample(k, n) : n \in 1 .. count[k]} : k \in AllKinds}
  PROVE  samples \subseteq Samples
<1> SUFFICES ASSUME NEW k \in AllKinds, NEW n \in 1 .. count[k] PROVE Sample(k, n) \in Samples
  OBVIOUS
<1>1. count[k] \in Nat /\ count[k] <= MaxSamples[k] /\ MaxSamples[k] \in Nat
  BY DEF DeliveryAssumption, AllKinds
<1>2. n \in 1 .. MaxSamples[k]
  BY <1>1
<1> QED BY <1>2 DEF Samples, AllKinds

\* Every buffer on the heap was allocated for a sample of its own, or for a
\* configuration, so that addresses stay below their number.
HeapCounted ==
  /\ configs \in 0 .. MaxConfigs
  /\ IsFiniteSet(encoded)
  /\ Cardinality(Allocated) <= Cardinality(encoded) + configs
  /\ \A m \in Allocated : m \in 1 .. Cardinality(encoded) + configs

StatesTyped ==
  /\ data_state \in {"CLOUD_CONNECTED", "CLOUD_DISCONNECTED"} /\ pc \in {"idle", "batch"}
  /\ state \in {"LTE_CONNECTED", "LTE_DISCONNECTED"}
  /\ sub_state \in {"CLOUD_CONNECTED", "CLOUD_DISCONNECTED"}

\* A message costs a sample that was not in one before, or a configuration.
LEMMA SendCounted ==
  ASSUME HeapTyped, HeapCounted, encoded' \subseteq Samples, configs' \in 0 .. MaxConfigs,
         NEW type, NEW samples, NEW toData, Send(type, samples, toData),
         \/ configs' = configs /\ ~(samples \subseteq encoded)
         \/ configs' = configs + 1
  PROVE  HeapCounted'
<1> DEFINE a == FreeAddress
           n == Cardinality(Allocated)
           e == Cardinality(encoded)
<1>1. IsFiniteSet(encoded') /\ IsFiniteSet(encoded) /\ encoded \subseteq encoded'
  BY SamplesFinite, BuffersAssumption, DeliveryAssumption, FS_Subset DEF Send, HeapCounted
<1>2. n \in Nat /\ e \in Nat /\ Cardinality(encoded') \in Nat /\ configs \in Nat /\ configs' \in Nat
  BY <1>1, FS_CardinalityType DEF HeapTyped, HeapCounted
<1>3. e <= Cardinality(encoded') /\ (encoded # encoded' => e # Cardinality(encoded'))
  BY <1>1, FS_Subset
<1>4. e + configs + 1 <= Cardinality(encoded') + configs'
  <2>1. CASE configs' = configs /\ ~(samples \subseteq encoded)
    <3>1. encoded # encoded'
      BY <2>1 DEF Send
    <3> QED BY <1>2, <1>3, <2>1, <3>1
  <2>2. CASE configs' = configs + 1
    BY <1>2, <1>3, <2>2
  <2> QED BY <2>1, <2>2
<1>5. Allocated' = Allocated \cup {a}
  BY DEF Send, Allocated
<1>6. Cardinality(Allocated') = n + 1 /\ a \in 1 .. n + 1
  BY <1>5, FreeIsNotAllocated, FS_AddElement DEF HeapTyped
<1>7. n <= e + configs /\ \A m \in Allocated : m \in 1 .. e + configs
  BY DEF HeapCounted
<1> HIDE DEF a, n, e
<1>8. \A m \in Allocated' : m \in 1 .. Cardinality(encoded') + configs'
  BY <1>2, <1>4, <1>5, <1>6, <1>7
<1>9. Cardinality(Allocated') <= Cardinality(encoded') + configs'
  BY <1>2, <1>4, <1>6, <1>7
<1> QED BY <1>1, <1>8, <1>9 DEF HeapCounted

\* A step that allocates nothing.
LEMMA NoSendCounted ==
  ASSUME HeapTyped, HeapCounted, Allocated' \subseteq Allocated, UNCHANGED encoded,
         configs' \in 0 .. MaxConfigs, configs <= configs'
  PROVE  HeapCounted'
<1>1. IsFiniteSet(Allocated') /\ Cardinality(Allocated') <= Cardinality(Allocated)
  BY FS_Subset DEF HeapTyped
<1>2. /\ Cardinality(Allocated') \in Nat /\ Cardinality(Allocated) \in Nat /\ Cardinality(encoded) \in Nat
      /\ configs \in Nat /\ configs' \in Nat
  BY <1>1, FS_CardinalityType DEF HeapTyped, HeapCounted
<1>3. Cardinality(Allocated') <= Cardinality(encoded') + configs'
  BY <1>1, <1>2 DEF HeapCounted
<1>4. \A m \in Allocated' : m \in 1 .. Cardinality(encoded') + configs'
  BY <1>2 DEF HeapCounted
<1> QED BY <1>3, <1>4 DEF HeapCounted

\* What is queued is in no message, by the flags.
LEMMA QueuedIsNew ==
  ASSUME RingInv, ~error
  PROVE  /\ \A k \in Kinds : \A i \in Indices(k) :
              buf[k][i].queued => Sample(k, buf[k][i].n) \notin encoded
         /\ cloud_location.queued => Sample(Location, cloud_location.n) \notin encoded
         /\ Queued # {} => ~(Queued \subseteq encoded)
<1>1. \A k \in Kinds : \A i \in Indices(k) :
        buf[k][i].queued => Sample(k, buf[k][i].n) \notin encoded
  BY DEF RingInv, NewestKept, FlagsTell
<1>2. cloud_location.queued => Sample(Location, cloud_location.n) \notin encoded
  BY DEF RingInv, NewestKept, FlagsTell
<1>3. ASSUME NEW s \in Queued PROVE s \notin encoded
  <2>1. PICK k \in Kinds : s \in QueuedOf(k)
    BY <1>3 DEF Queued
  <2>2. PICK i \in Indices(k) : buf[k][i].queued /\ s = Sample(k, buf[k][i].n)
    BY <2>1 DEF QueuedOf
  <2> QED BY <1>1, <2>2
<1> QED BY <1>1, <1>2, <1>3

LEMMA HeapStep ==
  ASSUME BuffersAssumption, DeliveryAssumption, OwnerInv, RingInv, HeapCounted,
         [Next]_vars, RingInv'
  PROVE  HeapCounted'
<1>1. HeapTyped /\ QueuesTyped /\ SamplesTyped
  BY DEF OwnerInv, RingInv
<1>2. encoded' \subseteq Samples
  BY EncodedAreSamples DEF RingInv, SamplesTyped
<1>3. configs \in Nat /\ MaxConfigs \in Nat /\ configs \in 0 .. MaxConfigs
  BY DEF HeapCounted, DeliveryAssumption
<1>q. ASSUME UNCHANGED <<heap, encoded>>, configs' \in 0 .. MaxConfigs, configs <= configs'
      PROVE  HeapCounted'
  BY <1>q, <1>1, NoSendCounted DEF Allocated
<1>4. CASE Outside /\ UNCHANGED <<dataVars, cloudVars>>
  BY <1>3, <1>4, <1>q DEF Outside, LinkChange, TimeObtained, dataVars
<1>5. CASE DataStep /\ ~error
  <2>1. UNCHANGED configs
    BY <1>5 DEF DataStep, outside
  <2>2. CASE data_press_send
    <3> DEFINE k == Head(dataQ).kind
               i == head[k]
    <3>1. k \in Kinds /\ i \in Indices(k)
      <4>1. dataQ # << >> /\ Head(dataQ).type = "PRESS_READY"
        BY <2>2 DEF data_press_send, Msg
      <4>2. Head(dataQ) \in DataEvents
        BY <1>1, <4>1 DEF QueuesTyped
      <4>3. k \in Kinds
        BY <4>1, <4>2 DEF DataEvents, BuffersAssumption
      <4> QED BY <1>1, <4>3 DEF SamplesTyped
    <3>2. CASE buf[k][i].queued /\ Send(k, {Sample(k, buf[k][i].n)}, Tail(dataQ))
      <4>1. ~({Sample(k, buf[k][i].n)} \subseteq encoded)
        BY <1>5, <3>1, <3>2, QueuedIsNew
      <4> HIDE DEF k, i
      <4> QED BY <1>1, <1>2, <1>3, <2>1, <3>2, <4>1, SendCounted
    <3>3. CASE Fail(Tail(dataQ)) \/ SendNothing(Tail(dataQ))
      BY <1>3, <1>q, <2>1, <3>3 DEF Fail, SendNothing
    <3> QED BY <2>2, <3>2, <3>3 DEF data_press_send
  <2>3. CASE encode_batch_data
    <3>1. CASE Queued # {} /\ Send("BATCH", Queued, dataQ)
      <4>1. ~(Queued \subseteq encoded)
        BY <1>5, <3>1, QueuedIsNew
      <4> QED BY <1>1, <1>2, <1>3, <2>1, <3>1, <4>1, SendCounted
    <3>2. CASE Fail(dataQ) \/ SendNothing(dataQ)
      BY <1>3, <1>q, <2>1, <3>2 DEF Fail, SendNothing
    <3> QED BY <2>3, <3>1, <3>2 DEF encode_batch_data
  <2>4. CASE on_cloud_state \/ DataIgnores
    BY <1>3, <1>q, <2>1, <2>4 DEF on_cloud_state, SetDataState, DataIgnores, dataVars
  <2> QED BY <1>5, <2>2, <2>3, <2>4 DEF DataStep, DataThread
<1>6. CASE SampleStep
  BY <1>3, <1>6, <1>q DEF SampleStep, StoreSample, outside
<1>7. CASE ReadyStep /\ ~error
  <2>1. UNCHANGED configs
    BY <1>7 DEF ReadyStep, outside
  <2>2. CASE /\ cloud_location.queued
             /\ Send("CLOUD_LOCATION", {Sample(Location, cloud_location.n)}, dataQ)
    <3>1. ~({Sample(Location, cloud_location.n)} \subseteq encoded)
      BY <1>7, <2>2, QueuedIsNew
    <3> QED BY <1>1, <1>2, <1>3, <2>1, <2>2, <3>1, SendCounted
  <2>3. CASE Fail(dataQ) \/ SendNothing(dataQ)
    BY <1>3, <1>q, <2>1, <2>3 DEF Fail, SendNothing
  <2> QED BY <1>7, <2>2, <2>3 DEF ReadyStep, encode_cloud_location
<1>8. CASE ConfigStep
  <2>1. configs' = configs + 1 /\ configs' \in 0 .. MaxConfigs /\ configs <= configs'
    BY <1>3, <1>8 DEF ConfigStep
  <2>2. CASE Send("CONFIG", {}, dataQ)
    BY <1>1, <1>2, <2>1, <2>2, SendCounted
  <2>3. CASE Fail(dataQ)
    BY <1>q, <2>1, <2>3 DEF Fail
  <2> QED BY <1>8, <2>2, <2>3 DEF ConfigStep, config_send
<1>9. CASE CloudStep
  BY <1>3, <1>9, <1>q DEF CloudStep, dataVars, outside
<1>10. CASE NotifyOrRemove
  <2>1. PICK m \in pending : Notify(m) \/ Removed(m)
    BY <1>10 DEF NotifyOrRemove
  <2>2. CASE Notify(m)
    BY <1>3, <1>q, <2>2 DEF Notify, dataVars, outside
  <2>3. CASE Removed(m)
    <3>1. UNCHANGED <<encoded, configs>> /\ Allocated' \subseteq Allocated
      BY <2>3 DEF Removed, outside, Allocated
    <3> QED BY <1>1, <1>3, <3>1, NoSendCounted
  <2> QED BY <2>1, <2>2, <2>3
<1>11. CASE UNCHANGED vars
  BY <1>3, <1>11, <1>q DEF vars, dataVars, outside
<1> QED BY <1>4, <1>5, <1>6, <1>7, <1>8, <1>9, <1>10, <1>11 DEF Next

LEMMA StatesStep ==
  ASSUME StatesTyped, [Next]_vars PROVE StatesTyped'
<1>1. CASE Outside /\ UNCHANGED <<dataVars, cloudVars>>
  BY <1>1 DEF dataVars, cloudVars, StatesTyped
<1>2. CASE DataStep
  <2>1. UNCHANGED <<state, sub_state>>
    BY <1>2 DEF DataStep, cloudVars
  <2> QED BY <1>2, <2>1 DEF DataStep, DataThread, data_press_send, encode_batch_data, on_cloud_state,
        SetDataState, DataIgnores, dataVars, StatesTyped
<1>3. CASE SampleStep
  BY <1>3 DEF SampleStep, StoreSample, cloudVars, StatesTyped
<1>4. CASE ReadyStep \/ ConfigStep
  BY <1>4 DEF ReadyStep, ConfigStep, encode_cloud_location, config_send, cloudVars, StatesTyped
<1>5. CASE CloudStep
  <2>1. UNCHANGED <<data_state, pc>>
    BY <1>5 DEF CloudStep, dataVars
  <2> QED BY <1>5, <2>1 DEF CloudStep, CloudThread, TakeMessage, SendMessage, on_state, SetState,
        CloudIgnores, cloudVars, Connecting, StatesTyped
<1>6. CASE NotifyOrRemove
  BY <1>6 DEF NotifyOrRemove, Notify, NotifyAgain, Removed, Remove, dataVars, cloudVars, StatesTyped
<1>7. CASE UNCHANGED vars
  BY <1>7 DEF vars, dataVars, cloudVars, StatesTyped
<1> QED BY <1>1, <1>2, <1>3, <1>4, <1>5, <1>6, <1>7 DEF Next

LEMMA CountedInit == ASSUME DeliveryAssumption, Init PROVE HeapCounted /\ StatesTyped
<1>1. Allocated = {} /\ encoded = {} /\ configs = 0
  BY DEF Init, DataInit, Allocated
<1>2. 0 \in 0 .. MaxConfigs
  BY DEF DeliveryAssumption
<1>3. HeapCounted
  BY <1>1, <1>2, FS_EmptySet DEF HeapCounted
<1> QED BY <1>3 DEF Init, DataInit, CloudInit, StatesTyped

\* Whatever the sizes: the variables keep their types; in particular no more buffers
\* are ever allocated than samples are encoded and configurations sent, because a
\* message is only made for something that was in none before (data_encode,
\* data_ui_send, config_send).
THEOREM TypeCorrect == Spec => []TypeOK
<1> DEFINE Inv == OwnerInv /\ RingInv /\ HeapCounted /\ StatesTyped
<1>1. Init => Inv
  BY BuffersAssumption, DeliveryAssumption, OwnersInit, RingInit, CountedInit
<1>2. Inv /\ [Next]_vars => Inv'
  BY BuffersAssumption, DeliveryAssumption, OwnersStep, RingStep, HeapStep, StatesStep DEF OwnerInv
<1>3. Inv => TypeOK
  <2> SUFFICES ASSUME Inv PROVE TypeOK
    OBVIOUS
  <2>1. encoded \subseteq Samples /\ DOMAIN stored = AllKinds
    BY DeliveryAssumption, EncodedAreSamples DEF RingInv, SamplesTyped
  <2>2. /\ IsFiniteSet(Samples) /\ IsFiniteSet(encoded)
        /\ Cardinality(encoded) <= Cardinality(Samples)
    BY <2>1, BuffersAssumption, DeliveryAssumption, SamplesFinite, FS_Subset
  <2>3. /\ Cardinality(Samples) \in Nat /\ Cardinality(encoded) \in Nat
        /\ configs \in Nat /\ MaxConfigs \in Nat /\ configs <= MaxConfigs
    BY <2>2, FS_CardinalityType, DeliveryAssumption DEF HeapCounted, DeliveryAssumption
  <2>4. Allocated \subseteq Addresses
    BY <2>2, <2>3 DEF HeapCounted, Addresses
  <2>5. encoded \subseteq UNION {{Sample(k, n) : n \in 1 .. stored[k]} : k \in DOMAIN stored}
    BY <2>1 DEF RingInv, SamplesTyped
  <2> QED BY <2>4, <2>5 DEF TypeOK, OwnerInv, QueuesTyped, HeapTyped, RingInv, SamplesTyped, StatesTyped
<1> HIDE DEF Inv
<1> QED BY <1>1, <1>2, <1>3, PTL DEF Spec

=============================================================================
