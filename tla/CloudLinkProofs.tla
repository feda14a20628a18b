---------------------------- MODULE CloudLinkProofs ----------------------------
(* Proofs about CloudLink.                                                      *)
EXTENDS CloudLink, TLAPS

-----------------------------------------------------------------------------
(* What putting and taking a message does to the queue's type.                  *)

LEMMA EnqueueType ==
  ASSUME NEW S, NEW q \in Seq(S), NEW m \in S, NEW size
  PROVE  Enqueue(q, m, size) \in Seq(S)
  BY DEF Enqueue

LEMMA PutType ==
  ASSUME cloudQ \in Seq(MessageTypes), error \in BOOLEAN, NEW m \in MessageTypes, Put(m)
  PROVE  cloudQ' \in Seq(MessageTypes) /\ error' \in BOOLEAN
  BY EnqueueType DEF Put, Overflows

LEMMA MsgType ==
  ASSUME cloudQ \in Seq(MessageTypes), NEW m, Msg(m)
  PROVE  cloudQ' \in Seq(MessageTypes)
  BY DEF Msg

LEMMA ConnectType ==
  ASSUME TypeOK, connect_cloud
  PROVE  /\ pc' \in {"idle", "connecting"}
         /\ link' \in {"off", "connecting", "connected", "closing"}
         /\ error' \in BOOLEAN
<1>1. CASE connect_retries > ConnectRetries
  BY <1>1 DEF TypeOK, connect_cloud
<1>2. CASE ~(connect_retries > ConnectRetries)
  BY <1>2 DEF TypeOK, connect_cloud
<1> QED BY <1>1, <1>2

LEMMA DisconnectType ==
  ASSUME TypeOK, disconnect_cloud
  PROVE  /\ connect_retries' = 0
         /\ link' \in {"off", "connecting", "connected", "closing"}
         /\ connect_check_work' \in BOOLEAN
  BY DEF TypeOK, disconnect_cloud

\* The next-state relation preserves the type invariant (cloud_module.c).
LEMMA TypeStep == ASSUME CloudAssumption, TypeOK, [Next]_vars PROVE TypeOK'
<1> USE DEF TypeOK, thread, modem, bounds
<1>m. /\ "INITIALIZED" \in MessageTypes /\ "LTE_CONNECTED" \in MessageTypes
      /\ "LTE_DISCONNECTED" \in MessageTypes /\ "FOTA_PENDING" \in MessageTypes
      /\ "FOTA_STOPPED" \in MessageTypes /\ "CONNECTED" \in MessageTypes
      /\ "DISCONNECTED" \in MessageTypes /\ "TIMEOUT" \in MessageTypes
      /\ "SHUTDOWN_REQUEST" \in MessageTypes /\ "OTHER" \in MessageTypes
  BY DEF MessageTypes
<1>1. CASE ModemInitialized
  BY <1>1, <1>m, PutType DEF ModemInitialized
<1>2. CASE LteChange
  BY <1>2, <1>m, PutType, CloudAssumption DEF LteChange, CloudAssumption
<1>3. CASE CarrierFota
  BY <1>3, <1>m, PutType, CloudAssumption DEF CarrierFota, CloudAssumption
<1>4. CASE Library
  <2>1. CASE Established
    BY <2>1, <1>m, PutType DEF Established
  <2>2. CASE ConnectFails
    BY <2>2 DEF ConnectFails
  <2>3. CASE Dropped
    BY <2>3, CloudAssumption DEF Dropped, CloudAssumption
  <2>4. CASE Closed
    BY <2>4, <1>m, PutType DEF Closed
  <2>5. CASE AssociationRequested
    <3>1. connect_retries' \in Nat
      BY <2>5 DEF AssociationRequested
    <3>2. associations' \in 0..MaxAssociations
      BY <2>5, CloudAssumption DEF AssociationRequested, CloudAssumption
    <3>3. cloudQ' \in Seq(MessageTypes) /\ error' \in BOOLEAN
      BY <2>5, <1>m, PutType DEF AssociationRequested
    <3> QED BY <2>5, <3>1, <3>2, <3>3 DEF AssociationRequested
  <2>6. CASE Associated
    BY <2>6, <1>m, PutType DEF Associated
  <2>7. CASE AssociationTimeout
    BY <2>7 DEF AssociationTimeout
  <2> QED BY <1>4, <2>1, <2>2, <2>3, <2>4, <2>5, <2>6, <2>7 DEF Library
<1>5. CASE connect_check_work_fn
  BY <1>5, <1>m, PutType DEF connect_check_work_fn
<1>6. CASE ShutdownRequested
  BY <1>6, <1>m, PutType DEF ShutdownRequested
<1>7. CASE HandleMessage
  <2>q. cloudQ' \in Seq(MessageTypes)
    BY <1>7, MsgType DEF HandleMessage, on_state_init, on_state_lte_disconnected,
       on_state_lte_connected, on_sub_state_cloud_connected,
       on_sub_state_cloud_disconnected, on_all_states, IgnoreMessage
  <2>u. UNCHANGED <<user_associating_work, modem, bounds>>
    BY <1>7 DEF HandleMessage
  <2>1. CASE on_state_init
    BY <2>1, <2>q, <2>u DEF on_state_init
  <2>2. CASE on_state_lte_disconnected
    BY <2>2, <2>q, <2>u, ConnectType DEF on_state_lte_disconnected
  <2>3. CASE on_state_lte_connected
    <3>1. CASE Msg("LTE_DISCONNECTED") /\ disconnect_cloud
      BY <2>3, <2>q, <2>u, <3>1, DisconnectType DEF on_state_lte_connected, Msg
    <3>2. CASE Msg("FOTA_PENDING") /\ disconnect_cloud
      BY <2>3, <2>q, <2>u, <3>2, DisconnectType DEF on_state_lte_connected, Msg
    <3>3. CASE Msg("FOTA_STOPPED") /\ connect_cloud
      BY <2>3, <2>q, <2>u, <3>3, ConnectType DEF on_state_lte_connected, Msg
    <3> QED BY <2>3, <3>1, <3>2, <3>3 DEF on_state_lte_connected
  <2>4. CASE on_sub_state_cloud_connected
    BY <2>4, <2>q, <2>u DEF on_sub_state_cloud_connected
  <2>5. CASE on_sub_state_cloud_disconnected
    <3>1. CASE /\ sub_state' = "CLOUD_CONNECTED"
               /\ connect_retries' = 0
               /\ connect_check_work' = FALSE
               /\ UNCHANGED <<state, pc, error, link>>
      BY <2>q, <2>u, <3>1
    <3>2. CASE /\ connect_cloud
               /\ UNCHANGED <<state, sub_state, connect_retries, connect_check_work>>
      BY <2>q, <2>u, <3>2, ConnectType
    <3> QED BY <2>5, <3>1, <3>2 DEF on_sub_state_cloud_disconnected
  <2>6. CASE on_all_states
    BY <2>6, <2>q, <2>u DEF on_all_states
  <2>7. CASE IgnoreMessage
    BY <2>7, <2>q, <2>u DEF IgnoreMessage
  <2> QED BY <1>7, <2>1, <2>2, <2>3, <2>4, <2>5, <2>6, <2>7 DEF HandleMessage
<1>8. CASE ConnectReturns
  BY <1>8 DEF ConnectReturns
<1>9. CASE UNCHANGED vars
  BY <1>9 DEF vars
<1> QED BY <1>1, <1>2, <1>3, <1>4, <1>5, <1>6, <1>7, <1>8, <1>9 DEF Next, ModuleThread

LEMMA InitType == ASSUME CloudAssumption, Init PROVE TypeOK
<1>1. cloudQ \in Seq(MessageTypes)
  BY DEF Init
<1>2. changes \in 0..MaxChanges /\ drops \in 0..MaxDrops /\ associations \in 0..MaxAssociations
  BY DEF Init, CloudAssumption
<1>3. connect_retries \in Nat /\ state = "LTE_INIT" /\ pc = "idle"
  BY DEF Init
<1> QED BY <1>1, <1>2, <1>3 DEF Init, TypeOK

\* Every state has its type, for any limits and any number of retries.
THEOREM TypeCorrect == Spec => []TypeOK
<1>1. Init => TypeOK
  BY InitType, CloudAssumption
<1>2. TypeOK /\ [Next]_vars => TypeOK'
  BY TypeStep, CloudAssumption
<1> QED BY <1>1, <1>2, PTL DEF Spec

-----------------------------------------------------------------------------
(* The retries.                                                                 *)

\* The thread is inside cloud_wrap_connect() only below the limit.
RetriesBounded ==
  /\ connect_retries <= ConnectRetries + 1
  /\ pc = "connecting" => connect_retries <= ConnectRetries

LEMMA RetriesStep ==
  ASSUME CloudAssumption, TypeOK, RetriesBounded, [Next]_vars PROVE RetriesBounded'
<1> USE CloudAssumption DEF CloudAssumption, TypeOK, RetriesBounded, thread
<1>1. CASE HandleMessage
  <2> USE DEF Msg
  <2>1. CASE on_state_init
    BY <2>1 DEF on_state_init
  <2>2. CASE on_state_lte_disconnected
    BY <2>2 DEF on_state_lte_disconnected, connect_cloud
  <2>3. CASE on_state_lte_connected
    BY <2>3 DEF on_state_lte_connected, connect_cloud, disconnect_cloud
  <2>4. CASE on_sub_state_cloud_connected
    BY <2>4 DEF on_sub_state_cloud_connected
  <2>5. CASE on_sub_state_cloud_disconnected
    BY <2>5 DEF on_sub_state_cloud_disconnected, connect_cloud
  <2>6. CASE on_all_states
    BY <2>6 DEF on_all_states
  <2>7. CASE IgnoreMessage
    BY <2>7 DEF IgnoreMessage
  <2> QED BY <1>1, <2>1, <2>2, <2>3, <2>4, <2>5, <2>6, <2>7 DEF HandleMessage
<1>2. CASE ConnectReturns
  BY <1>2 DEF ConnectReturns
<1>3. CASE AssociationRequested
  BY <1>3 DEF AssociationRequested
<1>4. CASE Next /\ ~HandleMessage /\ ~ConnectReturns /\ ~AssociationRequested
  <2>1. UNCHANGED <<connect_retries, pc>>
    BY <1>4 DEF Next, ModuleThread, Library, ModemInitialized, LteChange, CarrierFota,
       Established, ConnectFails, Dropped, Closed, Associated, AssociationTimeout,
       connect_check_work_fn, ShutdownRequested
  <2> QED BY <2>1
<1>5. CASE UNCHANGED vars
  BY <1>5 DEF vars
<1> QED BY <1>1, <1>2, <1>3, <1>4, <1>5 DEF Next, ModuleThread

\* For any number of retries the build assertion admits, connect_cloud() never
\* reads past the end of backoff_delay (cloud_module.c).
THEOREM BackoffNeverOverrun == Spec => []BackoffInTable
<1>1. Init => RetriesBounded
  BY CloudAssumption DEF Init, CloudAssumption, RetriesBounded
<1>2. TypeOK /\ RetriesBounded /\ [Next]_vars => RetriesBounded'
  BY RetriesStep, CloudAssumption
<1>3. TypeOK /\ RetriesBounded => BackoffInTable
  BY CloudAssumption DEF CloudAssumption, TypeOK, RetriesBounded, BackoffInTable
<1> QED BY <1>1, <1>2, <1>3, TypeCorrect, PTL DEF Spec

----------------------------------------------------------------

-----------------------------------------------------------------------------
(* The module is never stranded.  A carrier update that is known to the module  *)
(* is still going on, or its end is behind its beginning in the queue.          *)

FotaAnswered ==
  \A i \in 1..Len(cloudQ) :
    cloudQ[i] = "FOTA_PENDING" =>
      fota \/ error \/ \E j \in 1..Len(cloudQ) : j > i /\ cloudQ[j] = "FOTA_STOPPED"

\* A message that is put is in the queue, behind what was there, or the purge is
\* an error.
LEMMA PutAppends ==
  ASSUME TypeOK, NEW m \in MessageTypes, Put(m)
  PROVE  error' \/ (cloudQ' = Append(cloudQ, m) /\ error' = error)
  BY DEF TypeOK, Put, Enqueue, Overflows

LEMMA PutKeeps ==
  ASSUME TypeOK, NEW m \in MessageTypes, Put(m)
  PROVE  /\ error' \/ Awaits(m)'
         /\ \A type : Awaits(type) => error' \/ Awaits(type)'
<1>1. CASE error'
  BY <1>1
<1>2. CASE cloudQ' = Append(cloudQ, m)
  <2>1. /\ Len(cloudQ') = Len(cloudQ) + 1
        /\ cloudQ'[Len(cloudQ) + 1] = m
        /\ \A i \in 1..Len(cloudQ) : cloudQ'[i] = cloudQ[i]
    BY <1>2 DEF TypeOK
  <2>2. Len(cloudQ) \in Nat
    BY DEF TypeOK
  <2> QED BY <2>1, <2>2 DEF Awaits
<1> QED BY <1>1, <1>2, PutAppends

LEMMA PutFotaAnswered ==
  ASSUME TypeOK, FotaAnswered, NEW m \in MessageTypes, Put(m),
         \/ m = "FOTA_PENDING" /\ fota'
         \/ m = "FOTA_STOPPED"
         \/ m # "FOTA_PENDING" /\ fota' = fota
  PROVE  FotaAnswered'
<1>1. CASE error'
  BY <1>1 DEF FotaAnswered
<1>2. CASE cloudQ' = Append(cloudQ, m) /\ error' = error
  <2>1. /\ Len(cloudQ') = Len(cloudQ) + 1
        /\ cloudQ'[Len(cloudQ) + 1] = m
        /\ \A i \in 1..Len(cloudQ) : cloudQ'[i] = cloudQ[i]
    BY <1>2 DEF TypeOK
  <2>2. Len(cloudQ) \in Nat
    BY DEF TypeOK
  <2>3. CASE m = "FOTA_PENDING" /\ fota'
    BY <2>3 DEF FotaAnswered
  <2>4. CASE m = "FOTA_STOPPED"
    BY <1>2, <2>1, <2>2, <2>4 DEF FotaAnswered
  <2>5. CASE m # "FOTA_PENDING" /\ fota' = fota
    BY <1>2, <2>1, <2>2, <2>5 DEF FotaAnswered
  <2> QED BY <2>3, <2>4, <2>5
<1> QED BY <1>1, <1>2, PutAppends

LEMMA TakeFotaAnswered ==
  ASSUME TypeOK, FotaAnswered, NEW m, Msg(m), fota' = fota, error => error'
  PROVE  FotaAnswered'
<1>1. /\ cloudQ \in Seq(MessageTypes) /\ cloudQ # << >> /\ cloudQ' = Tail(cloudQ)
  BY DEF TypeOK, Msg
<1>2. /\ Len(cloudQ) \in Nat \ {0}
      /\ Len(cloudQ') = Len(cloudQ) - 1
      /\ \A i \in 1..Len(cloudQ') : cloudQ'[i] = cloudQ[i + 1]
  BY <1>1
<1> SUFFICES ASSUME NEW i \in 1..Len(cloudQ'), cloudQ'[i] = "FOTA_PENDING", ~fota, ~error
             PROVE  \E j \in 1..Len(cloudQ') : j > i /\ cloudQ'[j] = "FOTA_STOPPED"
  BY DEF FotaAnswered
<1>3. i + 1 \in 1..Len(cloudQ) /\ cloudQ[i + 1] = "FOTA_PENDING"
  BY <1>2
<1>4. PICK j \in 1..Len(cloudQ) : j > i + 1 /\ cloudQ[j] = "FOTA_STOPPED"
  BY <1>3 DEF FotaAnswered
<1>5. j - 1 \in 1..Len(cloudQ') /\ j - 1 > i /\ cloudQ'[j - 1] = "FOTA_STOPPED"
  BY <1>2, <1>4
<1> QED BY <1>5

----------------------------------------------------------------

LEMMA TakeKeeps ==
  ASSUME TypeOK, NEW m, Msg(m), NEW type, type # m, Awaits(type)
  PROVE  Awaits(type)'
<1>1. /\ cloudQ \in Seq(MessageTypes) /\ cloudQ # << >> /\ cloudQ' = Tail(cloudQ)
      /\ cloudQ[1] = m
  BY DEF TypeOK, Msg
<1>2. /\ Len(cloudQ) \in Nat \ {0}
      /\ Len(cloudQ') = Len(cloudQ) - 1
      /\ \A i \in 1..Len(cloudQ') : cloudQ'[i] = cloudQ[i + 1]
  BY <1>1
<1>3. PICK i \in 1..Len(cloudQ) : cloudQ[i] = type
  BY DEF Awaits
<1>4. i - 1 \in 1..Len(cloudQ') /\ cloudQ'[i - 1] = type
  BY <1>1, <1>2, <1>3
<1> QED BY <1>4 DEF Awaits

\* FOTA_PENDING at the head: its FOTA_STOPPED, if any, stays in the queue.
LEMMA TakePending ==
  ASSUME TypeOK, FotaAnswered, Msg("FOTA_PENDING")
  PROVE  fota \/ error \/ Awaits("FOTA_STOPPED")'
<1>1. cloudQ \in Seq(MessageTypes) /\ cloudQ # << >> /\ cloudQ[1] = "FOTA_PENDING"
  BY DEF TypeOK, Msg
<1>2. 1 \in 1..Len(cloudQ)
  BY <1>1
<1>3. fota \/ error \/ Awaits("FOTA_STOPPED")
  BY <1>1, <1>2 DEF FotaAnswered, Awaits
<1> QED BY <1>3, TakeKeeps

\* The thread's messages one by one.
LEMMA MessageNeverStranded ==
  ASSUME TypeOK, FotaAnswered, NeverStranded, HandleMessage
  PROVE  FotaAnswered' /\ NeverStranded'
<1>u. UNCHANGED <<user_associating_work, fota>>
  BY DEF HandleMessage, modem
<1>c. ASSUME connect_cloud PROVE (error' \/ pc' = "connecting") /\ (error => error')
  BY <1>c DEF connect_cloud
<1>1. CASE on_state_init
  <2>1. FotaAnswered'
    BY <1>1, <1>u, TakeFotaAnswered DEF on_state_init
  <2>2. NeverStranded'
    BY <1>1 DEF on_state_init, NeverStranded, Disconnected
  <2> QED BY <2>1, <2>2
<1>2. CASE on_state_lte_disconnected
  <2>1. FotaAnswered'
    BY <1>2, <1>u, <1>c, TakeFotaAnswered DEF on_state_lte_disconnected
  <2>2. NeverStranded'
    BY <1>2, <1>c DEF on_state_lte_disconnected, NeverStranded
  <2> QED BY <2>1, <2>2
<1>3. CASE on_state_lte_connected
  <2>1. CASE Msg("LTE_DISCONNECTED") /\ state' = "LTE_DISCONNECTED" /\ UNCHANGED error
    <3>1. FotaAnswered'
      BY <2>1, <1>u, TakeFotaAnswered
    <3> QED BY <2>1, <3>1 DEF NeverStranded, Disconnected
  <2>2. CASE Msg("FOTA_PENDING") /\ UNCHANGED error
    <3>1. FotaAnswered'
      BY <2>2, <1>u, TakeFotaAnswered
    <3>2. fota' \/ error' \/ Awaits("FOTA_STOPPED")'
      BY <2>2, <1>u, TakePending
    <3> QED BY <3>1, <3>2 DEF NeverStranded, HeldBack
  <2>3. CASE Msg("FOTA_STOPPED") /\ connect_cloud
    <3>1. FotaAnswered'
      BY <2>3, <1>u, <1>c, TakeFotaAnswered
    <3> QED BY <2>3, <1>c, <3>1 DEF NeverStranded
  <2> QED BY <1>3, <2>1, <2>2, <2>3 DEF on_state_lte_connected
<1>4. CASE on_sub_state_cloud_connected
  <2>1. FotaAnswered'
    BY <1>4, <1>u, TakeFotaAnswered DEF on_sub_state_cloud_connected
  <2>2. NeverStranded'
    BY <1>4 DEF on_sub_state_cloud_connected, NeverStranded
  <2> QED BY <2>1, <2>2
<1>5. CASE on_sub_state_cloud_disconnected
  <2>1. CASE Msg("CONNECTED") /\ sub_state' = "CLOUD_CONNECTED" /\ UNCHANGED error
    <3>1. FotaAnswered'
      BY <2>1, <1>u, TakeFotaAnswered
    <3> QED BY <2>1, <3>1 DEF NeverStranded, Disconnected
  <2>2. CASE Msg("TIMEOUT") /\ connect_cloud
    <3>1. FotaAnswered'
      BY <2>2, <1>u, <1>c, TakeFotaAnswered
    <3> QED BY <2>2, <1>c, <3>1 DEF NeverStranded
  <2> QED BY <1>5, <2>1, <2>2 DEF on_sub_state_cloud_disconnected
<1>6. CASE on_all_states
  <2>1. FotaAnswered'
    BY <1>6, <1>u, TakeFotaAnswered DEF on_all_states
  <2>2. NeverStranded'
    BY <1>6 DEF on_all_states, NeverStranded, Disconnected
  <2> QED BY <2>1, <2>2
<1>7. CASE IgnoreMessage
  <2>1. PICK type \in MessageTypes :
          Msg(type) /\ Ignored(type) /\ UNCHANGED <<thread, connect_check_work, error, link>>
    BY <1>7 DEF IgnoreMessage
  <2>2. FotaAnswered'
    BY <2>1, <1>u, TakeFotaAnswered
  <2>3. CASE Disconnected
    <3>1. type # "FOTA_STOPPED" /\ type # "TIMEOUT"
      BY <2>1, <2>3 DEF Ignored, Disconnected
    <3>2. /\ Awaits("FOTA_STOPPED") => Awaits("FOTA_STOPPED")'
          /\ Awaits("TIMEOUT") => Awaits("TIMEOUT")'
      BY <2>1, <3>1, TakeKeeps
    <3> QED BY <2>1, <2>2, <2>3, <3>2, <1>u DEF NeverStranded, HeldBack, thread, Msg
  <2>4. CASE ~Disconnected
    BY <2>1, <2>2, <2>4 DEF NeverStranded, Disconnected, thread
  <2> QED BY <2>3, <2>4
<1> QED BY <1>1, <1>2, <1>3, <1>4, <1>5, <1>6, <1>7 DEF HandleMessage

----------------------------------------------------------------

\* A step of another actor that only puts a message, or puts none.
LEMMA PutNeverStranded ==
  ASSUME TypeOK, FotaAnswered, NeverStranded,
         UNCHANGED <<state, sub_state, pc>>,
         error => error',
         user_associating_work => user_associating_work' \/ connect_check_work' \/ error',
         \/ UNCHANGED <<cloudQ, error, fota>>
         \/ /\ \E m \in MessageTypes :
                  /\ Put(m)
                  /\ \/ m = "FOTA_PENDING" /\ fota'
                     \/ m = "FOTA_STOPPED"
                     \/ m # "FOTA_PENDING" /\ fota' = fota,
         connect_check_work =>
           \/ connect_check_work' \/ user_associating_work' \/ error'
           \/ Awaits("TIMEOUT")' \/ ~Disconnected
  PROVE  FotaAnswered' /\ NeverStranded'
<1>1. CASE UNCHANGED <<cloudQ, error, fota>>
  <2>1. FotaAnswered'
    BY <1>1 DEF FotaAnswered
  <2>2. NeverStranded'
    BY <1>1 DEF NeverStranded, HeldBack, Disconnected, Awaits
  <2> QED BY <2>1, <2>2
<1>2. ASSUME NEW m \in MessageTypes, Put(m),
             \/ m = "FOTA_PENDING" /\ fota'
             \/ m = "FOTA_STOPPED"
             \/ m # "FOTA_PENDING" /\ fota' = fota
      PROVE  FotaAnswered' /\ NeverStranded'
  <2>1. FotaAnswered'
    BY <1>2, PutFotaAnswered
  <2>2. /\ error' \/ Awaits(m)'
        /\ Awaits("FOTA_STOPPED") => error' \/ Awaits("FOTA_STOPPED")'
        /\ Awaits("TIMEOUT") => error' \/ Awaits("TIMEOUT")'
    BY <1>2, PutKeeps
  <2>3. HeldBack => error' \/ HeldBack'
    BY <1>2, <2>2 DEF HeldBack
  <2>4. NeverStranded'
    BY <2>2, <2>3 DEF NeverStranded, Disconnected
  <2> QED BY <2>1, <2>4
<1> QED BY <1>1, <1>2

LEMMA NeverStrandedStep ==
  ASSUME TypeOK, FotaAnswered, NeverStranded, [Next]_vars
  PROVE  FotaAnswered' /\ NeverStranded'
<1> USE DEF thread, modem, bounds, Overflows
<1>m. /\ "INITIALIZED" \in MessageTypes /\ "LTE_CONNECTED" \in MessageTypes
      /\ "LTE_DISCONNECTED" \in MessageTypes /\ "FOTA_PENDING" \in MessageTypes
      /\ "FOTA_STOPPED" \in MessageTypes /\ "CONNECTED" \in MessageTypes
      /\ "DISCONNECTED" \in MessageTypes /\ "TIMEOUT" \in MessageTypes
      /\ "SHUTDOWN_REQUEST" \in MessageTypes /\ "OTHER" \in MessageTypes
  BY DEF MessageTypes
<1>e. ASSUME NEW m, Put(m) PROVE error => error'
  BY <1>e DEF Put
<1>1. CASE ModemInitialized
  BY <1>1, <1>m, <1>e, PutNeverStranded DEF ModemInitialized
<1>2. CASE LteChange
  BY <1>2, <1>m, <1>e, PutNeverStranded DEF LteChange
<1>3. CASE CarrierFota
  <2>1. CASE fota
    BY <1>3, <2>1, <1>m, <1>e, PutNeverStranded DEF CarrierFota
  <2>2. CASE ~fota
    BY <1>3, <2>2, <1>m, <1>e, PutNeverStranded DEF CarrierFota
  <2> QED BY <2>1, <2>2
<1>4. CASE Library
  <2>1. CASE Established
    BY <2>1, <1>m, <1>e, PutNeverStranded DEF Established
  <2>2. CASE ConnectFails
    BY <2>2, PutNeverStranded DEF ConnectFails
  <2>3. CASE Dropped
    BY <2>3, PutNeverStranded DEF Dropped
  <2>4. CASE Closed
    BY <2>4, <1>m, <1>e, PutNeverStranded DEF Closed
  <2>5. CASE AssociationRequested
    BY <2>5, <1>m, <1>e, PutNeverStranded DEF AssociationRequested
  <2>6. CASE Associated
    <3>1. CASE Put("OTHER") /\ connect_check_work'
      BY <2>6, <3>1, <1>m, <1>e, PutNeverStranded DEF Associated
    <3>2. CASE error'
      BY <2>6, <3>2 DEF Associated, NeverStranded, FotaAnswered
    <3> QED BY <2>6, <3>1, <3>2 DEF Associated
  <2>7. CASE AssociationTimeout
    BY <2>7 DEF AssociationTimeout, NeverStranded, FotaAnswered
  <2> QED BY <1>4, <2>1, <2>2, <2>3, <2>4, <2>5, <2>6, <2>7 DEF Library
<1>5. CASE connect_check_work_fn
  <2>1. CASE Put("TIMEOUT")
    <3>1. error' \/ Awaits("TIMEOUT")'
      BY <2>1, <1>m, PutKeeps
    <3> QED BY <1>5, <2>1, <3>1, <1>m, <1>e, PutNeverStranded DEF connect_check_work_fn
  <2>2. CASE UNCHANGED <<cloudQ, error>> /\ ~Disconnected
    BY <1>5, <2>2, PutNeverStranded DEF connect_check_work_fn
  <2> QED BY <1>5, <2>1, <2>2 DEF connect_check_work_fn, Disconnected
<1>6. CASE ShutdownRequested
  BY <1>6, <1>m, <1>e, PutNeverStranded DEF ShutdownRequested
<1>7. CASE HandleMessage
  BY <1>7, MessageNeverStranded
<1>8. CASE ConnectReturns
  BY <1>8 DEF ConnectReturns, FotaAnswered, NeverStranded
<1>9. CASE UNCHANGED vars
  BY <1>9, PutNeverStranded DEF vars
<1> QED BY <1>1, <1>2, <1>3, <1>4, <1>5, <1>6, <1>7, <1>8, <1>9 DEF Next, ModuleThread

\* In every interleaving of thread, works, library and modem, with queues of any
\* size, a module without cloud connection has its next attempt coming, unless a
\* carrier update holds it back (cloud_module.c).
THEOREM AlwaysARetry == Spec => []NeverStranded
<1>1. Init => FotaAnswered /\ NeverStranded
  BY DEF Init, FotaAnswered, NeverStranded, Disconnected
<1>2. TypeOK /\ FotaAnswered /\ NeverStranded /\ [Next]_vars => FotaAnswered' /\ NeverStranded'
  BY NeverStrandedStep
<1> QED BY <1>1, <1>2, TypeCorrect, PTL DEF Spec

-----------------------------------------------------------------------------
(* The module is corrected.  Behind every CONNECTED in the queue there is its   *)
(* DISCONNECTED, or the library has still to send it.                           *)

Lasting == link \in {"connected", "closing"}

CorrectionComes ==
  \/ error \/ Lasting
  \/ \A i \in 1..Len(cloudQ) : cloudQ[i] = "CONNECTED" =>
       \E j \in 1..Len(cloudQ) : j > i /\ cloudQ[j] = "DISCONNECTED"

\* Without LTE the module does not believe to be connected.
SubStateFollows == state \in {"LTE_INIT", "LTE_DISCONNECTED"} => sub_state = "CLOUD_DISCONNECTED"

CorrectionInv == CorrectionComes /\ SubStateFollows /\ ConnectedIsCorrected

\* What another actor puts, and does to the link, before the module hears of it.
LEMMA PutCorrects ==
  ASSUME TypeOK, CorrectionInv, UNCHANGED <<state, sub_state>>,
         NEW m \in MessageTypes, Put(m), m = "CONNECTED" => Lasting',
         Lasting => Lasting' \/ m = "DISCONNECTED"
  PROVE  CorrectionInv'
<1>1. CASE error'
  BY <1>1 DEF CorrectionInv, CorrectionComes, SubStateFollows, ConnectedIsCorrected
<1>2. CASE cloudQ' = Append(cloudQ, m) /\ error' = error
  <2>1. /\ Len(cloudQ) \in Nat /\ Len(cloudQ') = Len(cloudQ) + 1
        /\ cloudQ'[Len(cloudQ) + 1] = m
        /\ \A i \in 1..Len(cloudQ) : cloudQ'[i] = cloudQ[i]
    BY <1>2 DEF TypeOK
  <2>2. CASE m = "DISCONNECTED"
    <3>1. CorrectionComes'
      BY <2>1, <2>2 DEF CorrectionComes
    <3>2. Awaits("DISCONNECTED")'
      BY <2>1, <2>2 DEF Awaits
    <3> QED BY <3>1, <3>2 DEF CorrectionInv, SubStateFollows, ConnectedIsCorrected
  <2>3. CASE m # "DISCONNECTED"
    <3>1. CorrectionComes'
      BY <1>2, <2>1, <2>3 DEF CorrectionInv, CorrectionComes
    <3>2. Awaits("DISCONNECTED") => Awaits("DISCONNECTED")'
      BY <2>1 DEF Awaits
    <3> QED BY <1>2, <2>3, <3>1, <3>2 DEF CorrectionInv, SubStateFollows, ConnectedIsCorrected, Lasting
  <2> QED BY <2>2, <2>3
<1> QED BY <1>1, <1>2, PutAppends

\* A step without a message.
LEMMA QuietCorrects ==
  ASSUME CorrectionInv, UNCHANGED <<state, sub_state, cloudQ>>, error => error', Lasting => Lasting'
  PROVE  CorrectionInv'
  BY DEF CorrectionInv, CorrectionComes, SubStateFollows, ConnectedIsCorrected, Awaits, Lasting

\* Taking a message leaves the others in their order.
LEMMA TakeCorrects ==
  ASSUME TypeOK, CorrectionComes, NEW m, Msg(m), error => error', Lasting => Lasting'
  PROVE  /\ CorrectionComes'
         /\ m = "CONNECTED" => error' \/ Lasting' \/ Awaits("DISCONNECTED")'
<1>1. /\ cloudQ \in Seq(MessageTypes) /\ cloudQ # << >> /\ cloudQ' = Tail(cloudQ) /\ cloudQ[1] = m
  BY DEF TypeOK, Msg
<1>2. /\ Len(cloudQ) \in Nat \ {0}
      /\ Len(cloudQ') = Len(cloudQ) - 1
      /\ \A i \in 1..Len(cloudQ') : cloudQ'[i] = cloudQ[i + 1]
  BY <1>1
<1>3. CASE error \/ Lasting
  BY <1>3 DEF CorrectionComes
<1>4. CASE \A i \in 1..Len(cloudQ) : cloudQ[i] = "CONNECTED" =>
             \E j \in 1..Len(cloudQ) : j > i /\ cloudQ[j] = "DISCONNECTED"
  <2>1. ASSUME NEW i \in 1..Len(cloudQ'), cloudQ'[i] = "CONNECTED"
        PROVE  \E j \in 1..Len(cloudQ') : j > i /\ cloudQ'[j] = "DISCONNECTED"
    <3>1. i + 1 \in 1..Len(cloudQ) /\ cloudQ[i + 1] = "CONNECTED"
      BY <1>2, <2>1
    <3>2. PICK j \in 1..Len(cloudQ) : j > i + 1 /\ cloudQ[j] = "DISCONNECTED"
      BY <1>4, <3>1
    <3>3. j - 1 \in 1..Len(cloudQ') /\ j - 1 > i /\ cloudQ'[j - 1] = "DISCONNECTED"
      BY <1>2, <3>2
    <3> QED BY <3>3
  <2>2. CASE m = "CONNECTED"
    <3>1. PICK j \in 1..Len(cloudQ) : j > 1 /\ cloudQ[j] = "DISCONNECTED"
      BY <1>1, <1>2, <1>4, <2>2
    <3>2. j - 1 \in 1..Len(cloudQ') /\ cloudQ'[j - 1] = "DISCONNECTED"
      BY <1>2, <3>1
    <3> QED BY <2>1, <3>2 DEF CorrectionComes, Awaits
  <2> QED BY <2>1, <2>2 DEF CorrectionComes
<1> QED BY <1>3, <1>4 DEF CorrectionComes

LEMMA MessageCorrects ==
  ASSUME TypeOK, CorrectionInv, HandleMessage PROVE CorrectionInv'
<1>l. ASSUME connect_cloud \/ disconnect_cloud PROVE Lasting => Lasting'
  BY <1>l DEF connect_cloud, disconnect_cloud, Lasting
<1>e. ASSUME connect_cloud PROVE error => error'
  BY <1>e DEF connect_cloud
<1>1. CASE on_state_init
  <2>1. CorrectionComes'
    BY <1>1, TakeCorrects DEF on_state_init, CorrectionInv, Lasting
  <2> QED BY <1>1, <2>1 DEF on_state_init, CorrectionInv, SubStateFollows, ConnectedIsCorrected
<1>2. CASE on_state_lte_disconnected
  <2>1. CorrectionComes'
    BY <1>2, <1>l, <1>e, TakeCorrects DEF on_state_lte_disconnected, CorrectionInv
  <2> QED BY <1>2, <2>1 DEF on_state_lte_disconnected, CorrectionInv, SubStateFollows, ConnectedIsCorrected
<1>3. CASE on_state_lte_connected
  <2>1. CASE /\ Msg("LTE_DISCONNECTED") \/ Msg("FOTA_PENDING")
             /\ sub_state' = "CLOUD_DISCONNECTED" /\ disconnect_cloud /\ UNCHANGED error
    <3>1. CorrectionComes'
      BY <2>1, <1>l, TakeCorrects DEF CorrectionInv
    <3> QED BY <2>1, <3>1 DEF CorrectionInv, SubStateFollows, ConnectedIsCorrected
  <2>2. CASE Msg("FOTA_STOPPED") /\ connect_cloud /\ UNCHANGED <<state, sub_state>>
    <3>1. CorrectionComes'
      BY <2>2, <1>l, <1>e, TakeCorrects DEF CorrectionInv
    <3>2. Awaits("DISCONNECTED") => Awaits("DISCONNECTED")'
      BY <2>2, TakeKeeps
    <3> QED BY <2>2, <1>l, <1>e, <3>1, <3>2
            DEF CorrectionInv, SubStateFollows, ConnectedIsCorrected, Lasting
  <2> QED BY <1>3, <2>1, <2>2 DEF on_state_lte_connected
<1>4. CASE on_sub_state_cloud_connected
  <2>1. CorrectionComes'
    BY <1>4, TakeCorrects DEF on_sub_state_cloud_connected, CorrectionInv, Lasting
  <2> QED BY <1>4, <2>1
          DEF on_sub_state_cloud_connected, CorrectionInv, SubStateFollows, ConnectedIsCorrected
<1>5. CASE on_sub_state_cloud_disconnected
  <2>1. CASE Msg("CONNECTED") /\ state = "LTE_CONNECTED" /\ UNCHANGED <<state, error, link>>
    <3>1. CorrectionComes' /\ (error' \/ Lasting' \/ Awaits("DISCONNECTED")')
      BY <2>1, TakeCorrects DEF CorrectionInv, Lasting
    <3> QED BY <2>1, <3>1 DEF CorrectionInv, SubStateFollows, ConnectedIsCorrected, Lasting
  <2>2. CASE /\ Msg("TIMEOUT") /\ connect_cloud
             /\ sub_state = "CLOUD_DISCONNECTED" /\ UNCHANGED <<state, sub_state>>
    <3>1. CorrectionComes'
      BY <2>2, <1>l, <1>e, TakeCorrects DEF CorrectionInv
    <3> QED BY <2>2, <3>1 DEF CorrectionInv, SubStateFollows, ConnectedIsCorrected
  <2> QED BY <1>5, <2>1, <2>2 DEF on_sub_state_cloud_disconnected
<1>6. CASE on_all_states
  <2>1. CorrectionComes'
    BY <1>6, TakeCorrects DEF on_all_states, CorrectionInv, Lasting
  <2> QED BY <1>6, <2>1 DEF on_all_states, CorrectionInv, SubStateFollows, ConnectedIsCorrected
<1>7. CASE IgnoreMessage
  <2>1. PICK type \in MessageTypes :
          Msg(type) /\ Ignored(type) /\ UNCHANGED <<state, sub_state, error, link>>
    BY <1>7 DEF IgnoreMessage, thread
  <2>2. CorrectionComes'
    BY <2>1, TakeCorrects DEF CorrectionInv, Lasting
  <2>3. CASE state = "LTE_CONNECTED" /\ sub_state = "CLOUD_CONNECTED"
    <3>1. type # "DISCONNECTED"
      BY <2>1, <2>3 DEF Ignored
    <3>2. Awaits("DISCONNECTED") => Awaits("DISCONNECTED")'
      BY <2>1, <3>1, TakeKeeps
    <3> QED BY <2>1, <2>2, <3>2 DEF CorrectionInv, SubStateFollows, ConnectedIsCorrected
  <2>4. CASE ~(state = "LTE_CONNECTED" /\ sub_state = "CLOUD_CONNECTED")
    BY <2>1, <2>2, <2>4 DEF CorrectionInv, SubStateFollows, ConnectedIsCorrected
  <2> QED BY <2>3, <2>4
<1> QED BY <1>1, <1>2, <1>3, <1>4, <1>5, <1>6, <1>7 DEF HandleMessage

LEMMA CorrectionStep ==
  ASSUME TypeOK, CorrectionInv, [Next]_vars PROVE CorrectionInv'
<1> USE DEF thread
<1>m. {"INITIALIZED", "LTE_CONNECTED", "LTE_DISCONNECTED", "FOTA_PENDING", "FOTA_STOPPED",
       "CONNECTED", "DISCONNECTED", "TIMEOUT", "SHUTDOWN_REQUEST", "OTHER"} \subseteq MessageTypes
  BY DEF MessageTypes
<1>1. CASE ModemInitialized \/ LteChange \/ CarrierFota \/ AssociationRequested \/ ShutdownRequested
  <2>1. PICK m \in MessageTypes : m # "CONNECTED" /\ Put(m)
    BY <1>1, <1>m DEF ModemInitialized, LteChange, CarrierFota, AssociationRequested, ShutdownRequested
  <2>2. UNCHANGED <<state, sub_state, link>>
    BY <1>1 DEF ModemInitialized, LteChange, CarrierFota, AssociationRequested, ShutdownRequested
  <2> QED BY <2>1, <2>2, PutCorrects DEF Lasting
<1>2. CASE Established \/ Closed
  BY <1>2, <1>m, PutCorrects DEF Established, Closed, Lasting
<1>3. CASE ConnectFails \/ Dropped \/ AssociationTimeout \/ ConnectReturns \/ UNCHANGED vars
  BY <1>3, QuietCorrects
     DEF ConnectFails, Dropped, AssociationTimeout, ConnectReturns, vars, Lasting
<1>4. CASE Associated
  <2>1. CASE Put("OTHER") /\ link' = "closing"
    BY <1>4, <2>1, <1>m, PutCorrects DEF Associated, Lasting
  <2>2. CASE error' = TRUE /\ UNCHANGED <<link, cloudQ>>
    BY <1>4, <2>2, QuietCorrects DEF Associated, Lasting
  <2> QED BY <1>4, <2>1, <2>2 DEF Associated
<1>5. CASE connect_check_work_fn
  <2>1. UNCHANGED <<state, sub_state, link>> /\ (Put("TIMEOUT") \/ UNCHANGED <<cloudQ, error>>)
    BY <1>5 DEF connect_check_work_fn
  <2> QED BY <2>1, <1>m, PutCorrects, QuietCorrects DEF Lasting
<1> QED BY <1>1, <1>2, <1>3, <1>4, <1>5, MessageCorrects DEF Next, ModuleThread, Library

\* However the callbacks of the library, the connection's losses and the module's
\* own disconnecting interleave, and whatever waits in the queue: a module that
\* believes to be connected and is not will hear of it (cloud_module.c, sub_state).
THEOREM WrongBeliefEnds == Spec => []ConnectedIsCorrected
<1>1. Init => CorrectionInv
  BY DEF Init, CorrectionInv, CorrectionComes, SubStateFollows, ConnectedIsCorrected
<1>2. TypeOK /\ CorrectionInv /\ [Next]_vars => CorrectionInv'
  BY CorrectionStep
<1>3. CorrectionInv => ConnectedIsCorrected
  BY DEF CorrectionInv
<1> QED BY <1>1, <1>2, <1>3, TypeCorrect, PTL DEF Spec

=============================================================================
