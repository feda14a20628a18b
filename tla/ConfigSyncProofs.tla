--------------------------- MODULE ConfigSyncProofs ---------------------------
(* Proofs about ConfigSync.                                                   *)
EXTENDS ConfigSync, TLAPS

---------------------------------------------------------------------------
(* Sequences, and settings without a value for each.                       *)

LEMMA AppendElements ==
  ASSUME NEW S, NEW q \in Seq(S), NEW e \in S
  PROVE  /\ Append(q, e) \in Seq(S)
         /\ DOMAIN Append(q, e) = 1 .. Len(q) + 1
         /\ \A n \in DOMAIN q : n <= Len(q) /\ Append(q, e)[n] = q[n]
         /\ Append(q, e)[Len(q) + 1] = e
  OBVIOUS

LEMMA AppendTwo ==
  ASSUME NEW S, NEW q \in Seq(S), NEW d \in S, NEW e \in S
  PROVE  /\ q \o <<d, e>> \in Seq(S)
         /\ DOMAIN (q \o <<d, e>>) = 1 .. Len(q) + 2
         /\ \A n \in DOMAIN q : n <= Len(q) /\ (q \o <<d, e>>)[n] = q[n]
         /\ (q \o <<d, e>>)[Len(q) + 1] = d
         /\ (q \o <<d, e>>)[Len(q) + 2] = e
  OBVIOUS

LEMMA TailElements ==
  ASSUME NEW S, NEW q \in Seq(S), q # << >>
  PROVE  /\ Tail(q) \in Seq(S) /\ Head(q) \in S
         /\ 1 \in DOMAIN q /\ Head(q) = q[1]
         /\ \A n \in DOMAIN Tail(q) : n + 1 \in DOMAIN q /\ Tail(q)[n] = q[n + 1]
         /\ \A n \in DOMAIN q : n = 1 \/ (n - 1 \in DOMAIN Tail(q) /\ Tail(q)[n - 1] = q[n])
  OBVIOUS

LEMMA EmptyQueue == ASSUME NEW S PROVE << >> \in Seq(S)
  OBVIOUS

LEMMA EmptyPartial == << >> \in Partial
<1>1. << >> \in Seq(Values) /\ Len(<< >>) = 0
  OBVIOUS
<1>2. << >> \in [{} -> Values]
  BY <1>1
<1> QED BY <1>2 DEF Partial

LEMMA ConfigPartial == Config \subseteq Partial
  BY DEF Config, Partial

LEMMA RestrictPartial ==
  ASSUME NEW c \in Partial, NEW S \in SUBSET DOMAIN c
  PROVE  Restrict(c, S) \in Partial
<1>1. PICK D \in SUBSET Settings : c \in [D -> Values]
  BY DEF Partial
<1>2. Restrict(c, S) \in [S -> Values] /\ S \in SUBSET Settings
  BY <1>1 DEF Restrict
<1> QED BY <1>2 DEF Partial

LEMMA WithPartial ==
  ASSUME NEW c \in Partial, NEW s \in Settings, NEW v \in Values
  PROVE  With(c, s, v) \in Partial
<1>1. PICK D \in SUBSET Settings : c \in [D -> Values]
  BY DEF Partial
<1>2. With(c, s, v) \in [D \cup {s} -> Values]
  BY <1>1 DEF With
<1> QED BY <1>2 DEF Partial

LEMMA PartialValue ==
  ASSUME NEW c \in Partial, NEW s \in DOMAIN c
  PROVE  s \in Settings /\ c[s] \in Values
  BY DEF Partial

LEMMA PublishedType ==
  ASSUME inbox \in Seq(Partial), NEW d \in Partial, NEW r
  PROVE  Published(d, r) \in Seq(Partial)
<1>1. Delta(d, r) \in Partial
  BY RestrictPartial DEF Delta
<1> QED BY <1>1 DEF Published

LEMMA AppliedType ==
  ASSUME current_cfg \in Config, NEW new \in Config
  PROVE  Applied(new) \in Config
  BY DEF Applied, Config

---------------------------------------------------------------------------
(* Types                                                                   *)

LEMMA HandleType ==
  ASSUME ConfigTypeOK, NEW new \in Config, new_config_handle(new)
  PROVE  /\ current_cfg' \in Config /\ flash' \in Config
         /\ cloudQ' \in Seq(CloudMessages)
<1>1. current_cfg' \in Config
  BY AppliedType DEF ConfigTypeOK, new_config_handle
<1>2. /\ Ready(current_cfg') \in CloudMessages /\ Send(current_cfg') \in CloudMessages
      /\ Send(current_cfg) \in CloudMessages
  BY <1>1 DEF ConfigTypeOK, Ready, Send, CloudMessages
<1>3. CASE current_cfg' # current_cfg
  <2>1. cloudQ' = cloudQ \o <<Ready(current_cfg'), Send(current_cfg')>> /\ flash' \in {flash, current_cfg'}
    BY <1>3 DEF new_config_handle
  <2> QED BY <2>1, <1>1, <1>2, AppendTwo DEF ConfigTypeOK
<1>4. CASE current_cfg' = current_cfg
  <2>1. cloudQ' = Append(cloudQ, Send(current_cfg)) /\ flash' = flash
    BY <1>4 DEF new_config_handle
  <2> QED BY <2>1, <1>1, <1>2, AppendElements DEF ConfigTypeOK
<1> QED BY <1>3, <1>4

LEMMA InitType == ASSUME ConfigAssumption, Init PROVE ConfigTypeOK
<1>1. Default \in Config
  BY DEF ConfigAssumption, Config
<1>2. << >> \in Seq(DataMessages) /\ << >> \in Seq(CloudMessages) /\ << >> \in Seq(Partial)
  BY EmptyQueue
<1>3. current_cfg \in Config /\ flash \in Config /\ copy_cfg \in Config
  BY <1>1 DEF Init
<1>4. lib \in Partial /\ assigning \in Partial /\ desired \in Partial /\ reported \in Partial
  BY EmptyPartial DEF Init
<1>5. dataQ \in Seq(DataMessages) /\ cloudQ \in Seq(CloudMessages) /\ inbox \in Seq(Partial)
  BY <1>2 DEF Init
<1> QED BY <1>3, <1>4, <1>5 DEF Init, ConfigTypeOK

\* Every step keeps the types (cloud_module.c, data_module.c).
LEMMA TypeStep == ASSUME ConfigTypeOK, [Next]_vars PROVE ConfigTypeOK'
<1> USE DEF ConfigTypeOK, dataVars, cloudVars, shadowVars, bounds
<1>1. CASE UserChange
  <2>1. PICK s \in Settings, v \in Values : desired' = With(desired, s, v)
    BY <1>1 DEF UserChange
  <2>2. desired' \in Partial
    BY <2>1, WithPartial
  <2>3. inbox' \in Seq(Partial)
    BY <1>1, <2>2, PublishedType DEF UserChange
  <2> QED BY <1>1, <2>2, <2>3 DEF UserChange
<1>2. CASE Connect
  <2>1. Append(inbox, desired) \in Seq(Partial)
    BY AppendElements
  <2> QED BY <1>2, <2>1 DEF Connect
<1>3. CASE Disconnect
  <2>1. inbox' \in Seq(Partial)
    BY <1>3, EmptyQueue DEF Disconnect
  <2> QED BY <1>3, <2>1 DEF Disconnect
<1>4. CASE Reboot
  <2>1. dataQ' \in Seq(DataMessages) /\ cloudQ' \in Seq(CloudMessages) /\ inbox' \in Seq(Partial)
    BY <1>4, EmptyQueue DEF Reboot
  <2>2. lib' \in Partial /\ assigning' \in Partial
    BY <1>4, EmptyPartial DEF Reboot
  <2> QED BY <1>4, <2>1, <2>2 DEF Reboot
<1>5. CASE LibraryThread
  <2>1. CASE config_data_handle
    <3>1. inbox' \in Seq(Partial) /\ Head(inbox) \in Partial
      BY <2>1, TailElements DEF config_data_handle
    <3>2. Append(dataQ, [type |-> "EMPTY"]) \in Seq(DataMessages)
      BY AppendElements DEF DataMessages
    <3> QED BY <2>1, <3>1, <3>2 DEF config_data_handle
  <2>2. CASE DecodeSetting
    <3>1. PICK s \in DOMAIN lib : /\ copy_cfg' = [copy_cfg EXCEPT ![s] = lib[s]]
                                  /\ lib' = Restrict(lib, DOMAIN lib \ {s})
      BY <2>2 DEF DecodeSetting
    <3>2. copy_cfg' \in Config
      BY <3>1, PartialValue DEF Config
    <3>3. lib' \in Partial
      BY <3>1, RestrictPartial
    <3> QED BY <2>2, <3>2, <3>3 DEF DecodeSetting
  <2>3. CASE send_config_received
    <3>1. [type |-> "RECEIVED", cfg |-> copy_cfg] \in DataMessages
      BY DEF DataMessages
    <3> QED BY <2>3, <3>1, AppendElements DEF send_config_received
  <2> QED BY <1>5, <2>1, <2>2, <2>3 DEF LibraryThread
<1>6. CASE CloudThread
  <2>1. CASE TakeReady
    <3>1. cloudQ' \in Seq(CloudMessages) /\ Head(cloudQ) \in CloudMessages
      BY <2>1, TailElements DEF TakeReady
    <3>2. assigning' \in Partial
      BY <2>1, <3>1, ConfigPartial DEF TakeReady, CloudMessages
    <3> QED BY <2>1, <3>1, <3>2 DEF TakeReady
  <2>2. CASE AssignSetting
    <3>1. PICK s \in DOMAIN assigning : /\ copy_cfg' = [copy_cfg EXCEPT ![s] = assigning[s]]
                                        /\ assigning' = Restrict(assigning, DOMAIN assigning \ {s})
      BY <2>2 DEF AssignSetting
    <3>2. copy_cfg' \in Config
      BY <3>1, PartialValue DEF Config
    <3>3. assigning' \in Partial
      BY <3>1, RestrictPartial
    <3> QED BY <2>2, <3>2, <3>3 DEF AssignSetting
  <2>3. CASE TakeSend
    <3>1. cloudQ' \in Seq(CloudMessages) /\ Head(cloudQ) \in CloudMessages
      BY <2>3, TailElements DEF TakeSend
    <3> QED BY <2>3, <3>1 DEF TakeSend, CloudMessages
  <2> QED BY <1>6, <2>1, <2>2, <2>3 DEF CloudThread
<1>7. CASE SendReport
  <2>1. PICK c \in pending : reported' = c /\ inbox' = Published(desired, c)
                             /\ pending' = pending \ {c}
    BY <1>7 DEF SendReport
  <2>2. reported' \in Partial
    BY <2>1, ConfigPartial
  <2>3. inbox' \in Seq(Partial)
    BY <2>1, PublishedType
  <2> QED BY <1>7, <2>1, <2>2, <2>3 DEF SendReport
<1>8. CASE DataThread
  <2>1. dataQ' \in Seq(DataMessages) /\ Head(dataQ) \in DataMessages
    BY <1>8, TailElements DEF DataThread
  <2>2. CASE Head(dataQ).type = "EMPTY"
    <3>1. Send(current_cfg) \in CloudMessages
      BY DEF Send, CloudMessages
    <3>2. cloudQ' \in Seq(CloudMessages)
      BY <1>8, <2>2, <3>1, AppendElements DEF DataThread, on_config_empty, config_send
    <3> QED BY <1>8, <2>1, <2>2, <3>2 DEF DataThread, on_config_empty, config_send
  <2>3. CASE Head(dataQ).type # "EMPTY"
    <3>1. Head(dataQ).cfg \in Config /\ new_config_handle(Head(dataQ).cfg)
      BY <1>8, <2>1, <2>3 DEF DataThread, DataMessages
    <3> QED BY <1>8, <2>1, <3>1, HandleType DEF DataThread
  <2> QED BY <2>2, <2>3
<1>9. CASE UNCHANGED vars
  BY <1>9 DEF vars
<1> QED BY <1>1, <1>2, <1>3, <1>4, <1>5, <1>6, <1>7, <1>8, <1>9 DEF Next

\* Configurations stay complete, partial updates stay partial, whatever the
\* threads interleave (cloud_module.c, data_module.c).
THEOREM TypeCorrect == Spec => []ConfigTypeOK
<1>1. Init => ConfigTypeOK
  BY InitType, ConfigAssumption
<1>2. ConfigTypeOK /\ [Next]_vars => ConfigTypeOK'
  BY TypeStep
<1> QED BY <1>1, <1>2, PTL DEF Spec

---------------------------------------------------------------------------
(* Values out of range                                                     *)

Usable(c) == \A s \in Settings : Accepted(s, c[s])
UsableInv ==
  /\ Usable(current_cfg) /\ Usable(flash)
  /\ \A n \in DOMAIN cloudQ : Usable(cloudQ[n].cfg)

LEMMA AppliedUsable ==
  ASSUME Usable(current_cfg), NEW new
  PROVE  Usable(Applied(new))
  BY DEF Usable, Applied

\* A queue of usable configurations to which usable ones are appended.
LEMMA AppendUsable ==
  ASSUME NEW q \in Seq(CloudMessages), \A n \in DOMAIN q : Usable(q[n].cfg),
         NEW e \in CloudMessages, Usable(e.cfg)
  PROVE  \A n \in DOMAIN Append(q, e) : Usable(Append(q, e)[n].cfg)
<1>1. \A n \in DOMAIN Append(q, e) : n \in DOMAIN q \/ n = Len(q) + 1
  BY AppendElements
<1> QED BY <1>1, AppendElements

LEMMA AppendTwoUsable ==
  ASSUME NEW q \in Seq(CloudMessages), \A n \in DOMAIN q : Usable(q[n].cfg),
         NEW d \in CloudMessages, Usable(d.cfg), NEW e \in CloudMessages, Usable(e.cfg)
  PROVE  \A n \in DOMAIN (q \o <<d, e>>) : Usable((q \o <<d, e>>)[n].cfg)
<1>1. \A n \in DOMAIN (q \o <<d, e>>) : n \in DOMAIN q \/ n = Len(q) + 1 \/ n = Len(q) + 2
  BY AppendTwo
<1> QED BY <1>1, AppendTwo

LEMMA TailUsable ==
  ASSUME NEW q \in Seq(CloudMessages), q # << >>, \A n \in DOMAIN q : Usable(q[n].cfg)
  PROVE  \A n \in DOMAIN Tail(q) : Usable(Tail(q)[n].cfg)
  BY TailElements

LEMMA HandleUsable ==
  ASSUME ConfigTypeOK, UsableInv, NEW new \in Config, new_config_handle(new)
  PROVE  UsableInv'
<1>1. current_cfg' \in Config /\ Usable(current_cfg')
  BY AppliedType, AppliedUsable DEF ConfigTypeOK, UsableInv, new_config_handle
<1>2. /\ Ready(current_cfg') \in CloudMessages /\ Send(current_cfg') \in CloudMessages
      /\ Send(current_cfg) \in CloudMessages
      /\ Ready(current_cfg').cfg = current_cfg' /\ Send(current_cfg').cfg = current_cfg'
      /\ Send(current_cfg).cfg = current_cfg
  BY <1>1 DEF ConfigTypeOK, Ready, Send, CloudMessages
<1>3. CASE current_cfg' # current_cfg
  <2>1. cloudQ' = cloudQ \o <<Ready(current_cfg'), Send(current_cfg')>> /\ flash' \in {flash, current_cfg'}
    BY <1>3 DEF new_config_handle
  <2>2. \A n \in DOMAIN cloudQ' : Usable(cloudQ'[n].cfg)
    BY <2>1, <1>1, <1>2, AppendTwoUsable DEF ConfigTypeOK, UsableInv
  <2> QED BY <2>1, <2>2, <1>1 DEF UsableInv, Usable
<1>4. CASE current_cfg' = current_cfg
  <2>1. cloudQ' = Append(cloudQ, Send(current_cfg)) /\ flash' = flash
    BY <1>4 DEF new_config_handle
  <2>2. \A n \in DOMAIN cloudQ' : Usable(cloudQ'[n].cfg)
    BY <2>1, <1>2, AppendUsable DEF ConfigTypeOK, UsableInv
  <2> QED BY <2>1, <2>2, <1>4 DEF UsableInv, Usable
<1> QED BY <1>3, <1>4

LEMMA InitUsable == ASSUME ConfigAssumption, Init PROVE UsableInv
<1>1. Usable(Default)
  BY DEF ConfigAssumption, Usable, Accepted
<1>2. DOMAIN cloudQ = {}
  BY EmptyQueue DEF Init
<1> QED BY <1>1, <1>2 DEF Init, UsableInv

LEMMA UsableStep == ASSUME ConfigTypeOK, UsableInv, [Next]_vars PROVE UsableInv'
<1> USE DEF dataVars, cloudVars, shadowVars, bounds
<1>1. CASE UNCHANGED <<current_cfg, flash, cloudQ>>
  BY <1>1 DEF UsableInv, Usable
<1>2. CASE Reboot
  <2>1. DOMAIN cloudQ' = {}
    BY <1>2, EmptyQueue DEF Reboot
  <2> QED BY <1>2, <2>1 DEF Reboot, UsableInv, Usable
<1>3. CASE TakeReady \/ TakeSend
  <2>1. cloudQ # << >> /\ cloudQ' = Tail(cloudQ) /\ UNCHANGED <<current_cfg, flash>>
    BY <1>3 DEF TakeReady, TakeSend
  <2> QED BY <2>1, TailUsable DEF ConfigTypeOK, UsableInv, Usable
<1>4. CASE DataThread
  <2>1. Head(dataQ) \in DataMessages
    BY <1>4, TailElements DEF DataThread, ConfigTypeOK
  <2>2. CASE Head(dataQ).type = "EMPTY"
    <3>1. /\ cloudQ' = Append(cloudQ, Send(current_cfg)) /\ UNCHANGED <<current_cfg, flash>>
      BY <1>4, <2>2 DEF DataThread, on_config_empty, config_send
    <3>2. Send(current_cfg) \in CloudMessages /\ Send(current_cfg).cfg = current_cfg
      BY DEF Send, CloudMessages, ConfigTypeOK
    <3>3. \A n \in DOMAIN cloudQ' : Usable(cloudQ'[n].cfg)
      BY <3>1, <3>2, AppendUsable DEF ConfigTypeOK, UsableInv
    <3> QED BY <3>1, <3>3 DEF UsableInv, Usable
  <2>3. CASE Head(dataQ).type # "EMPTY"
    <3>1. Head(dataQ).cfg \in Config /\ new_config_handle(Head(dataQ).cfg)
      BY <1>4, <2>1, <2>3 DEF DataThread, DataMessages
    <3> QED BY <3>1, HandleUsable
  <2> QED BY <2>2, <2>3
<1>5. CASE UserChange \/ Connect \/ Disconnect \/ SendReport
  BY <1>1, <1>5 DEF UserChange, Connect, Disconnect, SendReport
<1>6. CASE LibraryThread
  BY <1>1, <1>6 DEF LibraryThread, config_data_handle, DecodeSetting, send_config_received
<1>7. CASE AssignSetting
  BY <1>1, <1>7 DEF AssignSetting
<1>8. CASE UNCHANGED vars
  BY <1>1, <1>8 DEF vars
<1> QED BY <1>2, <1>3, <1>4, <1>5, <1>6, <1>7, <1>8 DEF Next, CloudThread

\* No value out of range is ever in force, stored or handed to the modules
\* (data_module.c, new_config_handle), for any settings, values and instances.
THEOREM OutOfRangeStaysOut == Spec => []OnlyAccepted
<1>1. Init => ConfigTypeOK /\ UsableInv
  BY InitType, InitUsable, ConfigAssumption
<1>2. (ConfigTypeOK /\ UsableInv) /\ [Next]_vars => (ConfigTypeOK /\ UsableInv)'
  BY TypeStep, UsableStep
<1>3. ConfigTypeOK /\ UsableInv => OnlyAccepted
  BY DEF UsableInv, Usable, OnlyAccepted
<1> QED BY <1>1, <1>2, <1>3, PTL DEF Spec

---------------------------------------------------------------------------
(* The copy of the cloud module                                            *)

NoReady(q) == \A n \in DOMAIN q : q[n].type # "READY"

\* The last configuration handed out in q is c.
LastReady(q, c) ==
  \A n \in DOMAIN q : q[n].type = "READY" =>
    q[n].cfg = c \/ \E m \in DOMAIN q : m > n /\ q[m].type = "READY"

\* The last configuration received in q has the value v for s.
LastReceived(q, s, v) ==
  \E n \in DOMAIN q :
    /\ q[n].type = "RECEIVED" /\ q[n].cfg[s] = v
    /\ \A m \in DOMAIN q : m > n => q[m].type # "RECEIVED"

Explained(s) ==
  \/ ~Accepted(s, copy_cfg[s]) \/ copy_cfg[s] = current_cfg[s]
  \/ decoding \/ LastReceived(dataQ, s, copy_cfg[s])

\* While nothing that was handed out is on its way, a setting of the copy is about
\* to be assigned what is in force, or agrees with it, or is about to be taken.
Agree ==
  NoReady(cloudQ) =>
    \A s \in Settings :
      \/ s \in DOMAIN assigning /\ assigning[s] = current_cfg[s]
      \/ s \notin DOMAIN assigning /\ Explained(s)

CopyInv == (DOMAIN lib # {} => decoding) /\ LastReady(cloudQ, current_cfg) /\ Agree

LEMMA EmptyLast ==
  ASSUME NEW c
  PROVE  LastReady(<< >>, c) /\ DOMAIN << >> = {}
  BY DEF LastReady

LEMMA AppendSendReady ==
  ASSUME NEW q \in Seq(CloudMessages), NEW c, NEW e \in CloudMessages, e.type = "SEND", LastReady(q, c)
  PROVE  LastReady(Append(q, e), c) /\ (NoReady(Append(q, e)) => NoReady(q))
<1>1. \A n \in DOMAIN Append(q, e) : n \in DOMAIN q \/ n = Len(q) + 1
  BY AppendElements
<1>2. DOMAIN q \subseteq DOMAIN Append(q, e)
  BY AppendElements
<1> QED BY <1>1, <1>2, AppendElements DEF LastReady, NoReady

LEMMA AppendReadySend ==
  ASSUME NEW q \in Seq(CloudMessages), NEW d \in CloudMessages, NEW e \in CloudMessages,
         d.type = "READY", e.type = "SEND"
  PROVE  LastReady(q \o <<d, e>>, d.cfg) /\ ~NoReady(q \o <<d, e>>)
<1> DEFINE r == q \o <<d, e>>
<1>1. \A n \in DOMAIN r : (n \in DOMAIN q /\ n < Len(q) + 1) \/ n = Len(q) + 1 \/ n = Len(q) + 2
  BY AppendTwo
<1>2. Len(q) + 1 \in DOMAIN r /\ r[Len(q) + 1] = d /\ r[Len(q) + 2] = e
  BY AppendTwo
<1> HIDE DEF r
<1> QED BY <1>1, <1>2 DEF LastReady, NoReady, r

LEMMA TailReady ==
  ASSUME NEW q \in Seq(CloudMessages), q # << >>, NEW c, LastReady(q, c)
  PROVE  /\ LastReady(Tail(q), c)
         /\ NoReady(Tail(q)) =>
              IF Head(q).type = "READY" THEN Head(q).cfg = c ELSE NoReady(q)
<1> DEFINE r == Tail(q)
<1>1. /\ \A n \in DOMAIN r : n \in Nat /\ n + 1 \in DOMAIN q /\ r[n] = q[n + 1]
      /\ \A n \in DOMAIN q : n \in Nat /\ n >= 1
      /\ \A n \in DOMAIN q : n = 1 \/ (n - 1 \in DOMAIN r /\ r[n - 1] = q[n])
      /\ 1 \in DOMAIN q /\ Head(q) = q[1]
      /\ \A n \in DOMAIN r : n >= 1
  BY TailElements
<1> HIDE DEF r
<1>2. LastReady(r, c)
  <2> SUFFICES ASSUME NEW n \in DOMAIN r, r[n].type = "READY", r[n].cfg # c
               PROVE  \E m \in DOMAIN r : m > n /\ r[m].type = "READY"
    BY DEF LastReady
  <2>1. PICK m \in DOMAIN q : m > n + 1 /\ q[m].type = "READY"
    BY <1>1 DEF LastReady
  <2>2. m # 1 /\ m - 1 \in DOMAIN r /\ r[m - 1].type = "READY" /\ m - 1 > n
    BY <1>1, <2>1
  <2> QED BY <2>2
<1>3. NoReady(r) => \A m \in DOMAIN q : m = 1 \/ q[m].type # "READY"
  BY <1>1 DEF NoReady
<1>4. CASE Head(q).type = "READY"
  BY <1>1, <1>2, <1>3, <1>4 DEF LastReady, r
<1>5. CASE Head(q).type # "READY"
  BY <1>1, <1>2, <1>3, <1>5 DEF NoReady, r
<1> QED BY <1>4, <1>5

LEMMA AppendReceived ==
  ASSUME NEW q \in Seq(DataMessages), NEW e \in DataMessages, NEW s, NEW v
  PROVE  /\ e.type = "RECEIVED" /\ e.cfg[s] = v => LastReceived(Append(q, e), s, v)
         /\ e.type = "EMPTY" /\ LastReceived(q, s, v) => LastReceived(Append(q, e), s, v)
<1> DEFINE r == Append(q, e)
<1>1. /\ \A n \in DOMAIN r : n \in DOMAIN q \/ n = Len(q) + 1
      /\ \A n \in DOMAIN q : n \in Nat /\ n <= Len(q) /\ n \in DOMAIN r /\ r[n] = q[n]
      /\ Len(q) \in Nat /\ Len(q) + 1 \in DOMAIN r /\ r[Len(q) + 1] = e
  BY AppendElements
<1> HIDE DEF r
<1>2. ASSUME e.type = "RECEIVED", e.cfg[s] = v PROVE LastReceived(r, s, v)
  BY <1>1, <1>2 DEF LastReceived
<1>3. ASSUME e.type = "EMPTY", LastReceived(q, s, v) PROVE LastReceived(r, s, v)
  <2>1. PICK n \in DOMAIN q : /\ q[n].type = "RECEIVED" /\ q[n].cfg[s] = v
                              /\ \A m \in DOMAIN q : m > n => q[m].type # "RECEIVED"
    BY <1>3 DEF LastReceived
  <2>2. \A m \in DOMAIN r : m > n => r[m].type # "RECEIVED"
    BY <1>1, <1>3, <2>1
  <2> QED BY <1>1, <2>1, <2>2 DEF LastReceived
<1> QED BY <1>2, <1>3 DEF r

LEMMA TailReceived ==
  ASSUME NEW q \in Seq(DataMessages), q # << >>, NEW s, NEW v, LastReceived(q, s, v)
  PROVE  \/ LastReceived(Tail(q), s, v)
         \/ Head(q).type = "RECEIVED" /\ Head(q).cfg[s] = v
<1> DEFINE r == Tail(q)
<1>1. /\ \A n \in DOMAIN r : n \in Nat /\ n + 1 \in DOMAIN q /\ r[n] = q[n + 1]
      /\ \A n \in DOMAIN q : n \in Nat
      /\ \A n \in DOMAIN q : n = 1 \/ (n - 1 \in DOMAIN r /\ r[n - 1] = q[n])
      /\ Head(q) = q[1]
  BY TailElements
<1> HIDE DEF r
<1>2. PICK n \in DOMAIN q : /\ q[n].type = "RECEIVED" /\ q[n].cfg[s] = v
                            /\ \A m \in DOMAIN q : m > n => q[m].type # "RECEIVED"
  BY DEF LastReceived
<1>3. CASE n = 1
  BY <1>1, <1>2, <1>3
<1>4. CASE n # 1
  <2>1. \A m \in DOMAIN r : m > n - 1 => r[m].type # "RECEIVED"
    BY <1>1, <1>2
  <2>2. LastReceived(r, s, v)
    BY <1>1, <1>2, <1>4, <2>1 DEF LastReceived
  <2> QED BY <2>2 DEF r
<1> QED BY <1>3, <1>4

\* What a step leaves of the explanation of a setting it does not write.
LEMMA StillExplained ==
  ASSUME CopyInv, UNCHANGED <<current_cfg, copy_cfg, assigning, lib>>,
         NoReady(cloudQ') => NoReady(cloudQ), LastReady(cloudQ', current_cfg),
         decoding => decoding',
         \A s \in Settings : LastReceived(dataQ, s, copy_cfg[s]) =>
            LastReceived(dataQ', s, copy_cfg[s]) \/ ~Accepted(s, copy_cfg[s])
              \/ copy_cfg[s] = current_cfg[s]
  PROVE  CopyInv'
<1>1. \A s \in Settings : Explained(s) => Explained(s)'
  BY DEF Explained
<1>2. Agree'
  BY <1>1 DEF CopyInv, Agree
<1> QED BY <1>2 DEF CopyInv

LEMMA TakeReadyAgrees == ASSUME ConfigTypeOK, CopyInv, TakeReady PROVE CopyInv'
<1>1. /\ cloudQ # << >> /\ Head(cloudQ).type = "READY" /\ cloudQ' = Tail(cloudQ)
      /\ assigning' = Head(cloudQ).cfg /\ UNCHANGED <<current_cfg, lib, decoding>>
  BY DEF TakeReady, dataVars
<1>2. DOMAIN Head(cloudQ).cfg = Settings
  <2>1. Head(cloudQ) \in CloudMessages
    BY <1>1, TailElements DEF ConfigTypeOK
  <2>2. Head(cloudQ).cfg \in Config
    BY <2>1 DEF CloudMessages
  <2> QED BY <2>2 DEF Config
<1>3. /\ LastReady(cloudQ', current_cfg)
      /\ NoReady(cloudQ') => Head(cloudQ).cfg = current_cfg
  BY <1>1, TailReady DEF ConfigTypeOK, CopyInv
<1> QED BY <1>1, <1>2, <1>3 DEF CopyInv, Agree

LEMMA AssignAgrees == ASSUME ConfigTypeOK, CopyInv, AssignSetting PROVE CopyInv'
<1>1. UNCHANGED <<current_cfg, lib, decoding, dataQ, cloudQ>>
  BY DEF AssignSetting, dataVars
<1>2. PICK t \in DOMAIN assigning : /\ copy_cfg' = [copy_cfg EXCEPT ![t] = assigning[t]]
                                    /\ assigning' = Restrict(assigning, DOMAIN assigning \ {t})
  BY DEF AssignSetting
<1>3. /\ DOMAIN assigning' = DOMAIN assigning \ {t}
      /\ \A s \in DOMAIN assigning' : assigning'[s] = assigning[s]
  BY <1>2 DEF Restrict
<1>4. /\ t \in Settings => copy_cfg'[t] = assigning[t]
      /\ \A s \in Settings : s # t => copy_cfg'[s] = copy_cfg[s]
  BY <1>2 DEF ConfigTypeOK, Config
<1>5. ASSUME NoReady(cloudQ), NEW s \in Settings
      PROVE  \/ s \in DOMAIN assigning' /\ assigning'[s] = current_cfg'[s]
             \/ s \notin DOMAIN assigning' /\ Explained(s)'
  <2>1. \/ s \in DOMAIN assigning /\ assigning[s] = current_cfg[s]
        \/ s \notin DOMAIN assigning /\ Explained(s)
    BY <1>5 DEF CopyInv, Agree
  <2>2. CASE s = t
    BY <1>1, <1>2, <1>3, <1>4, <2>1, <2>2 DEF Explained
  <2>3. CASE s # t
    BY <1>1, <1>3, <1>4, <2>1, <2>3 DEF Explained
  <2> QED BY <2>2, <2>3
<1>6. Agree'
  BY <1>1, <1>5 DEF Agree
<1> QED BY <1>1, <1>6 DEF CopyInv

LEMMA SendReceivedAgrees == ASSUME ConfigTypeOK, CopyInv, send_config_received PROVE CopyInv'
<1> DEFINE e == [type |-> "RECEIVED", cfg |-> copy_cfg]
<1>1. /\ lib = << >> /\ dataQ' = Append(dataQ, e)
      /\ UNCHANGED <<current_cfg, copy_cfg, lib, assigning, cloudQ>>
  BY DEF send_config_received, dataVars
<1>2. e \in DataMessages /\ e.type = "RECEIVED" /\ e.cfg = copy_cfg
  BY DEF ConfigTypeOK, DataMessages
<1> HIDE DEF e
<1>3. \A s \in Settings : LastReceived(dataQ', s, copy_cfg[s])
  BY <1>1, <1>2, AppendReceived DEF ConfigTypeOK
<1>4. \A s \in Settings : Explained(s)'
  BY <1>1, <1>3 DEF Explained
<1>5. DOMAIN lib' = {}
  BY <1>1, EmptyLast
<1> QED BY <1>1, <1>4, <1>5 DEF CopyInv, Agree

LEMMA HandleAgrees ==
  ASSUME ConfigTypeOK, CopyInv, DataThread, Head(dataQ).type # "EMPTY"
  PROVE  CopyInv'
<1> DEFINE new == Head(dataQ).cfg
<1>1. /\ dataQ # << >> /\ dataQ' = Tail(dataQ) /\ new_config_handle(new)
      /\ UNCHANGED <<copy_cfg, lib, decoding, assigning>>
  BY DEF DataThread, cloudVars
<1>2. Head(dataQ) \in DataMessages /\ new \in Config
  BY <1>1, TailElements DEF ConfigTypeOK, DataMessages
<1> HIDE DEF new
<1>3. current_cfg' = Applied(new) /\ current_cfg' \in Config
  BY <1>1, <1>2, AppliedType DEF new_config_handle, ConfigTypeOK
<1>4. /\ Ready(current_cfg') \in CloudMessages /\ Send(current_cfg') \in CloudMessages
      /\ Send(current_cfg) \in CloudMessages
      /\ Ready(current_cfg').type = "READY" /\ Ready(current_cfg').cfg = current_cfg'
      /\ Send(current_cfg').type = "SEND" /\ Send(current_cfg).type = "SEND"
  BY <1>3 DEF ConfigTypeOK, Ready, Send, CloudMessages
<1>5. CASE current_cfg' # current_cfg
  <2>1. cloudQ' = cloudQ \o <<Ready(current_cfg'), Send(current_cfg')>>
    BY <1>1, <1>5 DEF new_config_handle
  <2>2. LastReady(cloudQ', current_cfg') /\ ~NoReady(cloudQ')
    BY <2>1, <1>4, AppendReadySend DEF ConfigTypeOK
  <2> QED BY <1>1, <2>2 DEF CopyInv, Agree
<1>6. CASE current_cfg' = current_cfg
  <2>1. cloudQ' = Append(cloudQ, Send(current_cfg))
    BY <1>1, <1>6 DEF new_config_handle
  <2>2. LastReady(cloudQ', current_cfg) /\ (NoReady(cloudQ') => NoReady(cloudQ))
    BY <2>1, <1>4, AppendSendReady DEF ConfigTypeOK, CopyInv
  <2>3. \A s \in Settings : ~Accepted(s, new[s]) \/ new[s] = current_cfg[s]
    BY <1>3, <1>6 DEF Applied
  <2>4. ASSUME NEW s \in Settings, LastReceived(dataQ, s, copy_cfg[s])
        PROVE  LastReceived(dataQ', s, copy_cfg[s]) \/ ~Accepted(s, copy_cfg[s])
                 \/ copy_cfg[s] = current_cfg[s]
    <3>1. LastReceived(Tail(dataQ), s, copy_cfg[s]) \/ new[s] = copy_cfg[s]
      BY <1>1, <2>4, TailReceived DEF ConfigTypeOK, new
    <3> QED BY <1>1, <2>3, <3>1
  <2> QED BY <1>1, <1>6, <2>2, <2>4, StillExplained
<1> QED BY <1>5, <1>6

LEMMA EmptyAgrees ==
  ASSUME ConfigTypeOK, CopyInv, DataThread, Head(dataQ).type = "EMPTY"
  PROVE  CopyInv'
<1>1. /\ dataQ # << >> /\ dataQ' = Tail(dataQ) /\ cloudQ' = Append(cloudQ, Send(current_cfg))
      /\ UNCHANGED <<current_cfg, copy_cfg, lib, decoding, assigning>>
  BY DEF DataThread, on_config_empty, config_send, cloudVars, dataVars
<1>2. Send(current_cfg) \in CloudMessages /\ Send(current_cfg).type = "SEND"
  BY DEF ConfigTypeOK, Send, CloudMessages
<1>3. LastReady(cloudQ', current_cfg) /\ (NoReady(cloudQ') => NoReady(cloudQ))
  BY <1>1, <1>2, AppendSendReady DEF ConfigTypeOK, CopyInv
<1>4. \A s \in Settings : LastReceived(dataQ, s, copy_cfg[s]) => LastReceived(dataQ', s, copy_cfg[s])
  BY <1>1, TailReceived DEF ConfigTypeOK
<1> QED BY <1>1, <1>3, <1>4, StillExplained

LEMMA InitAgrees == ASSUME Init PROVE CopyInv
<1>1. DOMAIN lib = {} /\ DOMAIN assigning = {} /\ LastReady(cloudQ, current_cfg)
  BY EmptyLast DEF Init
<1>2. \A s \in Settings : Explained(s)
  BY DEF Init, Explained
<1> QED BY <1>1, <1>2 DEF CopyInv, Agree

LEMMA CopyStep == ASSUME ConfigTypeOK, CopyInv, [Next]_vars PROVE CopyInv'
<1> USE DEF dataVars, cloudVars, shadowVars, bounds
<1>1. CASE UNCHANGED <<current_cfg, copy_cfg, lib, decoding, assigning, dataQ, cloudQ>>
  BY <1>1, StillExplained DEF CopyInv
<1>2. CASE Reboot
  <2>1. DOMAIN lib' = {} /\ DOMAIN assigning' = {} /\ LastReady(cloudQ', current_cfg')
    BY <1>2, EmptyLast DEF Reboot
  <2>2. \A s \in Settings : Explained(s)'
    BY <1>2 DEF Reboot, Explained
  <2> QED BY <2>1, <2>2 DEF CopyInv, Agree
<1>3. CASE LibraryThread
  <2>1. CASE config_data_handle /\ Head(inbox) = << >>
    <3>1. /\ dataQ' = Append(dataQ, [type |-> "EMPTY"])
          /\ UNCHANGED <<current_cfg, copy_cfg, lib, decoding, assigning, cloudQ>>
      BY <2>1 DEF config_data_handle
    <3>2. [type |-> "EMPTY"] \in DataMessages
      BY DEF DataMessages
    <3>3. \A s \in Settings :
            LastReceived(dataQ, s, copy_cfg[s]) => LastReceived(dataQ', s, copy_cfg[s])
      BY <3>1, <3>2, AppendReceived DEF ConfigTypeOK
    <3> QED BY <3>1, <3>3, StillExplained DEF CopyInv
  <2>2. CASE config_data_handle /\ Head(inbox) # << >>
    <3>1. decoding' /\ UNCHANGED <<current_cfg, copy_cfg, assigning, cloudQ>>
      BY <2>2 DEF config_data_handle
    <3>2. \A s \in Settings : Explained(s)'
      BY <3>1 DEF Explained
    <3> QED BY <3>1, <3>2 DEF CopyInv, Agree
  <2>3. CASE DecodeSetting
    <3>1. decoding' /\ UNCHANGED <<current_cfg, assigning, cloudQ>>
      BY <2>3 DEF DecodeSetting, CopyInv
    <3>2. \A s \in Settings : Explained(s)'
      BY <3>1 DEF Explained
    <3> QED BY <3>1, <3>2 DEF CopyInv, Agree
  <2> QED BY <1>3, <2>1, <2>2, <2>3, SendReceivedAgrees DEF LibraryThread
<1>4. CASE TakeSend
  <2>1. /\ cloudQ # << >> /\ Head(cloudQ).type = "SEND" /\ cloudQ' = Tail(cloudQ)
        /\ UNCHANGED <<current_cfg, copy_cfg, lib, decoding, assigning, dataQ>>
    BY <1>4 DEF TakeSend
  <2>2. LastReady(cloudQ', current_cfg) /\ (NoReady(cloudQ') => NoReady(cloudQ))
    BY <2>1, TailReady DEF ConfigTypeOK, CopyInv
  <2> QED BY <2>1, <2>2, StillExplained
<1>5. CASE UserChange \/ Connect \/ Disconnect \/ SendReport
  BY <1>1, <1>5 DEF UserChange, Connect, Disconnect, SendReport
<1>6. CASE UNCHANGED vars
  BY <1>1, <1>6 DEF vars
<1> QED BY <1>2, <1>3, <1>4, <1>5, <1>6, TakeReadyAgrees, AssignAgrees, HandleAgrees, EmptyAgrees
        DEF Next, CloudThread

\* At rest, the cloud module's copy is what is in force but for values out of range,
\* although two threads write it without a lock (cloud_module.c, config_data_handle
\* and on_all_states).
THEOREM CopyIsWhatIsInForce == Spec => []CopyFollows
<1>1. Init => ConfigTypeOK /\ CopyInv
  BY InitType, InitAgrees, ConfigAssumption
<1>2. (ConfigTypeOK /\ CopyInv) /\ [Next]_vars => (ConfigTypeOK /\ CopyInv)'
  BY TypeStep, CopyStep
<1>3. CopyInv => CopyFollows
  <2> SUFFICES ASSUME CopyInv, Quiet, NEW s \in Settings, Accepted(s, copy_cfg[s])
               PROVE  copy_cfg[s] = current_cfg[s]
    BY DEF CopyFollows
  <2>1. DOMAIN cloudQ = {} /\ DOMAIN dataQ = {} /\ DOMAIN assigning = {} /\ ~decoding
    BY EmptyLast DEF Quiet
  <2>2. NoReady(cloudQ) /\ ~LastReceived(dataQ, s, copy_cfg[s])
    BY <2>1 DEF NoReady, LastReceived
  <2> QED BY <2>1, <2>2 DEF CopyInv, Agree, Explained
<1> QED BY <1>1, <1>2, <1>3, PTL DEF Spec
===============================================================================
