---------------------------- MODULE ShutdownProofs ----------------------------
(* Proofs about ShutdownProtocol: the module registry counts whom it waits     *)
(* for, the early reboot waits for all of them, and a purge is reported.       *)
EXTENDS ShutdownProtocol, FiniteSetTheorems, TLAPS

-----------------------------------------------------------------------------
(* Positions in a queue of events.                                            *)

Occurs(type, q) == \E i \in DOMAIN q : q[i].type = type
Once(type, q) == \A i, j \in DOMAIN q : q[i].type = type /\ q[j].type = type => i = j

\* Acknowledgements that name a module.
IsAck(e) == e.type = "SHUTDOWN_READY" /\ e.id # 0
AckAt(q) == {i \in DOMAIN q : IsAck(q[i])}

-----------------------------------------------------------------------------
(* The inductive invariant.                                                   *)

\* The modules among S that module_start() has counted and that have not been
\* deregistered.
Registered(S) == {m \in S : m \in module_list \/ phase[m] = "counted"}

Counted ==
  /\ shutdown_supported_count = Cardinality(Registered(Supports))
  /\ active_modules_count = Cardinality(Registered(Modules))

\* A module has its id from module_start() on, and is linked at its end.
StartInv ==
  /\ cycle # 0
  /\ \A m \in Modules : m \in module_list \/ phase[m] = "counted" => id[m] # 0
  /\ \A t \in Threaded : phase[t] \in {"boot", "counted"} => t \notin module_list
  /\ \A t \in Threaded : phase[t] = "boot" <=> id[t] = 0
  /\ \A m \in Threadless : phase[m] # "counted"

\* APP_EVT_START is submitted once; the modules without a thread start on it.
AppStartInv ==
  /\ Once("APP_START", events)
  /\ Occurs("APP_START", events) => mainStarted
  /\ ~mainStarted \/ Occurs("APP_START", events) =>
       current.type # "APP_START" /\ \A m \in Threadless : id[m] = 0
  /\ current.type = "APP_START" => \A m \in todo : id[m] = 0

\* The shutdown is requested once: whom the request may still reach has not
\* acknowledged it.
RequestInv ==
  /\ Once("SHUTDOWN_REQUEST", events)
  /\ Occurs("SHUTDOWN_REQUEST", events) => error_signaled
  /\ util_state = "STATE_REBOOT_PENDING" => error_signaled
  /\ ~error_signaled \/ Occurs("SHUTDOWN_REQUEST", events) =>
       /\ current.type # "SHUTDOWN_REQUEST"
       /\ \A t \in Threaded : ~Occurs("SHUTDOWN_REQUEST", queue[t])
       /\ \A m \in Modules : phase[m] # "shutdown"
  /\ current.type = "SHUTDOWN_REQUEST" => \A m \in todo : phase[m] # "shutdown"
  /\ \A t \in Threaded :
       /\ Once("SHUTDOWN_REQUEST", queue[t])
       /\ Occurs("SHUTDOWN_REQUEST", queue[t]) => phase[t] # "shutdown"

\* Deregistered modules and acknowledgements still to be read are not more than the
\* modules that have acknowledged, also if two modules have the same id.
Shut == {m \in Started : phase[m] = "shutdown"}
Gone == Started \ Registered(Supports)
Reading == IF IsAck(current) /\ Util \in todo THEN 1 ELSE 0
AcksInv == Cardinality(Gone) + Cardinality(AckAt(events)) + Reading <= Cardinality(Shut)

\* The error of a purge is waiting, being handed out, or has been seen.
PurgeInv ==
  dropped => \/ error_signaled
             \/ Occurs("ERROR", events)
             \/ current.type = "ERROR" /\ Util \in todo

\* If cycle counts differ, ids do.  Until a request, nothing is deregistered; while
\* the utility module counts, an acknowledgement of a module it knows is on its
\* way; and it has not missed the last one.
IdsDiffer ==
  /\ \A m \in Modules : id[m] <= cycle
  /\ \A m, n \in Modules : id[m] = id[n] /\ id[m] # 0 => m = n
OnItsWay(m) ==
  \/ \E i \in DOMAIN events : events[i] = Ack(m)
  \/ current = Ack(m) /\ Util \in todo
EarlyInv ==
  /\ ~error_signaled => reboot_work = "idle" /\ Gone = {}
  /\ util_state = "STATE_REBOOT_PENDING" =>
       \A m \in Shut \cap Registered(Supports) : OnItsWay(m)
  /\ Gone # {} /\ Registered(Supports) = {} => reboot_work = "short"

-----------------------------------------------------------------------------
(* Sequences of events.                                                       *)

LEMMA AppendElements ==
  ASSUME NEW S, NEW q \in Seq(S), NEW e \in S
  PROVE  /\ Append(q, e) \in Seq(S) /\ Len(q) \in Nat
         /\ DOMAIN q = 1 .. Len(q) /\ DOMAIN Append(q, e) = 1 .. Len(q) + 1
         /\ \A n \in DOMAIN q : Append(q, e)[n] = q[n]
         /\ Append(q, e)[Len(q) + 1] = e
  OBVIOUS

LEMMA TailElements ==
  ASSUME NEW S, NEW q \in Seq(S), q # << >>
  PROVE  /\ Tail(q) \in Seq(S) /\ Head(q) \in S
         /\ 1 \in DOMAIN q /\ Head(q) = q[1] /\ Len(q) \in Nat
         /\ DOMAIN q = 1 .. Len(q) /\ DOMAIN Tail(q) = 1 .. Len(q) - 1
         /\ \A n \in DOMAIN Tail(q) : n + 1 \in DOMAIN q /\ Tail(q)[n] = q[n + 1]
         /\ \A n \in DOMAIN q : n = 1 \/ (n - 1 \in DOMAIN Tail(q) /\ Tail(q)[n - 1] = q[n])
  OBVIOUS

LEMMA ConcatElements ==
  ASSUME NEW S, NEW q \in Seq(S), NEW r \in Seq(S)
  PROVE  /\ q \o r \in Seq(S) /\ Len(q) \in Nat /\ Len(r) \in Nat
         /\ DOMAIN q = 1 .. Len(q) /\ DOMAIN r = 1 .. Len(r)
         /\ DOMAIN (q \o r) = 1 .. Len(q) + Len(r)
         /\ \A n \in DOMAIN q : (q \o r)[n] = q[n]
         /\ \A n \in DOMAIN r : (q \o r)[Len(q) + n] = r[n]
         /\ \A n \in DOMAIN (q \o r) : n \in DOMAIN q \/ n - Len(q) \in DOMAIN r
  OBVIOUS

\* Where a type occurs after an event was submitted.
LEMMA AppendOccurs ==
  ASSUME NEW q \in Seq(EventSet), NEW e \in EventSet, NEW type
  PROVE  /\ Append(q, e) \in Seq(EventSet)
         /\ Occurs(type, Append(q, e)) <=> Occurs(type, q) \/ e.type = type
         /\ Once(type, q) /\ (e.type = type => ~Occurs(type, q)) => Once(type, Append(q, e))
<1> DEFINE r == Append(q, e)
<1>1. /\ r \in Seq(EventSet) /\ Len(q) \in Nat /\ r[Len(q) + 1] = e
      /\ DOMAIN q = 1 .. Len(q) /\ DOMAIN r = 1 .. Len(q) + 1
      /\ \A n \in DOMAIN q : r[n] = q[n]
  BY AppendElements
<1> HIDE DEF r
<1>2. \A n \in DOMAIN r : n \in DOMAIN q \/ n = Len(q) + 1
  BY <1>1
<1>3. DOMAIN q \subseteq DOMAIN r /\ Len(q) + 1 \in DOMAIN r
  BY <1>1
<1>4. Occurs(type, r) <=> Occurs(type, q) \/ e.type = type
  BY <1>1, <1>2, <1>3 DEF Occurs
<1>5. Once(type, q) /\ (e.type = type => ~Occurs(type, q)) => Once(type, r)
  BY <1>1, <1>2 DEF Once, Occurs
<1> QED BY <1>1, <1>4, <1>5 DEF r

\* Where it occurs after an event was taken.
LEMMA TailOccurs ==
  ASSUME NEW q \in Seq(EventSet), q # << >>, NEW type
  PROVE  /\ Tail(q) \in Seq(EventSet) /\ Head(q) \in EventSet
         /\ Occurs(type, q) <=> Occurs(type, Tail(q)) \/ Head(q).type = type
         /\ Once(type, q) => /\ Once(type, Tail(q))
                             /\ Head(q).type = type => ~Occurs(type, Tail(q))
<1> DEFINE r == Tail(q)
<1>1. /\ r \in Seq(EventSet) /\ Head(q) \in EventSet /\ 1 \in DOMAIN q /\ Head(q) = q[1]
      /\ DOMAIN q = 1 .. Len(q) /\ DOMAIN r = 1 .. Len(q) - 1 /\ Len(q) \in Nat
      /\ \A n \in DOMAIN r : n + 1 \in DOMAIN q /\ r[n] = q[n + 1]
      /\ \A n \in DOMAIN q : n = 1 \/ (n - 1 \in DOMAIN r /\ r[n - 1] = q[n])
  BY TailElements
<1> HIDE DEF r
<1>2. Occurs(type, q) <=> Occurs(type, r) \/ Head(q).type = type
  BY <1>1 DEF Occurs
<1>3. \A n \in DOMAIN r : n \in Nat /\ n # 0
  BY <1>1
<1>4. ASSUME Once(type, q) PROVE Once(type, r)
  <2> SUFFICES ASSUME NEW i \in DOMAIN r, NEW j \in DOMAIN r, r[i].type = type, r[j].type = type
               PROVE  i = j
    BY DEF Once
  <2>1. i + 1 = j + 1
    BY <1>1, <1>4 DEF Once
  <2> QED BY <2>1, <1>3
<1>5. ASSUME Once(type, q), Head(q).type = type PROVE ~Occurs(type, r)
  <2> SUFFICES ASSUME NEW i \in DOMAIN r, r[i].type = type PROVE FALSE
    BY DEF Occurs
  <2>1. i + 1 = 1
    BY <1>1, <1>5 DEF Once
  <2> QED BY <2>1, <1>3
<1> QED BY <1>1, <1>2, <1>4, <1>5 DEF r

\* The errors that follow a purge.
LEMMA ErrorsAppended ==
  ASSUME NEW q \in Seq(EventSet), NEW full, IsFiniteSet(full)
  PROVE  LET r == q \o OverflowErrors(full) IN
         /\ r \in Seq(EventSet)
         /\ \A type : type # "ERROR" => (Occurs(type, r) <=> Occurs(type, q))
         /\ \A type : type # "ERROR" /\ Once(type, q) => Once(type, r)
         /\ Occurs("ERROR", q) \/ full # {} => Occurs("ERROR", r)
         /\ AckAt(r) = AckAt(q)
         /\ \A n \in DOMAIN q : n \in DOMAIN r /\ r[n] = q[n]
<1> DEFINE x == OverflowErrors(full)
           r == q \o x
<1>1. Cardinality(full) \in Nat /\ (full # {} => Cardinality(full) # 0)
  BY FS_CardinalityType, FS_EmptySet
<1>2. x \in Seq(EventSet) /\ Len(x) = Cardinality(full)
      /\ \A n \in DOMAIN x : x[n].type = "ERROR"
  <2>1. Ev("ERROR") \in EventSet /\ Ev("ERROR").type = "ERROR"
    BY DEF Ev, EventSet, EventTypes
  <2> QED BY <1>1, <2>1 DEF OverflowErrors
<1> HIDE DEF x
<1>3. /\ r \in Seq(EventSet) /\ Len(q) \in Nat /\ Len(x) \in Nat
      /\ DOMAIN q = 1 .. Len(q) /\ DOMAIN x = 1 .. Len(x)
      /\ DOMAIN r = 1 .. Len(q) + Len(x)
      /\ \A n \in DOMAIN q : r[n] = q[n]
      /\ \A n \in DOMAIN x : r[Len(q) + n] = x[n]
      /\ \A n \in DOMAIN r : n \in DOMAIN q \/ n - Len(q) \in DOMAIN x
  BY <1>2, ConcatElements
<1> HIDE DEF r
<1>4. \A n \in DOMAIN q : n \in DOMAIN r /\ r[n] = q[n]
  BY <1>3
<1>5. \A n \in DOMAIN r : n \in DOMAIN q \/ r[n].type = "ERROR"
  BY <1>2, <1>3
<1>6. \A type : type # "ERROR" => (Occurs(type, r) <=> Occurs(type, q))
  BY <1>4, <1>5 DEF Occurs
<1>7. \A type : type # "ERROR" /\ Once(type, q) => Once(type, r)
  BY <1>4, <1>5 DEF Once
<1>8. ASSUME full # {} PROVE Occurs("ERROR", r)
  <2>1. 1 \in DOMAIN x /\ Len(q) + 1 \in DOMAIN r
    BY <1>1, <1>2, <1>3, <1>8
  <2> QED BY <2>1, <1>2, <1>3 DEF Occurs
<1>9. Occurs("ERROR", q) => Occurs("ERROR", r)
  BY <1>4 DEF Occurs
<1>10. AckAt(r) = AckAt(q)
  BY <1>4, <1>5 DEF AckAt, IsAck
<1> QED BY <1>3, <1>4, <1>6, <1>7, <1>8, <1>9, <1>10 DEF r, x

\* How many acknowledgements wait.
LEMMA AcksFinite ==
  ASSUME NEW q \in Seq(EventSet) PROVE IsFiniteSet(AckAt(q)) /\ Cardinality(AckAt(q)) \in Nat
<1>1. IsFiniteSet(DOMAIN q)
  BY FS_Interval
<1>2. AckAt(q) \subseteq DOMAIN q
  BY DEF AckAt
<1> QED BY <1>1, <1>2, FS_Subset, FS_CardinalityType

LEMMA AcksAppended ==
  ASSUME NEW q \in Seq(EventSet), NEW e \in EventSet
  PROVE  Cardinality(AckAt(Append(q, e))) = Cardinality(AckAt(q)) + (IF IsAck(e) THEN 1 ELSE 0)
<1> DEFINE r == Append(q, e)
<1>1. /\ Len(q) \in Nat /\ r[Len(q) + 1] = e
      /\ DOMAIN q = 1 .. Len(q) /\ DOMAIN r = 1 .. Len(q) + 1
      /\ \A n \in DOMAIN q : r[n] = q[n]
  BY AppendElements
<1> HIDE DEF r
<1>2. AckAt(r) = IF IsAck(e) THEN AckAt(q) \cup {Len(q) + 1} ELSE AckAt(q)
  BY <1>1 DEF AckAt
<1>3. Len(q) + 1 \notin AckAt(q)
  BY <1>1 DEF AckAt
<1>4. IsFiniteSet(AckAt(q)) /\ Cardinality(AckAt(q)) \in Nat
  BY AcksFinite
<1>5. Cardinality(AckAt(q) \cup {Len(q) + 1}) = Cardinality(AckAt(q)) + 1
  BY <1>3, <1>4, FS_AddElement
<1> QED BY <1>2, <1>4, <1>5 DEF r

LEMMA AcksTaken ==
  ASSUME NEW q \in Seq(EventSet), q # << >>
  PROVE  Cardinality(AckAt(q)) = Cardinality(AckAt(Tail(q))) + (IF IsAck(Head(q)) THEN 1 ELSE 0)
<1> DEFINE r == Tail(q)
           rest == AckAt(q) \ {1}
           f == [n \in AckAt(r) |-> n + 1]
<1>1. /\ r \in Seq(EventSet) /\ 1 \in DOMAIN q /\ Head(q) = q[1]
      /\ DOMAIN q = 1 .. Len(q) /\ DOMAIN r = 1 .. Len(q) - 1 /\ Len(q) \in Nat
      /\ \A n \in DOMAIN r : n + 1 \in DOMAIN q /\ r[n] = q[n + 1]
      /\ \A n \in DOMAIN q : n = 1 \/ (n - 1 \in DOMAIN r /\ r[n - 1] = q[n])
  BY TailElements
<1> HIDE DEF r
<1>2. AckAt(r) \subseteq Nat \ {0} /\ AckAt(q) \subseteq Nat
  BY <1>1 DEF AckAt
<1>3. f \in [AckAt(r) -> rest]
  <2>1. \A n \in AckAt(r) : n + 1 \in AckAt(q) /\ n + 1 # 1
    BY <1>1, <1>2 DEF AckAt
  <2> QED BY <2>1
<1>4. \A a, b \in AckAt(r) : f[a] = f[b] => a = b
  BY <1>2
<1>5. \A m \in rest : \E n \in AckAt(r) : f[n] = m
  <2> SUFFICES ASSUME NEW m \in rest PROVE m - 1 \in AckAt(r) /\ f[m - 1] = m
    OBVIOUS
  <2>1. m \in DOMAIN q /\ m # 1 /\ IsAck(q[m]) /\ m \in Nat
    BY <1>2 DEF AckAt
  <2>2. m - 1 \in AckAt(r)
    BY <1>1, <2>1 DEF AckAt
  <2> QED BY <2>1, <2>2
<1>6. f \in Bijection(AckAt(r), rest)
  <2> HIDE DEF f
  <2> QED BY <1>3, <1>4, <1>5 DEF Bijection, Injection, IsInjective, Surjection
<1>7. Cardinality(rest) = Cardinality(AckAt(r))
  BY <1>1, <1>6, AcksFinite, FS_Bijection DEF ExistsBijection
<1>8. 1 \in AckAt(q) <=> IsAck(Head(q))
  BY <1>1 DEF AckAt
<1>9. Cardinality(rest) = IF IsAck(Head(q)) THEN Cardinality(AckAt(q)) - 1 ELSE Cardinality(AckAt(q))
  BY <1>8, AcksFinite, FS_RemoveElement
<1> QED BY <1>7, <1>9, AcksFinite DEF r

-----------------------------------------------------------------------------
(* Events that travel, and who can be told apart.                             *)

LEMMA EvType == ASSUME NEW type \in EventTypes PROVE Ev(type) \in EventSet /\ ~IsAck(Ev(type))
  BY DEF Ev, EventSet, IsAck

LEMMA AckType == ASSUME TypeOK, NEW m \in Modules PROVE Ack(m) \in EventSet
  BY DEF TypeOK, Ack, EventSet, EventTypes

LEMMA ModulesFacts ==
  /\ Util \in Modules /\ Util \in Threadless /\ Util \notin Supports /\ Util \notin Threaded
  /\ Threaded \subseteq Modules /\ Threadless \subseteq Modules /\ Supports \subseteq Modules
  /\ Threaded \cap Threadless = {} /\ Modules = Threaded \cup Threadless
  /\ Threaded \subseteq Supports
  /\ IsFiniteSet(Modules) /\ IsFiniteSet(Supports) /\ IsFiniteSet(Threaded)
<1>1. IsFiniteSet(Supports) /\ IsFiniteSet(Threaded)
  BY ModulesAssumption, FS_Subset DEF Modules
<1> QED BY <1>1, ModulesAssumption DEF Modules

\* What module_start() does with a module's id.
LEMMA StartCountId ==
  ASSUME TypeOK, cycle # 0, NEW m \in Modules, StartCount(m)
  PROVE  /\ id' \in [Modules -> Nat]
         /\ \E now \in Nat : /\ cycle' = now /\ now # 0 /\ id' = [id EXCEPT ![m] = now]
                             /\ now >= cycle /\ (~SameCycle => now = cycle + 1)
<1>1. PICK now \in {cycle + 1} \cup (IF SameCycle THEN {cycle} ELSE {}) :
        cycle' = now /\ id' = [id EXCEPT ![m] = now]
  BY DEF StartCount
<1>2. cycle \in Nat
  BY DEF TypeOK
<1>3. now \in Nat /\ now # 0 /\ now >= cycle
  BY <1>2
<1>4. ~SameCycle => now = cycle + 1
  OBVIOUS
<1>5. id' \in [Modules -> Nat]
  BY <1>1, <1>3 DEF TypeOK
<1> QED BY <1>1, <1>3, <1>4, <1>5

\* What reboot_ack_check() does with the registry.
Deregister(m) ==
  /\ module_list' = module_list \ {m}
  /\ active_modules_count' = active_modules_count - 1
  /\ shutdown_supported_count' = shutdown_supported_count - 1
  /\ reboot_work' = IF shutdown_supported_count' = 0 THEN "short" ELSE reboot_work

\* The cases of the utility module's handler.
UtilStarts ==
  /\ current.type = "APP_START"
  /\ StartCount(Util) /\ StartList(Util) /\ phase' = [phase EXCEPT ![Util] = "running"]
  /\ util_state' = "STATE_INIT" /\ UNCHANGED <<events, error_signaled, reboot_work>>
UtilRequests ==
  /\ current.type = "ERROR" /\ ~error_signaled /\ Submit(Ev("SHUTDOWN_REQUEST"))
  /\ reboot_work' = "long" /\ util_state' = "STATE_REBOOT_PENDING" /\ error_signaled' = TRUE
  /\ UNCHANGED <<phase, registry>>
UtilDeregisters ==
  /\ current.type = "SHUTDOWN_READY" /\ current.id # 0 /\ util_state = "STATE_REBOOT_PENDING"
  /\ \E m \in module_list \cap Supports : id[m] = current.id /\ Deregister(m)
  /\ UNCHANGED <<phase, id, cycle, events, util_state, error_signaled>>
UtilReads ==
  /\ current.type # "APP_START"
  /\ current.type = "ERROR" => error_signaled
  /\ util_state = "STATE_REBOOT_PENDING" /\ IsAck(current) =>
       \A m \in module_list : id[m] = current.id => \E n \in module_list \ Supports : id[n] = id[m]
  /\ UNCHANGED <<phase, id, cycle, module_list, active_modules_count, shutdown_supported_count,
                 events, util_state, error_signaled>>
  /\ reboot_work' = reboot_work \/ reboot_work' = "short"
  /\ reboot_work' # reboot_work => shutdown_supported_count = 0 /\ util_state = "STATE_REBOOT_PENDING"

LEMMA UtilCases ==
  ASSUME TypeOK, RequestInv, NotifyUtil
  PROVE  /\ Seen(Util) /\ UNCHANGED <<queue, mainStarted, rebooted, dropped, bounds>>
         /\ UtilStarts \/ UtilRequests \/ UtilDeregisters \/ UtilReads
<1> SUFFICES UtilStarts \/ UtilRequests \/ UtilDeregisters \/ UtilReads
  BY DEF NotifyUtil
<1>2. CASE current.type = "APP_START"
  BY <1>2 DEF NotifyUtil, UtilStarts
<1>3. CASE current.type # "APP_START" /\ util_state = "STATE_INIT"
  <2>1. /\ on_state_init
        /\ UNCHANGED <<phase, id, cycle, module_list, active_modules_count, shutdown_supported_count>>
    BY <1>3 DEF NotifyUtil
  <2>2. CASE current.type = "ERROR" /\ ~error_signaled
    BY <2>1, <2>2 DEF on_state_init, send_reboot_request, UtilRequests, registry
  <2>3. CASE ~(current.type = "ERROR" /\ ~error_signaled)
    BY <1>3, <2>1, <2>3 DEF on_state_init, send_reboot_request, UtilReads, util
  <2> QED BY <2>2, <2>3
<1>4. CASE current.type # "APP_START" /\ util_state = "STATE_REBOOT_PENDING"
  <2>1. /\ UNCHANGED <<phase, id, cycle, events, util_state, error_signaled>>
        /\ IF current.type = "SHUTDOWN_READY" THEN reboot_ack_check(current.id)
           ELSE UNCHANGED <<module_list, active_modules_count, shutdown_supported_count, reboot_work>>
    BY <1>4 DEF NotifyUtil
  <2>2. current.type = "ERROR" => error_signaled
    BY <1>4 DEF RequestInv
  <2>3. CASE current.type # "SHUTDOWN_READY" \/ current.id = 0
    BY <1>4, <2>1, <2>2, <2>3 DEF reboot_ack_check, UtilReads, IsAck
  <2>4. CASE current.type = "SHUTDOWN_READY" /\ current.id # 0
    <3> DEFINE matching == {m \in module_list : id[m] = current.id}
    <3>1. CASE \E m \in matching \ Supports : UNCHANGED <<module_list, active_modules_count,
                                               shutdown_supported_count, reboot_work>>
      BY <1>4, <2>1, <2>2, <2>4, <3>1 DEF UtilReads
    <3>2. ASSUME NEW m \in matching \cap Supports,
                 module_list' = module_list \ {m},
                 active_modules_count' = active_modules_count - 1,
                 shutdown_supported_count' = shutdown_supported_count - 1,
                 reboot_work' = IF AllReported(shutdown_supported_count') THEN "short" ELSE reboot_work
          PROVE  UtilDeregisters
      BY <1>4, <2>1, <2>4, <3>2 DEF UtilDeregisters, Deregister, AllReported
    <3>3. CASE /\ matching = {}
               /\ UNCHANGED <<module_list, active_modules_count, shutdown_supported_count>>
               /\ reboot_work' = IF AllReported(shutdown_supported_count') THEN "short" ELSE reboot_work
      BY <1>4, <2>1, <2>2, <2>4, <3>3 DEF UtilReads, AllReported
    <3> QED BY <2>1, <2>4, <3>1, <3>2, <3>3 DEF reboot_ack_check
  <2> QED BY <2>3, <2>4
<1> QED BY <1>2, <1>3, <1>4 DEF TypeOK

\* What the event manager's work does to the queues and events.
LEMMA DeliverFacts ==
  ASSUME TypeOK, Deliver
  PROVE  /\ Head(events) \in EventSet /\ events' \in Seq(EventSet)
         /\ queue' \in [Threaded -> Seq(EventSet)]
         /\ \A type : type # "ERROR" => (Occurs(type, events') <=> Occurs(type, Tail(events)))
         /\ \A type : type # "ERROR" /\ Once(type, events) => Once(type, events')
         /\ Occurs("ERROR", Tail(events)) \/ (dropped' /\ ~dropped) => Occurs("ERROR", events')
         /\ AckAt(events') = AckAt(Tail(events))
         /\ \A n \in DOMAIN Tail(events) : n \in DOMAIN events' /\ events'[n] = Tail(events)[n]
         /\ \A t \in Threaded : queue'[t] = << >> \/ queue'[t] = Append(queue[t], Head(events))
<1> DEFINE full == {t \in Threaded : Overflows(queue[t], QueueSize)}
<1>1. /\ events # << >> /\ events' = Tail(events) \o OverflowErrors(full)
      /\ queue' = [t \in Threaded |-> Enqueue(queue[t], Head(events), QueueSize)]
      /\ dropped' = (dropped \/ full # {})
  BY DEF Deliver
<1>2. IsFiniteSet(full)
  BY ModulesFacts, FS_Subset
<1> HIDE DEF full
<1>3. events \in Seq(EventSet) /\ queue \in [Threaded -> Seq(EventSet)]
  BY DEF TypeOK
<1>4. Head(events) \in EventSet /\ Tail(events) \in Seq(EventSet)
  BY <1>1, <1>3, TailElements
<1>5. \A t \in Threaded : queue'[t] = << >> \/ queue'[t] = Append(queue[t], Head(events))
  BY <1>1 DEF Enqueue
<1>6. queue' \in [Threaded -> Seq(EventSet)]
  <2>1. \A t \in Threaded : queue[t] \in Seq(EventSet)
    BY <1>3
  <2>2. \A t \in Threaded : Enqueue(queue[t], Head(events), QueueSize) \in Seq(EventSet)
    BY <1>4, <2>1 DEF Enqueue
  <2> QED BY <1>1, <2>2
<1>7. \A type : Once(type, events) => Once(type, Tail(events))
  BY <1>1, <1>3, TailOccurs
<1> QED BY <1>1, <1>2, <1>4, <1>5, <1>6, <1>7, ErrorsAppended

-----------------------------------------------------------------------------
(* Types.                                                                     *)

LEMMA InitType == ASSUME Init PROVE TypeOK
<1>1. << >> \in Seq(EventSet)
  OBVIOUS
<1>2. 0 \in 0 .. MaxErrors /\ 0 \in 0 .. MaxOther
  BY ModulesAssumption
<1>3. queue \in [Threaded -> Seq(EventSet)] /\ id \in [Modules -> Nat]
      /\ phase \in [Modules -> {"boot", "counted", "running", "shutdown"}]
  BY <1>1 DEF Init
<1> QED BY <1>1, <1>2, <1>3 DEF Init, TypeOK

LEMMA SeenType == ASSUME TypeOK, NEW m, Seen(m) PROVE todo' \subseteq Threadless /\ current' \in EventSet \cup {None}
  BY DEF Seen, TypeOK

LEMMA TypeStep ==
  ASSUME TypeOK, StartInv, RequestInv, [Next]_vars,
         active_modules_count' \in Nat, shutdown_supported_count' \in Nat
  PROVE  TypeOK'
<1>1. CASE MainStart
  <2>1. events' \in Seq(EventSet)
    BY <1>1, EvType, AppendElements DEF MainStart, Submit, TypeOK, EventTypes
  <2> QED BY <1>1, <2>1 DEF MainStart, TypeOK, registry, util, bounds
<1>2. ASSUME NEW t \in Threaded, ThreadStart(t) PROVE TypeOK'
  <2>1. /\ UNCHANGED <<events, current, todo, queue, mainStarted, util, rebooted, dropped, bounds>>
        /\ \E p \in {"counted", "running"} : phase' = [phase EXCEPT ![t] = p]
    BY <1>2 DEF ThreadStart
  <2>2. cycle' \in Nat /\ id' \in [Modules -> Nat] /\ module_list' \subseteq Modules
    <3>1. CASE StartCount(t) /\ UNCHANGED module_list
      BY <3>1, StartCountId, ModulesFacts DEF TypeOK, StartInv
    <3>2. CASE StartList(t) /\ UNCHANGED <<id, cycle>>
      BY <3>2, ModulesFacts DEF StartList, TypeOK
    <3> QED BY <1>2, <3>1, <3>2 DEF ThreadStart
  <2> QED BY <2>1, <2>2 DEF TypeOK, util, bounds
<1>3. ASSUME NEW t \in Threaded, ThreadHandle(t) PROVE TypeOK'
  <2>1. queue[t] \in Seq(EventSet) /\ queue[t] # << >> /\ queue' = [queue EXCEPT ![t] = Tail(queue[t])]
        /\ UNCHANGED <<current, todo, registry, mainStarted, util, rebooted, dropped, bounds>>
    BY <1>3 DEF ThreadHandle, TypeOK
  <2>2. queue' \in [Threaded -> Seq(EventSet)]
    BY <2>1, TailElements DEF TypeOK
  <2>3. Ack(t) \in EventSet
    BY AckType, ModulesFacts
  <2>4. events' \in Seq(EventSet)
    <3>1. Append(events, Ack(t)) \in Seq(EventSet) /\ events \in Seq(EventSet)
      BY <2>3 DEF TypeOK
    <3> QED BY <1>3, <3>1 DEF ThreadHandle, Submit
  <2>5. phase' \in [Modules -> {"boot", "counted", "running", "shutdown"}]
    <3>1. phase' = phase \/ phase' = [phase EXCEPT ![t] = "shutdown"]
      BY <1>3 DEF ThreadHandle
    <3> QED BY <3>1 DEF TypeOK
  <2> QED BY <2>1, <2>2, <2>4, <2>5 DEF TypeOK, registry, util, bounds
<1>4. ASSUME NEW m \in Modules, ReportError(m) PROVE TypeOK'
  <2>1. events' \in Seq(EventSet)
    BY <1>4, EvType, AppendElements DEF ReportError, Submit, TypeOK, EventTypes
  <2>2. errors' \in 0 .. MaxErrors
    BY <1>4, ModulesAssumption DEF ReportError, TypeOK
  <2> QED BY <1>4, <2>1, <2>2 DEF ReportError, TypeOK, registry, util
<1>5. CASE Traffic
  <2>1. events' \in Seq(EventSet)
    BY <1>5, EvType, AppendElements DEF Traffic, Submit, TypeOK, EventTypes
  <2>2. others' \in 0 .. MaxOther
    BY <1>5, ModulesAssumption DEF Traffic, TypeOK
  <2> QED BY <1>5, <2>1, <2>2 DEF Traffic, TypeOK, registry, util
<1>6. CASE Deliver
  BY <1>6, DeliverFacts DEF Deliver, TypeOK, registry, util, bounds
<1>7. ASSUME NEW m \in Threadless, NotifyThreadless(m) PROVE TypeOK'
  <2>1. Ack(m) \in EventSet
    BY AckType, ModulesFacts
  <2>2. /\ UNCHANGED <<queue, mainStarted, util, rebooted, dropped, bounds>>
        /\ events' = events \/ events' = Append(events, Ack(m))
        /\ phase' = phase \/ phase' = [phase EXCEPT ![m] = "running"]
             \/ phase' = [phase EXCEPT ![m] = "shutdown"]
    BY <1>7 DEF NotifyThreadless, Submit
  <2>3. cycle' \in Nat /\ id' \in [Modules -> Nat] /\ module_list' \subseteq Modules
    <3>1. CASE StartCount(m) /\ StartList(m)
      BY <3>1, StartCountId, ModulesFacts DEF TypeOK, StartInv, StartList
    <3>2. CASE UNCHANGED registry
      BY <3>2 DEF registry, TypeOK
    <3> QED BY <1>7, <3>1, <3>2 DEF NotifyThreadless
  <2>4. events' \in Seq(EventSet)
    <3>1. Append(events, Ack(m)) \in Seq(EventSet) /\ events \in Seq(EventSet)
      BY <2>1 DEF TypeOK
    <3> QED BY <2>2, <3>1
  <2>5. todo' \subseteq Threadless /\ current' \in EventSet \cup {None}
    BY <1>7, SeenType DEF NotifyThreadless
  <2>6. phase' \in [Modules -> {"boot", "counted", "running", "shutdown"}]
    BY <2>2 DEF TypeOK
  <2> QED BY <2>2, <2>3, <2>4, <2>5, <2>6 DEF TypeOK, util, bounds
<1>8. CASE NotifyUtil
  <2>1. UNCHANGED <<queue, mainStarted, rebooted, dropped, bounds>>
        /\ todo' \subseteq Threadless /\ current' \in EventSet \cup {None}
    BY <1>8, SeenType DEF NotifyUtil
  <2>2. CASE UtilStarts
    <3>1. cycle' \in Nat /\ id' \in [Modules -> Nat] /\ module_list' \subseteq Modules
      BY <2>2, StartCountId, ModulesFacts DEF UtilStarts, TypeOK, StartInv, StartList
    <3> QED BY <2>1, <2>2, <3>1 DEF UtilStarts, TypeOK, bounds
  <2>3. CASE UtilRequests
    <3>1. events' \in Seq(EventSet)
      BY <2>3, EvType, AppendElements DEF UtilRequests, Submit, TypeOK, EventTypes
    <3> QED BY <2>1, <2>3, <3>1 DEF UtilRequests, TypeOK, registry, bounds
  <2>4. CASE UtilDeregisters
    BY <2>1, <2>4 DEF UtilDeregisters, Deregister, TypeOK, bounds
  <2>5. CASE UtilReads
    BY <2>1, <2>5 DEF UtilReads, TypeOK, bounds
  <2> QED BY <1>8, <2>2, <2>3, <2>4, <2>5, UtilCases
<1>9. CASE Reboot
  BY <1>9 DEF Reboot, TypeOK, registry, util, bounds
<1>10. CASE UNCHANGED vars
  BY <1>10 DEF vars, TypeOK, registry, util, bounds
<1> QED BY <1>1, <1>2, <1>3, <1>4, <1>5, <1>6, <1>7, <1>8, <1>9, <1>10 DEF Next

-----------------------------------------------------------------------------
(* The registry, as the steps change it.                                      *)

\* m is counted by module_start().
Joins(m) ==
  /\ id[m] = 0 /\ id'[m] # 0 /\ \A n \in Modules : n # m => id'[n] = id[n]
  /\ m \notin Registered(Modules)
  /\ Registered(Modules)' = Registered(Modules) \cup {m}
  /\ Registered(Supports)' = IF m \in Supports THEN Registered(Supports) \cup {m}
                             ELSE Registered(Supports)
  /\ active_modules_count' = active_modules_count + 1
  /\ shutdown_supported_count' =
       IF m \in Supports THEN shutdown_supported_count + 1 ELSE shutdown_supported_count
  /\ phase'[m] # "shutdown" /\ \A n \in Modules : n # m => phase'[n] = phase[n]

\* Nobody is counted or deregistered.
SameRegistry ==
  /\ id' = id /\ Registered(Modules)' = Registered(Modules)
  /\ Registered(Supports)' = Registered(Supports)
  /\ UNCHANGED <<active_modules_count, shutdown_supported_count>>

\* m acknowledges the shutdown.
Acknowledges(m) ==
  /\ SameRegistry
  /\ phase[m] # "shutdown" /\ phase' = [phase EXCEPT ![m] = "shutdown"]
  /\ events' = Append(events, Ack(m)) /\ m \in Supports

\* m is deregistered for the acknowledgement that is read.
Leaves(m) ==
  /\ NotifyUtil /\ UtilDeregisters /\ id[m] = current.id /\ Deregister(m)
  /\ id' = id /\ phase' = phase
  /\ m \in Registered(Supports)
  /\ Registered(Modules)' = Registered(Modules) \ {m}
  /\ Registered(Supports)' = Registered(Supports) \ {m}
  /\ active_modules_count' = active_modules_count - 1
  /\ shutdown_supported_count' = shutdown_supported_count - 1

Stays == SameRegistry /\ \A m \in Modules : phase'[m] = "shutdown" <=> phase[m] = "shutdown"

LEMMA StartInit == ASSUME Init PROVE StartInv
  BY ModulesFacts DEF Init, StartInv

\* A module that joins without a thread.
LEMMA ThreadlessJoins ==
  ASSUME TypeOK, StartInv, NEW m \in Threadless, id[m] = 0,
         StartCount(m), StartList(m), phase' = [phase EXCEPT ![m] = "running"]
  PROVE  Joins(m) /\ StartInv'
<1>1. m \in Modules /\ m \notin Threaded /\ m \notin module_list /\ phase[m] # "counted"
  BY ModulesFacts DEF StartInv
<1>2. PICK now \in Nat : cycle' = now /\ now # 0 /\ id' = [id EXCEPT ![m] = now]
  BY <1>1, StartCountId DEF StartInv
<1>3. module_list' = module_list \cup {m}
  BY DEF StartList
<1>4. id \in [Modules -> Nat] /\ phase \in [Modules -> {"boot", "counted", "running", "shutdown"}]
  BY DEF TypeOK
<1>5. Registered(Modules)' = Registered(Modules) \cup {m} /\ m \notin Registered(Modules)
  BY <1>1, <1>3, <1>4 DEF Registered
<1>6. Registered(Supports)' = IF m \in Supports THEN Registered(Supports) \cup {m}
                              ELSE Registered(Supports)
  BY <1>1, <1>3, <1>4, ModulesFacts DEF Registered
<1>7. Joins(m)
  BY <1>1, <1>2, <1>4, <1>5, <1>6 DEF Joins, StartCount
<1>8. StartInv'
  BY <1>1, <1>2, <1>3, <1>4, ModulesFacts DEF StartInv
<1> QED BY <1>7, <1>8

\* A thread that is counted, then linked.
LEMMA ThreadJoins ==
  ASSUME TypeOK, StartInv, NEW t \in Threaded, ThreadStart(t)
  PROVE  (Joins(t) \/ Stays) /\ StartInv'
<1>1. t \in Modules /\ t \notin Threadless /\ t \in Supports
  BY ModulesFacts
<1>2. id \in [Modules -> Nat] /\ phase \in [Modules -> {"boot", "counted", "running", "shutdown"}]
  BY DEF TypeOK
<1>3. CASE /\ phase[t] = "boot" /\ phase' = [phase EXCEPT ![t] = "counted"]
           /\ StartCount(t) /\ UNCHANGED module_list
  <2>1. PICK now \in Nat : cycle' = now /\ now # 0 /\ id' = [id EXCEPT ![t] = now]
    BY <1>1, <1>3, StartCountId DEF StartInv
  <2>2. id[t] = 0 /\ t \notin module_list
    BY <1>3 DEF StartInv
  <2>3. Registered(Modules)' = Registered(Modules) \cup {t} /\ t \notin Registered(Modules)
    BY <1>1, <1>2, <1>3, <2>2 DEF Registered
  <2>4. Registered(Supports)' = Registered(Supports) \cup {t}
    BY <1>1, <1>2, <1>3, <2>2, ModulesFacts DEF Registered
  <2>5. Joins(t)
    BY <1>1, <1>2, <1>3, <2>1, <2>2, <2>3, <2>4 DEF Joins, StartCount
  <2>6. StartInv'
    BY <1>1, <1>2, <1>3, <2>1, <2>2, ModulesFacts DEF StartInv
  <2> QED BY <2>5, <2>6
<1>4. CASE /\ phase[t] = "counted" /\ phase' = [phase EXCEPT ![t] = "running"]
           /\ StartList(t) /\ UNCHANGED <<id, cycle, active_modules_count, shutdown_supported_count>>
  <2>1. module_list' = module_list \cup {t}
    BY <1>4 DEF StartList
  <2>2. Registered(Modules)' = Registered(Modules) /\ Registered(Supports)' = Registered(Supports)
    BY <1>1, <1>2, <1>4, <2>1, ModulesFacts DEF Registered
  <2>3. Stays
    BY <1>1, <1>2, <1>4, <2>2 DEF Stays, SameRegistry
  <2>4. StartInv'
    BY <1>1, <1>2, <1>4, <2>1, ModulesFacts DEF StartInv
  <2> QED BY <2>3, <2>4
<1> QED BY <1>3, <1>4 DEF ThreadStart

\* Steps that leave phases and registry alone.
LEMMA NothingRegistered ==
  ASSUME UNCHANGED <<phase, registry>> PROVE Stays /\ (StartInv => StartInv')
  BY DEF registry, Stays, SameRegistry, Registered, StartInv

\* A module that has started, or has no thread, acknowledges.
LEMMA AckRegistry ==
  ASSUME TypeOK, StartInv, NEW m \in Supports, phase[m] \in {"running", "shutdown"} \/ m \in Threadless,
         phase[m] # "shutdown", phase' = [phase EXCEPT ![m] = "shutdown"],
         events' = Append(events, Ack(m)), UNCHANGED registry
  PROVE  Acknowledges(m) /\ StartInv'
<1>1. /\ phase \in [Modules -> {"boot", "counted", "running", "shutdown"}] /\ m \in Modules
      /\ UNCHANGED <<id, cycle, module_list, active_modules_count, shutdown_supported_count>>
  BY ModulesFacts DEF TypeOK, registry
<1>2. phase[m] # "counted" /\ phase'[m] # "counted" /\ \A n \in Modules : n # m => phase'[n] = phase[n]
  BY <1>1 DEF StartInv
<1>3. Registered(Modules)' = Registered(Modules) /\ Registered(Supports)' = Registered(Supports)
  BY <1>1, <1>2, ModulesFacts DEF Registered
<1>4. StartInv'
  <2>1. \A n \in Modules : phase'[n] \in {"boot", "counted"} => phase[n] = phase'[n]
    BY <1>1, <1>2
  <2>2. \A t \in Threaded : phase'[t] = "boot" <=> id[t] = 0
    BY <1>1, <1>2, <2>1, ModulesFacts DEF StartInv
  <2> QED BY <1>1, <1>2, <2>1, <2>2, ModulesFacts DEF StartInv
<1> QED BY <1>1, <1>3, <1>4 DEF Acknowledges, SameRegistry

\* The utility module deregisters a module.
LEMMA LeavesRegistry ==
  ASSUME TypeOK, StartInv, NotifyUtil, UtilDeregisters
  PROVE  /\ \E m \in Supports : Leaves(m)
         /\ StartInv'
<1>1. PICK m \in module_list \cap Supports : id[m] = current.id /\ Deregister(m)
  BY DEF UtilDeregisters
<1>2. /\ module_list' = module_list \ {m} /\ phase[m] # "counted"
      /\ UNCHANGED <<phase, id, cycle>> /\ m \in Modules /\ m \in Registered(Supports)
  BY <1>1, ModulesFacts DEF UtilDeregisters, Deregister, StartInv, Registered
<1>3. Registered(Modules)' = Registered(Modules) \ {m} /\ Registered(Supports)' = Registered(Supports) \ {m}
  BY <1>2 DEF Registered
<1>4. Leaves(m)
  BY <1>1, <1>2, <1>3 DEF Leaves, Deregister
<1>5. StartInv'
  BY <1>2 DEF StartInv
<1> QED BY <1>1, <1>4, <1>5

\* The handlers of the request acknowledge it, and submit nothing else.
LEMMA ThreadAcknowledges ==
  ASSUME TypeOK, StartInv, RequestInv, NEW t \in Threaded, ThreadHandle(t)
  PROVE  StartInv' /\ (Acknowledges(t) \/ (Stays /\ events' = events))
<1>1. CASE Head(queue[t]).type = "SHUTDOWN_REQUEST"
  <2>1. queue[t] \in Seq(EventSet) /\ queue[t] # << >>
    BY DEF ThreadHandle, TypeOK
  <2>2. Occurs("SHUTDOWN_REQUEST", queue[t])
    BY <1>1, <2>1, TailOccurs
  <2>3. phase[t] # "shutdown"
    BY <2>2 DEF RequestInv
  <2> QED BY <1>1, <2>3, AckRegistry, ModulesFacts DEF ThreadHandle, Submit
<1>2. CASE Head(queue[t]).type # "SHUTDOWN_REQUEST"
  BY <1>2, NothingRegistered DEF ThreadHandle
<1> QED BY <1>1, <1>2

LEMMA ThreadlessAcknowledges ==
  ASSUME TypeOK, StartInv, AppStartInv, RequestInv, NEW m \in Threadless, NotifyThreadless(m)
  PROVE  StartInv' /\ (Acknowledges(m) \/ ((Joins(m) \/ Stays) /\ events' = events))
<1>1. m \in todo
  BY DEF NotifyThreadless, Seen
<1>2. CASE current.type = "APP_START"
  <2>1. id[m] = 0
    BY <1>1, <1>2 DEF AppStartInv
  <2> QED BY <1>2, <2>1, ThreadlessJoins DEF NotifyThreadless
<1>3. CASE current.type = "SHUTDOWN_REQUEST" /\ m \in Supports
  <2>1. phase[m] # "shutdown"
    BY <1>1, <1>3, ModulesFacts DEF RequestInv
  <2> QED BY <1>3, <2>1, AckRegistry DEF NotifyThreadless, Submit
<1>4. CASE current.type # "APP_START" /\ ~(current.type = "SHUTDOWN_REQUEST" /\ m \in Supports)
  BY <1>4, NothingRegistered DEF NotifyThreadless
<1> QED BY <1>2, <1>3, <1>4

LEMMA RegistryCases ==
  ASSUME TypeOK, StartInv, AppStartInv, RequestInv, [Next]_vars
  PROVE  /\ StartInv'
         /\ \/ Stays
            \/ \E m \in Modules : Joins(m) \/ Acknowledges(m) \/ Leaves(m)
<1>1. CASE MainStart \/ (\E m \in Modules : ReportError(m)) \/ Traffic \/ Deliver \/ UNCHANGED vars
  BY <1>1, NothingRegistered DEF MainStart, ReportError, Traffic, Deliver, vars
<1>2. ASSUME NEW t \in Threaded, ThreadStart(t)
      PROVE  StartInv' /\ (Stays \/ \E m \in Modules : Joins(m))
  BY <1>2, ThreadJoins, ModulesFacts
<1>3. ASSUME NEW t \in Threaded, ThreadHandle(t)
      PROVE  StartInv' /\ (Stays \/ \E m \in Modules : Acknowledges(m))
  BY <1>3, ThreadAcknowledges, ModulesFacts
<1>4. ASSUME NEW m \in Threadless, NotifyThreadless(m)
      PROVE  StartInv' /\ (Stays \/ \E n \in Modules : Joins(n) \/ Acknowledges(n))
  BY <1>4, ThreadlessAcknowledges, ModulesFacts
<1>5. CASE NotifyUtil
  <2>1. CASE UtilStarts
    <3>1. id[Util] = 0
      BY <1>5, <2>1 DEF UtilStarts, NotifyUtil, Seen, AppStartInv
    <3> QED BY <2>1, <3>1, ThreadlessJoins, ModulesFacts DEF UtilStarts
  <2>2. CASE UtilRequests
    BY <2>2, NothingRegistered DEF UtilRequests
  <2>3. CASE UtilDeregisters
    BY <1>5, <2>3, LeavesRegistry, ModulesFacts
  <2>4. CASE UtilReads
    BY <2>4, NothingRegistered DEF UtilReads, registry
  <2> QED BY <1>5, <2>1, <2>2, <2>3, <2>4, UtilCases
<1>6. CASE Reboot
  BY <1>6, NothingRegistered DEF Reboot
<1> QED BY <1>1, <1>2, <1>3, <1>4, <1>5, <1>6 DEF Next

LEMMA CountedInit == ASSUME Init PROVE Counted
<1>1. Registered(Supports) = {} /\ Registered(Modules) = {}
  BY ModulesFacts DEF Init, Registered
<1> QED BY <1>1, FS_EmptySet DEF Init, Counted

LEMMA RegisteredFinite ==
  /\ IsFiniteSet(Registered(Supports)) /\ Cardinality(Registered(Supports)) \in Nat
  /\ IsFiniteSet(Registered(Modules)) /\ Cardinality(Registered(Modules)) \in Nat
<1>1. Registered(Supports) \subseteq Supports /\ Registered(Modules) \subseteq Modules
  BY DEF Registered
<1> QED BY <1>1, ModulesFacts, FS_Subset, FS_CardinalityType

\* The counters follow the registry.
LEMMA CountedStep ==
  ASSUME TypeOK, StartInv, AppStartInv, RequestInv, Counted, [Next]_vars
  PROVE  /\ Counted'
         /\ active_modules_count' \in Nat /\ shutdown_supported_count' \in Nat
<1>1. Counted'
  <2>1. CASE Stays
    BY <2>1 DEF Stays, SameRegistry, Counted
  <2>2. ASSUME NEW m \in Modules, Acknowledges(m) PROVE Counted'
    BY <2>2 DEF Acknowledges, SameRegistry, Counted
  <2>3. ASSUME NEW m \in Modules, Joins(m) PROVE Counted'
    <3>1. m \notin Registered(Supports)
      BY <2>3, ModulesFacts DEF Joins, Registered
    <3>2. /\ Cardinality(Registered(Modules) \cup {m}) = Cardinality(Registered(Modules)) + 1
          /\ Cardinality(Registered(Supports) \cup {m}) = Cardinality(Registered(Supports)) + 1
      BY <2>3, <3>1, RegisteredFinite, FS_AddElement DEF Joins
    <3> QED BY <2>3, <3>2 DEF Joins, Counted
  <2>4. ASSUME NEW m \in Modules, Leaves(m) PROVE Counted'
    <3>1. m \in Registered(Modules) /\ m \in Registered(Supports)
      BY <2>4, ModulesFacts DEF Leaves, Registered
    <3>2. /\ Cardinality(Registered(Modules) \ {m}) = Cardinality(Registered(Modules)) - 1
          /\ Cardinality(Registered(Supports) \ {m}) = Cardinality(Registered(Supports)) - 1
      BY <3>1, RegisteredFinite, FS_RemoveElement
    <3> QED BY <2>4, <3>2 DEF Leaves, Counted
  <2> QED BY <2>1, <2>2, <2>3, <2>4, RegistryCases
<1>2. Cardinality(Registered(Supports)') \in Nat /\ Cardinality(Registered(Modules)') \in Nat
  <2>1. Registered(Supports)' \subseteq Supports /\ Registered(Modules)' \subseteq Modules
    BY DEF Registered
  <2> QED BY <2>1, ModulesFacts, FS_Subset, FS_CardinalityType
<1> QED BY <1>1, <1>2 DEF Counted

-----------------------------------------------------------------------------
(* APP_EVT_START and the shutdown request travel once.                        *)

\* The event a step submits, if any.
Submits(e) == e \in EventSet /\ events' = Append(events, e)

LEMMA SubmitsOnce ==
  ASSUME TypeOK, NEW e, Submits(e), NEW type
  PROVE  /\ Occurs(type, events') <=> Occurs(type, events) \/ e.type = type
         /\ Once(type, events) /\ (e.type = type => ~Occurs(type, events)) => Once(type, events')
  BY AppendOccurs DEF Submits, TypeOK

\* The steps outside the event manager submit at most one event, and only main()
\* an APP_EVT_START.
LEMMA EventsCases ==
  ASSUME TypeOK, StartInv, AppStartInv, RequestInv, [Next]_vars, ~Deliver
  PROVE  \/ UNCHANGED <<events, mainStarted>>
         \/ \E e \in EventSet :
                  /\ Submits(e)
                  /\ e.type = "APP_START" => ~mainStarted /\ mainStarted' /\ current' = current
                  /\ e.type # "APP_START" => mainStarted' = mainStarted
                  /\ e.type = "SHUTDOWN_REQUEST" => UtilRequests
                  /\ e.type = "SHUTDOWN_READY" => \E m \in Modules : Acknowledges(m)
<1>1. CASE MainStart
  <2>1. /\ Submits(Ev("APP_START")) /\ Ev("APP_START").type = "APP_START"
        /\ Ev("APP_START") \in EventSet
    BY <1>1, EvType DEF MainStart, Submit, Submits, EventTypes, Ev
  <2> QED BY <1>1, <2>1 DEF MainStart
<1>2. ASSUME NEW t \in Threaded, ThreadStart(t) PROVE UNCHANGED <<events, mainStarted>>
  BY <1>2 DEF ThreadStart
<1>3. ASSUME NEW t \in Threaded, ThreadHandle(t), events' # events
      PROVE  /\ Submits(Ack(t)) /\ Ack(t).type = "SHUTDOWN_READY" /\ mainStarted' = mainStarted
             /\ Acknowledges(t)
  <2>1. Acknowledges(t)
    BY <1>3, ThreadAcknowledges
  <2> QED BY <1>3, <2>1, AckType, ModulesFacts DEF ThreadHandle, Acknowledges, Submits, Ack
<1>4. ASSUME NEW m \in Modules, ReportError(m)
      PROVE  Submits(Ev("ERROR")) /\ Ev("ERROR").type = "ERROR" /\ mainStarted' = mainStarted
  BY <1>4, EvType DEF ReportError, Submit, Submits, EventTypes, Ev
<1>5. ASSUME Traffic
      PROVE  Submits(Ev("OTHER")) /\ Ev("OTHER").type = "OTHER" /\ mainStarted' = mainStarted
  BY <1>5, EvType DEF Traffic, Submit, Submits, EventTypes, Ev
<1>6. ASSUME NEW m \in Threadless, NotifyThreadless(m), events' # events
      PROVE  /\ Submits(Ack(m)) /\ Ack(m).type = "SHUTDOWN_READY" /\ mainStarted' = mainStarted
             /\ Acknowledges(m)
  <2>1. Acknowledges(m)
    BY <1>6, ThreadlessAcknowledges
  <2> QED BY <1>6, <2>1, AckType, ModulesFacts DEF NotifyThreadless, Acknowledges, Submits, Ack
<1>7. ASSUME NEW m \in Threadless, NotifyThreadless(m) PROVE mainStarted' = mainStarted
  BY <1>7 DEF NotifyThreadless
<1>8. ASSUME NotifyUtil, ~UtilRequests PROVE UNCHANGED <<events, mainStarted>>
  BY <1>8, UtilCases DEF UtilStarts, UtilDeregisters, UtilReads
<1>9. ASSUME NotifyUtil, UtilRequests
      PROVE  /\ Submits(Ev("SHUTDOWN_REQUEST")) /\ Ev("SHUTDOWN_REQUEST").type = "SHUTDOWN_REQUEST"
             /\ mainStarted' = mainStarted /\ ~error_signaled /\ error_signaled'
             /\ current.type = "ERROR"
  BY <1>9, EvType DEF NotifyUtil, UtilRequests, Submit, Submits, EventTypes, Ev
<1>10. CASE Reboot \/ UNCHANGED vars
  BY <1>10 DEF Reboot, vars
<1>11. ASSUME NEW t \in Threaded, ThreadHandle(t) PROVE mainStarted' = mainStarted
  BY <1>11 DEF ThreadHandle
<1>12. \A e : Submits(e) => e \in EventSet
  BY DEF Submits
<1> QED BY <1>1, <1>2, <1>3, <1>4, <1>5, <1>6, <1>7, <1>8, <1>9, <1>10, <1>11, <1>12, ModulesFacts DEF Next

\* Outside the event manager's work, the event being handed out does not change
\* until it is dropped, and fewer have to see it.
LEMMA CurrentCases ==
  ASSUME TypeOK, StartInv, RequestInv, [Next]_vars, ~Deliver
  PROVE  /\ current' = current \/ current' = None
         /\ todo' \subseteq todo /\ (todo' # {} => current' = current \/ todo' = todo)
  BY DEF Next, MainStart, ThreadStart, ThreadHandle, ReportError, Traffic, NotifyThreadless,
     NotifyUtil, Seen, Reboot, vars

LEMMA AppStartInit == ASSUME Init PROVE AppStartInv
<1>1. events = << >> /\ current.type = "none" /\ ~mainStarted
  BY DEF Init, None
<1>2. Once("APP_START", events) /\ ~Occurs("APP_START", events)
  BY <1>1 DEF Once, Occurs
<1>3. \A m \in Threadless : id[m] = 0
  BY ModulesFacts DEF Init
<1> QED BY <1>1, <1>2, <1>3 DEF AppStartInv

LEMMA AppStartStep ==
  ASSUME TypeOK, StartInv, AppStartInv, RequestInv, [Next]_vars PROVE AppStartInv'
<1>1. None.type = "none"
  BY DEF None
<1>2. CASE Deliver
  <2>1. events # << >> /\ events \in Seq(EventSet) /\ current' = Head(events)
        /\ UNCHANGED <<id, mainStarted>>
    BY <1>2 DEF Deliver, TypeOK, registry
  <2>2. /\ Occurs("APP_START", events') <=> Occurs("APP_START", Tail(events))
        /\ Once("APP_START", events) => Once("APP_START", events')
    BY <1>2, DeliverFacts
  <2>3. /\ Occurs("APP_START", events) <=> Occurs("APP_START", Tail(events)) \/ Head(events).type = "APP_START"
        /\ Once("APP_START", events) => (Head(events).type = "APP_START" => ~Occurs("APP_START", Tail(events)))
    BY <2>1, TailOccurs
  <2>4. todo' \subseteq Threadless
    BY <1>2 DEF Deliver
  <2> QED BY <2>1, <2>2, <2>3, <2>4 DEF AppStartInv
<1>3. CASE ~Deliver
  <2>1. \A m \in Threadless : id'[m] = id[m] \/ (current.type = "APP_START" /\ m \notin todo')
    <3>1. ASSUME NEW t \in Threaded, ThreadStart(t), NEW m \in Threadless PROVE id'[m] = id[m]
      BY <3>1, ModulesFacts DEF ThreadStart, StartCount, TypeOK
    <3>2. ASSUME NEW n \in Threadless, NotifyThreadless(n), NEW m \in Threadless
          PROVE  id'[m] = id[m] \/ (current.type = "APP_START" /\ m \notin todo')
      BY <3>2, ModulesFacts DEF NotifyThreadless, StartCount, Seen, TypeOK, registry
    <3>3. ASSUME NotifyUtil, NEW m \in Threadless
          PROVE  id'[m] = id[m] \/ (current.type = "APP_START" /\ m \notin todo')
      <4>1. Seen(Util) /\ (UtilStarts \/ id' = id)
        BY <3>3, UtilCases DEF UtilRequests, UtilDeregisters, UtilReads, registry
      <4> QED BY <4>1, ModulesFacts DEF UtilStarts, StartCount, Seen, TypeOK
    <3>4. CASE UNCHANGED id
      BY <3>4
    <3> QED BY <1>3, <3>1, <3>2, <3>3, <3>4 DEF Next, MainStart, ThreadHandle, ReportError, Traffic, Reboot,
            vars, registry
  <2>2. current' = current \/ current' = None
    BY <1>3, CurrentCases
  <2>3. todo' \subseteq todo /\ todo \subseteq Threadless
    BY <1>3, CurrentCases DEF TypeOK
  <2>4. CASE UNCHANGED <<events, mainStarted>>
    BY <1>1, <2>1, <2>2, <2>3, <2>4 DEF AppStartInv
  <2>5. ASSUME NEW e, Submits(e), e.type # "APP_START", mainStarted' = mainStarted PROVE AppStartInv'
    <3>1. /\ Occurs("APP_START", events') <=> Occurs("APP_START", events)
          /\ Once("APP_START", events) => Once("APP_START", events')
      BY <2>5, SubmitsOnce
    <3> QED BY <1>1, <2>1, <2>2, <2>3, <2>5, <3>1 DEF AppStartInv
  <2>6. ASSUME NEW e, Submits(e), e.type = "APP_START", ~mainStarted, mainStarted', current' = current
        PROVE AppStartInv'
    <3>1. ~Occurs("APP_START", events) /\ current.type # "APP_START" /\ \A m \in Threadless : id[m] = 0
      BY <2>6 DEF AppStartInv
    <3>2. Once("APP_START", events')
      BY <2>6, <3>1, SubmitsOnce DEF AppStartInv
    <3> QED BY <2>1, <2>6, <3>1, <3>2 DEF AppStartInv
  <2>7. \/ UNCHANGED <<events, mainStarted>>
        \/ \E e \in EventSet :
                 /\ Submits(e)
                 /\ e.type = "APP_START" => ~mainStarted /\ mainStarted' /\ current' = current
                 /\ e.type # "APP_START" => mainStarted' = mainStarted
    BY <1>3, EventsCases
  <2>8. CASE UNCHANGED <<events, mainStarted>>
    BY <2>4, <2>8
  <2>9. CASE ~UNCHANGED <<events, mainStarted>>
    <3>1. PICK e \in EventSet :
                   /\ Submits(e)
                   /\ e.type = "APP_START" => ~mainStarted /\ mainStarted' /\ current' = current
                   /\ e.type # "APP_START" => mainStarted' = mainStarted
      BY <2>7, <2>9
    <3> QED BY <2>5, <2>6, <3>1
  <2> QED BY <2>8, <2>9
<1> QED BY <1>2, <1>3

LEMMA RequestInit == ASSUME Init PROVE RequestInv
<1>1. events = << >> /\ current.type = "none" /\ util_state = "STATE_INIT"
      /\ \A t \in Threaded : queue[t] = << >>
  BY DEF Init, None
<1>2. \A m \in Modules : phase[m] # "shutdown"
  BY DEF Init
<1>3. \A q : q = << >> => Once("SHUTDOWN_REQUEST", q) /\ ~Occurs("SHUTDOWN_REQUEST", q)
  BY DEF Once, Occurs
<1> QED BY <1>1, <1>2, <1>3 DEF RequestInv

\* The request is handed to the threads' queues all at once.
LEMMA RequestDelivered ==
  ASSUME TypeOK, RequestInv, Deliver PROVE RequestInv'
<1>1. events # << >> /\ events \in Seq(EventSet) /\ current' = Head(events)
      /\ UNCHANGED <<phase, error_signaled, util_state>>
  BY DEF Deliver, TypeOK, util
<1>2. todo' \subseteq Modules
  BY ModulesFacts DEF Deliver
<1>3. /\ Occurs("SHUTDOWN_REQUEST", events') <=> Occurs("SHUTDOWN_REQUEST", Tail(events))
      /\ Once("SHUTDOWN_REQUEST", events) => Once("SHUTDOWN_REQUEST", events')
  BY DeliverFacts
<1>4. /\ Occurs("SHUTDOWN_REQUEST", events) <=>
            Occurs("SHUTDOWN_REQUEST", Tail(events)) \/ Head(events).type = "SHUTDOWN_REQUEST"
      /\ Once("SHUTDOWN_REQUEST", events) =>
            (Head(events).type = "SHUTDOWN_REQUEST" => ~Occurs("SHUTDOWN_REQUEST", Tail(events)))
  BY <1>1, TailOccurs
<1>5. ASSUME NEW t \in Threaded
      PROVE  \/ ~Occurs("SHUTDOWN_REQUEST", queue'[t]) /\ Once("SHUTDOWN_REQUEST", queue'[t])
             \/ /\ Occurs("SHUTDOWN_REQUEST", queue'[t]) <=>
                     Occurs("SHUTDOWN_REQUEST", queue[t]) \/ Head(events).type = "SHUTDOWN_REQUEST"
                /\ /\ Once("SHUTDOWN_REQUEST", queue[t])
                   /\ Head(events).type = "SHUTDOWN_REQUEST" => ~Occurs("SHUTDOWN_REQUEST", queue[t])
                   => Once("SHUTDOWN_REQUEST", queue'[t])
  <2>1. queue[t] \in Seq(EventSet) /\ Head(events) \in EventSet
    BY DeliverFacts DEF TypeOK
  <2>2. CASE queue'[t] = << >>
    BY <2>2 DEF Once, Occurs
  <2>3. CASE queue'[t] = Append(queue[t], Head(events))
    BY <2>1, <2>3, AppendOccurs
  <2> QED BY <2>2, <2>3, DeliverFacts
<1>6. CASE ~error_signaled \/ Occurs("SHUTDOWN_REQUEST", events)
  <2>1. \A t \in Threaded : Once("SHUTDOWN_REQUEST", queue'[t])
    BY <1>5, <1>6 DEF RequestInv
  <2>2. Head(events).type # "SHUTDOWN_REQUEST" =>
          \A t \in Threaded : ~Occurs("SHUTDOWN_REQUEST", queue'[t])
    BY <1>5, <1>6 DEF RequestInv
  <2>3. (\A m \in Modules : phase[m] # "shutdown") /\ Threaded \subseteq Modules
    BY <1>6, ModulesFacts DEF RequestInv
  <2> QED BY <1>1, <1>2, <1>3, <1>4, <2>1, <2>2, <2>3 DEF RequestInv
<1>7. CASE error_signaled /\ ~Occurs("SHUTDOWN_REQUEST", events)
  <2>1. Head(events).type # "SHUTDOWN_REQUEST" /\ ~Occurs("SHUTDOWN_REQUEST", events')
    BY <1>3, <1>4, <1>7
  <2>2. \A t \in Threaded : /\ Once("SHUTDOWN_REQUEST", queue'[t])
                            /\ Occurs("SHUTDOWN_REQUEST", queue'[t]) => phase[t] # "shutdown"
    BY <1>5, <2>1 DEF RequestInv
  <2>3. Once("SHUTDOWN_REQUEST", events') /\ error_signaled'
    BY <1>1, <1>3, <1>7 DEF RequestInv
  <2>4. current'.type # "SHUTDOWN_REQUEST"
    BY <1>1, <2>1
  <2> QED BY <1>1, <2>1, <2>2, <2>3, <2>4 DEF RequestInv
<1> QED BY <1>6, <1>7 DEF TypeOK

\* What else may have changed when the request is not handed out: queues shrink, a
\* module that has the request acknowledges it.
LEMMA RequestStep ==
  ASSUME TypeOK, StartInv, AppStartInv, RequestInv, [Next]_vars PROVE RequestInv'
<1> DEFINE R == "SHUTDOWN_REQUEST"
<1>1. None.type = "none"
  BY DEF None
<1>2. CASE Deliver
  BY <1>2, RequestDelivered
<1>3. ASSUME NEW t \in Threaded, ThreadHandle(t) PROVE RequestInv'
  <2>1. /\ queue[t] \in Seq(EventSet) /\ queue[t] # << >> /\ queue' = [queue EXCEPT ![t] = Tail(queue[t])]
        /\ UNCHANGED <<current, todo, error_signaled, util_state>> /\ current = None
    BY <1>3 DEF ThreadHandle, TypeOK, util, Idle
  <2>2. /\ Occurs(R, queue[t]) <=> Occurs(R, queue'[t]) \/ Head(queue[t]).type = R
        /\ Once(R, queue'[t]) /\ (Head(queue[t]).type = R => ~Occurs(R, queue'[t]))
        /\ \A u \in Threaded : u # t => queue'[u] = queue[u]
    BY <2>1, TailOccurs DEF RequestInv, TypeOK
  <2>3. (Occurs(R, events') <=> Occurs(R, events)) /\ Once(R, events')
    <3>1. CASE events' = events
      BY <3>1 DEF RequestInv
    <3>2. CASE events' = Append(events, Ack(t))
      <4>1. Submits(Ack(t)) /\ Ack(t).type # R
        BY <3>2, AckType, ModulesFacts DEF Submits, Ack
      <4> QED BY <4>1, SubmitsOnce DEF RequestInv
    <3> QED BY <1>3, <3>1, <3>2 DEF ThreadHandle, Submit
  <2>4. CASE Head(queue[t]).type = R
    <3>1. phase' = [phase EXCEPT ![t] = "shutdown"] /\ error_signaled /\ ~Occurs(R, events)
      BY <1>3, <2>2, <2>4 DEF ThreadHandle, RequestInv
    <3>2. \A u \in Threaded : u # t => phase'[u] = phase[u]
      BY <3>1, ModulesFacts DEF TypeOK
    <3> QED BY <1>1, <2>1, <2>2, <2>3, <2>4, <3>1, <3>2 DEF RequestInv
  <2>5. CASE Head(queue[t]).type # R
    <3>1. phase' = phase
      BY <1>3, <2>5 DEF ThreadHandle
    <3> QED BY <1>1, <2>1, <2>2, <2>3, <2>5, <3>1 DEF RequestInv
  <2> QED BY <2>4, <2>5
<1>4. ASSUME NEW m \in Threadless, NotifyThreadless(m) PROVE RequestInv'
  <2>1. /\ UNCHANGED <<queue, error_signaled, util_state>>
        /\ m \in todo /\ todo' = todo \ {m} /\ todo \subseteq Modules
        /\ current' = current \/ current' = None
    BY <1>4, ModulesFacts DEF NotifyThreadless, Seen, util, TypeOK
  <2>2. (Occurs(R, events') <=> Occurs(R, events)) /\ Once(R, events')
    <3>1. CASE events' = events
      BY <3>1 DEF RequestInv
    <3>2. CASE events' = Append(events, Ack(m))
      <4>1. Submits(Ack(m)) /\ Ack(m).type # R
        BY <3>2, AckType, ModulesFacts DEF Submits, Ack
      <4> QED BY <4>1, SubmitsOnce DEF RequestInv
    <3> QED BY <1>4, <3>1, <3>2 DEF NotifyThreadless, Submit
  <2>3. m \notin Threaded /\ \A n \in Modules : n # m => phase'[n] = phase[n]
    BY <1>4, ModulesFacts DEF NotifyThreadless, TypeOK
  <2>4. CASE current.type = R
    <3>1. error_signaled /\ ~Occurs(R, events)
      BY <2>4 DEF RequestInv
    <3> QED BY <1>1, <2>1, <2>2, <2>3, <3>1, ModulesFacts DEF RequestInv
  <2>5. CASE current.type # R
    <3>1. phase'[m] = phase[m] \/ phase'[m] = "running"
      BY <1>4, <2>5, ModulesFacts DEF NotifyThreadless, TypeOK
    <3> QED BY <1>1, <2>1, <2>2, <2>3, <2>5, <3>1, ModulesFacts DEF RequestInv
  <2> QED BY <2>4, <2>5
<1>5. CASE NotifyUtil
  <2>1. /\ UNCHANGED queue /\ Util \in todo /\ todo' \subseteq todo
        /\ current' = current \/ current' = None
    BY <1>5 DEF NotifyUtil, Seen
  <2>2. CASE UtilStarts
    <3>1. \A n \in Modules : phase'[n] = "shutdown" => phase[n] = "shutdown"
      BY <2>2 DEF UtilStarts, TypeOK
    <3> QED BY <1>1, <2>1, <2>2, <3>1, ModulesFacts DEF UtilStarts, RequestInv, TypeOK
  <2>3. CASE UtilRequests
    <3>1. Submits(Ev(R)) /\ UNCHANGED phase /\ error_signaled' = TRUE /\ ~error_signaled
      BY <2>3, EvType DEF UtilRequests, Submits, Submit, EventTypes
    <3>2. current.type = "ERROR" /\ ~Occurs(R, events) /\ \A t \in Threaded : ~Occurs(R, queue[t])
      BY <2>3, <3>1 DEF UtilRequests, RequestInv
    <3>3. Once(R, events')
      BY <3>1, <3>2, SubmitsOnce DEF RequestInv
    <3> QED BY <1>1, <2>1, <3>1, <3>2, <3>3 DEF RequestInv
  <2>4. CASE UtilDeregisters \/ UtilReads
    <3>1. UNCHANGED <<events, phase, util_state, error_signaled>>
      BY <2>4 DEF UtilDeregisters, UtilReads
    <3> QED BY <1>1, <2>1, <3>1 DEF RequestInv
  <2> QED BY <1>5, <2>2, <2>3, <2>4, UtilCases
<1>6. ASSUME NEW t \in Threaded, ThreadStart(t) PROVE RequestInv'
  <2>1. /\ UNCHANGED <<events, current, todo, queue, util_state, error_signaled>>
        /\ \A n \in Modules : phase'[n] = "shutdown" => phase[n] = "shutdown"
    BY <1>6 DEF ThreadStart, util, TypeOK
  <2> QED BY <2>1, ModulesFacts DEF RequestInv, TypeOK
<1>7. ASSUME NEW type \in {"APP_START", "ERROR", "OTHER"}, Submit(Ev(type)),
             UNCHANGED <<current, todo, queue, phase, util_state, error_signaled>>
      PROVE  RequestInv'
  <2>1. Submits(Ev(type)) /\ Ev(type).type # R
    BY <1>7, EvType DEF Submits, Submit, EventTypes, Ev
  <2>2. (Occurs(R, events') <=> Occurs(R, events)) /\ Once(R, events')
    BY <2>1, SubmitsOnce DEF RequestInv
  <2> QED BY <1>7, <2>2 DEF RequestInv
<1>8. CASE UNCHANGED <<events, current, todo, queue, phase, util_state, error_signaled>>
  BY <1>8 DEF RequestInv
<1> QED BY <1>2, <1>3, <1>4, <1>5, <1>6, <1>7, <1>8
        DEF Next, MainStart, ReportError, Traffic, Reboot, vars, util, registry

-----------------------------------------------------------------------------
(* A purge is reported.                                                       *)

LEMMA PurgeInit == ASSUME Init PROVE PurgeInv
  BY DEF Init, PurgeInv

LEMMA PurgeStep ==
  ASSUME TypeOK, StartInv, AppStartInv, RequestInv, PurgeInv, [Next]_vars PROVE PurgeInv'
<1>1. CASE Deliver
  <2>1. /\ events # << >> /\ events \in Seq(EventSet) /\ current' = Head(events) /\ todo' = Threadless
        /\ error_signaled' = error_signaled /\ current = None
    BY <1>1 DEF Deliver, TypeOK, util, Idle
  <2>2. Occurs("ERROR", events) <=> Occurs("ERROR", Tail(events)) \/ Head(events).type = "ERROR"
    BY <2>1, TailOccurs
  <2>3. Occurs("ERROR", Tail(events)) \/ (dropped' /\ ~dropped) => Occurs("ERROR", events')
    BY <1>1, DeliverFacts
  <2>4. Util \in todo'
    BY <2>1, ModulesFacts
  <2>5. ASSUME dropped PROVE error_signaled \/ Occurs("ERROR", events)
    BY <2>1, <2>5 DEF PurgeInv, None
  <2> QED BY <2>1, <2>2, <2>3, <2>4, <2>5 DEF PurgeInv
<1>2. CASE ~Deliver
  <2>1. Occurs("ERROR", events) => Occurs("ERROR", events')
    <3>1. ASSUME NEW e, Submits(e), Occurs("ERROR", events) PROVE Occurs("ERROR", events')
      BY <3>1, SubmitsOnce
    <3>2. events' = events \/ \E e \in EventSet : Submits(e)
      BY <1>2, EventsCases
    <3> QED BY <3>1, <3>2
  <2>2. dropped' = dropped
    BY <1>2 DEF Next, MainStart, ThreadStart, ThreadHandle, ReportError, Traffic, NotifyThreadless,
       NotifyUtil, Reboot, vars
  <2>3. error_signaled' = error_signaled \/ error_signaled'
    <3>1. NotifyUtil => error_signaled' = error_signaled \/ error_signaled'
      BY UtilCases DEF UtilStarts, UtilRequests, UtilDeregisters, UtilReads
    <3> QED BY <1>2, <3>1 DEF Next, MainStart, ThreadStart, ThreadHandle, ReportError, Traffic,
            NotifyThreadless, Reboot, vars, util
  <2>4. ASSUME current.type = "ERROR", Util \in todo
        PROVE  error_signaled' \/ (current' = current /\ Util \in todo')
    <3>1. CASE NotifyUtil
      <4>1. UtilStarts \/ UtilRequests \/ UtilDeregisters \/ UtilReads
        BY <3>1, UtilCases
      <4>2. CASE UtilRequests
        BY <4>2 DEF UtilRequests
      <4>3. CASE UtilReads
        BY <2>4, <4>3 DEF UtilReads
      <4> QED BY <2>4, <4>1, <4>2, <4>3 DEF UtilStarts, UtilDeregisters
    <3>2. ASSUME NEW m \in Threadless, NotifyThreadless(m) PROVE current' = current /\ Util \in todo'
      BY <2>4, <3>2 DEF NotifyThreadless, Seen
    <3>3. CASE UNCHANGED <<current, todo>>
      BY <2>4, <3>3
    <3> QED BY <1>2, <3>1, <3>2, <3>3 DEF Next, MainStart, ThreadStart, ThreadHandle, ReportError,
            Traffic, Reboot, vars
  <2> QED BY <2>1, <2>2, <2>3, <2>4 DEF PurgeInv
<1> QED BY <1>1, <1>2

-----------------------------------------------------------------------------
(* No early reboot before all acknowledgements.                               *)

LEMMA StartedFinite ==
  /\ IsFiniteSet(Started) /\ IsFiniteSet(Shut) /\ IsFiniteSet(Gone)
  /\ Cardinality(Shut) \in Nat /\ Cardinality(Gone) \in Nat
<1>1. IsFiniteSet(Started) /\ Shut \subseteq Started /\ Gone \subseteq Started
  BY ModulesFacts, FS_Subset DEF Started, Shut, Gone
<1> QED BY <1>1, FS_Subset, FS_CardinalityType

LEMMA AcksInit == ASSUME Init PROVE AcksInv
<1>1. Gone = {} /\ AckAt(events) = {} /\ Reading = 0 /\ Cardinality({}) = 0
  BY ModulesFacts, FS_EmptySet DEF Init, Gone, Started, AckAt, Reading, IsAck, None
<1> QED BY <1>1, StartedFinite DEF AcksInv

\* The three numbers of AcksInv as a step changes them, when it acknowledges
\* nothing and deregisters nobody.
LEMMA SetsStay ==
  ASSUME TypeOK, Stays PROVE Gone' = Gone /\ Shut' = Shut
  BY ModulesFacts DEF Stays, SameRegistry, Gone, Started, Shut

LEMMA SetsJoin ==
  ASSUME TypeOK, NEW m \in Modules, Joins(m) PROVE Gone' = Gone /\ Shut' = Shut
<1>1. \A n \in Supports : n # m => (n \in Started' <=> n \in Started)
  BY ModulesFacts DEF Joins, Started
<1>2. m \notin Gone /\ m \notin Gone' /\ m \notin Shut /\ m \notin Shut'
  BY DEF Joins, Started, Gone, Shut
<1>3. \A n \in Supports : n # m => (n \in Gone' <=> n \in Gone)
  BY <1>1, ModulesFacts DEF Joins, Gone
<1>4. \A n \in Supports : n # m => (n \in Shut' <=> n \in Shut)
  BY <1>1, ModulesFacts DEF Joins, Shut
<1>5. Gone \subseteq Supports /\ Gone' \subseteq Supports /\ Shut \subseteq Supports /\ Shut' \subseteq Supports
  BY DEF Gone, Shut, Started
<1> QED BY <1>2, <1>3, <1>4, <1>5

LEMMA SetsAcknowledge ==
  ASSUME TypeOK, NEW m \in Modules, Acknowledges(m)
  PROVE  /\ Gone' = Gone
         /\ m \notin Shut /\ Shut' = IF id[m] # 0 THEN Shut \cup {m} ELSE Shut
<1>1. Gone' = Gone
  BY DEF Acknowledges, SameRegistry, Gone, Started
<1>2. \A n \in Modules : phase'[n] = "shutdown" <=> n = m \/ phase[n] = "shutdown"
  BY DEF Acknowledges, TypeOK
<1>3. Shut' = IF id[m] # 0 THEN Shut \cup {m} ELSE Shut
  BY <1>2, ModulesFacts DEF Acknowledges, SameRegistry, Shut, Started
<1> QED BY <1>1, <1>3 DEF Acknowledges, Shut

LEMMA SetsLeave ==
  ASSUME TypeOK, StartInv, NEW m \in Modules, Leaves(m)
  PROVE  Shut' = Shut /\ m \notin Gone /\ Gone' = Gone \cup {m}
<1>1. m \in Started
  BY DEF Leaves, Registered, StartInv, Started
<1> QED BY <1>1 DEF Leaves, Shut, Gone, Started

\* How many acknowledgements wait changes with what is submitted.
LEMMA AcksUnchanged ==
  ASSUME TypeOK, NEW e, Submits(e), ~IsAck(e)
  PROVE  Cardinality(AckAt(events')) = Cardinality(AckAt(events))
<1>1. e \in EventSet /\ events \in Seq(EventSet) /\ events' = Append(events, e)
  BY DEF Submits, TypeOK
<1>2. Cardinality(AckAt(events)) \in Nat
  BY <1>1, AcksFinite
<1> QED BY <1>1, <1>2, AcksAppended

LEMMA AcksStep ==
  ASSUME TypeOK, StartInv, AppStartInv, RequestInv, AcksInv, [Next]_vars PROVE AcksInv'
<1>1. /\ Cardinality(Gone) \in Nat /\ Cardinality(Shut) \in Nat
      /\ Cardinality(AckAt(events)) \in Nat /\ events \in Seq(EventSet)
  BY StartedFinite, AcksFinite DEF TypeOK
<1>2. ASSUME ~Deliver PROVE Reading' <= Reading
  <2>1. /\ current' = current \/ current' = None
        /\ todo' \subseteq todo
    BY <1>2, CurrentCases
  <2> QED BY <2>1 DEF Reading, IsAck, None
<1>3. CASE Deliver
  <2>1. Gone' = Gone /\ Shut' = Shut
    BY <1>3 DEF Deliver, registry, Gone, Shut, Started, Registered
  <2>2. /\ events # << >> /\ current = None /\ current' = Head(events) /\ todo' = Threadless
        /\ AckAt(events') = AckAt(Tail(events))
    BY <1>3, DeliverFacts DEF Deliver, Idle
  <2>3. /\ Reading = 0
        /\ Reading' = IF IsAck(Head(events)) THEN 1 ELSE 0
    BY <2>2, ModulesFacts DEF Reading, IsAck, None
  <2>4. Cardinality(AckAt(events)) = Cardinality(AckAt(events')) + Reading'
    BY <1>1, <2>2, <2>3, AcksTaken
  <2>5. Cardinality(AckAt(events')) \in Nat
    <3>1. Tail(events) \in Seq(EventSet)
      BY <1>1, <2>2, TailElements
    <3> QED BY <2>2, <3>1, AcksFinite
  <2>6. Reading' \in Nat
    BY <2>3
  <2> QED BY <1>1, <2>1, <2>3, <2>4, <2>5, <2>6 DEF AcksInv
<1>4. ASSUME NEW m \in Modules, Acknowledges(m), ~Deliver PROVE AcksInv'
  <2>1. Cardinality(AckAt(events')) = Cardinality(AckAt(events)) + (IF id[m] # 0 THEN 1 ELSE 0)
    <3>1. Ack(m) \in EventSet /\ (IsAck(Ack(m)) <=> id[m] # 0) /\ events' = Append(events, Ack(m))
      BY <1>4, AckType DEF Ack, IsAck, Acknowledges
    <3> QED BY <1>1, <3>1, AcksAppended
  <2>2. Cardinality(Shut') = Cardinality(Shut) + (IF id[m] # 0 THEN 1 ELSE 0)
    <3>1. m \notin Shut /\ Shut' = IF id[m] # 0 THEN Shut \cup {m} ELSE Shut
      BY <1>4, SetsAcknowledge
    <3>2. Cardinality(Shut \cup {m}) = Cardinality(Shut) + 1
      BY <3>1, StartedFinite, FS_AddElement
    <3> QED BY <1>1, <3>1, <3>2
  <2>3. Gone' = Gone
    BY <1>4, SetsAcknowledge
  <2>4. Reading \in {0, 1} /\ Reading' \in {0, 1}
    BY DEF Reading
  <2> QED BY <1>1, <1>2, <1>4, <2>1, <2>2, <2>3, <2>4 DEF AcksInv
<1>5. ASSUME NEW m \in Modules, Leaves(m), UtilDeregisters, NotifyUtil PROVE AcksInv'
  <2>1. Shut' = Shut /\ Gone' = Gone \cup {m} /\ m \notin Gone
    BY <1>5, SetsLeave
  <2>2. Cardinality(Gone') = Cardinality(Gone) + 1
    BY <2>1, StartedFinite, FS_AddElement
  <2>3. Reading = 1 /\ Reading' = 0 /\ events' = events
    BY <1>5 DEF UtilDeregisters, NotifyUtil, Seen, Reading, IsAck
  <2> QED BY <1>1, <2>1, <2>2, <2>3 DEF AcksInv
<1>6. ASSUME ~Deliver, Gone' = Gone, Shut' = Shut,
             Cardinality(AckAt(events')) = Cardinality(AckAt(events))
      PROVE  AcksInv'
  <2>1. Reading \in {0, 1} /\ Reading' \in {0, 1}
    BY DEF Reading
  <2> QED BY <1>1, <1>2, <1>6, <2>1 DEF AcksInv
<1>7. ASSUME ~Deliver, ~\E m \in Modules : Acknowledges(m) \/ Leaves(m) PROVE AcksInv'
  <2>1. Gone' = Gone /\ Shut' = Shut
    BY <1>7, RegistryCases, SetsStay, SetsJoin
  <2>2. Cardinality(AckAt(events')) = Cardinality(AckAt(events))
    <3>1. ASSUME NEW e, Submits(e), e.type # "SHUTDOWN_READY"
          PROVE  Cardinality(AckAt(events')) = Cardinality(AckAt(events))
      BY <3>1, AcksUnchanged DEF IsAck
    <3>2. UNCHANGED events \/ \E e \in EventSet : Submits(e) /\ e.type # "SHUTDOWN_READY"
      BY <1>7, EventsCases
    <3> QED BY <3>1, <3>2
  <2> QED BY <1>6, <1>7, <2>1, <2>2
<1>8. \A m : Leaves(m) => UtilDeregisters /\ NotifyUtil
  BY DEF Leaves
<1> QED BY <1>3, <1>4, <1>5, <1>7, <1>8

-----------------------------------------------------------------------------
(* The theorems.                                                              *)

RegistryInv ==
  TypeOK /\ Counted /\ StartInv /\ AppStartInv /\ RequestInv /\ AcksInv /\ PurgeInv

LEMMA RegistryInit == Init => RegistryInv
  BY InitType, CountedInit, StartInit, AppStartInit, RequestInit, AcksInit, PurgeInit DEF RegistryInv

LEMMA RegistryStep == RegistryInv /\ [Next]_vars => RegistryInv'
<1> SUFFICES ASSUME RegistryInv, [Next]_vars PROVE RegistryInv'
  OBVIOUS
<1>1. TypeOK /\ Counted /\ StartInv /\ AppStartInv /\ RequestInv /\ AcksInv /\ PurgeInv
  BY DEF RegistryInv
<1>2. Counted' /\ TypeOK'
  BY <1>1, CountedStep, TypeStep
<1>3. StartInv' /\ AppStartInv' /\ RequestInv' /\ AcksInv' /\ PurgeInv'
  BY <1>1, RegistryCases, AppStartStep, RequestStep, AcksStep, PurgeStep
<1> QED BY <1>2, <1>3 DEF RegistryInv

LEMMA RegistryInvariant == Spec => []RegistryInv
  BY RegistryInit, RegistryStep, PTL DEF Spec

\* Events, queues, phases and counters keep their types: no acknowledgement, early,
\* late or doubled, takes the registry's counters below zero (modules_common.c).
THEOREM TypeCorrect == Spec => []TypeOK
<1>1. RegistryInv => TypeOK
  BY DEF RegistryInv
<1> QED BY <1>1, RegistryInvariant, PTL

\* shutdown_supported_count is the number of supporting modules between
\* module_start() and their deregistration (modules_common.c).
THEOREM CountIsRegistry == Spec => []CountMatchesRegistry
<1>1. RegistryInv => CountMatchesRegistry
  BY DEF RegistryInv, Counted, CountMatchesRegistry, Pending, Registered
<1> QED BY <1>1, RegistryInvariant, PTL

\* A purge (module_enqueue_msg) is never lost: its error is on its way or has
\* started the reboot (util_module.c).
THEOREM PurgesAreReported == Spec => []PurgeIsReported
<1>1. RegistryInv => PurgeIsReported
  <2>1. ASSUME TypeOK, Occurs("ERROR", events) PROVE InFlight("ERROR")
    <3>1. DOMAIN events = 1 .. Len(events)
      BY <2>1 DEF TypeOK
    <3> QED BY <2>1, <3>1 DEF Occurs, InFlight
  <2> QED BY <2>1 DEF RegistryInv, PurgeInv, PurgeIsReported
<1> QED BY <1>1, RegistryInvariant, PTL

\* The reboot is brought forward only when all supporting modules that have started
\* have shut down (util_module.c, reboot_ack_check), also if two modules got the same
\* id, so that one's acknowledgement deregisters the other.
THEOREM EarlyRebootWaits == Spec => EarlyRebootOnlyAfterAllAcks
<1>1. ASSUME RegistryInv, RegistryInv', [Next]_vars, reboot_work' = "short", reboot_work # "short"
      PROVE  \A m \in Supports : id[m] # 0 => phase[m] = "shutdown"
  <2>1. TypeOK /\ RequestInv /\ AcksInv' /\ Counted' /\ TypeOK'
    BY <1>1 DEF RegistryInv
  <2>2. NotifyUtil /\ (UtilDeregisters \/ UtilReads)
    <3>1. NotifyUtil
      BY <1>1 DEF Next, MainStart, ThreadStart, ThreadHandle, ReportError, Traffic, Deliver,
         NotifyThreadless, Reboot, vars, util
    <3> QED BY <1>1, <2>1, <3>1, UtilCases DEF UtilStarts, UtilRequests
  <2>3. shutdown_supported_count' = 0 /\ UNCHANGED <<phase, id>>
    BY <1>1, <2>2 DEF UtilDeregisters, Deregister, UtilReads
  <2>4. Registered(Supports)' = {}
    <3>1. IsFiniteSet(Registered(Supports)')
      BY ModulesFacts, FS_Subset DEF Registered
    <3> QED BY <2>1, <2>3, <3>1, FS_EmptySet DEF Counted
  <2>5. Gone' = Started /\ Shut' = Shut
    BY <2>3, <2>4 DEF Gone, Started, Shut
  <2>6. Cardinality(Started) <= Cardinality(Shut)
    <3>1. Cardinality(AckAt(events')) \in Nat /\ Reading' \in Nat
      BY <2>1, AcksFinite DEF TypeOK, Reading
    <3>2. Cardinality(Shut) \in Nat /\ Cardinality(Started) \in Nat
      BY StartedFinite, FS_CardinalityType
    <3> QED BY <2>1, <2>5, <3>1, <3>2 DEF AcksInv
  <2>7. Shut = Started
    <3>1. Shut \subseteq Started /\ IsFiniteSet(Started)
      BY StartedFinite DEF Shut
    <3>2. Cardinality(Shut) <= Cardinality(Started) /\ Cardinality(Shut) \in Nat
          /\ Cardinality(Started) \in Nat
      BY <3>1, StartedFinite, FS_Subset, FS_CardinalityType
    <3>3. Cardinality(Started) = Cardinality(Shut)
      BY <2>6, <3>2
    <3> QED BY <3>1, <3>3, FS_Subset
  <2> QED BY <2>7 DEF Shut, Started
<1>2. RegistryInv /\ RegistryInv' /\ [Next]_vars =>
        [(reboot_work' = "short" /\ reboot_work # "short") =>
            \A m \in Supports : id[m] # 0 => phase[m] = "shutdown"]_vars
  BY <1>1
<1>3. Spec => [][Next]_vars
  BY DEF Spec
<1> QED BY <1>2, <1>3, RegistryInvariant, PTL DEF EarlyRebootOnlyAfterAllAcks

-----------------------------------------------------------------------------
(* With different cycle counts, and so different ids, no acknowledgement is   *)
(* taken for another's: once all are read, the early reboot is scheduled.     *)

LEMMA IdsInit == ASSUME Init PROVE IdsDiffer
  BY DEF Init, IdsDiffer

LEMMA IdsStep ==
  ASSUME ~SameCycle, TypeOK, StartInv, AppStartInv, RequestInv, IdsDiffer, [Next]_vars
  PROVE  IdsDiffer'
<1>1. ASSUME NEW m \in Modules, StartCount(m) PROVE IdsDiffer'
  <2>1. cycle' = cycle + 1 /\ id' = [id EXCEPT ![m] = cycle + 1]
    BY <1>1, StartCountId DEF StartInv
  <2>2. cycle \in Nat /\ id \in [Modules -> Nat]
    BY DEF TypeOK
  <2>3. \A n \in Modules : id'[n] = IF n = m THEN cycle + 1 ELSE id[n]
    BY <2>1, <2>2
  <2>4. \A n \in Modules : id[n] <= cycle /\ id[n] \in Nat /\ id[n] # cycle + 1
    BY <2>2 DEF IdsDiffer
  <2>5. \A n \in Modules : id'[n] <= cycle'
    BY <2>1, <2>2, <2>3, <2>4
  <2>6. \A n, k \in Modules : id'[n] = id'[k] /\ id'[n] # 0 => n = k
    BY <2>3, <2>4 DEF IdsDiffer
  <2> QED BY <2>5, <2>6 DEF IdsDiffer
<1>2. CASE UNCHANGED <<id, cycle>>
  BY <1>2 DEF IdsDiffer
<1>3. NotifyUtil => StartCount(Util) \/ UNCHANGED <<id, cycle>>
  BY UtilCases DEF UtilStarts, UtilRequests, UtilDeregisters, UtilReads, registry
<1> QED BY <1>1, <1>2, <1>3, ModulesFacts
        DEF Next, MainStart, ThreadStart, ThreadHandle, ReportError, Traffic, Deliver,
            NotifyThreadless, Reboot, vars, registry

\* What the counting state depends on changes only in the utility module.
LEMMA UtilAlone ==
  ASSUME [Next]_vars, ~NotifyUtil
  PROVE  /\ UNCHANGED <<util_state, error_signaled, reboot_work>>
         /\ ~Deliver /\ Util \in todo => todo' = todo \/ Util \in todo'
  BY DEF Next, MainStart, ThreadStart, ThreadHandle, ReportError, Traffic, Deliver,
     NotifyThreadless, Seen, Reboot, vars, util

\* An acknowledgement on its way stays so until the utility module reads it.
LEMMA StaysOnItsWay ==
  ASSUME TypeOK, StartInv, AppStartInv, RequestInv, [Next]_vars, ~NotifyUtil,
         NEW m \in Modules, OnItsWay(m), id'[m] = id[m]
  PROVE  OnItsWay(m)'
<1>1. Ack(m)' = Ack(m) /\ events \in Seq(EventSet)
  BY DEF Ack, TypeOK
<1>2. CASE Deliver
  <2>1. /\ current = None /\ current' = Head(events) /\ Util \in todo' /\ events # << >>
        /\ \A n \in DOMAIN Tail(events) : n \in DOMAIN events' /\ events'[n] = Tail(events)[n]
    BY <1>2, DeliverFacts, ModulesFacts DEF Deliver, Idle
  <2>2. Ack(m) # None
    BY DEF Ack, None
  <2>3. PICK i \in DOMAIN events : events[i] = Ack(m)
    BY <2>1, <2>2 DEF OnItsWay
  <2>4. i = 1 \/ (i - 1 \in DOMAIN Tail(events) /\ Tail(events)[i - 1] = events[i])
    BY <1>1, <2>1, TailElements
  <2>5. CASE i = 1
    <3>1. current' = Ack(m)
      BY <1>1, <2>1, <2>3, <2>5, TailElements
    <3> QED BY <1>1, <2>1, <3>1 DEF OnItsWay
  <2>6. CASE i # 1
    <3>1. i - 1 \in DOMAIN events' /\ events'[i - 1] = Ack(m)
      BY <2>1, <2>3, <2>4, <2>6
    <3> QED BY <1>1, <3>1 DEF OnItsWay
  <2> QED BY <2>5, <2>6
<1>3. CASE ~Deliver
  <2>1. \A i \in DOMAIN events : i \in DOMAIN events' /\ events'[i] = events[i]
    <3>1. ASSUME NEW e, Submits(e)
          PROVE  \A i \in DOMAIN events : i \in DOMAIN events' /\ events'[i] = events[i]
      <4>1. e \in EventSet /\ events' = Append(events, e)
        BY <3>1 DEF Submits
      <4> QED BY <1>1, <4>1, AppendElements
    <3>2. UNCHANGED events \/ \E e \in EventSet : Submits(e)
      BY <1>3, EventsCases
    <3> QED BY <3>1, <3>2
  <2>2. Util \in todo => Util \in todo' /\ current' = current
    BY <1>3 DEF Next, MainStart, ThreadStart, ThreadHandle, ReportError, Traffic,
       NotifyThreadless, Seen, Reboot, vars
  <2>3. CASE \E i \in DOMAIN events : events[i] = Ack(m)
    BY <1>1, <2>1, <2>3 DEF OnItsWay
  <2>4. CASE current = Ack(m) /\ Util \in todo
    BY <1>1, <2>2, <2>4 DEF OnItsWay
  <2> QED BY <2>3, <2>4 DEF OnItsWay
<1> QED BY <1>2, <1>3

LEMMA EarlyInit == ASSUME Init PROVE EarlyInv
<1>1. Gone = {}
  BY ModulesFacts DEF Init, Gone, Started
<1> QED BY <1>1 DEF Init, EarlyInv

\* Steps of the others: an acknowledgement joins those on their way.
LEMMA EarlyOthers ==
  ASSUME TypeOK, StartInv, AppStartInv, RequestInv, EarlyInv, [Next]_vars, ~NotifyUtil
  PROVE  EarlyInv'
<1>1. UNCHANGED <<util_state, error_signaled, reboot_work>>
  BY UtilAlone
<1>2. ASSUME Gone' = Gone, Registered(Supports)' = {} => Registered(Supports) = {},
             util_state = "STATE_REBOOT_PENDING" =>
               \A m \in Shut' \cap Registered(Supports)' : OnItsWay(m)'
      PROVE  EarlyInv'
  BY <1>1, <1>2 DEF EarlyInv
<1>3. ASSUME util_state = "STATE_REBOOT_PENDING", NEW m \in Shut, m \in Registered(Supports), id'[m] = id[m]
      PROVE  OnItsWay(m)'
  <2>1. m \in Modules /\ OnItsWay(m)
    BY <1>3, ModulesFacts DEF EarlyInv, Shut, Started
  <2> QED BY <1>3, <2>1, StaysOnItsWay
<1>4. CASE Stays
  <2>1. Gone' = Gone /\ Shut' = Shut /\ Registered(Supports)' = Registered(Supports) /\ id' = id
    BY <1>4, SetsStay DEF Stays, SameRegistry
  <2> QED BY <1>2, <1>3, <2>1
<1>5. ASSUME NEW k \in Modules, Joins(k) PROVE EarlyInv'
  <2>1. Gone' = Gone /\ Shut' = Shut
    BY <1>5, SetsJoin
  <2>2. Registered(Supports)' = Registered(Supports) \/ Registered(Supports)' = Registered(Supports) \cup {k}
    BY <1>5 DEF Joins
  <2>3. k \notin Shut /\ \A m \in Shut : m \in Modules /\ m # k
    BY <1>5, ModulesFacts DEF Joins, Shut, Started
  <2>4. \A m \in Shut : id'[m] = id[m]
    BY <1>5, <2>3 DEF Joins
  <2> QED BY <1>2, <1>3, <2>1, <2>2, <2>3, <2>4
<1>6. ASSUME NEW k \in Modules, Acknowledges(k) PROVE EarlyInv'
  <2>1. /\ Gone' = Gone /\ Registered(Supports)' = Registered(Supports) /\ id' = id
        /\ Shut' \subseteq Shut \cup {k}
    BY <1>6, SetsAcknowledge DEF Acknowledges, SameRegistry
  <2>2. OnItsWay(k)'
    <3>1. events' = Append(events, Ack(k)) /\ events \in Seq(EventSet) /\ Ack(k) \in EventSet
      BY <1>6, AckType DEF Acknowledges, TypeOK
    <3>2. Len(events) + 1 \in DOMAIN events' /\ events'[Len(events) + 1] = Ack(k)
      BY <3>1, AppendElements
    <3> QED BY <2>1, <3>2 DEF OnItsWay, Ack
  <2> QED BY <1>2, <1>3, <2>1, <2>2
<1> QED BY <1>4, <1>5, <1>6, RegistryCases DEF Leaves

\* The utility module's own steps.
LEMMA EarlyUtil ==
  ASSUME TypeOK, StartInv, AppStartInv, RequestInv, IdsDiffer, Counted, Counted', EarlyInv,
         NotifyUtil, [Next]_vars
  PROVE  EarlyInv'
<1>1. ~UtilDeregisters =>
        Gone' = Gone /\ (Registered(Supports)' = {} => Registered(Supports) = {})
  <2>1. ASSUME NEW k \in Modules, Joins(k) \/ Acknowledges(k) \/ Stays
        PROVE  Gone' = Gone /\ (Registered(Supports)' = {} => Registered(Supports) = {})
    BY <2>1, SetsJoin, SetsAcknowledge, SetsStay DEF Joins, Acknowledges, Stays, SameRegistry
  <2> QED BY <2>1, RegistryCases, ModulesFacts DEF Leaves
<1>2. ASSUME NEW m \in Shut, m \in Registered(Supports)
      PROVE  m \in module_list \cap Supports /\ m \in Modules /\ id[m] # 0
  BY <1>2, ModulesFacts DEF Shut, Started, Registered
<1>3. CASE UtilStarts
  <2>1. ~UtilDeregisters /\ util_state' = "STATE_INIT" /\ UNCHANGED <<error_signaled, reboot_work>>
    BY <1>3 DEF UtilStarts, UtilDeregisters
  <2> QED BY <1>1, <2>1 DEF EarlyInv
<1>4. CASE UtilRequests
  <2>1. ~UtilDeregisters /\ ~error_signaled /\ error_signaled' = TRUE /\ UNCHANGED phase
    BY <1>4 DEF UtilRequests, UtilDeregisters
  <2>2. Shut' = {}
    BY <2>1, ModulesFacts DEF RequestInv, Shut, Started
  <2>3. Gone' = {}
    BY <1>1, <2>1 DEF EarlyInv
  <2> QED BY <2>1, <2>2, <2>3 DEF EarlyInv
<1>5. CASE UtilDeregisters
  <2>1. PICK k \in Supports : Leaves(k)
    BY <1>5, LeavesRegistry
  <2>2. /\ UNCHANGED <<phase, id, events, util_state, error_signaled>> /\ error_signaled
        /\ id[k] = current.id /\ id[k] # 0 /\ k \in Modules
        /\ Registered(Supports)' = Registered(Supports) \ {k}
        /\ reboot_work' = IF shutdown_supported_count' = 0 THEN "short" ELSE reboot_work
    BY <1>5, <2>1, ModulesFacts DEF Leaves, UtilDeregisters, Deregister, RequestInv
  <2>3. ASSUME util_state = "STATE_REBOOT_PENDING", NEW m \in Shut, m \in Registered(Supports), m # k
        PROVE  OnItsWay(m)'
    <3>1. OnItsWay(m) /\ m \in Modules
      BY <1>2, <2>3 DEF EarlyInv
    <3>2. current # Ack(m)
      BY <2>2, <2>3, <3>1 DEF IdsDiffer, Ack
    <3> QED BY <2>2, <3>1, <3>2 DEF OnItsWay, Ack
  <2>4. Shut' = Shut
    BY <2>2 DEF Shut, Started
  <2>5. Registered(Supports)' = {} => reboot_work' = "short"
    BY <2>2, FS_EmptySet DEF Counted
  <2> QED BY <2>2, <2>3, <2>4, <2>5 DEF EarlyInv
<1>6. CASE UtilReads
  <2>1. /\ UNCHANGED <<phase, id, events, util_state, error_signaled, module_list>>
        /\ reboot_work' = reboot_work \/ (reboot_work' = "short" /\ error_signaled)
    BY <1>6 DEF UtilReads, RequestInv
  <2>2. Gone' = Gone /\ Registered(Supports)' = Registered(Supports) /\ Shut' = Shut
    BY <2>1 DEF Gone, Registered, Shut, Started
  <2>3. ASSUME util_state = "STATE_REBOOT_PENDING", NEW m \in Shut, m \in Registered(Supports)
        PROVE  OnItsWay(m)'
    <3>1. OnItsWay(m) /\ m \in module_list \cap Supports /\ m \in Modules /\ id[m] # 0
      BY <1>2, <2>3 DEF EarlyInv
    <3>2. current # Ack(m)
      <4> SUFFICES ASSUME current = Ack(m) PROVE FALSE
        OBVIOUS
      <4>1. IsAck(current) /\ current.id = id[m]
        BY <3>1 DEF IsAck, Ack
      <4>2. PICK n \in module_list \ Supports : id[n] = id[m]
        BY <1>6, <2>3, <3>1, <4>1 DEF UtilReads
      <4>3. n \in Modules
        BY DEF TypeOK
      <4> QED BY <3>1, <4>2, <4>3 DEF IdsDiffer
    <3> QED BY <2>1, <3>1, <3>2 DEF OnItsWay, Ack
  <2> QED BY <2>1, <2>2, <2>3 DEF EarlyInv
<1> QED BY <1>3, <1>4, <1>5, <1>6, UtilCases

\* When all modules that support it have shut down and their acknowledgements have
\* been read, the early reboot is scheduled (util_module.c, reboot_ack_check), if
\* no two modules started in the same cycle: the counterexample of the other case is
\* that of shutdown_same_cycle.
THEOREM AllAcksAreHeard == ASSUME ~SameCycle PROVE Spec => []AllAcksStartEarlyReboot
<1> DEFINE I == RegistryInv /\ IdsDiffer /\ EarlyInv
<1>1. Init => I
  BY RegistryInit, IdsInit, EarlyInit
<1>2. I /\ [Next]_vars => I'
  <2> SUFFICES ASSUME RegistryInv, IdsDiffer, EarlyInv, [Next]_vars PROVE I'
    OBVIOUS
  <2>1. /\ TypeOK /\ Counted /\ StartInv /\ AppStartInv /\ RequestInv
        /\ RegistryInv' /\ Counted'
    BY RegistryStep DEF RegistryInv
  <2>2. IdsDiffer'
    BY <2>1, IdsStep
  <2>3. EarlyInv'
    BY <2>1, EarlyOthers, EarlyUtil
  <2> QED BY <2>1, <2>2, <2>3
<1>3. I => AllAcksStartEarlyReboot
  <2> SUFFICES ASSUME RegistryInv, EarlyInv, AllAcksRead PROVE reboot_work = "short"
    BY DEF AllAcksStartEarlyReboot
  <2>1. Shut = Started /\ TypeOK /\ StartInv
    BY DEF AllAcksRead, Shut, RegistryInv
  <2>2. ASSUME NEW m \in Registered(Supports), m \in Shut PROVE FALSE
    <3>1. OnItsWay(m)
      BY <2>2 DEF AllAcksRead, EarlyInv
    <3>2. DOMAIN events = 1 .. Len(events)
      BY <2>1 DEF TypeOK
    <3> QED BY <3>1, <3>2 DEF OnItsWay, AllAcksRead, InFlight, Ack, Idle, None
  <2>3. Registered(Supports) \subseteq Started
    BY <2>1, ModulesFacts DEF Registered, StartInv, Started
  <2>4. Registered(Supports) = {} /\ Gone = Started
    BY <2>1, <2>2, <2>3 DEF Gone
  <2> QED BY <2>4 DEF EarlyInv, AllAcksRead
<1> QED BY <1>1, <1>2, <1>3, PTL DEF Spec

=============================================================================
