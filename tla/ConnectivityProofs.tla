--------------------------- MODULE ConnectivityProofs ---------------------------
(* Proofs about Connectivity: the modem module follows the link, and the LEDs   *)
(* follow the state of the user interface.                                      *)
EXTENDS Connectivity, SequenceTheorems, TLAPS

\* Of the events in q whose type is in types, the last is e; without one, e is d.
Settles(q, types, d, e) ==
  \/ d = e /\ \A i \in DOMAIN q : q[i].type \notin types
  \/ /\ e.type \in types
     /\ \E i \in DOMAIN q : q[i] = e /\ \A j \in DOMAIN q : j > i => q[j].type \notin types

LinkTypes == {"LTE_CONNECTED", "LTE_DISCONNECTED"}
Up == Plain("LTE_CONNECTED")
Down == Plain("LTE_DISCONNECTED")

\* Taken together, the module's state, the messages in its queue and the events
\* not delivered yet say what the link is.
LinkInv ==
  failed \/ modem_state = "SHUTDOWN" \/
    \E s, m, e \in {Up, Down} :
      /\ s = Up <=> modem_state = "CONNECTED"
      /\ Settles(modemQ, LinkTypes, s, m)
      /\ Settles(events, LinkTypes, m, e)
      /\ e = Up <=> lte = "attached"

\* The patterns of the UI module.
Patterns ==
  {"TURN_OFF", "LTE_CONNECTING", "CLOUD_CONNECTING", "CLOUD_ASSOCIATING", "CLOUD_ASSOCIATED",
   "CLOUD_PUBLISHING", "FOTA_UPDATING", "LOCATION_SEARCHING", "ACTIVE_MODE", "PASSIVE_MODE",
   "FOTA_UPDATE_REBOOT", "ERROR_SYSTEM_FAULT"}

\* A pattern the LEDs may settle on in the state the UI module is in.
Fits(led) ==
  /\ ui_state \in {"LTE_CONNECTING", "CLOUD_CONNECTING", "CLOUD_ASSOCIATING", "FOTA_UPDATING"} => led = ui_state
  /\ ui_state = "SHUTDOWN" => led \in {"FOTA_UPDATE_REBOOT", "ERROR_SYSTEM_FAULT"}
  /\ ui_state = "RUNNING" => \/ led \in {"TURN_OFF", "CLOUD_ASSOCIATED"}
                             \/ sub_sub_state = "LOCATION_ACTIVE" /\ led = "LOCATION_SEARCHING"

\* The last pattern of the list is there to stay and fits the state; the work
\* runs until it is shown.
ListInv ==
  /\ pattern_transition_list \in Seq([led : Patterns, hold : BOOLEAN])
  /\ \A n \in DOMAIN pattern_transition_list :
       pattern_transition_list[n].hold <=> n = Len(pattern_transition_list)
  /\ led_pattern_update_work <=> pattern_transition_list # << >>
  /\ pattern_transition_list # << >> =>
       Fits(pattern_transition_list[Len(pattern_transition_list)].led)
  /\ pattern_transition_list = << >> =>
       Fits(previous_led_state) \/ (previous_led_state = "COUNT" /\ ui_state \in {"INIT", "RUNNING"})
  /\ ui_state = "INIT" => pattern_transition_list = << >> /\ previous_led_state = "COUNT"

LedState(led) == UiEvent("LED_STATE", led)

\* The pattern announced last is the one shown, or on its way.
ShownInv ==
  \E s, e \in {LedState(led) : led \in Patterns} :
    /\ Shown(s.data)
    /\ Settles(events, {"LED_STATE"}, s, e)
    /\ previous_led_state = e.data \/ (previous_led_state = "COUNT" /\ e.data = "TURN_OFF")

OwnTypes ==
  {"START", "MODEM_INITIALIZED", "LTE_CONNECTING", "MODEM_SHUTDOWN_READY", "UI_SHUTDOWN_READY"}
    \cup LinkTypes \cup CarrierRequests
EventSet ==
  OutsideEvents \cup {Plain(type) : type \in OwnTypes} \cup {LedState(led) : led \in Patterns}
    \cup {Ev(type, ready) : type \in {"MODEM_STATIC", "MODEM_DYNAMIC"}, ready \in BOOLEAN}

Typed ==
  /\ events \in Seq(EventSet) /\ modemQ \in Seq(EventSet)
  /\ failed \in BOOLEAN /\ announcing \in BOOLEAN

-----------------------------------------------------------------------------
(* What a sequence settles on.                                                *)

LEMMA SettlesAppend ==
  ASSUME NEW S, NEW q \in Seq(S), NEW e \in S, NEW types, NEW d, NEW x, Settles(q, types, d, x)
  PROVE  /\ e.type \notin types => Settles(Append(q, e), types, d, x)
         /\ e.type \in types => \A c : Settles(Append(q, e), types, c, e)
<1> DEFINE r == Append(q, e)
<1>1. /\ Len(q) \in Nat /\ DOMAIN q = 1 .. Len(q) /\ DOMAIN r = 1 .. Len(q) + 1
      /\ \A i \in DOMAIN q : r[i] = q[i]
      /\ r[Len(q) + 1] = e
  OBVIOUS
<1> HIDE DEF r
<1>2. /\ \A i \in DOMAIN r : i \in DOMAIN q \/ i = Len(q) + 1
      /\ DOMAIN q \subseteq DOMAIN r /\ Len(q) + 1 \in DOMAIN r
      /\ \A j \in DOMAIN r : ~(j > Len(q) + 1)
  BY <1>1
<1>3. ASSUME e.type \notin types PROVE Settles(r, types, d, x)
  <2>1. CASE d = x /\ \A i \in DOMAIN q : q[i].type \notin types
    BY <1>1, <1>2, <1>3, <2>1 DEF Settles
  <2>2. ASSUME x.type \in types, NEW i \in DOMAIN q, q[i] = x,
               \A j \in DOMAIN q : j > i => q[j].type \notin types
        PROVE  Settles(r, types, d, x)
    <3>1. r[i] = x /\ i \in DOMAIN r
      BY <1>1, <1>2, <2>2
    <3>2. \A j \in DOMAIN r : j > i => r[j].type \notin types
      BY <1>1, <1>2, <1>3, <2>2
    <3> QED BY <2>2, <3>1, <3>2 DEF Settles
  <2> QED BY <2>1, <2>2 DEF Settles
<1>4. ASSUME e.type \in types, NEW c PROVE Settles(r, types, c, e)
  BY <1>1, <1>2, <1>4 DEF Settles
<1> QED BY <1>3, <1>4 DEF r

LEMMA SettlesTail ==
  ASSUME NEW S, NEW q \in Seq(S), q # << >>, NEW types, NEW d, NEW x, Settles(q, types, d, x)
  PROVE  /\ Head(q).type \notin types => Settles(Tail(q), types, d, x)
         /\ Head(q).type \in types => Settles(Tail(q), types, Head(q), x)
<1> DEFINE r == Tail(q)
<1>1. /\ Len(q) \in Nat /\ DOMAIN q = 1 .. Len(q) /\ DOMAIN r = 1 .. Len(q) - 1
      /\ \A i \in DOMAIN r : i + 1 \in DOMAIN q /\ r[i] = q[i + 1]
      /\ Head(q) = q[1] /\ 1 \in DOMAIN q
      /\ \A i \in DOMAIN q : i = 1 \/ (i - 1 \in DOMAIN r /\ r[i - 1] = q[i])
  OBVIOUS
<1> DEFINE h == Head(q)
<1> HIDE DEF r, h
<1>2. CASE d = x /\ \A i \in DOMAIN q : q[i].type \notin types
  BY <1>1, <1>2 DEF Settles, h
<1>3. ASSUME x.type \in types, NEW i \in DOMAIN q, q[i] = x,
             \A j \in DOMAIN q : j > i => q[j].type \notin types
      PROVE  /\ h.type \notin types => Settles(r, types, d, x)
             /\ h.type \in types => Settles(r, types, h, x)
  <2>1. CASE i = 1
    <3>1. h = x
      BY <1>1, <1>3, <2>1 DEF h
    <3>2. \A j \in DOMAIN r : r[j].type \notin types
      <4> SUFFICES ASSUME NEW j \in DOMAIN r PROVE r[j].type \notin types
        OBVIOUS
      <4>1. j + 1 \in DOMAIN q /\ j + 1 > 1 /\ r[j] = q[j + 1]
        BY <1>1
      <4> QED BY <1>3, <2>1, <4>1
    <3> QED BY <1>3, <3>1, <3>2 DEF Settles
  <2>2. CASE i # 1
    <3>1. i - 1 \in DOMAIN r /\ r[i - 1] = x
      BY <1>1, <1>3, <2>2
    <3>2. \A j \in DOMAIN r : j > i - 1 => r[j].type \notin types
      <4> SUFFICES ASSUME NEW j \in DOMAIN r, j > i - 1 PROVE r[j].type \notin types
        OBVIOUS
      <4>1. j + 1 \in DOMAIN q /\ j + 1 > i /\ r[j] = q[j + 1]
        BY <1>1
      <4> QED BY <1>3, <4>1
    <3> QED BY <1>3, <3>1, <3>2 DEF Settles
  <2> QED BY <2>1, <2>2
<1> QED BY <1>2, <1>3 DEF Settles, r, h

\* Appending what is not of the types changes nothing.
LEMMA SettlesConcat ==
  ASSUME NEW S, NEW q \in Seq(S), NEW p \in Seq(S), NEW types, NEW d, NEW x, Settles(q, types, d, x),
         \A i \in DOMAIN p : p[i].type \notin types
  PROVE  Settles(q \o p, types, d, x)
<1> DEFINE r == q \o p
<1>1. /\ Len(q) \in Nat /\ Len(p) \in Nat /\ DOMAIN q = 1 .. Len(q) /\ DOMAIN p = 1 .. Len(p)
      /\ DOMAIN r = 1 .. Len(q) + Len(p)
      /\ \A i \in DOMAIN q : r[i] = q[i]
      /\ \A i \in DOMAIN p : r[Len(q) + i] = p[i]
      /\ \A i \in DOMAIN r : i \in DOMAIN q \/ (i - Len(q) \in DOMAIN p /\ r[i] = p[i - Len(q)])
  OBVIOUS
<1> HIDE DEF r
<1>2. CASE d = x /\ \A i \in DOMAIN q : q[i].type \notin types
  BY <1>1, <1>2 DEF Settles
<1>3. ASSUME x.type \in types, NEW i \in DOMAIN q, q[i] = x,
             \A j \in DOMAIN q : j > i => q[j].type \notin types
      PROVE  Settles(r, types, d, x)
  <2>1. r[i] = x /\ i \in DOMAIN r
    BY <1>1, <1>3
  <2>2. \A j \in DOMAIN r : j > i => r[j].type \notin types
    BY <1>1, <1>3
  <2> QED BY <1>3, <2>1, <2>2 DEF Settles
<1> QED BY <1>2, <1>3 DEF Settles, r

LEMMA SettlesEmpty ==
  ASSUME NEW types, NEW d, NEW x
  PROVE  Settles(<< >>, types, d, x) <=> d = x
  BY DEF Settles

\* From another start, a sequence ends where it did, or had nothing to say.
LEMMA SettlesFrom ==
  ASSUME NEW q, NEW types, NEW d, NEW x, Settles(q, types, d, x), NEW c
  PROVE  Settles(q, types, c, x) \/ (d = x /\ Settles(q, types, c, c))
  BY DEF Settles

-----------------------------------------------------------------------------
(* Events and messages.                                                       *)

LEMMA PlainType == ASSUME NEW type \in OwnTypes PROVE Plain(type) \in EventSet /\ Plain(type).type = type
  BY DEF EventSet, Plain, Ev

LEMMA LedStateType ==
  ASSUME NEW led \in Patterns
  PROVE  LedState(led) \in EventSet /\ LedState(led).type = "LED_STATE" /\ LedState(led).data = led
  BY DEF EventSet, LedState, UiEvent

LEMMA DataType ==
  ASSUME NEW type \in {"MODEM_STATIC", "MODEM_DYNAMIC"}, NEW ready \in BOOLEAN
  PROVE  Ev(type, ready) \in EventSet /\ Ev(type, ready).type = type
  BY DEF EventSet, Ev

\* Only the modem module reports the link, and only the UI module drives the LEDs.
LEMMA LinkEvents ==
  ASSUME ConnectivityAssumption, NEW e \in EventSet
  PROVE  /\ e.type \in LinkTypes => e \in {Up, Down}
         /\ e.type = "LED_STATE" => \E led \in Patterns : e = LedState(led)
         /\ e \in OutsideEvents => e.type \notin LinkTypes \cup {"LED_STATE"}
  BY DEF ConnectivityAssumption, EventSet, LinkTypes, OwnTypes, CarrierRequests, Up, Down, Plain, Ev,
         LedState, UiEvent

\* Some events appended, none of a type in types.
Appends(types) ==
  \E p \in Seq(EventSet) : events' = events \o p /\ \A i \in DOMAIN p : p[i].type \notin types

LEMMA AppendsOne ==
  ASSUME events \in Seq(EventSet), NEW e \in EventSet, Submit(e), NEW types, e.type \notin types
  PROVE  Appends(types)
<1>1. Append(events, e) = events \o <<e>>
  BY AppendIsConcat
<1>2. <<e>> \in Seq(EventSet) /\ \A i \in DOMAIN <<e>> : <<e>>[i].type \notin types
  OBVIOUS
<1> QED BY <1>1, <1>2 DEF Appends, Submit

LEMMA AppendsNone == ASSUME events \in Seq(EventSet), UNCHANGED events, NEW types PROVE Appends(types)
<1>1. events \o << >> = events
  BY ConcatEmptySeq
<1>2. << >> \in Seq(EventSet) /\ \A i \in DOMAIN << >> : << >>[i].type \notin types
  OBVIOUS
<1> QED BY <1>1, <1>2 DEF Appends

LEMMA AppendsTwo ==
  ASSUME events \in Seq(EventSet), NEW p \in Seq(EventSet), NEW r \in Seq(EventSet),
         events' = (events \o p) \o r, NEW types,
         \A i \in DOMAIN p : p[i].type \notin types, \A i \in DOMAIN r : r[i].type \notin types
  PROVE  Appends(types)
<1>1. events' = events \o (p \o r) /\ p \o r \in Seq(EventSet)
  BY ConcatAssociative, ConcatProperties
<1>2. \A i \in DOMAIN (p \o r) : (p \o r)[i].type \notin types
  OBVIOUS
<1> QED BY <1>1, <1>2 DEF Appends

LEMMA AppendsTyped ==
  ASSUME events \in Seq(EventSet), NEW types, Appends(types)
  PROVE  events' \in Seq(EventSet)
  BY DEF Appends

LEMMA AppendsSettles ==
  ASSUME events \in Seq(EventSet), NEW types, Appends(types), NEW d, NEW x, Settles(events, types, d, x)
  PROVE  Settles(events', types, d, x)
  BY SettlesConcat DEF Appends

-----------------------------------------------------------------------------
(* The modem module.                                                          *)

\* What a step of the thread does to the chain that LinkInv speaks of.
TakesOther == modemQ # << >> /\ modemQ' = Tail(modemQ) /\ Head(modemQ).type \notin LinkTypes
KeepsLink ==
  /\ modemQ' = modemQ \/ TakesOther
  /\ modem_state' = "CONNECTED" <=> modem_state = "CONNECTED"
  /\ lte' = "attached" <=> lte = "attached"
  /\ Appends(LinkTypes)
HearsLink ==
  /\ modemQ # << >> /\ modemQ' = Tail(modemQ) /\ Head(modemQ).type \in LinkTypes
  /\ modem_state' = "CONNECTED" <=> Head(modemQ).type = "LTE_CONNECTED"
  /\ UNCHANGED <<events, lte>>
GoesDown ==
  /\ TakesOther
  /\ modem_state' = "DISCONNECTED" /\ lte' = "offline"
  /\ IF lte = "attached" THEN Submit(Down) ELSE UNCHANGED events

\* Every step of the modem module's thread is one of these.
LinkCases ==
  /\ modemQ' \in Seq(EventSet) /\ failed' \in BOOLEAN /\ announcing' \in BOOLEAN
  /\ Appends({"LED_STATE"})
  /\ failed => failed'
  /\ modem_state = "SHUTDOWN" => modem_state' = "SHUTDOWN"
  /\ failed' \/ modem_state' = "SHUTDOWN" \/ KeepsLink \/ HearsLink \/ GoesDown

LEMMA TakingFacts ==
  ASSUME Typed, NEW type, Taking(type)
  PROVE  /\ modemQ # << >> /\ modemQ' = Tail(modemQ) /\ Head(modemQ).type = type
         /\ modemQ' \in Seq(EventSet)
  BY DEF Typed, Taking

LEMMA DownFacts == Down \in EventSet /\ Down.type = "LTE_DISCONNECTED" /\ Up \in EventSet /\ Up.type = "LTE_CONNECTED"
  BY PlainType DEF Down, Up, OwnTypes, LinkTypes

LEMMA ConnectCases ==
  ASSUME Typed, NEW type, Taking(type), type \notin LinkTypes, lte_connect, UNCHANGED modem_state
  PROVE  LinkCases
<1>1. Appends({"LED_STATE"}) /\ Appends(LinkTypes)
  BY AppendsNone DEF lte_connect, Typed
<1>2. lte' = "attached" <=> lte = "attached"
  BY DEF lte_connect
<1>3. failed' \in BOOLEAN /\ announcing' \in BOOLEAN /\ (failed => failed')
  BY DEF lte_connect, Typed
<1> QED BY <1>1, <1>2, <1>3, TakingFacts DEF LinkCases, KeepsLink, TakesOther

LEMMA OfflineCases ==
  ASSUME Typed, NEW type, Taking(type), type \notin LinkTypes, modem_state # "SHUTDOWN", GoOffline
  PROVE  LinkCases
<1>1. CASE RadioOff /\ modem_state' = "DISCONNECTED" /\ UNCHANGED <<announcing, failed>>
  <2>1. Appends({"LED_STATE"})
    BY <1>1, DownFacts, AppendsOne, AppendsNone DEF RadioOff, Typed, Down
  <2>2. GoesDown
    BY <1>1, TakingFacts DEF GoesDown, RadioOff, TakesOther, Down
  <2> QED BY <1>1, <2>1, <2>2, TakingFacts DEF LinkCases, Typed
<1>2. CASE failed' = TRUE /\ UNCHANGED <<modem_state, announcing, lte, events>>
  <2>1. Appends({"LED_STATE"})
    BY <1>2, AppendsNone DEF Typed
  <2> QED BY <1>2, <2>1, TakingFacts DEF LinkCases, Typed
<1> QED BY <1>1, <1>2 DEF GoOffline

LEMMA StateSetCases ==
  ASSUME Typed, NEW type, Taking(type), NEW s, StateSet(s), modem_state # "SHUTDOWN",
         type \in LinkTypes => (s = "CONNECTED" <=> type = "LTE_CONNECTED"),
         type \notin LinkTypes => modem_state # "CONNECTED" /\ s # "CONNECTED"
  PROVE  LinkCases
<1>1. Appends({"LED_STATE"}) /\ Appends(LinkTypes)
  BY AppendsNone DEF StateSet, Typed
<1> QED BY <1>1, TakingFacts DEF LinkCases, StateSet, KeepsLink, HearsLink, TakesOther, Typed

LEMMA DataGetCases ==
  ASSUME Typed, Taking("DATA_GET"), NEW types, DataGet(types) PROVE LinkCases
<1>1. PICK ready \in SUBSET types :
        events' = (events \o (IF "MODEM_STATIC" \in types
                              THEN <<Ev("MODEM_STATIC", "MODEM_STATIC" \in ready)>> ELSE << >>))
                   \o (IF "MODEM_DYNAMIC" \in types
                       THEN <<Ev("MODEM_DYNAMIC", "MODEM_DYNAMIC" \in ready)>> ELSE << >>)
  BY DEF DataGet
<1> DEFINE p == IF "MODEM_STATIC" \in types THEN <<Ev("MODEM_STATIC", "MODEM_STATIC" \in ready)>> ELSE << >>
           r == IF "MODEM_DYNAMIC" \in types THEN <<Ev("MODEM_DYNAMIC", "MODEM_DYNAMIC" \in ready)>> ELSE << >>
<1>2. /\ p \in Seq(EventSet) /\ \A i \in DOMAIN p : p[i].type = "MODEM_STATIC"
      /\ r \in Seq(EventSet) /\ \A i \in DOMAIN r : r[i].type = "MODEM_DYNAMIC"
  <2>1. ("MODEM_STATIC" \in ready) \in BOOLEAN /\ ("MODEM_DYNAMIC" \in ready) \in BOOLEAN
    OBVIOUS
  <2>2. /\ Ev("MODEM_STATIC", "MODEM_STATIC" \in ready) \in EventSet
        /\ Ev("MODEM_DYNAMIC", "MODEM_DYNAMIC" \in ready) \in EventSet
    BY <2>1, DataType
  <2>3. /\ Ev("MODEM_STATIC", "MODEM_STATIC" \in ready).type = "MODEM_STATIC"
        /\ Ev("MODEM_DYNAMIC", "MODEM_DYNAMIC" \in ready).type = "MODEM_DYNAMIC"
    BY DEF Ev
  <2> QED BY <2>2, <2>3
<1>3. events' = (events \o p) \o r
  BY <1>1
<1> HIDE DEF p, r
<1>4. Appends({"LED_STATE"}) /\ Appends(LinkTypes)
  BY <1>2, <1>3, AppendsTwo DEF Typed, LinkTypes
<1> QED BY <1>4, TakingFacts DEF LinkCases, KeepsLink, TakesOther, DataGet, Typed, LinkTypes

LEMMA ThreadCases == ASSUME Typed, module_thread_fn PROVE LinkCases
<1>0. events \in Seq(EventSet) /\ modemQ \in Seq(EventSet) /\ failed \in BOOLEAN
  BY DEF Typed
<1>1. CASE Boot
  <2>1. Plain("MODEM_INITIALIZED") \in EventSet /\ Plain("MODEM_INITIALIZED").type = "MODEM_INITIALIZED"
    BY PlainType DEF OwnTypes
  <2>2. Appends({"LED_STATE"}) /\ Appends(LinkTypes)
    BY <1>0, <1>1, <2>1, AppendsOne DEF Boot, LinkTypes
  <2> QED BY <1>0, <1>1, <2>2 DEF Boot, LinkCases, KeepsLink, Typed
<1>2. CASE Announce
  <2>1. Plain("LTE_CONNECTING") \in EventSet /\ Plain("LTE_CONNECTING").type = "LTE_CONNECTING"
    BY PlainType DEF OwnTypes
  <2>2. Appends({"LED_STATE"}) /\ Appends(LinkTypes)
    BY <1>0, <1>2, <2>1, AppendsOne DEF Announce, LinkTypes
  <2> QED BY <1>0, <1>2, <2>2 DEF Announce, LinkCases, KeepsLink, Typed
<1>3. CASE on_state_disconnected
  <2>1. CASE Taking("LTE_CONNECTED") /\ StateSet("CONNECTED")
    BY <1>3, <2>1, StateSetCases DEF on_state_disconnected, LinkTypes
  <2>2. CASE Taking("LTE_CONNECTING") /\ StateSet("CONNECTING")
    BY <1>3, <2>2, StateSetCases DEF on_state_disconnected, LinkTypes
  <2>3. CASE (Taking("LINK_UP_REQUEST") \/ Taking("CLOUD_LTE_CONNECT")) /\ lte_connect /\ UNCHANGED modem_state
    BY <2>3, ConnectCases DEF LinkTypes
  <2> QED BY <1>3, <2>1, <2>2, <2>3 DEF on_state_disconnected
<1>4. CASE on_state_connecting
  <2>1. CASE Taking("CLOUD_LTE_DISCONNECT") /\ GoOffline
    BY <1>4, <2>1, OfflineCases DEF on_state_connecting, LinkTypes
  <2>2. CASE Taking("LTE_CONNECTED") /\ StateSet("CONNECTED")
    BY <1>4, <2>2, StateSetCases DEF on_state_connecting, LinkTypes
  <2> QED BY <1>4, <2>1, <2>2 DEF on_state_connecting
<1>5. CASE on_state_connected
  <2>1. CASE Taking("LTE_DISCONNECTED") /\ StateSet("DISCONNECTED")
    BY <1>5, <2>1, StateSetCases DEF on_state_connected, LinkTypes
  <2>2. ASSUME NEW r \in {"LINK_DOWN_REQUEST", "CLOUD_LTE_DISCONNECT", "POWER_OFF_REQUEST"}, Taking(r), GoOffline
        PROVE  LinkCases
    BY <1>5, <2>2, OfflineCases DEF on_state_connected, LinkTypes
  <2> QED BY <1>5, <2>1, <2>2 DEF on_state_connected
<1>6. CASE on_all_states
  <2>1. CASE Taking("START") /\ lte_connect /\ UNCHANGED modem_state
    BY <2>1, ConnectCases DEF LinkTypes
  <2>2. ASSUME NEW r \in PsmRequests, Taking(r), failed' \in {failed, TRUE},
               UNCHANGED <<modem_state, announcing, lte, events>>
        PROVE  LinkCases
    <3>1. Appends({"LED_STATE"}) /\ Appends(LinkTypes)
      BY <1>0, <2>2, AppendsNone
    <3>2. failed' \in BOOLEAN /\ (failed => failed')
      <4>1. CASE failed' = failed
        BY <1>0, <4>1
      <4>2. CASE failed' = TRUE
        BY <4>2
      <4> QED BY <2>2, <4>1, <4>2
    <3>3. r \notin LinkTypes
      BY <2>2 DEF PsmRequests, LinkTypes
    <3> QED BY <2>2, <3>1, <3>2, <3>3, TakingFacts DEF LinkCases, KeepsLink, TakesOther, Typed
  <2>3. CASE Taking("DATA_GET") /\ DataGet(Head(modemQ).data)
    BY <2>3, DataGetCases
  <2>4. ASSUME Taking("SHUTDOWN_REQUEST"), modem_state' = "SHUTDOWN", UNCHANGED <<announcing, failed>>,
               events' = (events \o (IF lte = "attached" THEN <<Plain("LTE_DISCONNECTED")>> ELSE << >>))
                           \o <<Plain("MODEM_SHUTDOWN_READY")>>
        PROVE  LinkCases
    <3> DEFINE p == IF lte = "attached" THEN <<Plain("LTE_DISCONNECTED")>> ELSE << >>
               r == <<Plain("MODEM_SHUTDOWN_READY")>>
    <3>1. /\ Plain("LTE_DISCONNECTED") \in EventSet /\ Plain("LTE_DISCONNECTED").type # "LED_STATE"
          /\ Plain("MODEM_SHUTDOWN_READY") \in EventSet /\ Plain("MODEM_SHUTDOWN_READY").type # "LED_STATE"
      BY PlainType DEF OwnTypes, LinkTypes
    <3>2. /\ p \in Seq(EventSet) /\ r \in Seq(EventSet)
          /\ \A i \in DOMAIN p : p[i].type # "LED_STATE"
          /\ \A i \in DOMAIN r : r[i].type # "LED_STATE"
      BY <3>1
    <3>3. events' = (events \o p) \o r
      BY <2>4
    <3> HIDE DEF p, r
    <3>4. Appends({"LED_STATE"})
      BY <1>0, <3>2, <3>3, AppendsTwo
    <3> QED BY <2>4, <3>4, TakingFacts DEF LinkCases, Typed
  <2> QED BY <1>6, <2>1, <2>2, <2>3, <2>4 DEF on_all_states
<1>7. CASE DropMessage
  <2>1. PICK type \in ModemSubscribed : Taking(type) /\ Dropped(type)
    BY <1>7 DEF DropMessage
  <2>2. Appends({"LED_STATE"}) /\ Appends(LinkTypes)
    BY <1>0, <1>7, AppendsNone DEF DropMessage
  <2>3. /\ type = "LTE_CONNECTED" => modem_state \in {"CONNECTED", "SHUTDOWN"}
        /\ type = "LTE_DISCONNECTED" => modem_state # "CONNECTED"
    BY <2>1 DEF Dropped
  <2> QED BY <1>7, <2>1, <2>2, <2>3, TakingFacts
      DEF DropMessage, LinkCases, KeepsLink, HearsLink, TakesOther, Typed, LinkTypes
<1> QED BY <1>1, <1>2, <1>3, <1>4, <1>5, <1>6, <1>7 DEF module_thread_fn

\* The work announces at most the next pattern of the list.
LEMMA LedAppends ==
  ASSUME events \in Seq(EventSet), ListInv, led_pattern_update_work_fn
  PROVE  Appends(LinkTypes) /\ events' \in Seq(EventSet)
<1>1. CASE UNCHANGED events
  BY <1>1, AppendsNone
<1>2. CASE pattern_transition_list # << >> /\ Submit(LedState(Head(pattern_transition_list).led))
  <2>1. Head(pattern_transition_list).led \in Patterns
    <3> DEFINE S == [led : Patterns, hold : BOOLEAN]
    <3>1. pattern_transition_list \in Seq(S)
      BY DEF ListInv
    <3> HIDE DEF S
    <3>2. Head(pattern_transition_list) \in S
      BY <1>2, <3>1
    <3> QED BY <3>2 DEF S
  <2>2. LedState(Head(pattern_transition_list).led) \in EventSet
        /\ LedState(Head(pattern_transition_list).led).type \notin LinkTypes
    BY <2>1, LedStateType DEF LinkTypes
  <2> QED BY <1>2, <2>2, AppendsOne, AppendsTyped
<1> QED BY <1>1, <1>2 DEF led_pattern_update_work_fn, LedState

\* The link inductive step, from the chain's three ends.
LEMMA LinkStep ==
  ASSUME ConnectivityAssumption, Typed, ListInv, LinkInv, Next
  PROVE  LinkInv'
<1>0. /\ events \in Seq(EventSet) /\ modemQ \in Seq(EventSet) /\ failed \in BOOLEAN
      /\ Up # Down /\ Up.type = "LTE_CONNECTED" /\ Down.type = "LTE_DISCONNECTED"
      /\ Up \in EventSet /\ Down \in EventSet
  BY DownFacts DEF Typed
<1>1. CASE failed \/ modem_state = "SHUTDOWN"
  <2>1. (failed => failed') /\ (modem_state = "SHUTDOWN" => modem_state' = "SHUTDOWN")
    <3>1. CASE Deliver
      BY <1>0, <3>1 DEF Deliver, PutModem
    <3>2. CASE ModemThread
      BY <3>2, ThreadCases DEF ModemThread, LinkCases
    <3>3. CASE LedWork \/ LinkChanges \/ OthersSubmit
      BY <3>3 DEF LedWork, LinkChanges, OthersSubmit, modemVars, pdn_event_handler, lwm2m_carrier_event_handler
    <3> QED BY <3>1, <3>2, <3>3 DEF Next
  <2> QED BY <1>1, <2>1 DEF LinkInv
<1>2. CASE ~failed /\ modem_state # "SHUTDOWN"
  <2>1. PICK s \in {Up, Down}, m \in {Up, Down}, e \in {Up, Down} :
          /\ s = Up <=> modem_state = "CONNECTED"
          /\ Settles(modemQ, LinkTypes, s, m)
          /\ Settles(events, LinkTypes, m, e)
          /\ e = Up <=> lte = "attached"
    BY <1>2 DEF LinkInv
  <2>2. ASSUME modem_state' = "CONNECTED" <=> modem_state = "CONNECTED",
               lte' = "attached" <=> lte = "attached", UNCHANGED modemQ, Appends(LinkTypes)
        PROVE  LinkInv'
    <3>1. Settles(events', LinkTypes, m, e)
      BY <1>0, <2>1, <2>2, AppendsSettles
    <3> QED BY <2>1, <2>2, <3>1 DEF LinkInv
  <2>3. CASE Deliver
    <3>1. events # << >> /\ PutModem(Head(events)) /\ events' = Tail(events) \o UiSubmits(Head(events))
          /\ UNCHANGED <<modem_state, lte>>
      BY <2>3 DEF Deliver
    <3>2. Head(events) \in EventSet /\ Tail(events) \in Seq(EventSet)
      BY <1>0, <3>1
    <3>3. /\ UiSubmits(Head(events)) \in Seq(EventSet)
          /\ \A i \in DOMAIN UiSubmits(Head(events)) : UiSubmits(Head(events))[i].type \notin LinkTypes
      <4>1. UiEvent("UI_SHUTDOWN_READY", "none") \in EventSet
            /\ UiEvent("UI_SHUTDOWN_READY", "none").type = "UI_SHUTDOWN_READY"
        BY PlainType DEF OwnTypes, Plain, Ev, UiEvent
      <4> QED BY <4>1 DEF UiSubmits, LinkTypes
    <3>4. CASE Head(events).type \in LinkTypes
      <4>1. Head(events) \in {Up, Down} /\ Head(events).type \in ModemSubscribed
        BY <3>2, <3>4, LinkEvents DEF LinkTypes, ModemSubscribed
      <4>2. Settles(Tail(events), LinkTypes, Head(events), e)
        BY <1>0, <2>1, <3>1, <3>4, SettlesTail
      <4>3. Settles(events', LinkTypes, Head(events), e)
        BY <3>1, <3>2, <3>3, <4>2, SettlesConcat
      <4>4. failed' \/ modemQ' = Append(modemQ, Head(events))
        BY <3>1, <4>1 DEF PutModem, Enqueue
      <4>5. Settles(Append(modemQ, Head(events)), LinkTypes, s, Head(events))
        BY <1>0, <2>1, <3>2, <3>4, SettlesAppend
      <4> QED BY <2>1, <3>1, <4>1, <4>3, <4>4, <4>5 DEF LinkInv
    <3>5. CASE Head(events).type \notin LinkTypes
      <4>1. Settles(Tail(events), LinkTypes, m, e)
        BY <1>0, <2>1, <3>1, <3>5, SettlesTail
      <4>2. Settles(events', LinkTypes, m, e)
        BY <3>1, <3>2, <3>3, <4>1, SettlesConcat
      <4>3. failed' \/ modemQ' = Append(modemQ, Head(events)) \/ modemQ' = modemQ
        BY <3>1 DEF PutModem, Enqueue
      <4>4. Settles(Append(modemQ, Head(events)), LinkTypes, s, m)
        BY <1>0, <2>1, <3>2, <3>5, SettlesAppend
      <4> QED BY <2>1, <3>1, <4>2, <4>3, <4>4 DEF LinkInv
    <3> QED BY <3>4, <3>5
  <2>4. CASE LedWork
    <3>1. Appends(LinkTypes)
      BY <1>0, <2>4, LedAppends DEF LedWork
    <3> QED BY <2>2, <2>4, <3>1 DEF LedWork, modemVars
  <2>5. CASE ModemThread
    <3>1. LinkCases
      BY <2>5, ThreadCases DEF ModemThread
    <3>2. CASE KeepsLink
      <4>1. Settles(events', LinkTypes, m, e)
        BY <1>0, <2>1, <3>2, AppendsSettles DEF KeepsLink
      <4>2. Settles(modemQ', LinkTypes, s, m)
        BY <1>0, <2>1, <3>2, SettlesTail DEF KeepsLink, TakesOther
      <4> QED BY <2>1, <3>2, <4>1, <4>2 DEF LinkInv, KeepsLink
    <3>3. CASE HearsLink
      <4>1. Head(modemQ) \in EventSet
        BY <1>0, <3>3 DEF HearsLink
      <4>2. Head(modemQ) \in {Up, Down} /\ (Head(modemQ) = Up <=> modem_state' = "CONNECTED")
        BY <1>0, <3>3, <4>1, LinkEvents DEF HearsLink
      <4>3. Settles(modemQ', LinkTypes, Head(modemQ), m)
        BY <1>0, <2>1, <3>3, SettlesTail DEF HearsLink
      <4> QED BY <2>1, <3>3, <4>2, <4>3 DEF LinkInv, HearsLink
    <3>4. CASE GoesDown
      <4>1. Settles(modemQ', LinkTypes, s, m)
        BY <1>0, <2>1, <3>4, SettlesTail DEF GoesDown, TakesOther
      <4>2. PICK n \in {m, Down} : Settles(modemQ', LinkTypes, Down, n)
        BY <4>1, SettlesFrom
      <4>3. modem_state' # "CONNECTED" /\ lte' # "attached"
        BY <3>4 DEF GoesDown
      <4>4. CASE lte = "attached"
        <5>1. events' = Append(events, Down)
          BY <3>4, <4>4 DEF GoesDown, Submit
        <5>2. Settles(events', LinkTypes, n, Down)
          BY <1>0, <2>1, <5>1, SettlesAppend DEF LinkTypes
        <5> QED BY <1>0, <4>2, <4>3, <5>2 DEF LinkInv
      <4>5. CASE lte # "attached"
        <5>1. e = Down /\ events' = events
          BY <2>1, <3>4, <4>5 DEF GoesDown
        <5>2. Settles(events, LinkTypes, n, Down)
          BY <2>1, <4>2, <5>1, SettlesFrom
        <5> QED BY <1>0, <4>2, <4>3, <5>1, <5>2 DEF LinkInv
      <4> QED BY <4>4, <4>5
    <3> QED BY <3>1, <3>2, <3>3, <3>4 DEF LinkCases, LinkInv
  <2>6. CASE LinkChanges
    <3>1. CASE pdn_event_handler
      <4>1. PICK x \in {Up, Down} : Submit(x) /\ (x = Up <=> lte' = "attached")
        BY <1>0, <3>1 DEF pdn_event_handler, Up, Down
      <4>2. Settles(events', LinkTypes, m, x)
        BY <1>0, <2>1, <4>1, SettlesAppend DEF LinkTypes, Submit
      <4>3. UNCHANGED <<modem_state, modemQ>>
        BY <3>1 DEF pdn_event_handler
      <4> QED BY <2>1, <4>1, <4>2, <4>3 DEF LinkInv
    <3>2. CASE lwm2m_carrier_event_handler
      <4>1. PICK r \in CarrierRequests : Submit(Plain(r))
        BY <3>2 DEF lwm2m_carrier_event_handler
      <4>2. Plain(r) \in EventSet /\ Plain(r).type \notin LinkTypes
        BY PlainType DEF OwnTypes, CarrierRequests, LinkTypes
      <4>3. Appends(LinkTypes)
        BY <1>0, <4>1, <4>2, AppendsOne
      <4> QED BY <2>2, <3>2, <4>3 DEF lwm2m_carrier_event_handler, modemVars
    <3> QED BY <2>6, <3>1, <3>2 DEF LinkChanges
  <2>7. CASE OthersSubmit
    <3>1. PICK x \in OutsideEvents : Submit(x)
      BY <2>7 DEF OthersSubmit
    <3>2. x \in EventSet /\ x.type \notin LinkTypes
      BY LinkEvents DEF EventSet
    <3>3. Appends(LinkTypes)
      BY <1>0, <3>1, <3>2, AppendsOne
    <3> QED BY <2>2, <2>7, <3>3 DEF OthersSubmit, modemVars
  <2> QED BY <2>3, <2>4, <2>5, <2>6, <2>7 DEF Next
<1> QED BY <1>1, <1>2

-----------------------------------------------------------------------------
(* The user interface.                                                        *)

\* Whatever is submitted outside the UI module's work is not for the LEDs.
LEMMA OthersAppend ==
  ASSUME ConnectivityAssumption, Typed, ModemThread \/ LinkChanges \/ OthersSubmit
  PROVE  Appends({"LED_STATE"}) /\ UNCHANGED uiVars
<1>0. events \in Seq(EventSet) /\ Up \in EventSet /\ Down \in EventSet
      /\ Up.type # "LED_STATE" /\ Down.type # "LED_STATE"
  BY DownFacts DEF Typed
<1>1. CASE ModemThread
  BY <1>1, ThreadCases DEF ModemThread, LinkCases
<1>2. CASE LinkChanges
  <2>1. CASE pdn_event_handler
    BY <1>0, <1>2, <2>1, AppendsOne DEF pdn_event_handler, Up, Down, LinkChanges
  <2>2. CASE lwm2m_carrier_event_handler
    <3>1. PICK r \in CarrierRequests : Submit(Plain(r))
      BY <2>2 DEF lwm2m_carrier_event_handler
    <3>2. Plain(r) \in EventSet /\ Plain(r).type # "LED_STATE"
      BY PlainType DEF OwnTypes, CarrierRequests
    <3> QED BY <1>0, <1>2, <3>1, <3>2, AppendsOne DEF LinkChanges
  <2> QED BY <1>2, <2>1, <2>2 DEF LinkChanges
<1>3. CASE OthersSubmit
  <2>1. PICK x \in OutsideEvents : Submit(x)
    BY <1>3 DEF OthersSubmit
  <2>2. x \in EventSet /\ x.type # "LED_STATE"
    BY LinkEvents DEF EventSet
  <2> QED BY <1>0, <1>3, <2>1, <2>2, AppendsOne DEF OthersSubmit
<1> QED BY <1>1, <1>2, <1>3

\* A delivered event, and what the UI module answers.
LEMMA DeliverFacts ==
  ASSUME Typed, Deliver
  PROVE  /\ events # << >> /\ Head(events) \in EventSet /\ Tail(events) \in Seq(EventSet)
         /\ events' = Tail(events) \o UiSubmits(Head(events)) /\ events' \in Seq(EventSet)
         /\ UiSubmits(Head(events)) \in Seq(EventSet)
         /\ \A i \in DOMAIN UiSubmits(Head(events)) : UiSubmits(Head(events))[i].type # "LED_STATE"
         /\ modemQ' \in Seq(EventSet) /\ failed' \in BOOLEAN
<1>1. events # << >> /\ Head(events) \in EventSet /\ Tail(events) \in Seq(EventSet)
      /\ events' = Tail(events) \o UiSubmits(Head(events)) /\ PutModem(Head(events))
  BY DEF Deliver, Typed
<1>2. /\ UiSubmits(Head(events)) \in Seq(EventSet)
      /\ \A i \in DOMAIN UiSubmits(Head(events)) : UiSubmits(Head(events))[i].type # "LED_STATE"
  <2>1. UiEvent("UI_SHUTDOWN_READY", "none") \in EventSet
        /\ UiEvent("UI_SHUTDOWN_READY", "none").type = "UI_SHUTDOWN_READY"
    BY PlainType DEF OwnTypes, Plain, Ev, UiEvent
  <2> QED BY <2>1 DEF UiSubmits
<1>3. modemQ' \in Seq(EventSet) /\ failed' \in BOOLEAN
  <2>1. Enqueue(modemQ, Head(events), ModemQueueSize) \in Seq(EventSet)
    BY <1>1 DEF Enqueue, Typed
  <2>2. (failed \/ Overflows(modemQ, ModemQueueSize)) \in BOOLEAN
    BY DEF Typed
  <2> QED BY <1>1, <2>1, <2>2 DEF PutModem, Typed
<1> QED BY <1>1, <1>2, <1>3, ConcatProperties

LEMMA TypedStep == ASSUME ConnectivityAssumption, Typed, ListInv, [Next]_vars PROVE Typed'
<1>1. CASE Deliver
  BY <1>1, DeliverFacts DEF Deliver, Typed
<1>2. CASE LedWork
  BY <1>2, LedAppends DEF LedWork, modemVars, Typed
<1>3. CASE ModemThread
  BY <1>3, ThreadCases, AppendsTyped DEF ModemThread, LinkCases, Typed
<1>4. CASE LinkChanges \/ OthersSubmit
  <2>1. UNCHANGED <<modemQ, failed, announcing>>
    BY <1>4 DEF LinkChanges, OthersSubmit, pdn_event_handler, lwm2m_carrier_event_handler, modemVars
  <2> QED BY <1>4, <2>1, OthersAppend, AppendsTyped DEF Typed
<1>5. CASE UNCHANGED vars
  BY <1>5 DEF vars, modemVars, Typed
<1> QED BY <1>1, <1>2, <1>3, <1>4, <1>5 DEF Next

\* The list a handler leaves ends with a pattern that fits the state it leaves.
LEMMA ShowOne ==
  ASSUME NEW led \in Patterns, Show(Forever(led)), Fits(led)', ui_state' # "INIT"
  PROVE  ListInv'
<1>1. Forever(led) \in Seq([led : Patterns, hold : BOOLEAN]) /\ Len(Forever(led)) = 1
      /\ Forever(led)[1].hold /\ Forever(led)[1].led = led /\ Forever(led) # << >>
  BY DEF Forever, Pattern
<1>2. pattern_transition_list' = Forever(led) /\ led_pattern_update_work'
  BY DEF Show
<1>3. \A n \in DOMAIN Forever(led) : n = 1
  BY DEF Forever
<1> QED BY <1>1, <1>2, <1>3, Show(Forever(led)) DEF ListInv, Show

LEMMA ShowPublication ==
  ASSUME Show(Publication), UNCHANGED <<ui_state, sub_sub_state>>, ui_state = "RUNNING"
  PROVE  ListInv'
<1> DEFINE p == Pattern("CLOUD_PUBLISHING", FALSE)
           r == Pattern(IF sub_state = "ACTIVE" THEN "ACTIVE_MODE" ELSE "PASSIVE_MODE", FALSE)
           last == IF sub_sub_state = "LOCATION_ACTIVE" THEN "LOCATION_SEARCHING" ELSE "TURN_OFF"
           x == Pattern(last, TRUE)
           S == [led : Patterns, hold : BOOLEAN]
<1>1. p \in S /\ r \in S /\ x \in S /\ ~p.hold /\ ~r.hold /\ x.hold /\ x.led = last
  BY DEF Pattern, Patterns
<1>2. Publication = <<p, r>> \o <<x>>
  BY DEF Publication, Forever
<1> HIDE DEF p, r, x, S
<1>3. /\ Publication \in Seq(S) /\ Len(Publication) = 3 /\ Publication # << >>
      /\ Publication[1] = p /\ Publication[2] = r /\ Publication[3] = x
      /\ DOMAIN Publication = 1 .. 3
  BY <1>1, <1>2
<1>4. \A n \in DOMAIN Publication : Publication[n].hold <=> n = 3
  BY <1>1, <1>3
<1>5. last \in {"TURN_OFF", "LOCATION_SEARCHING"} /\ (last = "LOCATION_SEARCHING" => sub_sub_state = "LOCATION_ACTIVE")
  OBVIOUS
<1> HIDE DEF last
<1>6. pattern_transition_list' = Publication /\ led_pattern_update_work' = TRUE /\ ui_state' # "INIT"
  BY DEF Show
<1>7. pattern_transition_list'[Len(pattern_transition_list')].led = last
  BY <1>1, <1>3, <1>6
<1>8. Fits(pattern_transition_list[Len(pattern_transition_list)].led)'
  BY <1>5, <1>7 DEF Fits
<1>9. (pattern_transition_list \in Seq([led : Patterns, hold : BOOLEAN]))'
  BY <1>3, <1>6 DEF S
<1> QED BY <1>3, <1>4, <1>6, <1>8, <1>9 DEF ListInv

LEMMA HandlerList ==
  ASSUME ListInv, NEW e, message_handler(e) PROVE ListInv'
<1>0. UNCHANGED previous_led_state /\ SubStates(e)
  BY DEF message_handler
<1>1. CASE on_state_init(e)
  <2>1. /\ ui_state = "INIT" /\ ui_state' = "RUNNING"
        /\ UNCHANGED <<pattern_transition_list, led_pattern_update_work>>
    BY <1>1 DEF on_state_init
  <2> QED BY <1>0, <2>1 DEF ListInv
<1>2. CASE on_state_running(e)
  <2>1. ui_state = "RUNNING" /\ UNCHANGED ui_state
    BY <1>2 DEF on_state_running
  <2>2. CASE e.type \in CloudRelated /\ Show(Publication)
    <3>1. UNCHANGED sub_sub_state
      BY <1>0, <2>1, <2>2 DEF SubStates, CloudRelated
    <3> QED BY <2>1, <2>2, <3>1, ShowPublication
  <2>3. CASE e.type = "LOCATION_ACTIVE" /\ Show(Forever("LOCATION_SEARCHING"))
    <3>1. sub_sub_state' = "LOCATION_ACTIVE"
      BY <1>0, <2>3 DEF SubStates
    <3>2. Fits("LOCATION_SEARCHING")'
      BY <2>1, <3>1 DEF Fits
    <3> QED BY <2>1, <2>3, <3>2, ShowOne DEF Patterns
  <2>4. CASE e.type = "LOCATION_INACTIVE" /\ Show(Forever("TURN_OFF"))
    <3>1. Fits("TURN_OFF")'
      BY <2>1 DEF Fits
    <3> QED BY <2>1, <2>4, <3>1, ShowOne DEF Patterns
  <2> QED BY <1>2, <2>2, <2>3, <2>4 DEF on_state_running
<1>3. CASE on_state_waiting(e)
  <2> DEFINE led == IF e.type = "USER_ASSOCIATED" THEN "CLOUD_ASSOCIATED" ELSE "TURN_OFF"
  <2>1. ui_state' = "RUNNING" /\ Show(Forever(led)) /\ led \in {"CLOUD_ASSOCIATED", "TURN_OFF"}
    BY <1>3 DEF on_state_waiting
  <2> HIDE DEF led
  <2>2. Fits(led)' /\ led \in Patterns
    BY <2>1 DEF Fits, Patterns, led
  <2> QED BY <2>1, <2>2, ShowOne
<1>4. CASE on_all_states_leading(e)
  <2>1. PICK led \in {"LTE_CONNECTING", "CLOUD_CONNECTING", "FOTA_UPDATING", "CLOUD_ASSOCIATING"} :
          ui_state' = led /\ Show(Forever(led))
    BY <1>4 DEF on_all_states_leading, Leading
  <2>2. Fits(led)' /\ led \in Patterns
    BY <2>1 DEF Fits, Patterns
  <2> QED BY <2>1, <2>2, ShowOne
<1>5. CASE on_shutdown_request(e)
  <2>1. PICK led \in {"FOTA_UPDATE_REBOOT", "ERROR_SYSTEM_FAULT"} : ui_state' = "SHUTDOWN" /\ Show(Forever(led))
    BY <1>5 DEF on_shutdown_request
  <2>2. Fits(led)' /\ led \in Patterns
    BY <2>1 DEF Fits, Patterns
  <2> QED BY <2>1, <2>2, ShowOne
<1>6. CASE Indifferent(e)
  <2>1. UNCHANGED <<ui_state, pattern_transition_list, led_pattern_update_work>>
    BY <1>6 DEF Indifferent
  <2>2. ui_state = "RUNNING" => UNCHANGED sub_sub_state
    BY <1>0, <1>6 DEF Indifferent, SubStates
  <2>3. \A led : Fits(led) => Fits(led)'
    BY <2>1, <2>2 DEF Fits
  <2>4. Fits(previous_led_state) => Fits(previous_led_state)'
    BY <1>0, <2>1, <2>2 DEF Fits
  <2>5. Fits(pattern_transition_list[Len(pattern_transition_list)].led)
          => Fits(pattern_transition_list[Len(pattern_transition_list)].led)'
    BY <1>0, <2>1, <2>2 DEF Fits
  <2> QED BY <1>0, <2>1, <2>4, <2>5 DEF ListInv
<1> QED BY <1>1, <1>2, <1>3, <1>4, <1>5, <1>6 DEF message_handler

LEMMA TailFacts ==
  ASSUME NEW S, NEW q \in Seq(S), q # << >>, Len(q) # 1
  PROVE  /\ Tail(q) \in Seq(S) /\ Len(Tail(q)) = Len(q) - 1 /\ Tail(q) # << >>
         /\ Head(q) = q[1] /\ 1 \in DOMAIN q /\ Len(q) \in Nat
         /\ \A n \in DOMAIN Tail(q) : n + 1 \in DOMAIN q /\ Tail(q)[n] = q[n + 1]
         /\ Tail(q)[Len(Tail(q))] = q[Len(q)]
         /\ \A n \in DOMAIN Tail(q) : n \in Nat
<1> DEFINE r == Tail(q)
<1>1. /\ r \in Seq(S) /\ Len(q) \in Nat /\ Len(q) # 0 /\ Len(r) = Len(q) - 1
      /\ DOMAIN q = 1 .. Len(q) /\ DOMAIN r = 1 .. Len(q) - 1
      /\ Head(q) = q[1]
      /\ \A n \in 1 .. Len(q) - 1 : r[n] = q[n + 1]
  OBVIOUS
<1> HIDE DEF r
<1>2. r # << >>
  <2>1. Len(r) # 0
    BY <1>1
  <2>2. Len(<< >>) = 0
    OBVIOUS
  <2> QED BY <2>1, <2>2
<1>3. /\ 1 \in DOMAIN q /\ Len(r) \in 1 .. Len(q) - 1
      /\ \A n \in DOMAIN r : n \in Nat /\ n + 1 \in DOMAIN q
  BY <1>1
<1> QED BY <1>1, <1>2, <1>3 DEF r

LEMMA WorkList ==
  ASSUME ListInv, led_pattern_update_work_fn PROVE ListInv'
<1> DEFINE list == pattern_transition_list
           S == [led : Patterns, hold : BOOLEAN]
<1>0. /\ led_pattern_update_work /\ list # << >> /\ list \in Seq(S)
      /\ \A n \in DOMAIN list : list[n].hold <=> n = Len(list)
      /\ Fits(list[Len(list)].led) /\ ui_state # "INIT"
  BY DEF ListInv, led_pattern_update_work_fn
<1>1. /\ list' = Tail(list) /\ previous_led_state' = Head(list).led
      /\ led_pattern_update_work' = ~Head(list).hold
      /\ UNCHANGED <<ui_state, sub_sub_state>>
  BY <1>0 DEF led_pattern_update_work_fn
<1>2. \A led : Fits(led) <=> Fits(led)'
  BY <1>1 DEF Fits
<1>3. CASE Len(list) = 1
  <2>1. list' = << >> /\ Head(list) = list[1] /\ 1 \in DOMAIN list
    BY <1>0, <1>1, <1>3
  <2>2. Head(list).hold /\ Fits(Head(list).led)
    BY <1>0, <1>3, <2>1
  <2>3. Fits(previous_led_state)'
    BY <1>1, <2>2 DEF Fits
  <2>4. led_pattern_update_work' = FALSE
    BY <1>1, <2>2
  <2> QED BY <1>0, <1>1, <2>1, <2>3, <2>4 DEF ListInv
<1>4. CASE Len(list) # 1
  <2>1. /\ Tail(list) \in Seq(S) /\ Len(Tail(list)) = Len(list) - 1 /\ Tail(list) # << >>
        /\ Head(list) = list[1] /\ 1 \in DOMAIN list /\ Len(list) \in Nat
        /\ \A n \in DOMAIN Tail(list) : n + 1 \in DOMAIN list /\ Tail(list)[n] = list[n + 1]
        /\ Tail(list)[Len(Tail(list))] = list[Len(list)]
        /\ \A n \in DOMAIN Tail(list) : n \in Nat
    <3> HIDE DEF S, list
    <3> QED BY <1>0, <1>4, TailFacts
  <2>2. ~Head(list).hold
    BY <1>0, <1>4, <2>1
  <2>3. led_pattern_update_work' = TRUE
    BY <1>1, <2>2
  <2>4. \A n \in DOMAIN Tail(list) : Tail(list)[n].hold <=> n = Len(Tail(list))
    <3> HIDE DEF S, list
    <3> SUFFICES ASSUME NEW n \in DOMAIN Tail(list) PROVE Tail(list)[n].hold <=> n = Len(Tail(list))
      OBVIOUS
    <3>1. Tail(list)[n].hold <=> n + 1 = Len(list)
      BY <1>0, <2>1
    <3> QED BY <2>1, <3>1
  <2>6. Fits(pattern_transition_list[Len(pattern_transition_list)].led)'
    BY <1>0, <1>1, <2>1 DEF Fits
  <2> QED BY <1>0, <1>1, <2>1, <2>3, <2>4, <2>6 DEF ListInv
<1> QED BY <1>3, <1>4

LEMMA ListStep == ASSUME ConnectivityAssumption, Typed, ListInv, [Next]_vars PROVE ListInv'
<1>1. CASE Deliver
  BY <1>1, HandlerList DEF Deliver
<1>2. CASE LedWork
  BY <1>2, WorkList DEF LedWork
<1>3. CASE UNCHANGED uiVars
  BY <1>3 DEF uiVars, ListInv, Fits
<1> QED BY <1>1, <1>2, <1>3, OthersAppend DEF Next, vars

\* What is shown is what was announced last.
LEMMA ShownStep ==
  ASSUME ConnectivityAssumption, Typed, ListInv, ShownInv, [Next]_vars PROVE ShownInv'
<1> DEFINE LedEvents == {LedState(led) : led \in Patterns}
           T == {"LED_STATE"}
<1>0. events \in Seq(EventSet)
  BY DEF Typed
<1>1. PICK s \in LedEvents, e \in LedEvents :
        /\ Shown(s.data) /\ Settles(events, T, s, e)
        /\ previous_led_state = e.data \/ (previous_led_state = "COUNT" /\ e.data = "TURN_OFF")
  BY DEF ShownInv
<1>2. CASE Deliver
  <2>1. UNCHANGED previous_led_state
        /\ (IF Head(events).type = "LED_STATE" THEN update_led(Head(events).data) ELSE UNCHANGED shown)
    BY <1>2 DEF Deliver, message_handler
  <2>2. CASE Head(events).type = "LED_STATE"
    <3>1. PICK h \in LedEvents : h = Head(events)
      BY <1>2, <2>2, DeliverFacts, LinkEvents
    <3>2. Settles(Tail(events), T, h, e)
      BY <1>0, <1>1, <1>2, <2>2, <3>1, DeliverFacts, SettlesTail
    <3>3. Settles(events', T, h, e)
      BY <1>2, <3>2, DeliverFacts, SettlesConcat
    <3>4. Shown(h.data)'
      BY <2>1, <2>2, <3>1 DEF update_led, Shown
    <3> QED BY <1>1, <2>1, <3>3, <3>4 DEF ShownInv
  <2>3. CASE Head(events).type # "LED_STATE"
    <3>1. Settles(Tail(events), T, s, e)
      BY <1>0, <1>1, <1>2, <2>3, DeliverFacts, SettlesTail
    <3>2. Settles(events', T, s, e)
      BY <1>2, <3>1, DeliverFacts, SettlesConcat
    <3>3. Shown(s.data)'
      BY <1>1, <2>1, <2>3 DEF Shown
    <3> QED BY <1>1, <2>1, <3>2, <3>3 DEF ShownInv
  <2> QED BY <2>2, <2>3
<1>3. CASE LedWork
  <2> DEFINE led == Head(pattern_transition_list).led
  <2>1. /\ pattern_transition_list # << >> /\ previous_led_state' = led /\ UNCHANGED shown
        /\ IF led # previous_led_state THEN Submit(LedState(led)) ELSE UNCHANGED events
    BY <1>3 DEF LedWork, led_pattern_update_work_fn, ListInv, LedState
  <2>2. led \in Patterns
    <3> DEFINE S == [led : Patterns, hold : BOOLEAN]
    <3>1. pattern_transition_list \in Seq(S)
      BY DEF ListInv
    <3> HIDE DEF S
    <3>2. Head(pattern_transition_list) \in S
      BY <2>1, <3>1
    <3> QED BY <3>2 DEF S
  <2> HIDE DEF led
  <2>3. Shown(s.data)'
    BY <1>1, <2>1 DEF Shown
  <2>4. CASE led # previous_led_state
    <3>1. Settles(events', T, s, LedState(led))
      BY <1>0, <1>1, <2>1, <2>2, <2>4, LedStateType, SettlesAppend DEF Submit
    <3> QED BY <1>1, <2>1, <2>2, <2>3, <3>1, LedStateType DEF ShownInv
  <2>5. CASE led = previous_led_state
    <3>1. previous_led_state # "COUNT"
      BY <2>2, <2>5 DEF Patterns
    <3> QED BY <1>1, <2>1, <2>3, <2>5, <3>1 DEF ShownInv
  <2> QED BY <2>4, <2>5
<1>4. CASE ModemThread \/ LinkChanges \/ OthersSubmit
  <2>1. Settles(events', T, s, e) /\ UNCHANGED uiVars
    BY <1>0, <1>1, <1>4, OthersAppend, AppendsSettles
  <2> QED BY <1>1, <2>1 DEF ShownInv, Shown, uiVars
<1>5. CASE UNCHANGED vars
  BY <1>1, <1>5 DEF ShownInv, Shown, uiVars, vars
<1> QED BY <1>2, <1>3, <1>4, <1>5 DEF Next

-----------------------------------------------------------------------------
(* The theorems.                                                              *)

ConnectivityInv == Typed /\ ListInv /\ ShownInv /\ LinkInv

LEMMA ConnectivityInit == ASSUME ConnectivityAssumption, Init PROVE ConnectivityInv
<1>0. events = <<Plain("START")>> /\ modemQ = << >> /\ modem_state = "BOOT" /\ lte = "offline"
      /\ failed = FALSE /\ announcing = FALSE
      /\ pattern_transition_list = << >> /\ led_pattern_update_work = FALSE /\ ui_state = "INIT"
      /\ previous_led_state = "COUNT" /\ shown = [i \in Leds |-> "TURN_OFF"]
  BY DEF Init, ModemInit, UiInit
<1>1. Plain("START") \in EventSet /\ Plain("START").type = "START"
  BY PlainType DEF OwnTypes
<1>2. Typed
  <2>1. events \in Seq(EventSet) /\ modemQ \in Seq(EventSet)
    <3> DEFINE start == Plain("START")
               E == EventSet
    <3>1. start \in E /\ events = <<start>> /\ modemQ = << >>
      BY <1>0, <1>1
    <3> HIDE DEF start, E
    <3>2. events \in Seq(E) /\ modemQ \in Seq(E)
      BY <3>1
    <3> QED BY <3>2 DEF E
  <2> QED BY <1>0, <2>1 DEF Typed
<1>3. ListInv
  BY <1>0 DEF ListInv
<1>4. \A types, x : "START" \notin types => Settles(events, types, x, x)
  BY <1>0, <1>1 DEF Settles
<1>5. ShownInv
  <2>1. LedState("TURN_OFF").data = "TURN_OFF" /\ "TURN_OFF" \in Patterns
    BY DEF LedState, UiEvent, Patterns
  <2>2. Shown("TURN_OFF")
    BY <1>0 DEF Shown
  <2>3. Settles(events, {"LED_STATE"}, LedState("TURN_OFF"), LedState("TURN_OFF"))
    BY <1>4
  <2> QED BY <1>0, <2>1, <2>2, <2>3 DEF ShownInv
<1>6. LinkInv
  <2>1. Up # Down
    BY DEF Up, Down, Plain, Ev
  <2>2. Settles(modemQ, LinkTypes, Down, Down) /\ Settles(events, LinkTypes, Down, Down)
    BY <1>0, <1>4, SettlesEmpty DEF LinkTypes
  <2> QED BY <1>0, <2>1, <2>2 DEF LinkInv
<1> QED BY <1>2, <1>3, <1>5, <1>6 DEF ConnectivityInv

LEMMA ConnectivityStep == ASSUME ConnectivityAssumption, ConnectivityInv, [Next]_vars PROVE ConnectivityInv'
<1>1. CASE Next
  BY <1>1, TypedStep, ListStep, ShownStep, LinkStep DEF ConnectivityInv
<1>2. CASE UNCHANGED vars
  <2>1. LinkInv'
    BY <1>2 DEF vars, modemVars, LinkInv, ConnectivityInv
  <2> QED BY <1>2, <2>1, TypedStep, ListStep, ShownStep DEF ConnectivityInv
<1> QED BY <1>1, <1>2

LEMMA ConnectivityInvariant == Spec => []ConnectivityInv
<1>1. Init => ConnectivityInv
  BY ConnectivityAssumption, ConnectivityInit
<1>2. ConnectivityInv /\ [Next]_vars => ConnectivityInv'
  BY ConnectivityAssumption, ConnectivityStep
<1> QED BY <1>1, <1>2, PTL DEF Spec

\* Whatever the module takes down itself while reports of the link are on their
\* way, and for every queue size that has not overflowed: at rest, the module is
\* CONNECTED exactly when the modem is attached (modem_module.c, on_state_*).
THEOREM ModuleFollowsLink == Spec => []ModemFollowsLink
<1>1. ConnectivityInv => ModemFollowsLink
  <2> SUFFICES ASSUME LinkInv, Quiet, ~failed, modem_state \notin {"BOOT", "SHUTDOWN"}
               PROVE  (modem_state = "CONNECTED") = (lte = "attached")
    BY DEF ConnectivityInv, ModemFollowsLink
  <2>1. PICK s \in {Up, Down}, m \in {Up, Down}, e \in {Up, Down} :
          /\ s = Up <=> modem_state = "CONNECTED"
          /\ Settles(<< >>, LinkTypes, s, m)
          /\ Settles(<< >>, LinkTypes, m, e)
          /\ e = Up <=> lte = "attached"
    BY DEF LinkInv, Quiet
  <2> QED BY <2>1, SettlesEmpty
<1> QED BY <1>1, ConnectivityInvariant, PTL

\* For any LEDs and patterns, and however the handlers replace the pattern list
\* under the work that walks it, the LEDs come to rest on what the state of the UI
\* module calls for (ui_module.c, led_module.c).
THEOREM LedsComeToRest == Spec => []LedsFollowState
<1>1. ConnectivityInv => LedsFollowState
  <2> SUFFICES ASSUME ListInv, ShownInv, events = << >>, ~led_pattern_update_work
               PROVE  LedsFollowState
    BY DEF ConnectivityInv, LedsFollowState
  <2>1. PICK s \in {LedState(led) : led \in Patterns}, e \in {LedState(led) : led \in Patterns} :
          /\ Shown(s.data) /\ Settles(<< >>, {"LED_STATE"}, s, e)
          /\ previous_led_state = e.data \/ (previous_led_state = "COUNT" /\ e.data = "TURN_OFF")
    BY DEF ShownInv
  <2>2. Shown(e.data)
    BY <2>1, SettlesEmpty
  <2>3. Fits(previous_led_state) \/ (previous_led_state = "COUNT" /\ ui_state \in {"INIT", "RUNNING"})
    BY DEF ListInv
  <2>4. CASE previous_led_state = e.data /\ Fits(previous_led_state)
    BY <2>2, <2>4 DEF Fits, LedsFollowState
  <2>5. CASE e.data = "TURN_OFF" /\ ui_state \in {"INIT", "RUNNING"}
    BY <2>2, <2>5 DEF LedsFollowState
  <2>6. CASE previous_led_state = e.data
    <3>1. previous_led_state # "COUNT"
      BY <2>6, LedStateType DEF Patterns
    <3> QED BY <2>3, <2>4, <2>6, <3>1
  <2>7. CASE previous_led_state = "COUNT" /\ e.data = "TURN_OFF"
    <3>1. Fits("COUNT") => \/ ui_state = "INIT"
                           \/ ui_state \notin {"LTE_CONNECTING", "CLOUD_CONNECTING", "CLOUD_ASSOCIATING",
                                               "FOTA_UPDATING", "SHUTDOWN", "RUNNING"}
      BY DEF Fits
    <3>2. ui_state \notin {"LTE_CONNECTING", "CLOUD_CONNECTING", "CLOUD_ASSOCIATING",
                           "FOTA_UPDATING", "SHUTDOWN", "RUNNING"} => LedsFollowState
      BY DEF LedsFollowState
    <3> QED BY <2>3, <2>5, <2>7, <3>1, <3>2
  <2> QED BY <2>1, <2>6, <2>7
<1> QED BY <1>1, ConnectivityInvariant, PTL

=============================================================================
