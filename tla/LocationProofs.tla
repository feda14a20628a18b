----------------------------- MODULE LocationProofs -----------------------------
(* Proofs about Location: the pending flag speaks of the search that is on, and *)
(* every step implements the service.                                           *)
EXTENDS Location, SequenceTheorems, TLAPS

\* What a callback of the search that is on can have left to do: to announce the
\* end, or to ask the cloud; the answer to the data module comes first.
Told == {"GNSS_DATA_READY", "TIMEOUT", "DATA_NOT_READY"}
Telling == {<<a, "CLEAR", "INACTIVE", "RETURN">> : a \in Told}
Ending == {<<"CLEAR", "INACTIVE", "RETURN">>, <<"INACTIVE", "RETURN">>, <<"RETURN">>}
Asking == {<<"CLOUD_LOCATION_DATA_READY", "SET", "RETURN_TO_WAIT">>}
Asked == {<<"SET", "RETURN_TO_WAIT">>, <<"RETURN_TO_WAIT">>}
Live == Telling \cup Ending \cup Asking \cup Asked

\* What is left of one whose search was cancelled.
GivenUp == {<< >>, <<"CLEAR", "INACTIVE">>, <<"INACTIVE">>} \cup {<<a, "CLEAR", "INACTIVE">> : a \in Told}

EventData == {"none"} \cup Results \cup Settings
EventTypes ==
  {"START", "MODEM_INITIALIZED", "ACTIVE", "INACTIVE", "DATA_GET", "CLOUD_LOCATION", "CONFIG",
   "SHUTDOWN_REQUEST", "SHUTDOWN_READY", "ERROR"} \cup Answers
EventSet == [type : EventTypes, data : EventData]

LocationTypeOK ==
  /\ events \in Seq(EventSet)
  /\ enabled \in EventData
  /\ cloud_location_request_pending \in BOOLEAN
  /\ search \in [phase : {"off", "try", "wait"}, plan : SUBSET Methods, ext : EventData, answered : BOOLEAN]
  /\ callback \in Live \cup GivenUp

\* The callback reports on the search that is on, and has answered before it ends it.
CallbackInv ==
  /\ callback \in Live => search.phase # "off"
  /\ callback \in Ending \cup Asked => search.answered
  /\ callback \in Asking \cup Asked => search.phase = "try" /\ Trying = "CLOUD"

SearchInv ==
  /\ search.phase # "off" => search.plan # {}
  /\ search.phase = "wait" => search.answered /\ Trying = "CLOUD"

\* The flag is set for a search that asked the cloud, and will not ask it again.
PendingInv ==
  cloud_location_request_pending =>
    /\ search.phase # "off" /\ search.answered
    /\ search.phase = "try" => callback = <<"RETURN_TO_WAIT">> \/ "CLOUD" \notin search.plan
    /\ callback \notin {<<"INACTIVE", "RETURN">>, <<"RETURN">>}
    /\ callback \in Live \cup {<< >>}

LocationInv == LocationTypeOK /\ CallbackInv /\ SearchInv /\ PendingInv

-----------------------------------------------------------------------------
(* The sequences a callback can be.                                           *)

LEMMA NoneThenThree ==
  ASSUME NEW a, NEW b, NEW c
  PROVE  << >> \o <<a, b, c>> = <<a, b, c>>
<1> DEFINE S == {a, b, c}
<1>1. /\ << >> \o <<a, b, c>> \in Seq(S) /\ <<a, b, c>> \in Seq(S)
      /\ Len(<< >> \o <<a, b, c>>) = 3 /\ Len(<<a, b, c>>) = 3
      /\ \A i \in 1 .. 3 : (<< >> \o <<a, b, c>>)[i] = <<a, b, c>>[i]
  OBVIOUS
<1> QED BY <1>1, SeqEqual

LEMMA OneThenTwo ==
  ASSUME NEW a, NEW b, NEW c
  PROVE  <<a>> \o <<b, c>> = <<a, b, c>>
<1> DEFINE S == {a, b, c}
<1>1. /\ <<a>> \o <<b, c>> \in Seq(S) /\ <<a, b, c>> \in Seq(S)
      /\ Len(<<a>> \o <<b, c>>) = 3 /\ Len(<<a, b, c>>) = 3
      /\ \A i \in 1 .. 3 : (<<a>> \o <<b, c>>)[i] = <<a, b, c>>[i]
  OBVIOUS
<1> QED BY <1>1, SeqEqual

LEMMA TwoThenOne ==
  ASSUME NEW a, NEW b, NEW c
  PROVE  <<a, b>> \o <<c>> = <<a, b, c>>
<1> DEFINE S == {a, b, c}
<1>1. /\ <<a, b>> \o <<c>> \in Seq(S) /\ <<a, b, c>> \in Seq(S)
      /\ Len(<<a, b>> \o <<c>>) = 3 /\ Len(<<a, b, c>>) = 3
      /\ \A i \in 1 .. 3 : (<<a, b>> \o <<c>>)[i] = <<a, b, c>>[i]
  OBVIOUS
<1> QED BY <1>1, SeqEqual

LEMMA OneThenThree ==
  ASSUME NEW a, NEW b, NEW c, NEW d
  PROVE  <<a>> \o <<b, c, d>> = <<a, b, c, d>>
<1> DEFINE S == {a, b, c, d}
<1>1. /\ <<a>> \o <<b, c, d>> \in Seq(S) /\ <<a, b, c, d>> \in Seq(S)
      /\ Len(<<a>> \o <<b, c, d>>) = 4 /\ Len(<<a, b, c, d>>) = 4
      /\ \A i \in 1 .. 4 : (<<a>> \o <<b, c, d>>)[i] = <<a, b, c, d>>[i]
  OBVIOUS
<1> QED BY <1>1, SeqEqual

LEMMA FrontOfOne == ASSUME NEW a PROVE Front(<<a>>) = << >>
<1>1. Front(<<a>>) \in Seq({a}) /\ Len(Front(<<a>>)) = 0
  BY DEF Front
<1> QED BY <1>1, EmptySeq

LEMMA FrontOfTwo ==
  ASSUME NEW a, NEW b
  PROVE  Front(<<a, b>>) = <<a>>
<1> DEFINE S == {a, b}
<1>1. /\ Front(<<a, b>>) \in Seq(S) /\ <<a>> \in Seq(S)
      /\ Len(Front(<<a, b>>)) = 1 /\ Len(<<a>>) = 1
      /\ \A i \in 1 .. 1 : Front(<<a, b>>)[i] = <<a>>[i]
  BY DEF Front
<1> QED BY <1>1, SeqEqual

LEMMA FrontOfThree ==
  ASSUME NEW a, NEW b, NEW c
  PROVE  Front(<<a, b, c>>) = <<a, b>>
<1> DEFINE S == {a, b, c}
<1>1. /\ Front(<<a, b, c>>) \in Seq(S) /\ <<a, b>> \in Seq(S)
      /\ Len(Front(<<a, b, c>>)) = 2 /\ Len(<<a, b>>) = 2
      /\ \A i \in 1 .. 2 : Front(<<a, b, c>>)[i] = <<a, b>>[i]
  BY DEF Front
<1> QED BY <1>1, SeqEqual

LEMMA FrontOfFour ==
  ASSUME NEW a, NEW b, NEW c, NEW d
  PROVE  Front(<<a, b, c, d>>) = <<a, b, c>>
<1> DEFINE S == {a, b, c, d}
<1>1. /\ Front(<<a, b, c, d>>) \in Seq(S) /\ <<a, b, c>> \in Seq(S)
      /\ Len(Front(<<a, b, c, d>>)) = 3 /\ Len(<<a, b, c>>) = 3
      /\ \A i \in 1 .. 3 : Front(<<a, b, c, d>>)[i] = <<a, b, c>>[i]
  BY DEF Front
<1> QED BY <1>1, SeqEqual

\* What a callback does next, and what it has left to do then.
LEMMA CallbackCases ==
  ASSUME callback \in Live \cup GivenUp, callback # << >>
  PROVE  \/ callback \in Telling /\ Head(callback) \in Told /\ ~Orphaned
              /\ Tail(callback) = <<"CLEAR", "INACTIVE", "RETURN">>
         \/ callback = <<"CLEAR", "INACTIVE", "RETURN">> /\ Head(callback) = "CLEAR" /\ ~Orphaned
              /\ Tail(callback) = <<"INACTIVE", "RETURN">>
         \/ callback = <<"INACTIVE", "RETURN">> /\ Head(callback) = "INACTIVE" /\ ~Orphaned
              /\ Tail(callback) = <<"RETURN">>
         \/ callback = <<"RETURN">> /\ Head(callback) = "RETURN" /\ Tail(callback) = << >> /\ ~Orphaned
         \/ callback \in Asking /\ Head(callback) = "CLOUD_LOCATION_DATA_READY" /\ ~Orphaned
              /\ Tail(callback) = <<"SET", "RETURN_TO_WAIT">>
         \/ callback = <<"SET", "RETURN_TO_WAIT">> /\ Head(callback) = "SET" /\ ~Orphaned
              /\ Tail(callback) = <<"RETURN_TO_WAIT">>
         \/ callback = <<"RETURN_TO_WAIT">> /\ Head(callback) = "RETURN_TO_WAIT" /\ ~Orphaned
              /\ Tail(callback) = << >>
         \/ callback \in GivenUp /\ Orphaned /\ Head(callback) \in Told \cup {"CLEAR", "INACTIVE"}
              /\ Tail(callback) \in GivenUp
<1>1. ASSUME NEW a \in Told, callback = <<a, "CLEAR", "INACTIVE", "RETURN">>
      PROVE  callback \in Telling /\ Head(callback) \in Told /\ ~Orphaned
               /\ Tail(callback) = <<"CLEAR", "INACTIVE", "RETURN">>
  <2>1. Last(callback) = "RETURN" /\ Head(callback) = a
        /\ Tail(callback) = <<"CLEAR", "INACTIVE", "RETURN">>
    BY <1>1 DEF Last
  <2> QED BY <1>1, <2>1 DEF Orphaned, Returns, Telling
<1>2. CASE callback = <<"CLEAR", "INACTIVE", "RETURN">>
  <2>1. Last(callback) = "RETURN" /\ Head(callback) = "CLEAR" /\ Tail(callback) = <<"INACTIVE", "RETURN">>
    BY <1>2 DEF Last
  <2> QED BY <1>2, <2>1 DEF Orphaned, Returns
<1>3. CASE callback = <<"INACTIVE", "RETURN">>
  <2>1. Last(callback) = "RETURN" /\ Head(callback) = "INACTIVE" /\ Tail(callback) = <<"RETURN">>
    BY <1>3 DEF Last
  <2> QED BY <1>3, <2>1 DEF Orphaned, Returns
<1>4. CASE callback = <<"RETURN">>
  <2>1. Last(callback) = "RETURN" /\ Head(callback) = "RETURN" /\ Tail(callback) = << >>
    BY <1>4 DEF Last
  <2> QED BY <1>4, <2>1 DEF Orphaned, Returns
<1>5. CASE callback \in Asking
  <2>1. callback = <<"CLOUD_LOCATION_DATA_READY", "SET", "RETURN_TO_WAIT">>
    BY <1>5 DEF Asking
  <2>2. Last(callback) = "RETURN_TO_WAIT" /\ Head(callback) = "CLOUD_LOCATION_DATA_READY"
        /\ Tail(callback) = <<"SET", "RETURN_TO_WAIT">>
    BY <2>1 DEF Last
  <2> QED BY <1>5, <2>2 DEF Orphaned, Returns
<1>6. CASE callback = <<"SET", "RETURN_TO_WAIT">>
  <2>1. Last(callback) = "RETURN_TO_WAIT" /\ Head(callback) = "SET" /\ Tail(callback) = <<"RETURN_TO_WAIT">>
    BY <1>6 DEF Last
  <2> QED BY <1>6, <2>1 DEF Orphaned, Returns
<1>7. CASE callback = <<"RETURN_TO_WAIT">>
  <2>1. Last(callback) = "RETURN_TO_WAIT" /\ Head(callback) = "RETURN_TO_WAIT" /\ Tail(callback) = << >>
    BY <1>7 DEF Last
  <2> QED BY <1>7, <2>1 DEF Orphaned, Returns
<1>8. CASE callback \in GivenUp
  <2>1. ASSUME NEW a \in Told, callback = <<a, "CLEAR", "INACTIVE">>
        PROVE  Last(callback) = "INACTIVE" /\ Head(callback) \in Told /\ Tail(callback) \in GivenUp
    BY <2>1 DEF Last, GivenUp
  <2>2. CASE callback = <<"CLEAR", "INACTIVE">>
    <3>1. Last(callback) = "INACTIVE" /\ Head(callback) = "CLEAR" /\ Tail(callback) = <<"INACTIVE">>
      BY <2>2 DEF Last
    <3> QED BY <1>8, <3>1 DEF Orphaned, Returns, GivenUp
  <2>3. CASE callback = <<"INACTIVE">>
    <3>1. Last(callback) = "INACTIVE" /\ Head(callback) = "INACTIVE" /\ Tail(callback) = << >>
      BY <2>3 DEF Last
    <3> QED BY <1>8, <3>1 DEF Orphaned, Returns, GivenUp
  <2> QED BY <1>8, <2>1, <2>2, <2>3 DEF Orphaned, Returns, GivenUp
<1> QED BY <1>1, <1>2, <1>3, <1>4, <1>5, <1>6, <1>7, <1>8 DEF Live, Telling, Ending, Asked

\* A search given up leaves its callback no way back to the library.
LEMMA CancelledCases ==
  ASSUME callback \in Live \cup GivenUp, callback \notin {<<"SET", "RETURN_TO_WAIT">>} \cup Asking
  PROVE  Cancelled \in GivenUp
<1>1. ASSUME NEW a \in Told, callback = <<a, "CLEAR", "INACTIVE", "RETURN">>
      PROVE  Cancelled \in GivenUp
  <2>1. Last(callback) = "RETURN" /\ callback # << >>
    BY <1>1 DEF Last
  <2>2. Front(callback) = <<a, "CLEAR", "INACTIVE">>
    BY <1>1, FrontOfFour
  <2> QED BY <2>1, <2>2 DEF Cancelled, Orphaned, Returns, GivenUp
<1>2. CASE callback = <<"CLEAR", "INACTIVE", "RETURN">>
  <2>1. Last(callback) = "RETURN" /\ callback # << >>
    BY <1>2 DEF Last
  <2>2. Front(callback) = <<"CLEAR", "INACTIVE">>
    BY <1>2, FrontOfThree
  <2> QED BY <2>1, <2>2 DEF Cancelled, Orphaned, Returns, GivenUp
<1>3. CASE callback = <<"INACTIVE", "RETURN">>
  <2>1. Last(callback) = "RETURN" /\ callback # << >>
    BY <1>3 DEF Last
  <2>2. Front(callback) = <<"INACTIVE">>
    BY <1>3, FrontOfTwo
  <2> QED BY <2>1, <2>2 DEF Cancelled, Orphaned, Returns, GivenUp
<1>4. ASSUME NEW op \in Returns, callback = <<op>>
      PROVE  Cancelled \in GivenUp
  <2>1. Last(callback) \in Returns /\ callback # << >>
    BY <1>4 DEF Last
  <2>2. Front(callback) = << >>
    BY <1>4, FrontOfOne
  <2> QED BY <2>1, <2>2 DEF Cancelled, Orphaned, GivenUp
<1>5. ASSUME callback \in GivenUp, callback # << >>
      PROVE  Orphaned
  <2>1. ASSUME NEW a \in Told, callback = <<a, "CLEAR", "INACTIVE">>
        PROVE  Last(callback) = "INACTIVE"
    BY <2>1 DEF Last
  <2>2. CASE callback \in {<<"CLEAR", "INACTIVE">>, <<"INACTIVE">>}
    BY <2>2 DEF Last, Orphaned, Returns
  <2> QED BY <1>5, <2>1, <2>2 DEF GivenUp, Orphaned, Returns
<1>6. CASE callback \in GivenUp
  BY <1>5, <1>6 DEF Cancelled
<1> QED BY <1>1, <1>2, <1>3, <1>4, <1>6 DEF Live, Telling, Ending, Asked, Returns

\* What the library's reports leave a callback to do.
LEMMA HandlerCases ==
  ASSUME NEW method \in {"GNSS", "CLOUD"}
  PROVE  /\ location_event_handler("LOCATION", "GNSS") \in Telling
         /\ method = "CLOUD" => location_event_handler("LOCATION", method) = <<"CLEAR", "INACTIVE", "RETURN">>
         /\ location_event_handler("ERROR", method) \in Telling
         /\ location_event_handler("TIMEOUT", method) \in Telling
         /\ location_event_handler("RESULT_UNKNOWN", method) = <<"CLEAR", "INACTIVE", "RETURN">>
         /\ location_event_handler("CLOUD_LOCATION_EXT_REQUEST", method) \in Asking
<1> DEFINE end == <<"CLEAR", "INACTIVE", "RETURN">>
<1>1. inactive_send \o <<"RETURN">> = end
  BY TwoThenOne DEF inactive_send
<1>2. location_event_handler("LOCATION", "GNSS") \in Telling
  <2>1. location_event_handler("LOCATION", "GNSS") = <<"GNSS_DATA_READY">> \o end
    BY <1>1 DEF location_event_handler, location_event_report, location_event_end
  <2> QED BY <2>1, OneThenThree DEF Telling, Told
<1>3. location_event_handler("ERROR", method) \in Telling
  <2>1. location_event_handler("ERROR", method) = <<"DATA_NOT_READY">> \o end
    BY <1>1 DEF location_event_handler, location_event_report, location_event_end
  <2> QED BY <2>1, OneThenThree DEF Telling, Told
<1>4. location_event_handler("TIMEOUT", method) \in Telling
  <2>1. location_event_handler("TIMEOUT", method) = <<"TIMEOUT">> \o end
    BY <1>1 DEF location_event_handler, location_event_report, location_event_end
  <2> QED BY <2>1, OneThenThree DEF Telling, Told
<1>5. ASSUME NEW id \in {"LOCATION", "RESULT_UNKNOWN"}, id = "LOCATION" => method = "CLOUD"
      PROVE  location_event_handler(id, method) = end
  <2>1. location_event_handler(id, method) = << >> \o end
    BY <1>1, <1>5 DEF location_event_handler, location_event_report, location_event_end
  <2> QED BY <2>1, NoneThenThree
<1>6. location_event_handler("CLOUD_LOCATION_EXT_REQUEST", method) \in Asking
  <2>1. location_event_handler("CLOUD_LOCATION_EXT_REQUEST", method)
          = <<"CLOUD_LOCATION_DATA_READY">> \o <<"SET", "RETURN_TO_WAIT">>
    BY DEF location_event_handler, location_event_report, location_event_end
  <2> QED BY <2>1, OneThenTwo DEF Asking
<1> QED BY <1>2, <1>3, <1>4, <1>5, <1>6

-----------------------------------------------------------------------------
(* Events and the library.                                                    *)

LEMMA PlainType == ASSUME NEW type \in EventTypes PROVE Plain(type) \in EventSet
  BY DEF Plain, Ev, EventSet, EventData

LEMMA SubmitType ==
  ASSUME events \in Seq(EventSet), NEW e \in EventSet, Submit(e) PROVE events' \in Seq(EventSet)
  BY DEF Submit

LEMMA EmitType ==
  ASSUME events \in Seq(EventSet), events # << >>, NEW s \in Seq(EventSet), Emit(s)
  PROVE  events' \in Seq(EventSet)
  BY DEF Emit

\* The event processed is typed, and every handler that submits nothing else
\* leaves the others.
LEMMA HandlerType ==
  ASSUME LocationTypeOK, NEW type, Processing(type)
  PROVE  /\ Head(events).data \in EventData
         /\ Emit(<< >>) => events' \in Seq(EventSet)
         /\ \A sent \in EventTypes : Emit(<<Plain(sent)>>) => events' \in Seq(EventSet)
<1>1. events \in Seq(EventSet) /\ events # << >> /\ Head(events) \in EventSet
  BY DEF LocationTypeOK, Processing
<1>2. Head(events).data \in EventData
  BY <1>1 DEF EventSet
<1>3. << >> \in Seq(EventSet)
  OBVIOUS
<1>4. \A sent \in EventTypes : <<Plain(sent)>> \in Seq(EventSet)
  BY PlainType
<1> QED BY <1>1, <1>2, <1>3, <1>4, EmitType

\* The method being tried is one of the plan.
LEMMA TryingIn ==
  ASSUME LocationAssumption, search.plan \in SUBSET Methods, search.plan # {}
  PROVE  Trying \in search.plan /\ Trying \in {"GNSS", "CLOUD"}
  BY DEF Trying, LocationAssumption

LEMMA EventsStep == ASSUME LocationTypeOK, Next PROVE events' \in Seq(EventSet)
<1>0. events \in Seq(EventSet)
  BY DEF LocationTypeOK
<1>1. CASE CallbackStep
  <2>1. Head(callback) \in Answers \cup {"INACTIVE"} => Plain(Head(callback)) \in EventSet
    BY PlainType DEF Answers, EventTypes
  <2> QED BY <1>0, <1>1, <2>1, SubmitType DEF CallbackStep
<1>2. CASE LibraryStep
  BY <1>0, <1>2 DEF LibraryStep
<1>3. CASE ProcessEvent
  <2>1. CASE OnStart \/ OnCloudLocation \/ OnConfig \/ IgnoreEvent
    BY <2>1, HandlerType DEF OnStart, OnCloudLocation, OnConfig, IgnoreEvent
  <2>2. CASE OnModemInitialized
    BY <2>2, HandlerType DEF OnModemInitialized, EventTypes
  <2>3. CASE OnSearchEvent
    BY <2>3, HandlerType DEF OnSearchEvent
  <2>4. CASE OnDataGetIdle
    BY <2>4, HandlerType DEF OnDataGetIdle, search_start, EventTypes, Answers
  <2>5. CASE OnDataGetSearch
    BY <2>5, HandlerType DEF OnDataGetSearch, search_start, EventTypes, Answers
  <2>6. CASE OnShutdownRequest
    BY <2>6, HandlerType DEF OnShutdownRequest, EventTypes
  <2> QED BY <1>3, <2>1, <2>2, <2>3, <2>4, <2>5, <2>6 DEF ProcessEvent
<1>4. CASE CloudAnswers
  <2>1. \A r \in Results : Ev("CLOUD_LOCATION", r) \in EventSet
    BY DEF Ev, EventSet, EventData, EventTypes
  <2> QED BY <1>0, <1>4, <2>1, SubmitType DEF CloudAnswers
<1>5. CASE OthersSubmit
  <2>1. \A s \in Settings : Ev("CONFIG", s) \in EventSet
    BY DEF Ev, EventSet, EventData, EventTypes
  <2> QED BY <1>0, <1>5, <2>1, PlainType, SubmitType DEF OthersSubmit, EventTypes
<1> QED BY <1>1, <1>2, <1>3, <1>4, <1>5 DEF Next

-----------------------------------------------------------------------------
(* The invariant.                                                             *)

LEMMA LocationInit == ASSUME LocationAssumption, Init PROVE LocationInv
<1>1. events \in Seq(EventSet)
  <2>1. Plain("START") \in EventSet /\ Plain("MODEM_INITIALIZED") \in EventSet
    BY PlainType DEF EventTypes
  <2> QED BY <2>1 DEF Init
<1>2. search \in [phase : {"off", "try", "wait"}, plan : SUBSET Methods, ext : EventData, answered : BOOLEAN]
  BY DEF Init, NoSearch, EventData
<1>3. callback \in GivenUp /\ callback = << >> /\ search.phase = "off" /\ ~cloud_location_request_pending
  BY DEF Init, GivenUp, NoSearch
<1>4. << >> \notin Live
  BY DEF Live, Telling, Ending, Asking, Asked
<1> QED BY <1>1, <1>2, <1>3, <1>4 DEF LocationInv, LocationTypeOK, CallbackInv, SearchInv, PendingInv,
          Live, Init, EventData

\* What a callback still has to do tells how far it is.
LEMMA Apart ==
  /\ \A c \in Telling : c \notin Ending \cup Asking \cup Asked \cup GivenUp
  /\ \A c \in Ending : c \notin Asking \cup Asked \cup GivenUp
  /\ \A c \in Asking : c \notin Asked \cup GivenUp
  /\ \A c \in Asked : c \notin GivenUp
<1>1. ASSUME NEW a \in Told
      PROVE  <<a, "CLEAR", "INACTIVE", "RETURN">> \notin Ending \cup Asking \cup Asked \cup GivenUp
  BY DEF Ending, Asking, Asked, GivenUp
<1>2. ASSUME NEW a \in Told
      PROVE  <<a, "CLEAR", "INACTIVE">> \notin Ending \cup Asking \cup Asked
  BY DEF Told, Ending, Asking, Asked
<1>3. \A c \in Telling : c \notin Ending \cup Asking \cup Asked \cup GivenUp
  BY <1>1 DEF Telling
<1>4. \A c \in Ending : c \notin Asking \cup Asked
  BY DEF Ending, Asking, Asked
<1>5. \A c \in Asking : c \notin Asked
  BY DEF Asking, Asked
<1>6. /\ << >> \notin Ending \cup Asking \cup Asked
      /\ <<"CLEAR", "INACTIVE">> \notin Ending \cup Asking \cup Asked
      /\ <<"INACTIVE">> \notin Ending \cup Asking \cup Asked
  BY DEF Ending, Asking, Asked
<1>7. \A c \in GivenUp : c \notin Ending \cup Asking \cup Asked
  BY <1>2, <1>6 DEF GivenUp
<1> QED BY <1>3, <1>4, <1>5, <1>7

LEMMA Lives ==
  /\ <<"CLEAR", "INACTIVE", "RETURN">> \in Ending /\ <<"INACTIVE", "RETURN">> \in Ending
  /\ <<"RETURN">> \in Ending
  /\ <<"SET", "RETURN_TO_WAIT">> \in Asked /\ <<"RETURN_TO_WAIT">> \in Asked /\ << >> \in GivenUp
  /\ <<"CLEAR", "INACTIVE", "RETURN">> \notin {<<"INACTIVE", "RETURN">>, <<"RETURN">>}
  /\ <<"INACTIVE", "RETURN">> # <<"RETURN">>
  BY DEF Ending, Asked, GivenUp

\* The records a step makes of the search.
LEMMA SearchUpdates ==
  ASSUME LocationTypeOK
  PROVE  LET answered == [search EXCEPT !.answered = TRUE]
             waiting == [search EXCEPT !.phase = "wait", !.ext = "none"]
             Types == [phase : {"off", "try", "wait"}, plan : SUBSET Methods, ext : EventData, answered : BOOLEAN]
         IN /\ answered \in Types /\ answered.phase = search.phase /\ answered.plan = search.plan
            /\ answered.answered
            /\ waiting \in Types /\ waiting.phase = "wait" /\ waiting.plan = search.plan
            /\ waiting.answered = search.answered
            /\ NoSearch \in Types /\ NoSearch.phase = "off"
  BY DEF LocationTypeOK, NoSearch, EventData

\* A step of the callback: what it tells, clears, sets, and hands back.
LEMMA CallbackKeeps ==
  ASSUME LocationAssumption, LocationInv, CallbackStep, events' \in Seq(EventSet)
  PROVE  LocationInv'
<1>0. /\ callback \in Live \cup GivenUp /\ callback # << >>
      /\ callback' = Tail(callback) /\ UNCHANGED enabled
      /\ LocationTypeOK /\ CallbackInv /\ SearchInv /\ PendingInv
  BY DEF CallbackStep, LocationInv, LocationTypeOK, moduleVars
<1> DEFINE Types == [phase : {"off", "try", "wait"}, plan : SUBSET Methods, ext : EventData, answered : BOOLEAN]
<1> SUFFICES /\ callback' \in Live \cup GivenUp /\ search' \in Types
             /\ cloud_location_request_pending' \in BOOLEAN
             /\ CallbackInv' /\ SearchInv' /\ PendingInv'
  BY <1>0 DEF LocationInv, LocationTypeOK
<1>1. search'.plan = search.plan => Trying' = Trying
  BY DEF Trying
<1>2. CASE callback \in Telling /\ Head(callback) \in Told /\ ~Orphaned
             /\ Tail(callback) = <<"CLEAR", "INACTIVE", "RETURN">>
  <2>1. search' = [search EXCEPT !.answered = TRUE]
        /\ cloud_location_request_pending' = cloud_location_request_pending
    BY <1>2 DEF CallbackStep, Told, Answers
  <2>2. /\ search' \in Types /\ search'.phase = search.phase /\ search'.plan = search.plan
        /\ search'.answered
    BY <1>0, <2>1, SearchUpdates
  <2>3. callback' \in Ending /\ callback' \notin {<<"INACTIVE", "RETURN">>, <<"RETURN">>}
    BY <1>0, <1>2, Lives
  <2>4. callback \in Live /\ callback # <<"RETURN_TO_WAIT">> /\ callback' \in Live /\ callback' \notin Asking \cup Asked
    BY <1>2, <2>3, Lives, Apart DEF Live
  <2>5. search.phase # "off"
    BY <1>0, <2>4 DEF CallbackInv
  <2>6. CallbackInv' /\ SearchInv'
    BY <1>0, <1>1, <2>2, <2>4, <2>5 DEF CallbackInv, SearchInv
  <2>7. PendingInv'
    BY <1>0, <2>1, <2>2, <2>3, <2>4, <2>5 DEF PendingInv
  <2> QED BY <1>0, <2>1, <2>2, <2>4, <2>6, <2>7 DEF LocationTypeOK
<1>3. CASE callback \in Ending /\ Head(callback) \in {"CLEAR", "INACTIVE"} /\ ~Orphaned
             /\ Tail(callback) \in Ending
             /\ (callback = <<"INACTIVE", "RETURN">> \/ Head(callback) = "CLEAR")
  <2>1. search' = search
        /\ cloud_location_request_pending' = (cloud_location_request_pending /\ Head(callback) # "CLEAR")
    BY <1>0, <1>3 DEF CallbackStep, Answers, LocationTypeOK
  <2>2. ~cloud_location_request_pending'
    BY <1>0, <1>3, <2>1 DEF PendingInv
  <2>3. callback \in Live /\ callback' \in Live /\ callback' \notin Asking \cup Asked
    BY <1>0, <1>3, Apart DEF Live
  <2>4. search.phase # "off" /\ search.answered
    BY <1>0, <1>3, <2>3 DEF CallbackInv
  <2>5. CallbackInv' /\ SearchInv'
    BY <1>0, <1>1, <2>1, <2>3, <2>4 DEF CallbackInv, SearchInv
  <2> QED BY <1>0, <2>1, <2>2, <2>3, <2>5 DEF LocationTypeOK, PendingInv
<1>4. CASE callback = <<"RETURN">> /\ Head(callback) = "RETURN" /\ Tail(callback) = << >>
  <2>1. search' = NoSearch /\ cloud_location_request_pending' = cloud_location_request_pending
    BY <1>4 DEF CallbackStep, Answers
  <2>2. ~cloud_location_request_pending /\ search' \in Types /\ search'.phase = "off"
    BY <1>0, <1>4, <2>1, SearchUpdates DEF PendingInv
  <2> QED BY <1>0, <1>4, <2>1, <2>2, Apart, Lives
    DEF LocationTypeOK, CallbackInv, SearchInv, PendingInv, Live
<1>5. CASE callback \in Asking /\ Head(callback) = "CLOUD_LOCATION_DATA_READY" /\ ~Orphaned
             /\ Tail(callback) = <<"SET", "RETURN_TO_WAIT">>
  <2>1. search' = [search EXCEPT !.answered = TRUE]
        /\ cloud_location_request_pending' = cloud_location_request_pending
    BY <1>5 DEF CallbackStep, Answers
  <2>2. /\ search' \in Types /\ search'.phase = search.phase /\ search'.plan = search.plan
        /\ search'.answered
    BY <1>0, <2>1, SearchUpdates
  <2>3. callback' \in Asked /\ search.phase = "try" /\ Trying = "CLOUD"
    BY <1>0, <1>5, Lives DEF CallbackInv
  <2>4. callback # <<"RETURN_TO_WAIT">>
    BY <1>5, Lives, Apart
  <2>5. search.plan \in SUBSET Methods /\ search.plan # {}
    BY <1>0, <2>3 DEF LocationTypeOK, SearchInv
  <2>6. ~cloud_location_request_pending
    BY <1>0, <2>3, <2>5, <2>4, TryingIn DEF PendingInv
  <2> QED BY <1>0, <1>1, <2>1, <2>2, <2>3, <2>5, <2>6, Apart
    DEF LocationTypeOK, CallbackInv, SearchInv, PendingInv, Live
<1>6. CASE callback = <<"SET", "RETURN_TO_WAIT">> /\ Head(callback) = "SET"
             /\ Tail(callback) = <<"RETURN_TO_WAIT">>
  <2>1. search' = search /\ cloud_location_request_pending'
    BY <1>6 DEF CallbackStep, Answers
  <2>2. callback' \in Asked /\ callback' = <<"RETURN_TO_WAIT">>
        /\ callback' \notin {<<"INACTIVE", "RETURN">>, <<"RETURN">>}
    BY <1>0, <1>6, Lives, Apart
  <2>3. search.phase = "try" /\ Trying = "CLOUD" /\ search.answered
    BY <1>0, <1>6, Lives DEF CallbackInv
  <2> QED BY <1>0, <1>1, <2>1, <2>2, <2>3, Apart, cloud_location_request_pending' = TRUE
    DEF LocationTypeOK, CallbackInv, SearchInv, PendingInv, Live
<1>7. CASE callback = <<"RETURN_TO_WAIT">> /\ Head(callback) = "RETURN_TO_WAIT" /\ Tail(callback) = << >>
  <2>1. search' = [search EXCEPT !.phase = "wait", !.ext = "none"]
        /\ cloud_location_request_pending' = cloud_location_request_pending
    BY <1>7 DEF CallbackStep, Answers
  <2>2. /\ search' \in Types /\ search'.phase = "wait" /\ search'.plan = search.plan
        /\ search'.answered = search.answered
    BY <1>0, <2>1, SearchUpdates
  <2>3. search.phase = "try" /\ Trying = "CLOUD" /\ search.answered
    BY <1>0, <1>7, Lives DEF CallbackInv
  <2> QED BY <1>0, <1>1, <1>7, <2>1, <2>2, <2>3, Apart, Lives
    DEF LocationTypeOK, CallbackInv, SearchInv, PendingInv, Live
<1>8. CASE callback \in GivenUp /\ Orphaned /\ Head(callback) \in Told \cup {"CLEAR", "INACTIVE"}
             /\ Tail(callback) \in GivenUp
  <2>1. search' = search
        /\ cloud_location_request_pending' = (cloud_location_request_pending /\ Head(callback) # "CLEAR")
    BY <1>0, <1>8 DEF CallbackStep, Told, Answers, LocationTypeOK
  <2>2. callback \notin Live /\ ~cloud_location_request_pending
    BY <1>0, <1>8, Apart DEF PendingInv, Live
  <2>3. callback' \in GivenUp /\ callback' \notin Live
    BY <1>0, <1>8, Apart DEF Live
  <2>4. CallbackInv' /\ SearchInv'
    BY <1>0, <1>1, <2>1, <2>3 DEF CallbackInv, SearchInv, Live
  <2> QED BY <1>0, <2>1, <2>2, <2>3, <2>4 DEF LocationTypeOK, PendingInv
<1> QED BY <1>0, <1>2, <1>3, <1>4, <1>5, <1>6, <1>7, <1>8, CallbackCases, Lives DEF Asked

\* The library goes on to its next method or reports.
LEMMA LibraryKeeps ==
  ASSUME LocationAssumption, LocationInv, LibraryStep, events' \in Seq(EventSet)
  PROVE  LocationInv'
<1>0. /\ callback = << >> /\ search.phase # "off" /\ LocationTypeOK /\ CallbackInv /\ SearchInv /\ PendingInv
      /\ UNCHANGED <<enabled, cloud_location_request_pending>>
  BY DEF LibraryStep, LocationInv, moduleVars
<1>1. search.plan \in SUBSET Methods /\ search.plan # {} /\ Trying \in search.plan /\ Trying \in {"GNSS", "CLOUD"}
  BY <1>0, TryingIn DEF LocationTypeOK, SearchInv
<1>2. << >> \notin Live
  BY Lives, Apart DEF Live
<1>3. search'.plan = search.plan => Trying' = Trying
  BY DEF Trying
<1>4. ASSUME \/ callback' \in Telling \cup Asking
             \/ callback' = <<"CLEAR", "INACTIVE", "RETURN">> /\ search.answered /\ search.phase = "wait",
             callback' \in Asking => search.phase = "try" /\ Trying = "CLOUD",
             UNCHANGED search
      PROVE  LocationInv'
  <2>1. callback' \in Live /\ callback' \notin Asked
        /\ (callback' \notin Asking \/ (search.phase = "try" /\ Trying = "CLOUD"))
        /\ (callback' \in Ending => search.answered)
    <3>1. callback' \in Telling \cup Asking \cup Ending
      BY <1>4, Lives
    <3>2. callback' \in Ending => search.answered
      BY <1>4, Apart
    <3> QED BY <1>4, <3>1, <3>2, Apart DEF Live
  <2>2. CallbackInv' /\ SearchInv'
    BY <1>0, <1>3, <1>4, <2>1 DEF CallbackInv, SearchInv
  <2>3. PendingInv'
    <3>1. cloud_location_request_pending /\ search.phase = "try" => "CLOUD" \notin search.plan
      BY <1>0 DEF PendingInv
    <3>2. callback' \notin {<<"INACTIVE", "RETURN">>, <<"RETURN">>}
      <4>1. {<<"INACTIVE", "RETURN">>, <<"RETURN">>} \subseteq Ending
        BY DEF Ending
      <4>2. CASE callback' \in Telling \cup Asking
        BY <4>1, <4>2, Apart
      <4>3. CASE callback' = <<"CLEAR", "INACTIVE", "RETURN">>
        BY <4>3
      <4> QED BY <1>4, <4>2, <4>3
    <3> QED BY <1>0, <1>4, <2>1, <3>1, <3>2 DEF PendingInv
  <2> QED BY <1>0, <1>4, <2>1, <2>2, <2>3 DEF LocationInv, LocationTypeOK
<1>5. ASSUME search.plan # {Trying}, UNCHANGED callback,
             search' = [search EXCEPT !.phase = "try", !.plan = @ \ {Trying}, !.ext = "none"],
             search.phase = "try" => Trying = "GNSS"
      PROVE  LocationInv'
  <2>1. /\ search' \in [phase : {"off", "try", "wait"}, plan : SUBSET Methods, ext : EventData, answered : BOOLEAN]
        /\ search'.phase = "try" /\ search'.plan = search.plan \ {Trying} /\ search'.answered = search.answered
        /\ search'.plan # {}
    <3>1. search.plan \ {Trying} \in SUBSET Methods /\ search.plan \ {Trying} # {}
      BY <1>1, <1>5
    <3>2. "none" \in EventData
      BY DEF EventData
    <3> QED BY <1>0, <1>5, <3>1, <3>2 DEF LocationTypeOK
  <2>2. CallbackInv' /\ SearchInv'
    BY <1>0, <1>2, <1>5, <2>1 DEF CallbackInv, SearchInv, Live
  <2>3. PendingInv'
    BY <1>0, <1>1, <1>5, <2>1 DEF PendingInv, SearchInv, LocationTypeOK
  <2> QED BY <1>0, <1>5, <2>1, <2>2, <2>3 DEF LocationInv, LocationTypeOK
<1>6. \A id : Fallback(id) => \/ search.plan # {Trying} /\ UNCHANGED callback
                                  /\ search' = [search EXCEPT !.phase = "try", !.plan = @ \ {Trying}, !.ext = "none"]
                              \/ callback' = location_event_handler(id, Trying) /\ UNCHANGED search
  BY DEF Fallback
<1>7. CASE search.phase = "try" /\ Trying = "GNSS" /\ (Report("LOCATION") \/ Fallback("ERROR"))
  <2>1. CASE Report("LOCATION")
    BY <1>1, <1>4, <1>7, <2>1, HandlerCases, Apart DEF Report
  <2>2. CASE Fallback("ERROR")
    BY <1>1, <1>4, <1>5, <1>6, <1>7, <2>2, HandlerCases, Apart
  <2> QED BY <1>7, <2>1, <2>2
<1>8. CASE search.phase = "try" /\ Trying = "CLOUD" /\ Report("CLOUD_LOCATION_EXT_REQUEST")
  BY <1>1, <1>4, <1>8, HandlerCases, Apart DEF Report
<1>9. CASE search.phase = "wait" /\ (Report("LOCATION") \/ Fallback("ERROR") \/ Fallback("RESULT_UNKNOWN"))
  <2> DEFINE end == <<"CLEAR", "INACTIVE", "RETURN">>
  <2>1. search.answered /\ Trying = "CLOUD"
    BY <1>0, <1>9 DEF SearchInv
  <2>e. ASSUME callback' = end, UNCHANGED search PROVE LocationInv'
    <3>1. end \notin Asking
      BY Lives, Apart
    <3> QED BY <1>4, <1>9, <2>1, <2>e, <3>1
  <2>h. /\ location_event_handler("LOCATION", Trying) = end
        /\ location_event_handler("RESULT_UNKNOWN", Trying) = end
    BY <2>1, HandlerCases
  <2>2. CASE Report("LOCATION")
    BY <2>2, <2>e, <2>h DEF Report
  <2>3. CASE Fallback("ERROR")
    BY <1>1, <1>4, <1>5, <1>6, <1>9, <2>1, <2>3, HandlerCases, Apart
  <2>4. CASE Fallback("RESULT_UNKNOWN")
    BY <1>5, <1>6, <1>9, <2>4, <2>e, <2>h
  <2> QED BY <1>9, <2>2, <2>3, <2>4
<1>10. CASE Report("TIMEOUT")
  BY <1>1, <1>4, <1>10, HandlerCases, Apart DEF Report
<1> QED BY <1>7, <1>8, <1>9, <1>10 DEF LibraryStep

\* A search that is started: nothing is told of it yet.
LEMMA StartCases ==
  ASSUME NEW lib, search_start(lib)
  PROVE  \/ search' = lib
         \/ lib.phase = "off" /\ search' = Searching(Plan) /\ Plan # {}
  BY DEF search_start

LEMMA SearchingType ==
  /\ Searching(Plan) \in [phase : {"off", "try", "wait"}, plan : SUBSET Methods, ext : EventData, answered : BOOLEAN]
  /\ Searching(Plan).phase = "try" /\ Searching(Plan).plan = Plan /\ ~Searching(Plan).answered
  BY DEF Searching, Plan, EventData

LEMMA HandlerKeeps ==
  ASSUME LocationAssumption, LocationInv, ProcessEvent, events' \in Seq(EventSet)
  PROVE  LocationInv'
<1> DEFINE Types == [phase : {"off", "try", "wait"}, plan : SUBSET Methods, ext : EventData, answered : BOOLEAN]
<1>0. LocationTypeOK /\ CallbackInv /\ SearchInv /\ PendingInv /\ search \in Types
  BY DEF LocationInv, LocationTypeOK
<1>1. search'.plan = search.plan => Trying' = Trying
  BY DEF Trying
<1>2. << >> \in GivenUp /\ \A c \in GivenUp : c \notin Live
  BY Lives, Apart DEF Live
<1>3. CASE /\ UNCHANGED <<cloud_location_request_pending, callback>> /\ enabled' \in EventData
           /\ search' \in Types /\ search'.phase = search.phase /\ search'.plan = search.plan
           /\ search'.answered = search.answered
  BY <1>0, <1>1, <1>3 DEF LocationInv, LocationTypeOK, CallbackInv, SearchInv, PendingInv
<1>4. CASE OnStart \/ OnModemInitialized \/ OnSearchEvent \/ OnShutdownRequest \/ IgnoreEvent
  BY <1>0, <1>3, <1>4 DEF OnStart, OnModemInitialized, OnSearchEvent, OnShutdownRequest, IgnoreEvent,
                          moduleVars, LocationTypeOK
<1>5. CASE OnConfig
  BY <1>0, <1>3, <1>5, HandlerType DEF OnConfig
<1>6. CASE OnCloudLocation
  <2>1. Head(events).data \in EventData
    BY <1>0, <1>6, HandlerType DEF OnCloudLocation
  <2> QED BY <1>0, <1>3, <1>6, <2>1 DEF OnCloudLocation, moduleVars, LocationTypeOK
<1>7. CASE OnDataGetIdle
  <2>1. search_start(search) /\ UNCHANGED <<enabled, cloud_location_request_pending, callback>>
    BY <1>7 DEF OnDataGetIdle, moduleVars
  <2>2. CASE search' = search
    BY <1>0, <1>3, <2>1, <2>2 DEF LocationTypeOK
  <2>3. CASE search.phase = "off" /\ search' = Searching(Plan) /\ Plan # {}
    <3>1. callback \notin Live /\ ~cloud_location_request_pending
      BY <1>0, <2>3 DEF CallbackInv, PendingInv
    <3> QED BY <1>0, <2>1, <2>3, <3>1, SearchingType
      DEF LocationInv, LocationTypeOK, CallbackInv, SearchInv, PendingInv, Live
  <2> QED BY <2>1, <2>2, <2>3, StartCases
<1>8. CASE OnDataGetSearch
  <2>1. CASE ~cloud_location_request_pending
    BY <1>0, <1>3, <1>8, <2>1 DEF OnDataGetSearch, moduleVars, LocationTypeOK
  <2>2. CASE cloud_location_request_pending
    <3>1. /\ callback' = Cancelled /\ cloud_location_request_pending' = FALSE
          /\ search_start(NoSearch) /\ UNCHANGED enabled
      BY <1>8, <2>2 DEF OnDataGetSearch, moduleVars
    <3>2. callback \notin {<<"SET", "RETURN_TO_WAIT">>} \cup Asking
      <4>1. search.phase = "try" /\ callback # <<"RETURN_TO_WAIT">> => "CLOUD" \notin search.plan
        BY <1>0, <2>2 DEF PendingInv
      <4>2. ASSUME callback \in {<<"SET", "RETURN_TO_WAIT">>} \cup Asking PROVE FALSE
        <5>1. search.phase = "try" /\ Trying = "CLOUD"
          BY <1>0, <4>2, Lives DEF CallbackInv
        <5>2. callback # <<"RETURN_TO_WAIT">>
          BY <4>2, Lives, Apart
        <5>3. search.plan \in SUBSET Methods /\ search.plan # {}
          BY <1>0, <5>1 DEF LocationTypeOK, SearchInv
        <5> QED BY <4>1, <5>1, <5>2, <5>3, TryingIn
      <4> QED BY <4>2
    <3>3. callback' \in GivenUp /\ callback' \notin Live
      BY <1>0, <1>2, <3>1, <3>2, CancelledCases DEF LocationTypeOK
    <3>4. /\ search' \in Types /\ search'.phase # "wait"
          /\ search'.phase # "off" => search'.plan # {}
      BY <1>0, <3>1, StartCases, SearchingType, SearchUpdates
    <3> QED BY <1>0, <3>1, <3>3, <3>4
      DEF LocationInv, LocationTypeOK, CallbackInv, SearchInv, PendingInv, Live
  <2> QED BY <2>1, <2>2
<1> QED BY <1>4, <1>5, <1>6, <1>7, <1>8 DEF ProcessEvent

LEMMA LocationStep == ASSUME LocationAssumption, LocationInv, [Next]_vars PROVE LocationInv'
<1>1. CASE Next
  <2>1. events' \in Seq(EventSet)
    BY <1>1, EventsStep DEF LocationInv
  <2>2. CASE CloudAnswers \/ OthersSubmit
    BY <2>1, <2>2 DEF CloudAnswers, OthersSubmit, moduleVars, LocationInv, LocationTypeOK, CallbackInv,
                      SearchInv, PendingInv, Trying
  <2> QED BY <1>1, <2>1, <2>2, CallbackKeeps, LibraryKeeps, HandlerKeeps DEF Next
<1>2. CASE UNCHANGED vars
  BY <1>2 DEF vars, moduleVars, LocationInv, LocationTypeOK, CallbackInv, SearchInv, PendingInv, Trying
<1> QED BY <1>1, <1>2

LEMMA LocationInvariant == Spec => []LocationInv
<1>1. Init => LocationInv
  BY LocationAssumption, LocationInit
<1>2. LocationInv /\ [Next]_vars => LocationInv'
  BY LocationAssumption, LocationStep
<1> QED BY <1>1, <1>2, PTL DEF Spec

\* cloud_location_request_pending never speaks of a search for which nothing was
\* reported, whichever thread writes it between which steps of the other
\* (location_module.c, inactive_send and on_state_running_location_search).
THEOREM PendingSpeaksOfTheSearch == Spec => []PendingMeansAsked
<1>1. LocationInv => PendingMeansAsked
  BY DEF LocationInv, PendingInv, PendingMeansAsked
<1> QED BY <1>1, LocationInvariant, PTL

-----------------------------------------------------------------------------
(* Every step is a step of LocationService, or leaves the phase alone.        *)

LEMMA PhaseStep == ASSUME LocationAssumption, LocationInv, [Next]_vars PROVE [Service!Next]_phase
<1> USE DEF Service!Next, Service!Start, Service!Answer, Service!Finish, Service!Restart, phase
<1>0. /\ LocationTypeOK /\ CallbackInv /\ SearchInv /\ PendingInv
      /\ search \in [phase : {"off", "try", "wait"}, plan : SUBSET Methods, ext : EventData, answered : BOOLEAN]
  BY DEF LocationInv, LocationTypeOK
<1>1. CASE UNCHANGED search
  BY <1>1
<1>2. CASE CallbackStep
  <2>0. callback \in Live \cup GivenUp /\ callback # << >>
    BY <1>0, <1>2 DEF CallbackStep, LocationTypeOK
  <2>1. CASE search' = [search EXCEPT !.answered = TRUE] /\ search.phase # "off"
    BY <1>0, <2>1
  <2>2. CASE callback = <<"RETURN">>
    <3>1. search.answered /\ search.phase # "off"
      BY <1>0, <2>2, Lives DEF CallbackInv, Live
    <3>2. search' = NoSearch
      BY <1>2, <2>2 DEF CallbackStep, Answers
    <3> QED BY <3>1, <3>2 DEF NoSearch
  <2>3. CASE callback = <<"RETURN_TO_WAIT">>
    <3>1. search.answered /\ search.phase # "off"
      BY <1>0, <2>3, Lives DEF CallbackInv, Live
    <3>2. search' = [search EXCEPT !.phase = "wait", !.ext = "none"]
      BY <1>2, <2>3 DEF CallbackStep, Answers
    <3> QED BY <1>0, <3>1, <3>2
  <2>4. CASE callback \in Telling \cup Asking /\ Head(callback) \in Answers /\ ~Orphaned
    <3>1. search' = [search EXCEPT !.answered = TRUE]
      BY <1>2, <2>4 DEF CallbackStep, Answers
    <3>2. search.phase # "off"
      BY <1>0, <2>4 DEF CallbackInv, Live
    <3> QED BY <2>1, <3>1, <3>2
  <2>5. CASE Head(callback) \in {"CLEAR", "SET", "INACTIVE"} \/ (Orphaned /\ Head(callback) \in Told)
    BY <1>1, <1>2, <2>5 DEF CallbackStep, Answers, Told
  <2> QED BY <2>0, <2>2, <2>3, <2>4, <2>5, CallbackCases DEF Told, Answers
<1>3. CASE LibraryStep
  <2>1. CASE search' = [search EXCEPT !.phase = "try", !.plan = @ \ {Trying}, !.ext = "none"]
    BY <1>0, <1>3, <2>1 DEF LibraryStep
  <2> QED BY <1>1, <1>3, <2>1 DEF LibraryStep, Report, Fallback
<1>4. CASE ProcessEvent
  <2>1. CASE OnDataGetIdle
    BY <1>0, <1>1, <2>1, StartCases, SearchingType DEF OnDataGetIdle
  <2>2. CASE OnDataGetSearch
    <3>1. CASE cloud_location_request_pending
      <4>1. search.phase # "off" /\ search.answered
        BY <1>0, <3>1 DEF PendingInv
      <4> QED BY <2>2, <3>1, <4>1, StartCases, SearchingType DEF OnDataGetSearch, NoSearch
    <3> QED BY <1>1, <2>2, <3>1 DEF OnDataGetSearch
  <2>3. CASE OnCloudLocation
    BY <1>0, <1>1, <2>3 DEF OnCloudLocation
  <2> QED BY <1>1, <1>4, <2>1, <2>2, <2>3 DEF ProcessEvent, OnStart, OnModemInitialized, OnSearchEvent,
        OnConfig, OnShutdownRequest, IgnoreEvent
<1> QED BY <1>1, <1>2, <1>3, <1>4 DEF Next, CloudAnswers, OthersSubmit, vars

\* The safety part of KeepsPromise: for any methods, settings and timing of the
\* library's thread, no search ends or is given up before something was reported
\* for it (location_module.c, location_event_handler).
THEOREM NoSearchEndsInSilence == Spec => Service!Init /\ [][Service!Next]_phase
<1>1. Init => Service!Init
  BY DEF Init, NoSearch, Service!Init, phase
<1>2. LocationInv /\ [Next]_vars => [Service!Next]_phase
  BY LocationAssumption, PhaseStep
<1> QED BY <1>1, <1>2, LocationInvariant, PTL DEF Spec

=============================================================================
