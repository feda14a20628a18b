----------------------------- MODULE CodecsProofs -----------------------------
(***************************************************************************)
(* Proofs about CloudCodecs.                                               *)
(*                                                                         *)
(* First in which order the updates of the device's shadow take effect.    *)
(*                                                                         *)
(* Then that the codecs are sound: whatever fails, the heap stays in       *)
(* order, nothing is left on it, no sample is sent twice.  There are two   *)
(* halves.  "Which notes go with which steps" to "Every script of every    *)
(* cloud" show that all scripts are disciplined, in the sense of           *)
(* CodecDiscipline: for the functions that add one sample, for bodies of   *)
(* such functions, and from their end for whole documents.  "Trees" to     *)
(* "Every step of a codec keeps the invariant" show, without a look at any *)
(* of the scripts, that a call keeps to the notes of a disciplined one.    *)
(* The theorems are at the end.                                            *)
(*                                                                         *)
(* Many steps PICK a name for a record, a sequence or a set, and go on     *)
(* with what is needed of it: the provers reason better about a name and   *)
(* a few facts than about a term.                                          *)
(***************************************************************************)
EXTENDS CodecDiscipline, TLAPS

---------------------------------------------------------------------------
(* The updates of the shadow                                                *)

\* The clouds that number the updates of the shadow.
Numbered == cloud \in {"aws_iot", "nrf_cloud"}

\* A broker that repeats the latest message at most leaves the decoder at the version
\* of the shadow, and no version above it has been applied.
OrderInv ==
  /\ shadow \in Nat /\ version_prev \in Nat /\ handled \in Seq(Nat)
  /\ Numbered =>
       /\ version_prev = shadow
       /\ \A i \in DOMAIN handled : handled[i] <= version_prev
       /\ \A i, j \in DOMAIN handled : i < j => handled[i] < handled[j]

orderVars == <<cloud, shadow, version_prev, handled>>

LEMMA OrderInit == Init => OrderInv
  BY DEF Init, OrderInv

\* A later version at the end of those that have been applied.
LEMMA AppendLater ==
  ASSUME NEW s \in Seq(Nat), NEW last \in Nat, NEW v \in Nat, last < v,
         \A i \in DOMAIN s : s[i] <= last,
         \A i, j \in DOMAIN s : i < j => s[i] < s[j]
  PROVE  LET t == Append(s, v) IN
         /\ t \in Seq(Nat)
         /\ \A i \in DOMAIN t : t[i] <= v
         /\ \A i, j \in DOMAIN t : i < j => t[i] < t[j]
<1> DEFINE t == Append(s, v)
<1>1. /\ t \in Seq(Nat) /\ Len(s) \in Nat /\ DOMAIN s = 1 .. Len(s)
      /\ DOMAIN t = 1 .. Len(s) + 1 /\ t[Len(s) + 1] = v
      /\ \A i \in 1 .. Len(s) : t[i] = s[i] /\ s[i] \in Nat
  OBVIOUS
<1> HIDE DEF t
<1>2. \A i \in DOMAIN t : t[i] <= v /\ (i # Len(s) + 1 => i \in DOMAIN s /\ t[i] < v)
  BY <1>1
<1>3. ASSUME NEW i \in DOMAIN t, NEW j \in DOMAIN t, i < j PROVE t[i] < t[j]
  <2>1. i \in DOMAIN s /\ t[i] < v
    BY <1>1, <1>2, <1>3
  <2>2. CASE j = Len(s) + 1
    BY <1>1, <2>1, <2>2
  <2>3. CASE j # Len(s) + 1
    <3>1. j \in DOMAIN s
      BY <1>2, <2>3
    <3> QED BY <1>1, <1>3, <2>1, <3>1
  <2> QED BY <2>2, <2>3
<1> QED BY <1>1, <1>2, <1>3 DEF t

LEMMA UpdateKeepsOrder ==
  ASSUME CodecsAssumption, Window <= 1, OrderInv, ShadowUpdate PROVE OrderInv'
<1>1. PICK version \in {shadow + 1} \cup {v \in 1 .. shadow : v + Window > shadow} :
        /\ shadow' = IF version > shadow THEN version ELSE shadow
        /\ version_prev' = IF cloud = "azure_iot_hub" THEN version_prev ELSE version
        /\ \E present \in SUBSET Settings : decode_config(version, [s \in present |-> version])
  BY DEF ShadowUpdate
<1>2. UNCHANGED cloud
  BY DEF ShadowUpdate
<1>3. shadow \in Nat /\ version_prev \in Nat /\ handled \in Seq(Nat) /\ version \in Nat
  BY <1>1 DEF OrderInv
<1>4. handled' = handled \/ (handled' = Append(handled, version) /\ (Numbered => version_prev < version))
  <2>1. PICK present : decode_config(version, [s \in present |-> version])
    BY <1>1
  <2>2. CASE has_shadow_update_been_handled(version) \/ [s \in present |-> version] = << >>
    BY <2>1, <2>2 DEF decode_config
  <2>3. CASE ~has_shadow_update_been_handled(version) /\ ~([s \in present |-> version] = << >>)
    <3>1. handled' = Append(handled, version)
      BY <2>1, <2>3 DEF decode_config
    <3>2. Numbered => ~(version_prev >= version)
      BY <2>3 DEF has_shadow_update_been_handled, Numbered
    <3> QED BY <1>3, <3>1, <3>2
  <2> QED BY <2>2, <2>3
<1>5. shadow' \in Nat /\ version_prev' \in Nat /\ handled' \in Seq(Nat)
  BY <1>1, <1>3, <1>4
<1>6. ASSUME Numbered'
      PROVE  /\ version_prev' = shadow'
             /\ \A i \in DOMAIN handled' : handled'[i] <= version_prev'
             /\ \A i, j \in DOMAIN handled' : i < j => handled'[i] < handled'[j]
  <2>1. /\ Numbered /\ version_prev = shadow /\ version_prev' = version
        /\ \A i \in DOMAIN handled : handled[i] <= version_prev
        /\ \A i, j \in DOMAIN handled : i < j => handled[i] < handled[j]
    BY <1>1, <1>2, <1>6 DEF OrderInv, Numbered
  <2>2. version = shadow \/ version = shadow + 1
    BY <1>1, <1>3 DEF CodecsAssumption
  <2>3. version_prev' = shadow' /\ version_prev <= version
    BY <1>1, <1>3, <2>1, <2>2
  <2>4. CASE handled' = handled
    <3>1. \A i \in DOMAIN handled : handled[i] \in Nat
      BY <1>3
    <3> QED BY <1>3, <2>1, <2>3, <2>4, <3>1
  <2>5. CASE handled' = Append(handled, version) /\ version_prev < version
    BY <1>3, <2>1, <2>3, <2>5, AppendLater
  <2> QED BY <1>4, <2>1, <2>4, <2>5
<1> QED BY <1>5, <1>6 DEF OrderInv

LEMMA OrderStep ==
  ASSUME CodecsAssumption, Window <= 1, OrderInv, [Next]_vars PROVE OrderInv'
<1>q. ASSUME UNCHANGED orderVars PROVE OrderInv'
  BY <1>q DEF orderVars, OrderInv, Numbered
<1>1. CASE \E a \in Apis : Call(a)
  BY <1>1, <1>q DEF Call, configVars, orderVars
<1>2. CASE Encode \/ InitStep \/ Return \/ RefusedMessage
  BY <1>2, <1>q DEF Encode, InitStep, Return, RefusedMessage, configVars, orderVars
<1>3. CASE config_update_cb
  BY <1>3 DEF config_update_cb, OrderInv, Numbered
<1>4. CASE ShadowUpdate
  BY <1>4, UpdateKeepsOrder
<1>5. CASE UNCHANGED vars
  BY <1>5, <1>q DEF vars, configVars, orderVars
<1> QED BY <1>1, <1>2, <1>3, <1>4, <1>5 DEF Next

\* However many updates the cloud sends, whichever settings they carry and however
\* often the latest of them is repeated: no version is applied twice, and none after a
\* later one (has_shadow_update_been_handled).  A broker that repeats older ones too
\* can have an update applied twice: version_prev remembers the version seen last, not
\* the highest.
THEOREM UpdatesApplyInOrder == ASSUME Window <= 1 PROVE Spec => []AppliedInOrder
<1>1. OrderInv => AppliedInOrder
  BY DEF OrderInv, Numbered, AppliedInOrder
<1>2. OrderInv /\ [Next]_vars => OrderInv'
  BY CodecsAssumption, OrderStep
<1> QED BY <1>1, <1>2, OrderInit, PTL DEF Spec

---------------------------------------------------------------------------
(* Which notes go with which steps.                                         *)

\* u lists the objects of S, each once.
Lists(u, S) == Len(u) \in Nat /\ DOMAIN u = 1 .. Len(u) /\ Distinct(u) /\ Range(u) = S

\* Lists written out.
LEMMA ShortLists ==
  /\ Lists(<< >>, {})
  /\ \A x : Lists(<<x>>, {x})
  /\ \A x, y : x # y => Lists(<<x, y>>, {x, y})
  /\ \A x, y, z : x # y /\ x # z /\ y # z => Lists(<<x, y, z>>, {x, y, z})
<1>1. Lists(<< >>, {})
  BY DEF Lists, Distinct, Range
<1>2. ASSUME NEW x PROVE Lists(<<x>>, {x})
  BY DEF Lists, Distinct, Range
<1>3. ASSUME NEW x, NEW y, x # y PROVE Lists(<<x, y>>, {x, y})
  BY <1>3 DEF Lists, Distinct, Range
<1>4. ASSUME NEW x, NEW y, NEW z, x # y, x # z, y # z PROVE Lists(<<x, y, z>>, {x, y, z})
  BY <1>4 DEF Lists, Distinct, Range
<1> QED BY <1>1, <1>2, <1>3, <1>4

\* Lists of different objects can be joined.
LEMMA JoinedLists ==
  ASSUME NEW u, NEW S, Lists(u, S), NEW v, NEW T, Lists(v, T), S \cap T = {}
  PROVE  Lists(u \o v, S \cup T)
<1>1. PICK w : w = u \o v
  OBVIOUS
<1>2. /\ Len(u) \in Nat /\ Len(v) \in Nat /\ Len(w) = Len(u) + Len(v) /\ DOMAIN w = 1 .. Len(w)
      /\ \A i \in 1 .. Len(u) : w[i] = u[i]
      /\ \A i \in 1 .. Len(v) : w[Len(u) + i] = v[i]
      /\ DOMAIN u = 1 .. Len(u) /\ DOMAIN v = 1 .. Len(v)
  BY <1>1 DEF Lists
<1>3. Distinct(w)
  <2> SUFFICES ASSUME NEW i \in 1 .. Len(w), NEW j \in 1 .. Len(w), i < j, w[i] = w[j] PROVE FALSE
    BY <1>2 DEF Distinct
  <2>1. ASSUME NEW k \in 1 .. Len(w)
        PROVE  \/ k <= Len(u) /\ w[k] = u[k] /\ w[k] \in S
               \/ k > Len(u) /\ k - Len(u) \in 1 .. Len(v) /\ w[k] = v[k - Len(u)] /\ w[k] \in T
    <3>1. CASE k <= Len(u)
      BY <1>2, <3>1 DEF Lists, Range
    <3>2. CASE k > Len(u)
      <4>1. PICK m : m = k - Len(u)
        OBVIOUS
      <4>2. m \in 1 .. Len(v) /\ k = Len(u) + m
        BY <1>2, <3>2, <4>1
      <4> QED BY <1>2, <3>2, <4>1, <4>2 DEF Lists, Range
    <3> QED BY <1>2, <3>1, <3>2
  <2>2. \A k, l \in 1 .. Len(u) : k # l => u[k] # u[l]
    BY <1>2 DEF Lists, Distinct
  <2>3. \A k, l \in 1 .. Len(v) : k # l => v[k] # v[l]
    BY <1>2 DEF Lists, Distinct
  <2>4. CASE j <= Len(u)
    <3>1. i \in 1 .. Len(u) /\ j \in 1 .. Len(u) /\ w[i] = u[i] /\ w[j] = u[j] /\ i # j
      BY <1>2, <2>4
    <3>2. u[i] # u[j]
      BY <2>2, <3>1
    <3> QED BY <3>1, <3>2
  <2>5. CASE i > Len(u)
    <3>1. PICK k, l : k = i - Len(u) /\ l = j - Len(u)
      OBVIOUS
    <3>2. k \in 1 .. Len(v) /\ l \in 1 .. Len(v) /\ w[i] = v[k] /\ w[j] = v[l] /\ k # l
      BY <1>2, <2>1, <2>5, <3>1
    <3> QED BY <2>3, <3>2
  <2>6. CASE i <= Len(u) /\ j > Len(u)
    <3>1. w[i] \in S /\ w[j] \in T
      BY <1>2, <2>1, <2>6
    <3> QED BY <3>1
  <2> QED BY <1>2, <2>4, <2>5, <2>6
<1>4. Range(w) = S \cup T
  <2>1. ASSUME NEW i \in 1 .. Len(u) PROVE u[i] \in Range(w)
    BY <1>2 DEF Range
  <2>2. ASSUME NEW i \in 1 .. Len(v) PROVE v[i] \in Range(w)
    BY <1>2 DEF Range
  <2>3. S \subseteq Range(w) /\ T \subseteq Range(w)
    BY <1>2, <2>1, <2>2 DEF Lists, Range
  <2>4. ASSUME NEW k \in 1 .. Len(w) PROVE w[k] \in S \cup T
    <3>1. CASE k <= Len(u)
      BY <1>2, <3>1 DEF Lists, Range
    <3>2. CASE k > Len(u)
      <4>1. PICK m : m = k - Len(u)
        OBVIOUS
      <4>2. m \in 1 .. Len(v) /\ k = Len(u) + m
        BY <1>2, <3>2, <4>1
      <4> QED BY <1>2, <4>2 DEF Lists, Range
    <3> QED BY <1>2, <3>1, <3>2
  <2> QED BY <1>2, <2>3, <2>4 DEF Range
<1> QED BY <1>1, <1>2, <1>3, <1>4 DEF Lists

\* An error at the note p that deletes what u lists leaves what the note e expects.
Abandons(u, p, e) ==
  /\ Lists(u, p.held \ e.held) /\ e.held \subseteq p.held
  /\ p.made \subseteq e.made /\ Text \notin p.made

\* What Note() says.
LEMMA NoteFields ==
  ASSUME NEW h, NEW m, NEW d, NEW n, NEW s, NEW u, NEW p, p = Note(h, m, d, n, s, u)
  PROVE  /\ p.held = h /\ p.made = m /\ p.due = d /\ p.done = n /\ p.sent = s /\ p.used = u
  BY DEF Note

\* Steps that may fail and change nothing of what a note says.
TryOps == {"values", "element", "check", "check_data", "need_added", "need_elements"}
TakeOps == {"convert", "need_queued"}

\* A step that changes nothing and deletes on an error what the function holds.
LEMMA TryGood ==
  ASSUME NEW op, op \in TryOps \cup TakeOps, NEW d, op \in TakeOps => d \in AllSamples,
         NEW os, NEW u, NEW p, p.used \in Nat, NEW c, Abandons(u, p, c.exit)
  PROVE  StepGood(Step(op, d, os, u), p, p, c)
<1>1. PICK s : s = Step(op, d, os, u)
  OBVIOUS
<1>2. s.op = op /\ s.d = d /\ s.os = os /\ s.undo = u /\ s.always = FALSE /\ s.leaves = FALSE
  BY <1>1 DEF Step
<1>3. s.op \notin CreateOps /\ New(s) = {} /\ Partly(s) = {{}} /\ After(s, p) = p
  BY <1>2 DEF TryOps, TakeOps, CreateOps, New, Partly, After
<1>4. Named(s)
  <2>1. SamplesOf({}) = {}
    BY DEF SamplesOf
  <2> QED BY <1>2, <1>3, <2>1 DEF Named, TryOps, TakeOps
<1>5. Finds(s, p) /\ Skips(s, p, c.next)
  BY <1>2 DEF Finds, Skips, TryOps, TakeOps, CreateOps
<1>6. FailsWell(s, p, c)
  <2>1. Undone(s, p, c.exit)
    BY <1>2, <1>3 DEF Undone, Abandons, Lists
  <2> QED BY <1>2, <2>1 DEF FailsWell, Abandons, TryOps, TakeOps
<1>7. Follows(p, p)
  BY DEF Follows, Weaker
<1> QED BY <1>1, <1>2, <1>3, <1>4, <1>5, <1>6, <1>7
        DEF StepGood, FailOps, OtherOps, InitOps, TryOps, TakeOps

\* Objects that are created and, if one of them is missing, deleted with what else is held: u
\* lists all of them, or the one there is needs no deletion.
LEMMA CreateGood ==
  ASSUME NEW d, NEW os, NEW O, Lists(os, O), SamplesOf(O) \subseteq AllSamples,
         NEW u, NEW p, NEW q, NEW c, NEW e,
         p.used \in Nat, p.made \cap O = {}, Text \notin p.made \cup O, p.made \cup O \subseteq e.made,
         NEW U, Lists(u, U), U \subseteq p.held \cup O, p.held \ U = e.held,
         O \subseteq U \/ \E o : O = {o} /\ o \notin U,
         q.held = p.held \cup O, p.made \cup O \subseteq q.made, p.due \cup (SamplesOf(O) \ p.done) \subseteq q.due,
         q.done \subseteq p.done, p.sent \subseteq q.sent, q.used = p.used,
         NEW s, \/ s = Create(d, os, u) /\ e = c.exit
                \/ s = Leaving(Create(d, os, u)) /\ e = c.end
  PROVE  StepGood(s, p, q, c)
<1>1. s.op = "create" /\ s.d = d /\ s.os = os /\ s.undo = u /\ (IF s.leaves THEN c.end ELSE c.exit) = e
  BY DEF Create, Leaving, Step
<1>2. s.op \in CreateOps /\ New(s) = O /\ Partly(s) = (SUBSET O) \ {O}
  BY <1>1 DEF CreateOps, New, Partly, Lists
<1>3. Follows(After(s, p), q)
  <2>1. After(s, p) = Note(p.held \cup O, p.made \cup O, p.due \cup (SamplesOf(O) \ p.done), p.done, p.sent, p.used)
    BY <1>1, <1>2 DEF After
  <2> QED BY <2>1, NoteFields DEF Follows, Weaker
<1>4. Named(s) /\ Finds(s, p) /\ Skips(s, p, c.next)
  BY <1>1, <1>2 DEF Named, Finds, Skips
<1>5. FailsWell(s, p, c)
  <2>1. ASSUME NEW part \in Partly(s) PROVE (p.held \cup part) \ U = e.held
    <3>1. part \subseteq O /\ part # O
      BY <1>2
    <3> QED BY <3>1
  <2>2. Undone(s, p, e)
    BY <1>1, <1>2, <2>1 DEF Undone, Lists
  <2> QED BY <1>1, <2>2 DEF FailsWell
<1> QED BY <1>1, <1>3, <1>4, <1>5 DEF StepGood, FailOps, InitOps

\* What is hung into something that is held is held no longer.
LEMMA AttachGood ==
  ASSUME NEW d, NEW parent, NEW o, NEW p, NEW q, NEW c,
         parent \in p.held, o \in p.held, Level(parent) < Level(o), p.used \in Nat,
         q.held = p.held \ {o}, p.made \subseteq q.made, p.due \subseteq q.due,
         q.done \subseteq p.done, p.sent \subseteq q.sent, q.used = p.used,
         NEW s, s \in {Attach(d, parent, o), Always(Attach(d, parent, o)), AttachIfFilled(parent, o)}
  PROVE  StepGood(s, p, q, c)
<1>1. s.op \in {"attach", "attach_if_filled"} /\ s.os[1] = parent /\ s.os[2] = o
  BY DEF Attach, AttachIfFilled, Always, Step
<1>2. After(s, p) = Note(p.held \ {o}, p.made, p.due, p.done, p.sent, p.used)
  BY <1>1 DEF After, CreateOps
<1>3. Follows(After(s, p), q)
  BY <1>2, NoteFields DEF Follows, Weaker
<1>4. Named(s) /\ Finds(s, p) /\ Skips(s, p, c.next)
  BY <1>1 DEF Named, Finds, Skips, New, CreateOps, SamplesOf
<1> QED BY <1>1, <1>3, <1>4 DEF StepGood, FailOps, OtherOps, InitOps

\* A cleared flag is no longer due.
LEMMA ClearGood ==
  ASSUME NEW d, NEW p, NEW q, NEW c, p.used \in Nat,
         q.held = p.held, p.made \subseteq q.made, p.due \ {d} \subseteq q.due,
         q.done \subseteq p.done \cup {d}, p.sent \subseteq q.sent, q.used = p.used
  PROVE  StepGood(Clear(d), p, q, c)
<1>1. PICK s : s = Clear(d)
  OBVIOUS
<1>2. s.op = "clear" /\ s.d = d
  BY <1>1 DEF Clear, Step
<1>3. After(s, p) = Note(p.held, p.made, p.due \ {d}, p.done \cup {d}, p.sent, p.used)
  BY <1>2 DEF After, CreateOps
<1>4. Follows(After(s, p), q)
  BY <1>3, NoteFields DEF Follows, Weaker
<1>5. Named(s) /\ Finds(s, p) /\ Skips(s, p, c.next)
  BY <1>2 DEF Named, Finds, Skips, New, CreateOps, SamplesOf
<1> QED BY <1>1, <1>2, <1>4, <1>5 DEF StepGood, FailOps, OtherOps, InitOps

\* Steps that cannot fail.
LEMMA QuietGood ==
  ASSUME NEW d, NEW p, NEW c, p.used \in Nat
  PROVE  /\ StepGood(NoteAdded(d), p, p, c)
         /\ d \in AllSamples => StepGood(TryConvert(d), p, p, c)
         /\ d \in AllSamples /\ Follows(Note(p.held, p.made, p.due \ {d}, p.done, p.sent, p.used), c.next)
              => StepGood(IfQueued(d), p, p, c)
<1>1. ASSUME NEW s, s.op \in {"note_added", "try_convert", "if_queued"},
             s.op = "note_added" \/ s.d \in AllSamples, Skips(s, p, c.next)
      PROVE  StepGood(s, p, p, c)
  <2>1. After(s, p) = p /\ Follows(p, p)
    BY <1>1 DEF After, CreateOps, Follows, Weaker
  <2>2. Named(s) /\ Finds(s, p)
    BY <1>1 DEF Named, Finds, New, CreateOps, SamplesOf
  <2> QED BY <1>1, <2>1, <2>2 DEF StepGood, FailOps, OtherOps, InitOps
<1>2. StepGood(NoteAdded(d), p, p, c)
  <2>1. PICK s : s = NoteAdded(d)
    OBVIOUS
  <2>2. s.op = "note_added" /\ Skips(s, p, c.next)
    BY <2>1 DEF NoteAdded, Step, Skips
  <2> QED BY <1>1, <2>1, <2>2
<1>3. ASSUME d \in AllSamples PROVE StepGood(TryConvert(d), p, p, c)
  <2>1. PICK s : s = TryConvert(d)
    OBVIOUS
  <2>2. s.op = "try_convert" /\ s.d = d /\ Skips(s, p, c.next)
    BY <2>1 DEF TryConvert, Step, Skips
  <2> QED BY <1>1, <1>3, <2>1, <2>2
<1>4. ASSUME d \in AllSamples, Follows(Note(p.held, p.made, p.due \ {d}, p.done, p.sent, p.used), c.next)
      PROVE  StepGood(IfQueued(d), p, p, c)
  <2>1. PICK s : s = IfQueued(d)
    OBVIOUS
  <2>2. s.op = "if_queued" /\ s.d = d
    BY <2>1 DEF IfQueued, Step
  <2>3. Skips(s, p, c.next)
    BY <1>4, <2>2 DEF Skips
  <2> QED BY <1>1, <1>4, <2>1, <2>2, <2>3
<1> QED BY <1>2, <1>3, <1>4

---------------------------------------------------------------------------
(* Sequences of steps, and of functions.                                    *)

\* The steps t make q of p.
StepsGood(t, p, q, c) ==
  /\ Len(t) \in Nat
  /\ \E a : /\ DOMAIN a = 1 .. Len(t) + 1 /\ a[1] = p /\ a[Len(t) + 1] = q
            /\ \A n \in 1 .. Len(t) + 1 : a[n].used \in Nat
            /\ \A n \in 1 .. Len(t) : StepGood(t[n], a[n], a[n + 1], c)

\* The function f, whose errors have to leave e, makes q of p.
MakesOf(f, p, q, e) ==
  /\ Len(f) \in Nat \ {0} /\ ~AtExit(f)
  /\ \A c : c.next = q /\ c.exit = e => StepsGood(f, p, q, c)

\* The functions B make q of p.
BodyGood(B, p, q, e) ==
  /\ Len(B) \in Nat
  /\ \E b : /\ DOMAIN b = 1 .. Len(B) + 1 /\ b[1] = p /\ b[Len(B) + 1] = q
            /\ \A k \in 1 .. Len(B) + 1 : b[k].used \in Nat
            /\ \A k \in 1 .. Len(B) : MakesOf(B[k], b[k], b[k + 1], e)

\* Of two sequences, and notes for each of which the last is the first of the other.
Joined(t, u, a, b, v, d) ==
  /\ Len(v) \in Nat /\ DOMAIN d = 1 .. Len(v) + 1 /\ d[1] = a[1] /\ d[Len(v) + 1] = b[Len(u) + 1]
  /\ \A n \in 1 .. Len(v) + 1 : \/ \E m \in 1 .. Len(t) + 1 : d[n] = a[m]
                                \/ \E m \in 1 .. Len(u) + 1 : d[n] = b[m]
  /\ \A n \in 1 .. Len(v) :
       \/ \E m \in 1 .. Len(t) : v[n] = t[m] /\ d[n] = a[m] /\ d[n + 1] = a[m + 1]
       \/ \E m \in 1 .. Len(u) : v[n] = u[m] /\ d[n] = b[m] /\ d[n + 1] = b[m + 1]

\* Notes for two sequences are notes for both together.
LEMMA JoinedNotes ==
  ASSUME NEW t, NEW u, Len(t) \in Nat, Len(u) \in Nat, NEW a, NEW b,
         DOMAIN a = 1 .. Len(t) + 1, DOMAIN b = 1 .. Len(u) + 1, a[Len(t) + 1] = b[1]
  PROVE  \E d : Joined(t, u, a, b, t \o u, d)
<1>v. PICK v : v = t \o u
  OBVIOUS
<1>d. PICK d : d = [n \in 1 .. Len(t) + Len(u) + 1 |-> IF n <= Len(t) THEN a[n] ELSE b[n - Len(t)]]
  OBVIOUS
<1>1. Len(v) = Len(t) + Len(u) /\ Len(v) \in Nat
  BY <1>v
<1>2. DOMAIN d = 1 .. Len(v) + 1
  BY <1>1, <1>d
<1>3. \A n \in 1 .. Len(t) + 1 : n \in DOMAIN d /\ d[n] = a[n]
  <2> SUFFICES ASSUME NEW n \in 1 .. Len(t) + 1 PROVE n \in DOMAIN d /\ d[n] = a[n]
    OBVIOUS
  <2>1. n \in 1 .. Len(t) + Len(u) + 1
    OBVIOUS
  <2>2. CASE n = Len(t) + 1
    <3>1. ~(n <= Len(t)) /\ n - Len(t) = 1
      BY <2>2
    <3>2. d[n] = b[1]
      BY <1>d, <2>1, <3>1
    <3>3. a[n] = b[1]
      BY <2>2
    <3> QED BY <1>d, <2>1, <3>2, <3>3
  <2>3. CASE n <= Len(t)
    BY <1>d, <2>1, <2>3
  <2> QED BY <2>2, <2>3
<1>4. \A n \in 1 .. Len(u) + 1 : Len(t) + n \in DOMAIN d /\ d[Len(t) + n] = b[n]
  <2> SUFFICES ASSUME NEW n \in 1 .. Len(u) + 1 PROVE Len(t) + n \in DOMAIN d /\ d[Len(t) + n] = b[n]
    OBVIOUS
  <2>1. /\ Len(t) + n \in 1 .. Len(t) + Len(u) + 1 /\ ~(Len(t) + n <= Len(t))
        /\ (Len(t) + n) - Len(t) = n
    OBVIOUS
  <2> QED BY <1>d, <2>1
<1>5. ASSUME NEW n \in 1 .. Len(v) + 1, n > Len(t) PROVE \E m \in 1 .. Len(u) + 1 : n = Len(t) + m
  <2>1. n - Len(t) \in 1 .. Len(u) + 1 /\ n = Len(t) + (n - Len(t))
    BY <1>1, <1>5
  <2> QED BY <2>1
<1>6. ASSUME NEW n \in 1 .. Len(v) + 1
      PROVE  \/ \E m \in 1 .. Len(t) + 1 : d[n] = a[m]
             \/ \E m \in 1 .. Len(u) + 1 : d[n] = b[m]
  <2>1. CASE n <= Len(t)
    <3>1. n \in 1 .. Len(t) + 1
      BY <1>1, <2>1
    <3> QED BY <1>3, <3>1
  <2>2. CASE n > Len(t)
    <3>1. PICK m \in 1 .. Len(u) + 1 : n = Len(t) + m
      BY <1>5, <2>2
    <3> QED BY <1>4, <3>1
  <2> QED BY <1>1, <2>1, <2>2
<1>7. ASSUME NEW n \in 1 .. Len(v)
      PROVE  \/ \E m \in 1 .. Len(t) : v[n] = t[m] /\ d[n] = a[m] /\ d[n + 1] = a[m + 1]
             \/ \E m \in 1 .. Len(u) : v[n] = u[m] /\ d[n] = b[m] /\ d[n + 1] = b[m + 1]
  <2>1. CASE n <= Len(t)
    <3>1. n \in 1 .. Len(t) /\ n \in 1 .. Len(t) + 1 /\ n + 1 \in 1 .. Len(t) + 1
      BY <1>1, <2>1
    <3>2. v[n] = t[n]
      BY <1>v, <3>1
    <3> QED BY <1>3, <3>1, <3>2
  <2>2. CASE n > Len(t)
    <3>1. PICK m \in 1 .. Len(u) : n = Len(t) + m
      <4>1. PICK m \in 1 .. Len(u) + 1 : n = Len(t) + m
        BY <1>1, <1>5, <2>2
      <4> QED BY <1>1, <4>1
    <3>2. v[n] = u[m]
      BY <1>v, <3>1
    <3>3. n + 1 = Len(t) + (m + 1) /\ m + 1 \in 1 .. Len(u) + 1 /\ m \in 1 .. Len(u) + 1
      BY <3>1
    <3>4. d[Len(t) + m] = b[m] /\ d[Len(t) + (m + 1)] = b[m + 1]
      BY <1>4, <3>3
    <3>5. d[n] = b[m] /\ d[n + 1] = b[m + 1]
      BY <3>1, <3>3, <3>4
    <3> QED BY <3>1, <3>2, <3>5
  <2>3. n <= Len(t) \/ n > Len(t)
    BY <1>1
  <2> QED BY <2>1, <2>2, <2>3, Zenon
<1>8. d[1] = a[1] /\ d[Len(v) + 1] = b[Len(u) + 1]
  <2>1. 1 \in 1 .. Len(t) + 1 /\ Len(u) + 1 \in 1 .. Len(u) + 1 /\ Len(v) + 1 = Len(t) + (Len(u) + 1)
    BY <1>1
  <2> QED BY <1>3, <1>4, <2>1
<1>9. Joined(t, u, a, b, v, d)
  BY <1>1, <1>2, <1>6, <1>7, <1>8 DEF Joined
<1> QED BY <1>v, <1>9

\* Steps after steps.
LEMMA StepsJoin ==
  ASSUME NEW t, NEW u, NEW p, NEW q, NEW r, NEW c, StepsGood(t, p, q, c), StepsGood(u, q, r, c)
  PROVE  StepsGood(t \o u, p, r, c)
<1>1. PICK a : /\ Len(t) \in Nat /\ DOMAIN a = 1 .. Len(t) + 1 /\ a[1] = p /\ a[Len(t) + 1] = q
               /\ \A n \in 1 .. Len(t) + 1 : a[n].used \in Nat
               /\ \A n \in 1 .. Len(t) : StepGood(t[n], a[n], a[n + 1], c)
  BY DEF StepsGood
<1>2. PICK b : /\ Len(u) \in Nat /\ DOMAIN b = 1 .. Len(u) + 1 /\ b[1] = q /\ b[Len(u) + 1] = r
               /\ \A n \in 1 .. Len(u) + 1 : b[n].used \in Nat
               /\ \A n \in 1 .. Len(u) : StepGood(u[n], b[n], b[n + 1], c)
  BY DEF StepsGood
<1>3. a[Len(t) + 1] = b[1]
  BY <1>1, <1>2
<1>v. PICK v : v = t \o u
  OBVIOUS
<1>d. PICK d : Joined(t, u, a, b, v, d)
  BY <1>1, <1>2, <1>3, <1>v, JoinedNotes
<1>5. Len(v) \in Nat /\ DOMAIN d = 1 .. Len(v) + 1 /\ d[1] = p /\ d[Len(v) + 1] = r
  BY <1>1, <1>2, <1>d DEF Joined
<1>6. \A n \in 1 .. Len(v) + 1 : d[n].used \in Nat
  BY <1>1, <1>2, <1>d DEF Joined
<1>7. \A n \in 1 .. Len(v) : StepGood(v[n], d[n], d[n + 1], c)
  BY <1>1, <1>2, <1>d DEF Joined
<1> QED BY <1>v, <1>5, <1>6, <1>7 DEF StepsGood

\* Functions after functions.
LEMMA BodyJoin ==
  ASSUME NEW t, NEW u, NEW p, NEW q, NEW r, NEW e, BodyGood(t, p, q, e), BodyGood(u, q, r, e)
  PROVE  BodyGood(t \o u, p, r, e)
<1>1. PICK a : /\ Len(t) \in Nat /\ DOMAIN a = 1 .. Len(t) + 1 /\ a[1] = p /\ a[Len(t) + 1] = q
               /\ \A n \in 1 .. Len(t) + 1 : a[n].used \in Nat
               /\ \A n \in 1 .. Len(t) : MakesOf(t[n], a[n], a[n + 1], e)
  BY DEF BodyGood
<1>2. PICK b : /\ Len(u) \in Nat /\ DOMAIN b = 1 .. Len(u) + 1 /\ b[1] = q /\ b[Len(u) + 1] = r
               /\ \A n \in 1 .. Len(u) + 1 : b[n].used \in Nat
               /\ \A n \in 1 .. Len(u) : MakesOf(u[n], b[n], b[n + 1], e)
  BY DEF BodyGood
<1>3. a[Len(t) + 1] = b[1]
  BY <1>1, <1>2
<1>v. PICK v : v = t \o u
  OBVIOUS
<1>d. PICK d : Joined(t, u, a, b, v, d)
  BY <1>1, <1>2, <1>3, <1>v, JoinedNotes
<1>5. Len(v) \in Nat /\ DOMAIN d = 1 .. Len(v) + 1 /\ d[1] = p /\ d[Len(v) + 1] = r
  BY <1>1, <1>2, <1>d DEF Joined
<1>6. \A n \in 1 .. Len(v) + 1 : d[n].used \in Nat
  BY <1>1, <1>2, <1>d DEF Joined
<1>7. \A n \in 1 .. Len(v) : MakesOf(v[n], d[n], d[n + 1], e)
  BY <1>1, <1>2, <1>d DEF Joined
<1> QED BY <1>v, <1>5, <1>6, <1>7 DEF BodyGood

\* Sequences written out.
LEMMA OneStep ==
  ASSUME NEW p1, NEW p2,
         p1.used \in Nat, p2.used \in Nat,
         NEW c, NEW s1,
         StepGood(s1, p1, p2, c)
  PROVE  StepsGood(<<s1>>, p1, p2, c)
<1>1. PICK t : t = <<s1>>
  OBVIOUS
<1>2. PICK a : a = <<p1, p2>>
  OBVIOUS
<1>3. /\ Len(t) = 1 /\ t[1] = s1
      /\ DOMAIN a = 1 .. 2 /\ a[1] = p1 /\ a[2] = p2
  BY <1>1, <1>2
<1> QED BY <1>1, <1>3 DEF StepsGood

LEMMA TwoSteps ==
  ASSUME NEW p1, NEW p2, NEW p3,
         p1.used \in Nat, p2.used \in Nat, p3.used \in Nat,
         NEW c, NEW s1, NEW s2,
         StepGood(s1, p1, p2, c), StepGood(s2, p2, p3, c)
  PROVE  StepsGood(<<s1, s2>>, p1, p3, c)
<1>1. PICK t : t = <<s1, s2>>
  OBVIOUS
<1>2. PICK a : a = <<p1, p2, p3>>
  OBVIOUS
<1>3. /\ Len(t) = 2 /\ t[1] = s1 /\ t[2] = s2
      /\ DOMAIN a = 1 .. 3 /\ a[1] = p1 /\ a[2] = p2 /\ a[3] = p3
  BY <1>1, <1>2
<1> QED BY <1>1, <1>3 DEF StepsGood

LEMMA ThreeSteps ==
  ASSUME NEW p1, NEW p2, NEW p3, NEW p4,
         p1.used \in Nat, p2.used \in Nat, p3.used \in Nat, p4.used \in Nat,
         NEW c, NEW s1, NEW s2, NEW s3,
         StepGood(s1, p1, p2, c), StepGood(s2, p2, p3, c), StepGood(s3, p3, p4, c)
  PROVE  StepsGood(<<s1, s2, s3>>, p1, p4, c)
<1>1. PICK t : t = <<s1, s2, s3>>
  OBVIOUS
<1>2. PICK a : a = <<p1, p2, p3, p4>>
  OBVIOUS
<1>3. /\ Len(t) = 3 /\ t[1] = s1 /\ t[2] = s2 /\ t[3] = s3
      /\ DOMAIN a = 1 .. 4 /\ a[1] = p1 /\ a[2] = p2 /\ a[3] = p3 /\ a[4] = p4
  BY <1>1, <1>2
<1> QED BY <1>1, <1>3 DEF StepsGood

LEMMA FourSteps ==
  ASSUME NEW p1, NEW p2, NEW p3, NEW p4, NEW p5,
         p1.used \in Nat, p2.used \in Nat, p3.used \in Nat, p4.used \in Nat, p5.used \in Nat,
         NEW c, NEW s1, NEW s2, NEW s3, NEW s4,
         StepGood(s1, p1, p2, c), StepGood(s2, p2, p3, c), StepGood(s3, p3, p4, c),
         StepGood(s4, p4, p5, c)
  PROVE  StepsGood(<<s1, s2, s3, s4>>, p1, p5, c)
<1>1. PICK t : t = <<s1, s2, s3, s4>>
  OBVIOUS
<1>2. PICK a : a = <<p1, p2, p3, p4, p5>>
  OBVIOUS
<1>3. /\ Len(t) = 4 /\ t[1] = s1 /\ t[2] = s2 /\ t[3] = s3 /\ t[4] = s4
      /\ DOMAIN a = 1 .. 5 /\ a[1] = p1 /\ a[2] = p2 /\ a[3] = p3 /\ a[4] = p4 /\ a[5] = p5
  BY <1>1, <1>2
<1> QED BY <1>1, <1>3 DEF StepsGood

LEMMA SixSteps ==
  ASSUME NEW p1, NEW p2, NEW p3, NEW p4, NEW p5, NEW p6, NEW p7,
         p1.used \in Nat, p2.used \in Nat, p3.used \in Nat, p4.used \in Nat, p5.used \in Nat,
         p6.used \in Nat, p7.used \in Nat,
         NEW c, NEW s1, NEW s2, NEW s3, NEW s4, NEW s5, NEW s6,
         StepGood(s1, p1, p2, c), StepGood(s2, p2, p3, c), StepGood(s3, p3, p4, c),
         StepGood(s4, p4, p5, c), StepGood(s5, p5, p6, c), StepGood(s6, p6, p7, c)
  PROVE  StepsGood(<<s1, s2, s3, s4, s5, s6>>, p1, p7, c)
<1>1. PICK t : t = <<s1, s2, s3, s4, s5, s6>>
  OBVIOUS
<1>2. PICK a : a = <<p1, p2, p3, p4, p5, p6, p7>>
  OBVIOUS
<1>3. /\ Len(t) = 6 /\ t[1] = s1 /\ t[2] = s2 /\ t[3] = s3 /\ t[4] = s4 /\ t[5] = s5 /\ t[6] = s6
      /\ DOMAIN a = 1 .. 7 /\ a[1] = p1 /\ a[2] = p2 /\ a[3] = p3 /\ a[4] = p4 /\ a[5] = p5 /\ a[6] = p6 /\ a[7] = p7
  BY <1>1, <1>2
<1> QED BY <1>1, <1>3 DEF StepsGood

LEMMA SevenSteps ==
  ASSUME NEW p1, NEW p2, NEW p3, NEW p4, NEW p5, NEW p6, NEW p7, NEW p8,
         p1.used \in Nat, p2.used \in Nat, p3.used \in Nat, p4.used \in Nat, p5.used \in Nat,
         p6.used \in Nat, p7.used \in Nat, p8.used \in Nat,
         NEW c, NEW s1, NEW s2, NEW s3, NEW s4, NEW s5, NEW s6, NEW s7,
         StepGood(s1, p1, p2, c), StepGood(s2, p2, p3, c), StepGood(s3, p3, p4, c),
         StepGood(s4, p4, p5, c), StepGood(s5, p5, p6, c), StepGood(s6, p6, p7, c),
         StepGood(s7, p7, p8, c)
  PROVE  StepsGood(<<s1, s2, s3, s4, s5, s6, s7>>, p1, p8, c)
<1>1. PICK t : t = <<s1, s2, s3, s4, s5, s6, s7>>
  OBVIOUS
<1>2. PICK a : a = <<p1, p2, p3, p4, p5, p6, p7, p8>>
  OBVIOUS
<1>3. /\ Len(t) = 7 /\ t[1] = s1 /\ t[2] = s2 /\ t[3] = s3 /\ t[4] = s4 /\ t[5] = s5 /\ t[6] = s6 /\ t[7] = s7
      /\ DOMAIN a = 1 .. 8 /\ a[1] = p1 /\ a[2] = p2 /\ a[3] = p3 /\ a[4] = p4 /\ a[5] = p5 /\ a[6] = p6 /\ a[7] = p7
      /\ a[8] = p8
  BY <1>1, <1>2
<1> QED BY <1>1, <1>3 DEF StepsGood

LEMMA TenSteps ==
  ASSUME NEW p1, NEW p2, NEW p3, NEW p4, NEW p5, NEW p6, NEW p7, NEW p8,
         NEW p9, NEW p10, NEW p11,
         p1.used \in Nat, p2.used \in Nat, p3.used \in Nat, p4.used \in Nat, p5.used \in Nat,
         p6.used \in Nat, p7.used \in Nat, p8.used \in Nat, p9.used \in Nat, p10.used \in Nat,
         p11.used \in Nat,
         NEW c, NEW s1, NEW s2, NEW s3, NEW s4, NEW s5, NEW s6, NEW s7, NEW s8,
         NEW s9, NEW s10,
         StepGood(s1, p1, p2, c), StepGood(s2, p2, p3, c), StepGood(s3, p3, p4, c),
         StepGood(s4, p4, p5, c), StepGood(s5, p5, p6, c), StepGood(s6, p6, p7, c),
         StepGood(s7, p7, p8, c), StepGood(s8, p8, p9, c), StepGood(s9, p9, p10, c),
         StepGood(s10, p10, p11, c)
  PROVE  StepsGood(<<s1, s2, s3, s4, s5, s6, s7, s8, s9, s10>>, p1, p11, c)
<1>1. PICK t : t = <<s1, s2, s3, s4, s5, s6, s7, s8, s9, s10>>
  OBVIOUS
<1>2. PICK a : a = <<p1, p2, p3, p4, p5, p6, p7, p8, p9, p10, p11>>
  OBVIOUS
<1>3. /\ Len(t) = 10 /\ t[1] = s1 /\ t[2] = s2 /\ t[3] = s3 /\ t[4] = s4 /\ t[5] = s5 /\ t[6] = s6 /\ t[7] = s7
      /\ t[8] = s8 /\ t[9] = s9 /\ t[10] = s10
      /\ DOMAIN a = 1 .. 11 /\ a[1] = p1 /\ a[2] = p2 /\ a[3] = p3 /\ a[4] = p4 /\ a[5] = p5 /\ a[6] = p6 /\ a[7] = p7
      /\ a[8] = p8 /\ a[9] = p9 /\ a[10] = p10 /\ a[11] = p11
  BY <1>1, <1>2
<1>4. ASSUME NEW n \in 1 .. 10 PROVE StepGood(t[n], a[n], a[n + 1], c)
  <2>1. \/ n = 1 \/ n = 2 \/ n = 3 \/ n = 4 \/ n = 5 \/ n = 6 \/ n = 7
        \/ n = 8 \/ n = 9 \/ n = 10
    OBVIOUS
  <2> QED BY <1>3, <2>1
<1>5. \A n \in 1 .. 11 : a[n].used \in Nat
  BY <1>3
<1> QED BY <1>1, <1>3, <1>4, <1>5 DEF StepsGood

LEMMA ThirteenSteps ==
  ASSUME NEW p1, NEW p2, NEW p3, NEW p4, NEW p5, NEW p6, NEW p7, NEW p8,
         NEW p9, NEW p10, NEW p11, NEW p12, NEW p13, NEW p14,
         p1.used \in Nat, p2.used \in Nat, p3.used \in Nat, p4.used \in Nat, p5.used \in Nat,
         p6.used \in Nat, p7.used \in Nat, p8.used \in Nat, p9.used \in Nat, p10.used \in Nat,
         p11.used \in Nat, p12.used \in Nat, p13.used \in Nat, p14.used \in Nat,
         NEW c, NEW s1, NEW s2, NEW s3, NEW s4, NEW s5, NEW s6, NEW s7, NEW s8,
         NEW s9, NEW s10, NEW s11, NEW s12, NEW s13,
         StepGood(s1, p1, p2, c), StepGood(s2, p2, p3, c), StepGood(s3, p3, p4, c),
         StepGood(s4, p4, p5, c), StepGood(s5, p5, p6, c), StepGood(s6, p6, p7, c),
         StepGood(s7, p7, p8, c), StepGood(s8, p8, p9, c), StepGood(s9, p9, p10, c),
         StepGood(s10, p10, p11, c), StepGood(s11, p11, p12, c), StepGood(s12, p12, p13, c),
         StepGood(s13, p13, p14, c)
  PROVE  StepsGood(<<s1, s2, s3, s4, s5, s6, s7, s8, s9, s10, s11, s12, s13>>, p1, p14, c)
<1>1. PICK t : t = <<s1, s2, s3, s4, s5, s6, s7, s8, s9, s10, s11, s12, s13>>
  OBVIOUS
<1>2. PICK a : a = <<p1, p2, p3, p4, p5, p6, p7, p8, p9, p10, p11, p12, p13, p14>>
  OBVIOUS
<1>3. /\ Len(t) = 13 /\ t[1] = s1 /\ t[2] = s2 /\ t[3] = s3 /\ t[4] = s4 /\ t[5] = s5 /\ t[6] = s6 /\ t[7] = s7
      /\ t[8] = s8 /\ t[9] = s9 /\ t[10] = s10 /\ t[11] = s11 /\ t[12] = s12 /\ t[13] = s13
      /\ DOMAIN a = 1 .. 14 /\ a[1] = p1 /\ a[2] = p2 /\ a[3] = p3 /\ a[4] = p4 /\ a[5] = p5 /\ a[6] = p6 /\ a[7] = p7
      /\ a[8] = p8 /\ a[9] = p9 /\ a[10] = p10 /\ a[11] = p11 /\ a[12] = p12 /\ a[13] = p13 /\ a[14] = p14
  BY <1>1, <1>2
<1>4. ASSUME NEW n \in 1 .. 13 PROVE StepGood(t[n], a[n], a[n + 1], c)
  <2>1. \/ n = 1 \/ n = 2 \/ n = 3 \/ n = 4 \/ n = 5 \/ n = 6 \/ n = 7
        \/ n = 8 \/ n = 9 \/ n = 10 \/ n = 11 \/ n = 12 \/ n = 13
    OBVIOUS
  <2> QED BY <1>3, <2>1
<1>5. \A n \in 1 .. 14 : a[n].used \in Nat
  BY <1>3
<1> QED BY <1>1, <1>3, <1>4, <1>5 DEF StepsGood

\* No function makes nothing.
LEMMA NoFunctions == ASSUME NEW p, p.used \in Nat, NEW e PROVE BodyGood(<< >>, p, p, e)
<1>1. PICK b : b = <<p>>
  OBVIOUS
<1>2. DOMAIN b = 1 .. 1 /\ b[1] = p /\ Len(<< >>) = 0
  BY <1>1
<1> QED BY <1>2 DEF BodyGood

\* One function is a body.
LEMMA OneFunction ==
  ASSUME NEW p, NEW q, p.used \in Nat, q.used \in Nat, NEW e, NEW f, MakesOf(f, p, q, e)
  PROVE  BodyGood(<<f>>, p, q, e)
<1>1. PICK t : t = <<f>>
  OBVIOUS
<1>2. PICK a : a = <<p, q>>
  OBVIOUS
<1>3. Len(t) = 1 /\ t[1] = f /\ DOMAIN a = 1 .. 2 /\ a[1] = p /\ a[2] = q
  BY <1>1, <1>2
<1> QED BY <1>1, <1>3 DEF BodyGood

\* Steps that make what comes next are a function.
LEMMA FunctionOfSteps ==
  ASSUME NEW f, NEW p, NEW c, Len(f) # 0, ~AtExit(f), StepsGood(f, p, c.next, c)
  PROVE  \E a : a[1] = p /\ FunctionGood(f, a, c)
<1>1. PICK a : /\ Len(f) \in Nat /\ DOMAIN a = 1 .. Len(f) + 1 /\ a[1] = p /\ a[Len(f) + 1] = c.next
               /\ \A n \in 1 .. Len(f) + 1 : a[n].used \in Nat
               /\ \A n \in 1 .. Len(f) : StepGood(f[n], a[n], a[n + 1], c)
  BY DEF StepsGood
<1>2. PICK b : b = [n \in 1 .. Len(f) |-> a[n]]
  OBVIOUS
<1>3. /\ DOMAIN b = 1 .. Len(f) /\ b[1] = p /\ \A n \in DOMAIN b : b[n].used \in Nat
      /\ \A n \in 1 .. Len(f) : b[n] = a[n]
  BY <1>1, <1>2
<1>4. ASSUME NEW n \in 1 .. Len(f) PROVE StepGood(f[n], b[n], IF n = Len(f) THEN c.next ELSE b[n + 1], c)
  <2>1. a[n + 1] = IF n = Len(f) THEN c.next ELSE b[n + 1]
    BY <1>1, <1>3
  <2> QED BY <1>1, <1>3, <2>1
<1> QED BY <1>1, <1>3, <1>4 DEF FunctionGood

---------------------------------------------------------------------------
(* The functions that add a sample.                                         *)

\* A list that abandons p, with new objects before it, abandons a note with these.
LEMMA AbandonsMore ==
  ASSUME NEW u, NEW p, NEW e, Abandons(u, p, e), NEW x, NEW O, Lists(x, O), O \cap p.held = {},
         NEW q, q.held = p.held \cup O, q.made \subseteq e.made, Text \notin q.made
  PROVE  Abandons(x \o u, q, e)
<1>1. Lists(u, p.held \ e.held) /\ e.held \subseteq p.held
  BY DEF Abandons
<1>2. O \cap (p.held \ e.held) = {} /\ O \cup (p.held \ e.held) = q.held \ e.held
  BY <1>1
<1>3. Lists(x \o u, q.held \ e.held)
  BY <1>1, <1>2, JoinedLists
<1> QED BY <1>1, <1>3 DEF Abandons

\* An object is created, which an error leaves aside.
LEMMA CreateAlone ==
  ASSUME NEW d, NEW o, NEW u, NEW p, NEW q, NEW c, p.used \in Nat, Abandons(u, p, c.exit),
         p.held \subseteq p.made, o \notin p.made, o # Text, o \in c.exit.made,
         SamplesOf({o}) \subseteq AllSamples, SamplesOf({o}) \ p.done \subseteq q.due,
         q.held = p.held \cup {o}, p.made \cup {o} \subseteq q.made, p.due \subseteq q.due,
         q.done \subseteq p.done, p.sent \subseteq q.sent, q.used = p.used
  PROVE  StepGood(Create(d, <<o>>, u), p, q, c)
<1>1. PICK U : U = p.held \ c.exit.held
  OBVIOUS
<1>2. PICK O : O = {o}
  OBVIOUS
<1>3. PICK os : os = <<o>>
  OBVIOUS
<1>4. /\ Lists(u, U) /\ c.exit.held \subseteq p.held /\ p.made \subseteq c.exit.made /\ Text \notin p.made
      /\ Lists(os, O)
  BY <1>1, <1>2, <1>3, ShortLists DEF Abandons
<1>5. /\ U \subseteq p.held \cup O /\ p.held \ U = c.exit.held /\ o \notin U
      /\ p.made \cap O = {} /\ Text \notin p.made \cup O /\ p.made \cup O \subseteq c.exit.made
      /\ p.made \cup O \subseteq q.made /\ p.due \cup (SamplesOf(O) \ p.done) \subseteq q.due
      /\ SamplesOf(O) \subseteq AllSamples /\ q.held = p.held \cup O
  BY <1>1, <1>2, <1>4
<1> QED BY <1>2, <1>3, <1>4, <1>5, CreateGood

\* Objects are created, all of which an error deletes.
LEMMA CreateTogether ==
  ASSUME NEW d, NEW os, NEW O, Lists(os, O), NEW u, NEW p, NEW q, NEW c, p.used \in Nat,
         Abandons(u, q, c.exit), c.exit.held \subseteq p.held,
         p.held \subseteq p.made, p.made \cap O = {},
         SamplesOf(O) \subseteq AllSamples, SamplesOf(O) \subseteq q.due,
         q.held = p.held \cup O, p.made \cup O \subseteq q.made, p.due \subseteq q.due,
         q.done \subseteq p.done, p.sent \subseteq q.sent, q.used = p.used
  PROVE  StepGood(Create(d, os, u), p, q, c)
<1>1. PICK U : U = q.held \ c.exit.held
  OBVIOUS
<1>2. /\ Lists(u, U) /\ q.made \subseteq c.exit.made /\ Text \notin q.made
  BY <1>1 DEF Abandons
<1>3. /\ U \subseteq p.held \cup O /\ p.held \ U = c.exit.held /\ O \subseteq U
      /\ Text \notin p.made \cup O /\ p.made \cup O \subseteq c.exit.made
      /\ p.due \cup (SamplesOf(O) \ p.done) \subseteq q.due
  BY <1>1, <1>2
<1> QED BY <1>2, <1>3, CreateGood

\* The objects of a sample.
OwnRoles == {"obj", "val", "list", "cell 1", "cell 2", "content",
             "rsrp", "air quality", "humidity", "temperature", "pressure"}
Own(d) == {Object(r, d) : r \in OwnRoles}

\* The objects of a sample differ from each other and from the text, and name the sample.
LEMMA OwnFacts ==
  ASSUME NEW d
  PROVE  /\ \A r \in OwnRoles : Object(r, d) \in Own(d) /\ Object(r, d) # Text
         /\ \A O \in SUBSET Own(d) : SamplesOf(O) \subseteq {d}
         /\ Text \notin Own(d)
         /\ \A r, s \in OwnRoles : r # s => Object(r, d) # Object(s, d)
<1>1. \A r \in OwnRoles : Object(r, d)[1] = r /\ Object(r, d)[2] = d /\ r # "text"
  BY DEF Object, OwnRoles
<1>2. Text[1] = "text"
  BY DEF Text, Object
<1>3. \A r \in OwnRoles : Object(r, d) \in Own(d) /\ Object(r, d) # Text
  BY <1>1, <1>2 DEF Own
<1>4. \A o \in Own(d) : o[2] = d /\ o # Text
  BY <1>1, <1>2 DEF Own
<1> QED BY <1>1, <1>3, <1>4 DEF SamplesOf

\* The note p of S held, M perhaps created and the flags of D to clear.
IsNote(p, S, M, D) ==
  p.held = S /\ p.made = M /\ p.due = D /\ p.done = {} /\ p.sent = {} /\ p.used = 0

\* The steps of TryGood, between notes of a sample.
LEMMA TryNote ==
  ASSUME NEW p, NEW S, NEW M, NEW D, IsNote(p, S, M, D), NEW u, NEW c, Abandons(u, p, c.exit), NEW d
  PROVE  /\ StepGood(Values(d, u), p, p, c) /\ StepGood(Check(d, u), p, p, c)
         /\ StepGood(CheckData(d, u), p, p, c) /\ StepGood(Element(d, u), p, p, c)
         /\ d \in AllSamples => StepGood(Convert(d, u), p, p, c) /\ StepGood(NeedQueued(d, u), p, p, c)
<1>1. p.used \in Nat
  BY DEF IsNote
<1>2. \A op \in TryOps : StepGood(Step(op, d, << >>, u), p, p, c)
  BY <1>1, TryGood DEF TryOps, TakeOps
<1>3. ASSUME d \in AllSamples PROVE \A op \in TakeOps : StepGood(Step(op, d, << >>, u), p, p, c)
  BY <1>1, <1>3, TryGood DEF TryOps, TakeOps
<1> QED BY <1>2, <1>3 DEF Values, Check, CheckData, Element, Convert, NeedQueued, TryOps, TakeOps

\* AttachGood, between notes of a sample.
LEMMA AttachNote ==
  ASSUME NEW p, NEW S, NEW M, NEW D, IsNote(p, S, M, D), NEW q, NEW T, NEW N, IsNote(q, T, N, D), M \subseteq N,
         NEW o, o \in S, T = S \ {o}, NEW parent \in S, Level(parent) < Level(o), NEW c, NEW d
  PROVE  /\ StepGood(Attach(d, parent, o), p, q, c) /\ StepGood(Always(Attach(d, parent, o)), p, q, c)
         /\ StepGood(AttachIfFilled(parent, o), p, q, c)
  BY AttachGood DEF IsNote

\* ClearGood, between notes of a sample.
LEMMA ClearNote ==
  ASSUME NEW p, NEW S, NEW M, NEW D, IsNote(p, S, M, D), NEW q, NEW d, IsNote(q, S, M, D \ {d}), NEW c
  PROVE  StepGood(Clear(d), p, q, c)
  BY ClearGood DEF IsNote

\* A sample that is not queued is passed over.
LEMMA IfQueuedNote ==
  ASSUME NEW p, NEW S, NEW M, NEW D, IsNote(p, S, M, D), NEW d \in AllSamples, D \subseteq {d},
         NEW c, NEW N, IsNote(c.next, S, N, {}), M \subseteq N
  PROVE  StepGood(IfQueued(d), p, p, c)
<1>1. p.used \in Nat
  BY DEF IsNote
<1>2. Follows(Note(p.held, p.made, p.due \ {d}, p.done, p.sent, p.used), c.next)
  BY NoteFields DEF IsNote, Follows, Weaker
<1> QED BY <1>1, <1>2, QuietGood

\* CreateGood for one object, which need not be deleted.
LEMMA CreateAloneNote ==
  ASSUME NEW p, NEW S, NEW M, NEW D, IsNote(p, S, M, D), NEW q, NEW N, NEW E, NEW T, IsNote(q, T, N, E),
         NEW o, T = S \cup {o}, M \cup {o} \subseteq N, D \cup SamplesOf({o}) \subseteq E,
         NEW u, NEW c, Abandons(u, p, c.exit), S \subseteq M, o \notin M, o # Text, o \in c.exit.made,
         SamplesOf({o}) \subseteq AllSamples, NEW d
  PROVE  StepGood(Create(d, <<o>>, u), p, q, c)
  BY CreateAlone DEF IsNote

\* CreateGood for several objects.
LEMMA CreateTogetherNote ==
  ASSUME NEW p, NEW S, NEW M, NEW D, IsNote(p, S, M, D), NEW q, NEW N, NEW E, NEW T, IsNote(q, T, N, E),
         NEW os, NEW O, Lists(os, O), T = S \cup O, M \cup O \subseteq N, D \cup SamplesOf(O) \subseteq E,
         NEW u, NEW c, Abandons(u, q, c.exit), c.exit.held \subseteq S, S \subseteq M, M \cap O = {},
         SamplesOf(O) \subseteq AllSamples, NEW d
  PROVE  StepGood(Create(d, os, u), p, q, c)
  BY CreateTogether DEF IsNote

\* What a function that adds the sample d finds: parent is held with others (S), there is
\* room for its objects, up is what the caller has an error delete, and D is empty or {d}.
Caller(d, parent, up, S, M, N, D, p, c) ==
  /\ d \in AllSamples /\ parent \in S /\ Level(parent) < 3 /\ S \subseteq M
  /\ M \cap Own(d) = {} /\ N = M \cup Own(d) /\ N \subseteq c.exit.made /\ Text \notin M
  /\ D \subseteq {d} /\ IsNote(p, S, M, D) /\ Abandons(up, p, c.exit) /\ IsNote(c.next, S, N, {})

\* The objects O of the sample are held as well, in an order of their own in u.
LEMMA HoldsOwn ==
  ASSUME NEW d, NEW parent, NEW up, NEW S, NEW M, NEW N, NEW D, NEW p, NEW c,
         Caller(d, parent, up, S, M, N, D, p, c),
         NEW u, NEW O, Lists(u, O), O \subseteq Own(d), NEW K, K \subseteq N,
         NEW E, NEW q, IsNote(q, S \cup O, K, E)
  PROVE  Abandons(u \o up, q, c.exit)
<1>1. p.held = S /\ O \cap S = {} /\ q.held = S \cup O /\ q.made \subseteq c.exit.made /\ Text \notin q.made
  BY OwnFacts DEF Caller, IsNote
<1>2. Abandons(up, p, c.exit)
  BY DEF Caller
<1> QED BY <1>1, <1>2, AbandonsMore

\* The same for a caller without anything to delete.
LEMMA HoldsOnly ==
  ASSUME NEW d, NEW parent, NEW S, NEW M, NEW N, NEW D, NEW p, NEW c,
         Caller(d, parent, << >>, S, M, N, D, p, c),
         NEW u, NEW O, Lists(u, O), O \subseteq Own(d), NEW K, K \subseteq N,
         NEW E, NEW q, IsNote(q, S \cup O, K, E)
  PROVE  Abandons(u, q, c.exit)
<1>1. p.held = S /\ O \cap S = {} /\ q.held = S \cup O /\ q.made \subseteq c.exit.made /\ Text \notin q.made
  BY OwnFacts DEF Caller, IsNote
<1>2. S = c.exit.held
  <2>1. Range(<< >>) = S \ c.exit.held /\ c.exit.held \subseteq S
    BY <1>1 DEF Caller, Abandons, Lists
  <2>2. Range(<< >>) = {}
    BY DEF Range
  <2> QED BY <2>1, <2>2
<1>3. q.held \ c.exit.held = O
  BY <1>1, <1>2
<1> QED BY <1>1, <1>2, <1>3 DEF Abandons

\* Once the flag is no longer looked at: an object of the sample hangs in the parent's
\* tree, the flag is cleared.
LEMMA LastSteps ==
  ASSUME NEW d, NEW parent, NEW up, NEW S, NEW M, NEW N, NEW D, NEW p, NEW c,
         Caller(d, parent, up, S, M, N, D, p, c),
         NEW o, o \in Own(d), 3 <= Level(o), Level(o) \in Nat,
         NEW K, K \subseteq N, NEW x, IsNote(x, S \cup {o}, K, {d}), NEW y, IsNote(y, S, N, {d})
  PROVE  StepGood(Attach(d, parent, o), x, y, c) /\ StepGood(Clear(d), y, c.next, c)
<1>1. o \notin S /\ parent \in S \cup {o} /\ S = (S \cup {o}) \ {o} /\ IsNote(c.next, S, N, {})
      /\ {} = {d} \ {d} /\ Level(parent) < 3
  BY DEF Caller
<1>2. Level(parent) < Level(o)
  <2>1. Level(parent) \in Nat
    BY DEF Level
  <2> QED BY <1>1, <2>1
<1>3. StepGood(Attach(d, parent, o), x, y, c)
  BY <1>1, <1>2, AttachNote
<1>4. StepGood(Clear(d), y, c.next, c)
  BY <1>1, ClearNote
<1> QED BY <1>3, <1>4

\* Notes of samples list no paths.
LEMMA UsedOf == ASSUME NEW p, NEW S, NEW M, NEW D, IsNote(p, S, M, D) PROVE p.used \in Nat
  BY DEF IsNote

\* There are notes of samples.
LEMMA SomeNote == \A S, M, D : \E p : IsNote(p, S, M, D)
<1> SUFFICES ASSUME NEW S, NEW M, NEW D PROVE \E p : IsNote(p, S, M, D)
  OBVIOUS
<1>1. IsNote(Note(S, M, D, {}, {}, 0), S, M, D)
  BY DEF IsNote, Note
<1> QED BY <1>1

\* The objects of a sample with values of its own.
LEMMA ObjFacts ==
  ASSUME NEW d
  PROVE  /\ Obj(d) \in Own(d) /\ Val(d) \in Own(d) /\ List(d) \in Own(d)
         /\ Obj(d) # Val(d) /\ Obj(d) # List(d)
         /\ Level(Obj(d)) = 3 /\ Level(Val(d)) = 5 /\ Level(List(d)) = 4
<1>1. Obj(d) = Object("obj", d) /\ Val(d) = Object("val", d) /\ List(d) = Object("list", d)
  BY DEF Obj, Val, List
<1>2. Level(Obj(d)) = 3 /\ Level(Val(d)) = 5 /\ Level(List(d)) = 4
  BY <1>1 DEF Level, Object
<1> QED BY <1>1, <1>2, OwnFacts DEF OwnRoles

\* ValueObject(): an object in the object of the sample, in the parent.
LEMMA ValueObjectMakes ==
  ASSUME NEW d, NEW parent, NEW up, NEW S, NEW M, NEW N, NEW D, NEW p, NEW c,
         Caller(d, parent, up, S, M, N, D, p, c),
         NEW filled, NEW x, IsNote(x, S \cup {Obj(d), Val(d)}, N, {d}), StepsGood(filled, x, x, c)
  PROVE  StepsGood(ValueObject(d, parent, filled, up), p, c.next, c)
<1>1. PICK y : IsNote(y, S \cup {Obj(d)}, N, {d})
  BY SomeNote
<1>2. PICK z : IsNote(z, S, N, {d})
  BY SomeNote
<1>3. PICK both : both = <<Obj(d), Val(d)>>
  OBVIOUS
<1>4. PICK O : O = {Obj(d), Val(d)}
  OBVIOUS
<1>5. Lists(both, O)
  BY <1>3, <1>4, ShortLists, ObjFacts
<1>6. /\ IsNote(p, S, M, D) /\ IsNote(x, S \cup O, N, {d}) /\ IsNote(c.next, S, N, {})
      /\ d \in AllSamples /\ Abandons(up, p, c.exit)
  BY <1>4 DEF Caller
<1>7. /\ O \subseteq Own(d) /\ M \cup O \subseteq N /\ S \subseteq M /\ M \cap O = {} /\ c.exit.held \subseteq S
      /\ SamplesOf(O) \subseteq AllSamples /\ D \cup SamplesOf(O) \subseteq {d} /\ D \subseteq {d} /\ M \subseteq N
      /\ Obj(d) \notin S /\ Val(d) \notin S
  <2>1. O \subseteq Own(d)
    BY <1>4, ObjFacts
  <2>2. SamplesOf(O) \subseteq {d}
    BY <2>1, OwnFacts
  <2>3. c.exit.held \subseteq S
    BY DEF Caller, Abandons, IsNote
  <2> QED BY <2>1, <2>2, <2>3, ObjFacts DEF Caller
<1>8. Abandons(both \o up, x, c.exit)
  BY <1>5, <1>6, <1>7, HoldsOwn
<1>9. Abandons(<<Obj(d)>> \o up, y, c.exit)
  BY <1>1, ShortLists, ObjFacts, HoldsOwn
<1>10. p.used \in Nat /\ x.used \in Nat /\ y.used \in Nat /\ z.used \in Nat /\ c.next.used \in Nat
  BY <1>1, <1>2, <1>6, UsedOf
<1>11. StepsGood(<<IfQueued(d), Convert(d, up), Create(d, both, both \o up)>>, p, x, c)
  <2>1. StepGood(IfQueued(d), p, p, c)
    BY <1>6, <1>7, IfQueuedNote
  <2>2. StepGood(Convert(d, up), p, p, c)
    BY <1>6, TryNote
  <2>3. StepGood(Create(d, both, both \o up), p, x, c)
    BY <1>5, <1>6, <1>7, <1>8, CreateTogetherNote
  <2> QED BY <1>10, <2>1, <2>2, <2>3, ThreeSteps
<1>12. StepsGood(<<Attach(d, Obj(d), Val(d)), Values(d, <<Obj(d)>> \o up), Attach(d, parent, Obj(d)), Clear(d)>>,
                 x, c.next, c)
  <2>1. StepGood(Attach(d, Obj(d), Val(d)), x, y, c)
    <3>1. Obj(d) \in S \cup O /\ Val(d) \in S \cup O /\ S \cup {Obj(d)} = (S \cup O) \ {Val(d)}
      BY <1>4, <1>7, ObjFacts
    <3>2. Level(Obj(d)) < Level(Val(d))
      BY ObjFacts
    <3> QED BY <1>1, <1>6, <3>1, <3>2, AttachNote
  <2>2. StepGood(Values(d, <<Obj(d)>> \o up), y, y, c)
    BY <1>1, <1>9, TryNote
  <2>3. StepGood(Attach(d, parent, Obj(d)), y, z, c) /\ StepGood(Clear(d), z, c.next, c)
    BY <1>1, <1>2, ObjFacts, LastSteps
  <2> QED BY <1>10, <2>1, <2>2, <2>3, FourSteps
<1>13. StepsGood(<<IfQueued(d), Convert(d, up), Create(d, both, both \o up)>> \o filled, p, x, c)
  BY <1>11, StepsJoin
<1> QED BY <1>3, <1>12, <1>13, StepsJoin DEF ValueObject

\* No step makes nothing.
LEMMA NoSteps == ASSUME NEW p, p.used \in Nat, NEW c PROVE StepsGood(<< >>, p, p, c)
<1>1. PICK a : a = <<p>>
  OBVIOUS
<1>2. DOMAIN a = 1 .. 1 /\ a[1] = p /\ Len(<< >>) = 0
  BY <1>1
<1> QED BY <1>2 DEF StepsGood

\* What the notes of a call begin and end with.
LEMMA CallerFacts ==
  ASSUME NEW d, NEW parent, NEW up, NEW S, NEW M, NEW N, NEW D, NEW p, NEW c,
         Caller(d, parent, up, S, M, N, D, p, c)
  PROVE  /\ d \in AllSamples /\ S \subseteq M /\ M \subseteq N /\ Own(d) \subseteq N /\ D \subseteq {d}
         /\ \A o \in Own(d) : o \notin S /\ o \notin M /\ o # Text /\ o \in c.exit.made
                              /\ SamplesOf({o}) \subseteq {d} /\ SamplesOf({o}) \subseteq AllSamples
         /\ c.exit.held \subseteq S /\ Text \notin N
         /\ IsNote(p, S, M, D) /\ IsNote(c.next, S, N, {}) /\ Abandons(up, p, c.exit)
         /\ p.used \in Nat /\ c.next.used \in Nat
<1>1. c.exit.held \subseteq S
  BY DEF Caller, Abandons, IsNote
<1>2. \A o \in Own(d) : SamplesOf({o}) \subseteq {d} /\ o # Text
  BY OwnFacts
<1>3. IsNote(p, S, M, D) /\ IsNote(c.next, S, N, {})
  BY DEF Caller
<1>4. p.used \in Nat /\ c.next.used \in Nat
  BY <1>3, UsedOf
<1>5. Text \notin N
  BY OwnFacts DEF Caller
<1> QED BY <1>1, <1>2, <1>3, <1>4, <1>5 DEF Caller

\* FlatObject(): one object, filled.
LEMMA FlatObjectMakes ==
  ASSUME NEW d, NEW parent, NEW up, NEW S, NEW M, NEW N, NEW D, NEW p, NEW c,
         Caller(d, parent, up, S, M, N, D, p, c)
  PROVE  StepsGood(FlatObject(d, parent, up), p, c.next, c)
<1>1. PICK x : IsNote(x, S \cup {Obj(d)}, N, {d})
  BY SomeNote
<1>2. PICK z : IsNote(z, S, N, {d})
  BY SomeNote
<1>3. PICK one : one = <<Obj(d)>>
  OBVIOUS
<1>4. PICK O : O = {Obj(d)}
  OBVIOUS
<1>5. Lists(one, O) /\ O \subseteq Own(d) /\ IsNote(x, S \cup O, N, {d})
  BY <1>1, <1>3, <1>4, ShortLists, ObjFacts
<1>6. Abandons(one \o up, x, c.exit)
  BY <1>5, HoldsOwn
<1>7. StepGood(IfQueued(d), p, p, c) /\ StepGood(Convert(d, up), p, p, c)
  BY CallerFacts, IfQueuedNote, TryNote
<1>8. StepGood(Create(d, one, one \o up), p, x, c)
  <2>1. IsNote(p, S, M, D) /\ S \subseteq M /\ M \subseteq N /\ c.exit.held \subseteq S /\ D \subseteq {d}
    BY CallerFacts
  <2>2. Obj(d) \notin M /\ Obj(d) \in N /\ SamplesOf(O) \subseteq {d} /\ SamplesOf(O) \subseteq AllSamples
    BY <1>4, CallerFacts, ObjFacts
  <2>3. M \cup O \subseteq N /\ M \cap O = {} /\ D \cup SamplesOf(O) \subseteq {d}
    BY <1>4, <2>1, <2>2
  <2> QED BY <1>5, <1>6, <2>1, <2>2, <2>3, CreateTogetherNote
<1>9. StepGood(Values(d, one \o up), x, x, c)
  BY <1>1, <1>6, TryNote
<1>10. StepGood(Attach(d, parent, Obj(d)), x, z, c) /\ StepGood(Clear(d), z, c.next, c)
  BY <1>1, <1>2, ObjFacts, LastSteps
<1>11. p.used \in Nat /\ x.used \in Nat /\ z.used \in Nat /\ c.next.used \in Nat
  BY <1>1, <1>2, CallerFacts, UsedOf
<1> QED BY <1>3, <1>7, <1>8, <1>9, <1>10, <1>11, SixSteps DEF FlatObject

\* The samples of the buffers, and which step comes first.
LEMMA SampleMakes ==
  ASSUME NEW d, NEW parent, NEW up, NEW S, NEW M, NEW N, NEW D, NEW p, NEW c,
         Caller(d, parent, up, S, M, N, D, p, c), d[1] \in Range(BufferTypes)
  PROVE  StepsGood(SampleAdd(d, parent, up), p, c.next, c)
<1>1. PICK x : IsNote(x, S \cup {Obj(d), Val(d)}, N, {d})
  BY SomeNote
<1>2. PICK u : u = <<Obj(d), Val(d)>> \o up
  OBVIOUS
<1>3. Abandons(u, x, c.exit)
  <2>1. Lists(<<Obj(d), Val(d)>>, {Obj(d), Val(d)}) /\ {Obj(d), Val(d)} \subseteq Own(d)
    BY ShortLists, ObjFacts
  <2> QED BY <1>1, <1>2, <2>1, HoldsOwn
<1>4. /\ StepGood(ValuesOf(d, up), x, x, c) /\ StepGood(Check(d, u), x, x, c) /\ x.used \in Nat
  BY <1>1, <1>2, <1>3, TryNote, UsedOf DEF ValuesOf
<1>5. StepsGood(<<ValuesOf(d, up)>>, x, x, c)
  BY <1>4, OneStep
<1>6. StepsGood(<<ValuesOf(d, up), Check(d, u), ValuesOf(d, up)>>, x, x, c)
  BY <1>4, ThreeSteps
<1>7. \A filled : StepsGood(filled, x, x, c) => StepsGood(ValueObject(d, parent, filled, up), p, c.next, c)
  BY <1>1, ValueObjectMakes
<1>8. /\ StepsGood(modem_static_data_add(d, parent, up), p, c.next, c)
      /\ StepsGood(modem_dynamic_data_add(d, parent, up), p, c.next, c)
      /\ StepsGood(sensor_data_add(d, parent, up), p, c.next, c)
      /\ StepsGood(gnss_data_add(d, parent, up), p, c.next, c)
  BY <1>2, <1>5, <1>6, <1>7
     DEF modem_static_data_add, modem_dynamic_data_add, sensor_data_add, gnss_data_add
<1>9. /\ StepsGood(ui_data_add(d, parent, up), p, c.next, c)
      /\ StepsGood(impact_data_add(d, parent, up), p, c.next, c)
      /\ StepsGood(battery_data_add(d, parent, up), p, c.next, c)
  BY FlatObjectMakes DEF ui_data_add, impact_data_add, battery_data_add
<1>10. d[1] \in {"static", "dynamic", "gnss", "sensor", "ui", "impact", "battery"}
  BY DEF BufferTypes, Range
<1> QED BY <1>8, <1>9, <1>10 DEF SampleAdd

\* Every way to add a sample asks first whether it is queued.
LEMMA SampleStarts ==
  ASSUME NEW d, NEW parent, NEW up, d[1] \in Range(BufferTypes), NEW f, f = SampleAdd(d, parent, up)
  PROVE  Len(f) \in Nat \ {0} /\ f[1] = IfQueued(d)
<1>1. d[1] \in {"static", "dynamic", "gnss", "sensor", "ui", "impact", "battery"}
  BY DEF BufferTypes, Range
<1>2. ASSUME NEW g, NEW filled, g = ValueObject(d, parent, filled, up)
      PROVE  Len(g) \in Nat \ {0} /\ g[1] = IfQueued(d)
  BY <1>2 DEF ValueObject
<1>3. ASSUME NEW g, g = FlatObject(d, parent, up)
      PROVE  Len(g) \in Nat \ {0} /\ g[1] = IfQueued(d)
  BY <1>3 DEF FlatObject
<1> QED BY <1>1, <1>2, <1>3 DEF SampleAdd, modem_static_data_add, modem_dynamic_data_add, sensor_data_add,
        gnss_data_add, ui_data_add, impact_data_add, battery_data_add

\* The caller of a function has none of the sample's objects, and has room for them.
LEMMA CallerOwn ==
  ASSUME NEW d, NEW parent, NEW up, NEW S, NEW M, NEW N, NEW D, NEW p, NEW c,
         Caller(d, parent, up, S, M, N, D, p, c)
  PROVE  \A o \in Own(d) : /\ o \notin S /\ o \notin M /\ o # Text /\ o \in N
                           /\ SamplesOf({o}) \subseteq {d} /\ SamplesOf({o}) \subseteq AllSamples
<1> SUFFICES ASSUME NEW o \in Own(d)
             PROVE  /\ o \notin S /\ o \notin M /\ o # Text /\ o \in N
                    /\ SamplesOf({o}) \subseteq {d} /\ SamplesOf({o}) \subseteq AllSamples
  OBVIOUS
<1>1. d \in AllSamples /\ S \subseteq M /\ M \cap Own(d) = {} /\ N = M \cup Own(d)
  BY DEF Caller
<1>2. SamplesOf({o}) \subseteq {d} /\ o # Text
  BY OwnFacts
<1> QED BY <1>1, <1>2

\* Without memory for the object o the function deletes u and returns 0.
LeavesOut(d, o, u, U, p, S, M, D, q, T, N, E, c, R, K) ==
  /\ IsNote(p, S, M, D) /\ o \notin M /\ o # Text /\ Text \notin M
  /\ IsNote(q, T, N, E) /\ T = S \cup {o} /\ M \cup {o} \subseteq N
  /\ D \cup SamplesOf({o}) \subseteq E /\ SamplesOf({o}) \subseteq AllSamples
  /\ IsNote(c.next, R, K, {}) /\ M \cup {o} \subseteq K
  /\ Lists(u, U) /\ U \subseteq S /\ S \ U = R
  /\ D \subseteq {d} /\ \A x \in M : x[2] = d => x \in U

\* CreateOrLeaveOut(): the sample is left out of the message, with all that has been made for it.
LEMMA LeaveOutNote ==
  ASSUME NEW d, NEW o, NEW u, NEW U, NEW p, NEW S, NEW M, NEW D, NEW q, NEW T, NEW N, NEW E,
         NEW c, NEW R, NEW K, LeavesOut(d, o, u, U, p, S, M, D, q, T, N, E, c, R, K)
  PROVE  StepGood(CreateOrLeaveOut(d, o, u), p, q, c)
<1>0. /\ IsNote(p, S, M, D) /\ o \notin M /\ o # Text /\ Text \notin M
      /\ IsNote(q, T, N, E) /\ T = S \cup {o} /\ M \cup {o} \subseteq N
      /\ D \cup SamplesOf({o}) \subseteq E /\ SamplesOf({o}) \subseteq AllSamples
      /\ IsNote(c.next, R, K, {}) /\ M \cup {o} \subseteq K
      /\ Lists(u, U) /\ U \subseteq S /\ S \ U = R
      /\ D \subseteq {d} /\ \A x \in M : x[2] = d => x \in U
  BY DEF LeavesOut
<1>1. PICK s : s = CreateOrLeaveOut(d, o, u)
  OBVIOUS
<1>2. s.op = "create_or_leave_out" /\ s.d = d /\ s.os = <<o>> /\ s.undo = u
  BY <1>1 DEF CreateOrLeaveOut, Step
<1>3. New(s) = {o} /\ Partly(s) = {{}}
  <2>1. Range(s.os) = {o}
    BY <1>2, ShortLists DEF Lists
  <2>2. (SUBSET {o}) \ {{o}} = {{}}
    OBVIOUS
  <2> QED BY <1>2, <2>1, <2>2 DEF New, Partly, CreateOps
<1>4. Follows(After(s, p), q)
  <2>1. After(s, p) = Note(p.held \cup {o}, p.made \cup {o}, p.due \cup (SamplesOf({o}) \ p.done), p.done, p.sent, p.used)
    BY <1>2, <1>3 DEF After, CreateOps
  <2>2. /\ p.held \cup {o} = q.held /\ p.made \cup {o} \subseteq q.made /\ p.due \cup SamplesOf({o}) \subseteq q.due
        /\ q.done \subseteq p.done /\ p.sent \subseteq q.sent /\ p.used <= q.used
    <3>1. /\ IsNote(p, S, M, D) /\ IsNote(q, S \cup {o}, N, E) /\ M \cup {o} \subseteq N
          /\ D \cup SamplesOf({o}) \subseteq E
      BY <1>0
    <3> QED BY <3>1 DEF IsNote
  <2>3. PICK r : r = After(s, p)
    OBVIOUS
  <2>4. /\ r.held = p.held \cup {o} /\ r.made = p.made \cup {o} /\ r.due = p.due \cup (SamplesOf({o}) \ p.done)
        /\ r.done = p.done /\ r.sent = p.sent /\ r.used = p.used
    BY <2>1, <2>3 DEF Note
  <2> QED BY <2>2, <2>3, <2>4 DEF Follows, Weaker
<1>5. Named(s) /\ Finds(s, p)
  <2>1. Named(s)
    BY <1>0, <1>2, <1>3 DEF Named
  <2>2. New(s) \cap p.made = {} /\ Text \notin New(s)
    BY <1>0, <1>3 DEF IsNote
  <2> QED BY <1>2, <2>1, <2>2 DEF Finds, CreateOps
<1>6. Skips(s, p, c.next)
  <2>1. (p.held \cup {}) \ Range(s.undo) = c.next.held /\ Range(s.undo) \subseteq p.held \cup New(s)
    BY <1>0, <1>2 DEF Lists, IsNote
  <2>2. Undone(s, p, c.next)
    BY <1>0, <1>2, <1>3, <2>1 DEF Undone, Lists, IsNote
  <2>3. \A x \in p.made : x[2] = s.d => x \in Range(s.undo)
    BY <1>0, <1>2 DEF Lists, IsNote
  <2> QED BY <1>0, <1>2, <1>3, <2>2, <2>3 DEF Skips, IsNote
<1> QED BY <1>1, <1>2, <1>4, <1>5, <1>6 DEF StepGood, FailOps, OtherOps, InitOps

\* An object of the sample comes on top of those that are held.
LEMMA CreateOwn ==
  ASSUME NEW d, NEW parent, NEW up, NEW S, NEW M, NEW N, NEW D, NEW p, NEW c,
         Caller(d, parent, up, S, M, N, D, p, c),
         NEW x, NEW A, NEW K, NEW E, IsNote(x, A, K, E), E \subseteq {d}, K \subseteq N, A \subseteq K,
         NEW o, o \in Own(d), o \notin K,
         NEW y, NEW B, NEW L, IsNote(y, B, L, {d}), B = A \cup {o}, K \cup {o} \subseteq L,
         NEW u, Abandons(u, x, c.exit), NEW e
  PROVE  StepGood(Create(e, <<o>>, u), x, y, c)
<1>1. o # Text /\ o \in c.exit.made /\ SamplesOf({o}) \subseteq AllSamples /\ SamplesOf({o}) \subseteq {d}
  BY CallerFacts
<1>2. E \cup SamplesOf({o}) \subseteq {d}
  BY <1>1
<1> QED BY <1>1, <1>2, CreateAloneNote

\* The Wi-Fi access points of a location request.
LEMMA wifiMakes ==
  ASSUME NEW d, NEW parent, NEW up, NEW S, NEW M, NEW N, NEW D, NEW p, NEW c,
         Caller(d, parent, up, S, M, N, D, p, c), \A o \in M : o[2] # d
  PROVE  StepsGood(wifi_ap_data_add(d, parent, up), p, c.next, c)
<1>1. PICK x : IsNote(x, S \cup {Obj(d)}, M \cup {Obj(d)}, {d})
  BY SomeNote
<1>2. PICK y : IsNote(y, S \cup {List(d), Obj(d)}, N, {d})
  BY SomeNote
<1>3. PICK z : IsNote(z, S \cup {Obj(d)}, N, {d})
  BY SomeNote
<1>4. PICK w : IsNote(w, S, N, {d})
  BY SomeNote
<1>5. /\ d \in AllSamples /\ S \subseteq M /\ M \subseteq N /\ D \subseteq {d} /\ Text \notin M
      /\ IsNote(p, S, M, D) /\ IsNote(c.next, S, N, {}) /\ Abandons(up, p, c.exit)
  BY CallerFacts
<1>6. /\ Obj(d) \notin M /\ Obj(d) \notin S /\ Obj(d) \in N /\ Obj(d) # Text
      /\ List(d) \notin M /\ List(d) \notin S /\ List(d) \in N /\ List(d) # Text /\ Obj(d) # List(d)
      /\ SamplesOf({List(d)}) \subseteq {d} /\ SamplesOf({List(d)}) \subseteq AllSamples
  <2>1. Obj(d) \in Own(d) /\ List(d) \in Own(d) /\ Obj(d) # List(d)
    BY ObjFacts
  <2>2. \A o \in Own(d) : /\ o \notin S /\ o \notin M /\ o # Text /\ o \in N
                          /\ SamplesOf({o}) \subseteq {d} /\ SamplesOf({o}) \subseteq AllSamples
    BY CallerOwn
  <2> QED BY <2>1, <2>2
<1>7. StepGood(NeedQueued(d, up), p, p, c)
  BY <1>5, TryNote
<1>8. StepGood(Create(d, <<Obj(d)>>, up), p, x, c)
  <2>1. M \cup {Obj(d)} \subseteq M \cup {Obj(d)}
    OBVIOUS
  <2> QED BY <1>1, <1>5, <1>6, <2>1, ObjFacts, CreateOwn
<1>9. Abandons(<<Obj(d)>> \o up, x, c.exit)
  <2>1. M \cup {Obj(d)} \subseteq N
    BY <1>5, <1>6
  <2> QED BY <1>1, <2>1, ShortLists, ObjFacts, HoldsOwn
<1>10. /\ StepGood(Convert(d, <<Obj(d)>> \o up), x, x, c) /\ StepGood(Values(d, <<Obj(d)>> \o up), x, x, c)
       /\ StepGood(CheckData(d, <<Obj(d)>> \o up), x, x, c)
  BY <1>1, <1>5, <1>9, TryNote
<1>11. StepGood(CreateOrLeaveOut(d, List(d), <<Obj(d)>>), x, y, c)
  <2>1. PICK u : u = <<Obj(d)>>
    OBVIOUS
  <2>2. PICK K : K = M \cup {Obj(d)}
    OBVIOUS
  <2>3. PICK A : A = S \cup {Obj(d)}
    OBVIOUS
  <2>4. PICK U : U = {Obj(d)}
    OBVIOUS
  <2>5. /\ Lists(u, U) /\ List(d) \notin K /\ Text \notin K /\ K \cup {List(d)} \subseteq N
        /\ S \cup {List(d), Obj(d)} = A \cup {List(d)} /\ U \subseteq A /\ A \ U = S
        /\ {d} \cup SamplesOf({List(d)}) \subseteq {d} /\ {d} \subseteq {d}
        /\ \A o \in K : o[2] = d => o \in U
    BY <1>5, <1>6, <2>1, <2>2, <2>3, <2>4, ShortLists
  <2>6. IsNote(x, A, K, {d}) /\ IsNote(y, A \cup {List(d)}, N, {d}) /\ IsNote(c.next, S, N, {})
    <3>1. A \cup {List(d)} = S \cup {List(d), Obj(d)}
      BY <2>3
    <3> QED BY <1>1, <1>2, <1>5, <2>2, <2>3, <3>1
  <2>7. StepGood(CreateOrLeaveOut(d, List(d), u), x, y, c)
    <3>1. LeavesOut(d, List(d), u, U, x, A, K, {d}, y, A \cup {List(d)}, N, {d}, c, S, N)
      BY <1>6, <2>5, <2>6 DEF LeavesOut
    <3> QED BY <3>1, LeaveOutNote
  <2> QED BY <2>1, <2>7
<1>12. StepGood(Element(d, <<List(d), Obj(d)>> \o up), y, y, c)
  <2>1. Lists(<<List(d), Obj(d)>>, {List(d), Obj(d)}) /\ {List(d), Obj(d)} \subseteq Own(d)
    BY <1>6, ShortLists, ObjFacts
  <2>2. Abandons(<<List(d), Obj(d)>> \o up, y, c.exit)
    BY <1>2, <2>1, HoldsOwn
  <2> QED BY <1>2, <2>2, TryNote
<1>13. StepGood(Attach(d, Obj(d), List(d)), y, z, c)
  <2>1. /\ List(d) \in S \cup {List(d), Obj(d)} /\ Obj(d) \in S \cup {List(d), Obj(d)}
        /\ S \cup {Obj(d)} = (S \cup {List(d), Obj(d)}) \ {List(d)}
    BY <1>6
  <2>2. Level(Obj(d)) < Level(List(d)) /\ N \subseteq N
    BY ObjFacts
  <2> QED BY <1>2, <1>3, <2>1, <2>2, AttachNote
<1>14. StepGood(Attach(d, parent, Obj(d)), z, w, c) /\ StepGood(Clear(d), w, c.next, c)
  <2>1. N \subseteq N
    OBVIOUS
  <2> QED BY <1>3, <1>4, <2>1, ObjFacts, LastSteps
<1>15. p.used \in Nat /\ x.used \in Nat /\ y.used \in Nat /\ z.used \in Nat /\ w.used \in Nat /\ c.next.used \in Nat
  BY <1>1, <1>2, <1>3, <1>4, <1>5, UsedOf
<1> QED BY <1>7, <1>8, <1>10, <1>11, <1>12, <1>13, <1>14, <1>15, TenSteps DEF wifi_ap_data_add

\* The requests: their root belongs to the sample, whose flag is to clear from the start.
LEMMA agnssMakes ==
  ASSUME NEW d, NEW parent, NEW up, NEW S, NEW M, NEW N, NEW D, NEW p, NEW c,
         Caller(d, parent, up, S, M, N, D, p, c)
  PROVE  StepsGood(agnss_request_data_add(d, parent, up), p, c.next, c)
<1>1. PICK x : IsNote(x, S \cup {List(d)}, N, {d})
  BY SomeNote
<1>2. PICK z : IsNote(z, S, N, {d})
  BY SomeNote
<1>3. /\ d \in AllSamples /\ S \subseteq M /\ M \subseteq N /\ D \subseteq {d}
      /\ IsNote(p, S, M, D) /\ IsNote(c.next, S, N, {}) /\ Abandons(up, p, c.exit)
      /\ List(d) \notin M /\ List(d) \in N
  <2>1. List(d) \in Own(d)
    BY ObjFacts
  <2>2. \A o \in Own(d) : /\ o \notin S /\ o \notin M /\ o # Text /\ o \in N
                          /\ SamplesOf({o}) \subseteq {d} /\ SamplesOf({o}) \subseteq AllSamples
    BY CallerOwn
  <2>3. /\ d \in AllSamples /\ S \subseteq M /\ M \subseteq N /\ D \subseteq {d}
        /\ IsNote(p, S, M, D) /\ IsNote(c.next, S, N, {}) /\ Abandons(up, p, c.exit)
    BY CallerFacts
  <2> QED BY <2>1, <2>2, <2>3
<1>4. StepGood(NeedQueued(d, up), p, p, c) /\ StepGood(Values(d, up), p, p, c)
  BY <1>3, TryNote
<1>5. StepGood(Create(d, <<List(d)>>, up), p, x, c)
  <2>1. M \cup {List(d)} \subseteq N
    BY <1>3
  <2> QED BY <1>1, <1>3, <2>1, ObjFacts, CreateOwn
<1>6. Abandons(<<List(d)>> \o up, x, c.exit)
  <2>1. N \subseteq N
    OBVIOUS
  <2> QED BY <1>1, <2>1, ShortLists, ObjFacts, HoldsOwn
<1>7. StepGood(Values(d, <<List(d)>> \o up), x, x, c) /\ StepGood(CheckData(d, <<List(d)>> \o up), x, x, c)
  BY <1>1, <1>6, TryNote
<1>8. StepGood(Attach(d, parent, List(d)), x, z, c) /\ StepGood(Clear(d), z, c.next, c)
  <2>1. N \subseteq N
    OBVIOUS
  <2> QED BY <1>1, <1>2, <2>1, ObjFacts, LastSteps
<1>9. p.used \in Nat /\ x.used \in Nat /\ z.used \in Nat /\ c.next.used \in Nat
  BY <1>1, <1>2, <1>3, UsedOf
<1> QED BY <1>4, <1>5, <1>7, <1>8, <1>9, SevenSteps DEF agnss_request_data_add

\* A request for predicted ephemerides.
LEMMA pgpsMakes ==
  ASSUME NEW d, NEW parent, NEW up, NEW S, NEW M, NEW N, NEW D, NEW p, NEW c,
         Caller(d, parent, up, S, M, N, D, p, c)
  PROVE  StepsGood(pgps_request_data_add(d, parent, up), p, c.next, c)
<1>1. /\ d \in AllSamples /\ M \subseteq N /\ D \subseteq {d}
      /\ IsNote(p, S, M, D) /\ IsNote(c.next, S, N, {}) /\ Abandons(up, p, c.exit)
  BY CallerFacts
<1>2. StepGood(NeedQueued(d, up), p, p, c) /\ StepGood(Values(d, up), p, p, c)
  BY <1>1, TryNote
<1>3. StepGood(Clear(d), p, c.next, c)
  <2>1. p.held = c.next.held /\ p.made \subseteq c.next.made /\ p.due \ {d} \subseteq c.next.due /\ p.used \in Nat
        /\ c.next.done \subseteq p.done \cup {d} /\ p.sent \subseteq c.next.sent /\ c.next.used = p.used
    BY <1>1 DEF IsNote
  <2> QED BY <2>1, ClearGood
<1>4. p.used \in Nat /\ c.next.used \in Nat
  BY <1>1, UsedOf
<1> QED BY <1>2, <1>3, <1>4, ThreeSteps DEF pgps_request_data_add

\* The same, as one condition each: the object o comes on top of A, or leaves B.
Comes(d, N, o, x, A, K, E, y, B, L) ==
  /\ IsNote(x, A, K, E) /\ E \subseteq {d} /\ K \subseteq N /\ A \subseteq K /\ o \in Own(d) /\ o \notin K
  /\ IsNote(y, B, L, {d}) /\ B = A \cup {o} /\ K \cup {o} \subseteq L
Goes(o, parent, y, B, K, z, A, L, D) ==
  /\ IsNote(y, B, K, D) /\ IsNote(z, A, L, D) /\ K \subseteq L
  /\ o \in B /\ parent \in B /\ A = B \ {o} /\ Level(parent) < Level(o)

\* An object comes.
LEMMA ComesGood ==
  ASSUME NEW d, NEW parent, NEW up, NEW S, NEW M, NEW N, NEW D, NEW p, NEW c,
         Caller(d, parent, up, S, M, N, D, p, c),
         NEW o, NEW x, NEW A, NEW K, NEW E, NEW y, NEW B, NEW L, Comes(d, N, o, x, A, K, E, y, B, L),
         NEW u, Abandons(u, x, c.exit), NEW e
  PROVE  StepGood(Create(e, <<o>>, u), x, y, c)
<1>1. /\ IsNote(x, A, K, E) /\ E \subseteq {d} /\ K \subseteq N /\ A \subseteq K /\ o \in Own(d) /\ o \notin K
      /\ IsNote(y, B, L, {d}) /\ B = A \cup {o} /\ K \cup {o} \subseteq L
  BY DEF Comes
<1> QED BY <1>1, CreateOwn

\* An object goes into its parent.
LEMMA GoesGood ==
  ASSUME NEW o, NEW parent, NEW y, NEW B, NEW K, NEW z, NEW A, NEW L, NEW D,
         Goes(o, parent, y, B, K, z, A, L, D), NEW c, NEW d
  PROVE  StepGood(Attach(d, parent, o), y, z, c)
<1>1. /\ IsNote(y, B, K, D) /\ IsNote(z, A, L, D) /\ K \subseteq L
      /\ o \in B /\ parent \in B /\ A = B \ {o} /\ Level(parent) < Level(o)
  BY DEF Goes
<1> QED BY <1>1, AttachNote

\* An error deletes the one object there is, and what the caller wants deleted.
LEMMA HoldsOne ==
  ASSUME NEW d, NEW parent, NEW up, NEW S, NEW M, NEW N, NEW D, NEW p, NEW c,
         Caller(d, parent, up, S, M, N, D, p, c),
         NEW o, o \in Own(d), NEW K, K \subseteq N, NEW E, NEW x, IsNote(x, S \cup {o}, K, E)
  PROVE  Abandons(<<o>> \o up, x, c.exit)
<1>1. PICK u, O : u = <<o>> /\ O = {o}
  OBVIOUS
<1>2. Lists(u, O) /\ O \subseteq Own(d) /\ IsNote(x, S \cup O, K, E)
  BY <1>1, ShortLists
<1> QED BY <1>1, <1>2, HoldsOwn

\* The levels of a list and of what is in it.
LEMMA FourFive == 4 < 5
  OBVIOUS

\* One of the neighbouring cells.
LEMMA CellMakes ==
  ASSUME NEW d, NEW parent, NEW up, NEW S, NEW M, NEW N, NEW D, NEW p, NEW c,
         Caller(d, parent, up, S, M, N, D, p, c),
         NEW cell, cell \in {Object("cell 1", d), Object("cell 2", d)},
         NEW K, S \cup {Obj(d), List(d)} \subseteq K, cell \notin K, NEW L, L = K \cup {cell}, L \subseteq N,
         NEW x, IsNote(x, S \cup {Obj(d), List(d)}, K, {d}),
         NEW z, IsNote(z, S \cup {Obj(d), List(d)}, L, {d})
  PROVE  StepsGood(<<Create(d, <<cell>>, <<Obj(d), List(d)>> \o up),
                     Values(d, <<Obj(d), List(d), cell>> \o up), Attach(d, List(d), cell)>>, x, z, c)
<1>1. PICK A : A = S \cup {Obj(d), List(d)}
  OBVIOUS
<1>2. PICK B : B = A \cup {cell}
  OBVIOUS
<1>3. PICK y : IsNote(y, B, L, {d})
  BY SomeNote
<1>4. cell \in Own(d) /\ Level(cell) = 5 /\ cell # Obj(d) /\ cell # List(d) /\ Obj(d) # List(d)
      /\ Obj(d) \in Own(d) /\ List(d) \in Own(d) /\ Level(List(d)) = 4
  <2>1. cell \in Own(d)
    BY OwnFacts DEF OwnRoles
  <2>2. /\ Obj(d)[1] = "obj" /\ List(d)[1] = "list"
        /\ Object("cell 1", d)[1] = "cell 1" /\ Object("cell 2", d)[1] = "cell 2"
    BY DEF Object, Obj, List
  <2>4. cell[1] \in {"cell 1", "cell 2"}
    BY <2>2
  <2>3. Level(cell) = 5
    BY <2>4 DEF Level
  <2> QED BY <2>1, <2>2, <2>3, <2>4, ObjFacts
<1>5. /\ Lists(<<Obj(d), List(d)>>, {Obj(d), List(d)}) /\ {Obj(d), List(d)} \subseteq Own(d)
      /\ Lists(<<Obj(d), List(d), cell>>, {Obj(d), List(d), cell}) /\ {Obj(d), List(d), cell} \subseteq Own(d)
  BY <1>4, ShortLists
<1>6. K \subseteq N /\ A \subseteq K /\ B = S \cup {Obj(d), List(d), cell} /\ {d} \subseteq {d} /\ IsNote(x, A, K, {d})
      /\ K \cup {cell} \subseteq L /\ IsNote(z, A, L, {d}) /\ cell \notin A
  BY <1>1, <1>2
<1>7. Abandons(<<Obj(d), List(d)>> \o up, x, c.exit)
  BY <1>5, <1>6, HoldsOwn
<1>8. Abandons(<<Obj(d), List(d), cell>> \o up, y, c.exit)
  BY <1>3, <1>5, <1>6, HoldsOwn
<1>9. StepGood(Create(d, <<cell>>, <<Obj(d), List(d)>> \o up), x, y, c)
  <2>1. Comes(d, N, cell, x, A, K, {d}, y, B, L)
    BY <1>2, <1>3, <1>4, <1>6 DEF Comes
  <2> QED BY <1>7, <2>1, ComesGood
<1>10. StepGood(Values(d, <<Obj(d), List(d), cell>> \o up), y, y, c)
  BY <1>3, <1>8, TryNote
<1>11. StepGood(Attach(d, List(d), cell), y, z, c)
  <2>1. cell \in B /\ List(d) \in B /\ A = B \ {cell}
    BY <1>1, <1>2, <1>6
  <2>2. Level(List(d)) < Level(cell)
    BY <1>4, FourFive, Zenon
  <2>3. Goes(cell, List(d), y, B, L, z, A, L, {d})
    BY <1>3, <1>6, <2>1, <2>2 DEF Goes
  <2> QED BY <2>3, GoesGood
<1>12. x.used \in Nat /\ y.used \in Nat /\ z.used \in Nat
  BY <1>3, UsedOf
<1> QED BY <1>9, <1>10, <1>11, <1>12, ThreeSteps

\* The cells of a location request.
LEMMA neighborMakes ==
  ASSUME NEW d, NEW parent, NEW up, NEW S, NEW M, NEW N, NEW D, NEW p, NEW c,
         Caller(d, parent, up, S, M, N, D, p, c), NEW neighbours
  PROVE  StepsGood(neighbor_cells_data_add(d, neighbours, parent, up), p, c.next, c)
<1> DEFINE OneCell(cell) == <<Create(d, <<cell>>, <<Obj(d), List(d)>> \o up),
                              Values(d, <<Obj(d), List(d), cell>> \o up), Attach(d, List(d), cell)>>
           second == IF neighbours > 1 THEN OneCell(Object("cell 2", d)) ELSE << >>
           cells == <<Create(d, <<List(d)>>, <<Obj(d)>> \o up)>> \o OneCell(Object("cell 1", d))
                    \o second \o <<Attach(d, Obj(d), List(d))>>
           front == <<NeedQueued(d, up), Create(d, <<Obj(d)>>, up), Convert(d, <<Obj(d)>> \o up),
                      Values(d, <<Obj(d)>> \o up)>>
           A == S \cup {Obj(d)}
           B == S \cup {Obj(d), List(d)}
           K0 == M \cup {Obj(d)}
           K1 == K0 \cup {List(d)}
           K2 == K1 \cup {Object("cell 1", d)}
           K3 == IF neighbours > 1 THEN K2 \cup {Object("cell 2", d)} ELSE K2
           K4 == IF neighbours > 0 THEN K3 ELSE K0
<1>0. neighbor_cells_data_add(d, neighbours, parent, up)
        = front \o (IF neighbours > 0 THEN cells ELSE << >>) \o <<Attach(d, parent, Obj(d)), Clear(d)>>
  BY DEF neighbor_cells_data_add
<1>1. PICK x : IsNote(x, A, K0, {d})
  BY SomeNote
<1>2. PICK y1 : IsNote(y1, B, K1, {d})
  BY SomeNote
<1>3. PICK y2 : IsNote(y2, B, K2, {d})
  BY SomeNote
<1>4. PICK y3 : IsNote(y3, B, K3, {d}) /\ (~(neighbours > 1) => y3 = y2)
  <2>1. CASE neighbours > 1
    BY <2>1, SomeNote
  <2>2. CASE ~(neighbours > 1)
    BY <1>3, <2>2
  <2> QED BY <2>1, <2>2
<1>5. PICK y4 : IsNote(y4, A, K4, {d}) /\ (~(neighbours > 0) => y4 = x)
  <2>1. CASE neighbours > 0
    BY <2>1, SomeNote
  <2>2. CASE ~(neighbours > 0)
    BY <1>1, <2>2
  <2> QED BY <2>1, <2>2
<1>6. PICK w : IsNote(w, S, N, {d})
  BY SomeNote
<1>7. /\ d \in AllSamples /\ S \subseteq M /\ M \subseteq N /\ D \subseteq {d}
      /\ IsNote(p, S, M, D) /\ IsNote(c.next, S, N, {}) /\ Abandons(up, p, c.exit)
  BY CallerFacts
<1>9. /\ Obj(d) \notin M /\ Obj(d) \notin S /\ Obj(d) \in N /\ List(d) \notin K0 /\ List(d) \notin S /\ List(d) \in N
      /\ Object("cell 1", d) \notin K1 /\ Object("cell 1", d) \in N
      /\ Object("cell 2", d) \notin K2 /\ Object("cell 2", d) \in N
      /\ Obj(d) # List(d) /\ Obj(d) \in Own(d) /\ List(d) \in Own(d)
  <2>1. \A r \in {"obj", "list", "cell 1", "cell 2"} : r \in OwnRoles
    BY DEF OwnRoles
  <2>2. \A r \in {"obj", "list", "cell 1", "cell 2"} : Object(r, d) \in Own(d)
    BY <2>1, OwnFacts
  <2>3. \A o \in Own(d) : o \notin S /\ o \notin M /\ o # Text /\ o \in N
                          /\ SamplesOf({o}) \subseteq {d} /\ SamplesOf({o}) \subseteq AllSamples
    BY CallerOwn
  <2>4. \A r, s \in {"obj", "list", "cell 1", "cell 2"} : r # s => Object(r, d) # Object(s, d)
    BY <2>1, OwnFacts
  <2>5. Obj(d) = Object("obj", d) /\ List(d) = Object("list", d)
    BY DEF Obj, List
  <2>6. \A r \in {"obj", "list", "cell 1", "cell 2"} : Object(r, d) \notin S /\ Object(r, d) \notin M /\ Object(r, d) \in N
    BY <2>2, <2>3
  <2> QED BY <2>2, <2>4, <2>5, <2>6
<1>10. /\ K0 \subseteq N /\ K1 \subseteq N /\ K2 \subseteq N /\ K3 \subseteq N /\ K4 \subseteq N /\ K2 \subseteq K3
       /\ A \subseteq K0 /\ B \subseteq K1 /\ B \subseteq K2
       /\ S \cup {Obj(d), List(d)} = B /\ B = A \cup {List(d)} /\ A = B \ {List(d)}
  BY <1>7, <1>9
<1>11. StepsGood(front, p, x, c)
  <2>1. StepGood(NeedQueued(d, up), p, p, c)
    BY <1>7, TryNote
  <2>2. StepGood(Create(d, <<Obj(d)>>, up), p, x, c)
    <3>1. Comes(d, N, Obj(d), p, S, M, D, x, A, K0)
      BY <1>1, <1>7, <1>9 DEF Comes
    <3> QED BY <1>7, <3>1, ComesGood
  <2>3. Abandons(<<Obj(d)>> \o up, x, c.exit)
    BY <1>1, <1>9, <1>10, HoldsOne
  <2>4. StepGood(Convert(d, <<Obj(d)>> \o up), x, x, c) /\ StepGood(Values(d, <<Obj(d)>> \o up), x, x, c)
    BY <1>1, <1>7, <2>3, TryNote
  <2>5. p.used \in Nat /\ x.used \in Nat
    BY <1>1, <1>7, UsedOf
  <2> QED BY <2>1, <2>2, <2>4, <2>5, FourSteps
<1>12. ASSUME neighbours > 0 PROVE StepsGood(cells, x, y4, c)
  <2>1. StepsGood(<<Create(d, <<List(d)>>, <<Obj(d)>> \o up)>>, x, y1, c)
    <3>1. Abandons(<<Obj(d)>> \o up, x, c.exit)
      BY <1>1, <1>9, <1>10, HoldsOne
    <3>2. Comes(d, N, List(d), x, A, K0, {d}, y1, B, K1)
      BY <1>1, <1>2, <1>9, <1>10 DEF Comes
    <3>3. StepGood(Create(d, <<List(d)>>, <<Obj(d)>> \o up), x, y1, c)
      BY <3>1, <3>2, ComesGood
    <3> QED BY <1>1, <1>2, <3>3, OneStep, UsedOf
  <2>2. StepsGood(OneCell(Object("cell 1", d)), y1, y2, c)
    BY <1>2, <1>3, <1>9, <1>10, CellMakes
  <2>3. StepsGood(second, y2, y3, c)
    <3>1. CASE neighbours > 1
      <4>1. IsNote(y3, B, K2 \cup {Object("cell 2", d)}, {d})
        BY <1>4, <3>1
      <4>2. StepsGood(OneCell(Object("cell 2", d)), y2, y3, c)
        BY <1>3, <1>9, <1>10, <3>1, <4>1, CellMakes
      <4> QED BY <3>1, <4>2
    <3>2. CASE ~(neighbours > 1)
      <4>1. y2.used \in Nat /\ y3 = y2
        BY <1>3, <1>4, <3>2, UsedOf
      <4> QED BY <3>2, <4>1, NoSteps
    <3> QED BY <3>1, <3>2
  <2>4. StepsGood(<<Attach(d, Obj(d), List(d))>>, y3, y4, c)
    <3>1. List(d) \in B /\ Obj(d) \in B /\ K3 \subseteq K4
      BY <1>12
    <3>2. Level(Obj(d)) < Level(List(d))
      BY ObjFacts
    <3>3. Goes(List(d), Obj(d), y3, B, K3, y4, A, K4, {d})
      BY <1>4, <1>5, <1>10, <3>1, <3>2 DEF Goes
    <3>4. StepGood(Attach(d, Obj(d), List(d)), y3, y4, c)
      BY <3>3, GoesGood
    <3> QED BY <1>4, <1>5, <3>4, OneStep, UsedOf
  <2>5. StepsGood(<<Create(d, <<List(d)>>, <<Obj(d)>> \o up)>> \o OneCell(Object("cell 1", d)), x, y2, c)
    BY <2>1, <2>2, StepsJoin
  <2>6. StepsGood(<<Create(d, <<List(d)>>, <<Obj(d)>> \o up)>> \o OneCell(Object("cell 1", d)) \o second, x, y3, c)
    BY <2>3, <2>5, StepsJoin
  <2> QED BY <2>4, <2>6, StepsJoin
<1>13. StepsGood(IF neighbours > 0 THEN cells ELSE << >>, x, y4, c)
  <2>1. CASE neighbours > 0
    BY <1>12, <2>1
  <2>2. CASE ~(neighbours > 0)
    <3>1. y4 = x /\ x.used \in Nat
      BY <1>1, <1>5, <2>2, UsedOf
    <3> QED BY <2>2, <3>1, NoSteps
  <2> QED BY <2>1, <2>2
<1>14. StepsGood(<<Attach(d, parent, Obj(d)), Clear(d)>>, y4, c.next, c)
  <2>1. StepGood(Attach(d, parent, Obj(d)), y4, w, c) /\ StepGood(Clear(d), w, c.next, c)
    <3>1. K4 \subseteq N /\ IsNote(y4, S \cup {Obj(d)}, K4, {d}) 
      BY <1>5, <1>10
    <3>2. Obj(d) \in Own(d) /\ 3 <= Level(Obj(d)) /\ Level(Obj(d)) \in Nat
      BY ObjFacts
    <3> HIDE DEF K4
    <3> QED BY <1>6, <3>1, <3>2, LastSteps
  <2>2. y4.used \in Nat /\ w.used \in Nat /\ c.next.used \in Nat
    BY <1>5, <1>6, <1>7, UsedOf
  <2> QED BY <2>1, <2>2, TwoSteps
<1>15. StepsGood(front \o (IF neighbours > 0 THEN cells ELSE << >>), p, y4, c)
  BY <1>11, <1>13, StepsJoin
<1> HIDE DEF front, cells
<1> QED BY <1>0, <1>14, <1>15, StepsJoin

---------------------------------------------------------------------------
(* The configuration, and the array of a batch.                              *)

ConfigOwn == {Object("config", NoSample), Object("nod_list", NoSample)}

\* What the caller of config_add() sees to: S is what it holds.
ConfigCaller(parent, S, M, N, p, c) ==
  /\ parent \in S /\ Level(parent) < 3 /\ S \subseteq M /\ M \cap ConfigOwn = {} /\ N = M \cup ConfigOwn
  /\ N \subseteq c.exit.made /\ Text \notin M /\ c.exit.held = S
  /\ IsNote(p, S, M, {}) /\ IsNote(c.next, S, N, {})

\* The objects of the configuration.
LEMMA ConfigObjects ==
  ASSUME NEW o, o = Object("config", NoSample), NEW l, l = Object("nod_list", NoSample)
  PROVE  /\ o \in ConfigOwn /\ l \in ConfigOwn /\ ConfigOwn = {o, l} /\ o # l
         /\ o # Text /\ l # Text /\ SamplesOf({o}) = {} /\ SamplesOf({l}) = {}
         /\ Level(o) = 3 /\ Level(l) = 4
<1>1. o[1] = "config" /\ l[1] = "nod_list" /\ Text[1] = "text"
  BY DEF Object, Text
<1>2. o[2][2] = 0 /\ l[2][2] = 0
  BY DEF Object, NoSample
<1>3. SamplesOf({o}) = {} /\ SamplesOf({l}) = {}
  BY <1>2 DEF SamplesOf
<1>4. Level(o) = 3 /\ Level(l) = 4
  BY <1>1 DEF Level
<1> QED BY <1>1, <1>3, <1>4 DEF ConfigOwn

\* An error deletes what has been created on top of S.
LEMMA HeldLists ==
  ASSUME NEW u, NEW O, Lists(u, O), NEW S, O \cap S = {}, NEW K, NEW D, NEW x, NEW T, IsNote(x, T, K, D),
         T = S \cup O, NEW e, e.held = S, K \subseteq e.made, Text \notin K
  PROVE  Abandons(u, x, e)
<1>1. x.held \ e.held = O /\ e.held \subseteq x.held /\ x.made = K
  BY DEF IsNote
<1> QED BY <1>1 DEF Abandons

\* config_add().
LEMMA configMakes ==
  ASSUME NEW parent, NEW S, NEW M, NEW N, NEW p, NEW c, ConfigCaller(parent, S, M, N, p, c)
  PROVE  StepsGood(config_add(parent), p, c.next, c)
<1>1. PICK o, l : o = Object("config", NoSample) /\ l = Object("nod_list", NoSample)
  OBVIOUS
<1> DEFINE A == S \cup {o}
           B == S \cup {o, l}
           K == M \cup {o}
<1>2. /\ ConfigOwn = {o, l} /\ o # l /\ o # Text /\ l # Text /\ SamplesOf({o}) = {} /\ SamplesOf({l}) = {}
      /\ Level(o) = 3 /\ Level(l) = 4
  BY <1>1, ConfigObjects
<1>3. /\ parent \in S /\ Level(parent) < 3 /\ S \subseteq M /\ N = M \cup {o, l} /\ o \notin M /\ l \notin M
      /\ N \subseteq c.exit.made /\ Text \notin N /\ c.exit.held = S /\ IsNote(p, S, M, {}) /\ IsNote(c.next, S, N, {})
  BY <1>2 DEF ConfigCaller
<1>4. PICK x : IsNote(x, A, K, {})
  BY SomeNote
<1>5. PICK y : IsNote(y, B, N, {})
  BY SomeNote
<1>6. PICK z : IsNote(z, A, N, {})
  BY SomeNote
<1>7. PICK one, two : one = <<o>> /\ two = <<l, o>>
  OBVIOUS
<1>8. Lists(one, {o}) /\ Lists(two, {l, o})
  BY <1>2, <1>7, ShortLists
<1>9. K \subseteq N /\ {o} \cap S = {} /\ {l, o} \cap S = {} /\ B = S \cup {l, o} /\ K \subseteq c.exit.made /\ Text \notin K
  BY <1>2, <1>3
<1>10. Abandons(one, x, c.exit)
  BY <1>3, <1>4, <1>8, <1>9, HeldLists
<1>11. Abandons(two, y, c.exit)
  BY <1>3, <1>5, <1>8, <1>9, HeldLists
<1>12. StepGood(Create(NoSample, one, one), p, x, c)
  <2>1. M \cup {o} \subseteq K /\ {} \cup SamplesOf({o}) \subseteq {} /\ M \cap {o} = {} /\ SamplesOf({o}) \subseteq AllSamples
    BY <1>2, <1>3
  <2>2. c.exit.held \subseteq S /\ A = S \cup {o}
    BY <1>3
  <2>3. IsNote(p, S, M, {}) /\ S \subseteq M
    BY <1>3
  <2> QED BY <1>4, <1>8, <1>10, <2>1, <2>2, <2>3, CreateTogetherNote
<1>13. StepGood(Values(NoSample, one), x, x, c)
  BY <1>4, <1>10, TryNote
<1>14. StepGood(Create(NoSample, <<l>>, one), x, y, c)
  <2>1. K \cup {l} \subseteq N /\ {} \cup SamplesOf({l}) \subseteq {} /\ SamplesOf({l}) \subseteq AllSamples /\ B = A \cup {l}
    BY <1>2, <1>3
  <2>2. A \subseteq K /\ l \notin K /\ l # Text /\ l \in c.exit.made
    BY <1>2, <1>3
  <2> HIDE DEF A, B, K
  <2> QED BY <1>4, <1>5, <1>10, <2>1, <2>2, CreateAloneNote
<1>15. StepGood(Values(NoSample, two), y, y, c)
  BY <1>5, <1>11, TryNote
<1>16. StepGood(Attach(NoSample, o, l), y, z, c)
  <2>1. l \in B /\ o \in B /\ A = B \ {l} /\ N \subseteq N
    BY <1>2, <1>3
  <2>2. Level(o) < Level(l)
    BY <1>2
  <2>3. Goes(l, o, y, B, N, z, A, N, {})
    BY <1>5, <1>6, <2>1, <2>2 DEF Goes
  <2> QED BY <2>3, GoesGood
<1>17. StepGood(Attach(NoSample, parent, o), z, c.next, c)
  <2>1. o \in A /\ parent \in A /\ S = A \ {o} /\ N \subseteq N
    BY <1>2, <1>3
  <2>2. Level(parent) < Level(o)
    BY <1>2, <1>3
  <2>3. Goes(o, parent, z, A, N, c.next, S, N, {})
    BY <1>3, <1>6, <2>1, <2>2 DEF Goes
  <2> QED BY <2>3, GoesGood
<1>18. p.used \in Nat /\ x.used \in Nat /\ y.used \in Nat /\ z.used \in Nat /\ c.next.used \in Nat
  BY <1>3, <1>4, <1>5, <1>6, UsedOf
<1>19. config_add(parent) = <<Create(NoSample, one, one), Values(NoSample, one), Create(NoSample, <<l>>, one),
                              Values(NoSample, two), Attach(NoSample, o, l), Attach(NoSample, parent, o)>>
  BY <1>1, <1>7 DEF config_add
<1> QED BY <1>12, <1>13, <1>14, <1>15, <1>16, <1>17, <1>18, <1>19, SixSteps

---------------------------------------------------------------------------
(* The functions of the codec of nRF Cloud: their caller holds the root.     *)

\* An error deletes the one object there is, or none.
LEMMA HoldsAlone ==
  ASSUME NEW d, NEW parent, NEW S, NEW M, NEW N, NEW D, NEW p, NEW c,
         Caller(d, parent, << >>, S, M, N, D, p, c),
         NEW K, K \subseteq N, NEW E, NEW x
  PROVE  /\ IsNote(x, S, K, E) => Abandons(<< >>, x, c.exit)
         /\ \A o \in Own(d) : IsNote(x, S \cup {o}, K, E) => Abandons(<<o>>, x, c.exit)
<1>1. ASSUME IsNote(x, S, K, E) PROVE Abandons(<< >>, x, c.exit)
  <2>1. PICK u, O : u = << >> /\ O = {}
    OBVIOUS
  <2>2. Lists(u, O) /\ O \subseteq Own(d) /\ IsNote(x, S \cup O, K, E)
    BY <1>1, <2>1, ShortLists
  <2> QED BY <2>1, <2>2, HoldsOnly
<1>2. ASSUME NEW o \in Own(d), IsNote(x, S \cup {o}, K, E) PROVE Abandons(<<o>>, x, c.exit)
  <2>1. PICK u, O : u = <<o>> /\ O = {o}
    OBVIOUS
  <2>2. Lists(u, O) /\ O \subseteq Own(d) /\ IsNote(x, S \cup O, K, E)
    BY <1>2, <2>1, ShortLists
  <2> QED BY <2>1, <2>2, HoldsOnly
<1> QED BY <1>1, <1>2

\* All of them hang into the root.
LEMMA TopGoes ==
  ASSUME NEW d, NEW up, NEW S, NEW M, NEW N, NEW D, NEW p, NEW c, Caller(d, Top, up, S, M, N, D, p, c),
         NEW o, o \in Own(d), Level(o) \in Nat, Level(o) >= 3,
         NEW y, NEW K, NEW L, K \subseteq L, NEW E, IsNote(y, S \cup {o}, K, E),
         NEW z, IsNote(z, S, L, E), NEW e
  PROVE  StepGood(Attach(e, Top, o), y, z, c)
<1>1. Top \in S /\ o \notin S /\ Level(Top) < 3
  <2>1. \A x \in Own(d) : /\ x \notin S /\ x \notin M /\ x # Text /\ x \in N
                          /\ SamplesOf({x}) \subseteq {d} /\ SamplesOf({x}) \subseteq AllSamples
    BY CallerOwn
  <2> QED BY <2>1 DEF Caller
<1>2. Level(Top) \in Nat
  BY DEF Level
<1>3. Level(Top) < Level(o)
  BY <1>1, <1>2
<1>4. PICK B : B = S \cup {o}
  OBVIOUS
<1>5. o \in B /\ Top \in B /\ S = B \ {o}
  BY <1>1, <1>4
<1>6. Goes(o, Top, y, B, K, z, S, L, E)
  BY <1>3, <1>4, <1>5 DEF Goes
<1> QED BY <1>6, GoesGood

\* All the objects of a sample can hang in the root.
LEMMA OwnLevels == \A d, r : r \in OwnRoles => Level(Object(r, d)) \in Nat /\ Level(Object(r, d)) >= 3
<1> SUFFICES ASSUME NEW d, NEW r \in OwnRoles PROVE Level(Object(r, d)) \in Nat /\ Level(Object(r, d)) >= 3
  OBVIOUS
<1>1. PICK o : o = Object(r, d)
  OBVIOUS
<1>2. o[1] = r
  BY <1>1 DEF Object
<1>3. Level(o) \in {3, 4, 5}
  BY <1>2 DEF Level, OwnRoles
<1> QED BY <1>1, <1>3

\* nrf_add_data(): an object of its own in the root.
LEMMA AddDataMakes ==
  ASSUME NEW d, NEW S, NEW M, NEW N, NEW D, NEW p, NEW c, Caller(d, Top, << >>, S, M, N, D, p, c),
         NEW r, r \in OwnRoles, NEW K, NEW E, NEW x, IsNote(x, S, K, E), E \subseteq {d},
         S \subseteq K, K \subseteq N, Object(r, d) \notin K,
         NEW L, K \cup {Object(r, d)} \subseteq L, L \subseteq N, NEW z, IsNote(z, S, L, {d})
  PROVE  StepsGood(nrf_add_data(Object(r, d), d, << >>), x, z, c)
<1>1. PICK o : o = Object(r, d)
  OBVIOUS
<1>2. o \in Own(d) /\ Level(o) \in Nat /\ Level(o) >= 3
  BY <1>1, OwnFacts, OwnLevels
<1>3. PICK B : B = S \cup {o}
  OBVIOUS
<1>4. PICK y : IsNote(y, B, L, {d})
  BY SomeNote
<1>5. Abandons(<< >>, x, c.exit)
  BY HoldsAlone
<1>6. PICK u : u = <<o>> \o << >>
  OBVIOUS
<1>7. Abandons(u, y, c.exit)
  <2>1. IsNote(y, S \cup {o}, L, {d})
    BY <1>3, <1>4
  <2> QED BY <1>2, <1>6, <2>1, HoldsOne
<1>8. StepGood(Create(d, <<o>>, << >>), x, y, c)
  <2>1. Comes(d, N, o, x, S, K, E, y, B, L)
    BY <1>1, <1>2, <1>3, <1>4 DEF Comes
  <2> QED BY <1>5, <2>1, ComesGood
<1>9. StepGood(Values(d, u), y, y, c)
  BY <1>4, <1>7, TryNote
<1>10. StepGood(Attach(d, Top, o), y, z, c)
  <2>1. L \subseteq L /\ IsNote(y, S \cup {o}, L, {d})
    BY <1>3, <1>4
  <2> QED BY <1>2, <2>1, TopGoes
<1>11. x.used \in Nat /\ y.used \in Nat /\ z.used \in Nat
  BY <1>4, UsedOf
<1> QED BY <1>1, <1>6, <1>8, <1>9, <1>10, <1>11, ThreeSteps DEF nrf_add_data

\* What stands at the beginning and at the end.
LEMMA BeginsWell ==
  ASSUME NEW d, NEW parent, NEW S, NEW M, NEW N, NEW D, NEW p, NEW c,
         Caller(d, parent, << >>, S, M, N, D, p, c)
  PROVE  /\ StepGood(IfQueued(d), p, p, c) /\ StepGood(Convert(d, << >>), p, p, c)
         /\ StepGood(Check(d, << >>), p, p, c) /\ StepGood(TryConvert(d), p, p, c)
         /\ \A z, E : IsNote(z, S, N, E) /\ E \subseteq {d} => StepGood(Clear(d), z, c.next, c)
<1>1. /\ d \in AllSamples /\ M \subseteq N /\ D \subseteq {d}
      /\ IsNote(p, S, M, D) /\ IsNote(c.next, S, N, {}) /\ Abandons(<< >>, p, c.exit)
  BY CallerFacts
<1>2. StepGood(IfQueued(d), p, p, c)
  BY <1>1, IfQueuedNote
<1>3. StepGood(Convert(d, << >>), p, p, c) /\ StepGood(Check(d, << >>), p, p, c)
  BY <1>1, TryNote
<1>4. StepGood(TryConvert(d), p, p, c)
  BY <1>1, UsedOf, QuietGood
<1>5. ASSUME NEW z, NEW E, IsNote(z, S, N, E), E \subseteq {d} PROVE StepGood(Clear(d), z, c.next, c)
  <2>1. IsNote(c.next, S, N, E \ {d})
    <3>1. E \ {d} = {}
      BY <1>5
    <3> QED BY <1>1, <3>1
  <2> QED BY <1>5, <2>1, ClearNote
<1> QED BY <1>2, <1>3, <1>4, <1>5

\* An impact.
LEMMA impactMakes ==
  ASSUME NEW d, NEW S, NEW M, NEW N, NEW D, NEW p, NEW c, Caller(d, Top, << >>, S, M, N, D, p, c)
  PROVE  StepsGood(nrf_impact_data(d), p, c.next, c)
<1>1. PICK z : IsNote(z, S, N, {d})
  BY SomeNote
<1>2. /\ S \subseteq M /\ M \subseteq N /\ D \subseteq {d} /\ IsNote(p, S, M, D) /\ p.used \in Nat /\ c.next.used \in Nat
  BY CallerFacts
<1>3. "obj" \in OwnRoles /\ Obj(d) = Object("obj", d) /\ Object("obj", d) \notin M /\ M \cup {Object("obj", d)} \subseteq N
  <2>1. "obj" \in OwnRoles /\ Obj(d) = Object("obj", d)
    BY DEF OwnRoles, Obj
  <2>2. \A x \in Own(d) : /\ x \notin S /\ x \notin M /\ x # Text /\ x \in N
                          /\ SamplesOf({x}) \subseteq {d} /\ SamplesOf({x}) \subseteq AllSamples
    BY CallerOwn
  <2>3. Object("obj", d) \in Own(d)
    BY <2>1, OwnFacts
  <2>4. Object("obj", d) \notin M /\ Object("obj", d) \in N
    BY <2>2, <2>3
  <2> QED BY <1>2, <2>1, <2>4
<1>4. StepsGood(<<IfQueued(d), Convert(d, << >>), Check(d, << >>)>>, p, p, c)
  BY <1>2, BeginsWell, ThreeSteps
<1>5. StepsGood(nrf_add_data(Obj(d), d, << >>), p, z, c)
  <2>1. N \subseteq N
    OBVIOUS
  <2>2. StepsGood(nrf_add_data(Object("obj", d), d, << >>), p, z, c)
    BY <1>1, <1>2, <1>3, <2>1, AddDataMakes
  <2> QED BY <1>3, <2>2
<1>6. StepsGood(<<Clear(d)>>, z, c.next, c)
  <2>1. StepGood(Clear(d), z, c.next, c)
    BY <1>1, BeginsWell
  <2> QED BY <1>1, <1>2, <2>1, UsedOf, OneStep
<1>7. StepsGood(<<IfQueued(d), Convert(d, << >>), Check(d, << >>)>> \o nrf_add_data(Obj(d), d, << >>), p, z, c)
  BY <1>4, <1>5, StepsJoin
<1> QED BY <1>6, <1>7, StepsJoin DEF nrf_impact_data

\* A sensor sample: four objects under one flag.
LEMMA sensorMakes ==
  ASSUME NEW d, NEW S, NEW M, NEW N, NEW D, NEW p, NEW c, Caller(d, Top, << >>, S, M, N, D, p, c)
  PROVE  StepsGood(nrf_sensor_data(d), p, c.next, c)
<1> DEFINE Reading(role) == nrf_add_data(Object(role, d), d, << >>)
           K1 == M \cup {Object("air quality", d)}
           K2 == K1 \cup {Object("humidity", d)}
           K3 == K2 \cup {Object("temperature", d)}
           first == <<IfQueued(d), Convert(d, << >>)>>
<1>1. PICK x1 : IsNote(x1, S, K1, {d})
  BY SomeNote
<1>2. PICK x2 : IsNote(x2, S, K2, {d})
  BY SomeNote
<1>3. PICK x3 : IsNote(x3, S, K3, {d})
  BY SomeNote
<1>4. PICK z : IsNote(z, S, N, {d})
  BY SomeNote
<1>5. /\ S \subseteq M /\ M \subseteq N /\ D \subseteq {d} /\ IsNote(p, S, M, D) /\ p.used \in Nat /\ c.next.used \in Nat
  BY CallerFacts
<1>6. {"air quality", "humidity", "temperature", "pressure"} \subseteq OwnRoles
  BY DEF OwnRoles
<1>7. \A r \in {"air quality", "humidity", "temperature", "pressure"} : Object(r, d) \notin M /\ Object(r, d) \in N
  <2>1. \A x \in Own(d) : /\ x \notin S /\ x \notin M /\ x # Text /\ x \in N
                          /\ SamplesOf({x}) \subseteq {d} /\ SamplesOf({x}) \subseteq AllSamples
    BY CallerOwn
  <2> QED BY <1>6, <2>1, OwnFacts
<1>8. \A r, s \in {"air quality", "humidity", "temperature", "pressure"} : r # s => Object(r, d) # Object(s, d)
  BY <1>6, OwnFacts
<1>9. /\ Object("air quality", d) \notin M /\ Object("humidity", d) \notin K1
      /\ Object("temperature", d) \notin K2 /\ Object("pressure", d) \notin K3
  BY <1>7, <1>8
<1>10. /\ K1 \subseteq N /\ K2 \subseteq N /\ K3 \subseteq N /\ K3 \cup {Object("pressure", d)} \subseteq N
       /\ S \subseteq K1 /\ S \subseteq K2 /\ S \subseteq K3 /\ {d} \subseteq {d} /\ N \subseteq N
  BY <1>5, <1>7
<1>11. /\ M \cup {Object("air quality", d)} \subseteq K1 /\ K1 \cup {Object("humidity", d)} \subseteq K2
       /\ K2 \cup {Object("temperature", d)} \subseteq K3
  OBVIOUS
<1>12. StepsGood(first, p, p, c)
  BY <1>5, BeginsWell, TwoSteps
<1> HIDE DEF K1, K2, K3, first
<1>13. StepsGood(Reading("air quality"), p, x1, c)
  BY <1>1, <1>5, <1>6, <1>9, <1>10, <1>11, AddDataMakes
<1>14. StepsGood(Reading("humidity"), x1, x2, c)
  BY <1>1, <1>2, <1>6, <1>9, <1>10, <1>11, AddDataMakes
<1>15. StepsGood(Reading("temperature"), x2, x3, c)
  BY <1>2, <1>3, <1>6, <1>9, <1>10, <1>11, AddDataMakes
<1>16. StepsGood(Reading("pressure"), x3, z, c)
  BY <1>3, <1>4, <1>6, <1>9, <1>10, AddDataMakes
<1>17. StepsGood(<<Clear(d)>>, z, c.next, c)
  <2>1. StepGood(Clear(d), z, c.next, c)
    BY <1>4, BeginsWell
  <2> QED BY <1>4, <1>5, <2>1, UsedOf, OneStep
<1> HIDE DEF Reading
<1>18. StepsGood(first \o Reading("air quality"), p, x1, c)
  BY <1>12, <1>13, StepsJoin
<1>19. StepsGood(first \o Reading("air quality") \o Reading("humidity"), p, x2, c)
  BY <1>14, <1>18, StepsJoin
<1>20. StepsGood(first \o Reading("air quality") \o Reading("humidity") \o Reading("temperature"), p, x3, c)
  BY <1>15, <1>19, StepsJoin
<1>21. StepsGood(first \o Reading("air quality") \o Reading("humidity") \o Reading("temperature")
                 \o Reading("pressure"), p, z, c)
  BY <1>16, <1>20, StepsJoin
<1>22. StepsGood(first \o Reading("air quality") \o Reading("humidity") \o Reading("temperature")
                 \o Reading("pressure") \o <<Clear(d)>>, p, c.next, c)
  BY <1>17, <1>21, StepsJoin
<1> QED BY <1>22 DEF nrf_sensor_data, Reading, first

\* Notes for a sample with one object.
LEMMA ObjOnTop ==
  ASSUME NEW d, NEW S, NEW M, NEW N, NEW D, NEW p, NEW c, Caller(d, Top, << >>, S, M, N, D, p, c)
  PROVE  \E x, z : /\ IsNote(x, S \cup {Obj(d)}, N, {d}) /\ IsNote(z, S, N, {d})
                   /\ x.used \in Nat /\ z.used \in Nat /\ p.used \in Nat /\ c.next.used \in Nat
                   /\ StepGood(Create(d, <<Obj(d)>>, << >>), p, x, c)
                   /\ Abandons(<<Obj(d)>>, x, c.exit)
                   /\ StepGood(Attach(d, Top, Obj(d)), x, z, c) /\ StepGood(Clear(d), z, c.next, c)
<1>1. PICK x : IsNote(x, S \cup {Obj(d)}, N, {d})
  BY SomeNote
<1>2. PICK z : IsNote(z, S, N, {d})
  BY SomeNote
<1>3. Obj(d) \in Own(d) /\ Level(Obj(d)) \in Nat /\ Level(Obj(d)) >= 3
  BY ObjFacts
<1>4. /\ S \subseteq M /\ M \subseteq N /\ D \subseteq {d} /\ IsNote(p, S, M, D) /\ p.used \in Nat /\ c.next.used \in Nat
      /\ Abandons(<< >>, p, c.exit)
  BY CallerFacts
<1>5. Obj(d) \notin M /\ Obj(d) \in N
  <2>1. \A o \in Own(d) : /\ o \notin S /\ o \notin M /\ o # Text /\ o \in N
                          /\ SamplesOf({o}) \subseteq {d} /\ SamplesOf({o}) \subseteq AllSamples
    BY CallerOwn
  <2> QED BY <1>3, <2>1
<1>6. StepGood(Create(d, <<Obj(d)>>, << >>), p, x, c)
  <2>1. PICK B : B = S \cup {Obj(d)}
    OBVIOUS
  <2>2. M \cup {Obj(d)} \subseteq N /\ M \subseteq N
    BY <1>4, <1>5
  <2>3. Comes(d, N, Obj(d), p, S, M, D, x, B, N)
    BY <1>1, <1>3, <1>4, <1>5, <2>1, <2>2 DEF Comes
  <2> QED BY <1>4, <2>3, ComesGood
<1>7. Abandons(<<Obj(d)>>, x, c.exit)
  <2>1. N \subseteq N
    OBVIOUS
  <2> QED BY <1>1, <1>3, <2>1, HoldsAlone
<1>8. StepGood(Attach(d, Top, Obj(d)), x, z, c)
  <2>1. N \subseteq N
    OBVIOUS
  <2> QED BY <1>1, <1>2, <1>3, <2>1, TopGoes
<1>9. StepGood(Clear(d), z, c.next, c)
  BY <1>2, BeginsWell
<1>10. x.used \in Nat /\ z.used \in Nat
  BY <1>1, <1>2, UsedOf
<1> QED BY <1>1, <1>2, <1>4, <1>6, <1>7, <1>8, <1>9, <1>10

\* A battery level or a press; a fix.
LEMMA nowMakes ==
  ASSUME NEW d, NEW S, NEW M, NEW N, NEW D, NEW p, NEW c, Caller(d, Top, << >>, S, M, N, D, p, c)
  PROVE  StepsGood(nrf_add_data_now(d), p, c.next, c) /\ StepsGood(nrf_add_pvt_data(d), p, c.next, c)
<1>1. PICK x, z : /\ IsNote(x, S \cup {Obj(d)}, N, {d}) /\ IsNote(z, S, N, {d})
                  /\ x.used \in Nat /\ z.used \in Nat /\ p.used \in Nat /\ c.next.used \in Nat
                  /\ StepGood(Create(d, <<Obj(d)>>, << >>), p, x, c)
                  /\ Abandons(<<Obj(d)>>, x, c.exit)
                  /\ StepGood(Attach(d, Top, Obj(d)), x, z, c) /\ StepGood(Clear(d), z, c.next, c)
  BY ObjOnTop
<1>2. StepGood(IfQueued(d), p, p, c)
  BY BeginsWell
<1>3. d \in AllSamples
  BY DEF Caller
<1>4. StepGood(Values(d, <<Obj(d)>>), x, x, c) /\ StepGood(Convert(d, <<Obj(d)>>), x, x, c)
      /\ StepGood(Check(d, <<Obj(d)>>), x, x, c)
  BY <1>1, <1>3, TryNote
<1>5. StepGood(TryConvert(d), x, x, c)
  BY <1>1, <1>3, QuietGood
<1>6. StepsGood(nrf_add_data_now(d), p, c.next, c)
  BY <1>1, <1>2, <1>4, SevenSteps DEF nrf_add_data_now
<1>7. StepsGood(nrf_add_pvt_data(d), p, c.next, c)
  BY <1>1, <1>2, <1>4, <1>5, SixSteps DEF nrf_add_pvt_data
<1> QED BY <1>6, <1>7

\* The note after the flag has been cleared.
IsDone(p, S, M, d) ==
  p.held = S /\ p.made = M /\ p.due = {} /\ p.done = {d} /\ p.sent = {} /\ p.used = 0

\* There are notes of samples whose flag is cleared.
LEMMA SomeDone == \A S, M, d : \E p : IsDone(p, S, M, d)
<1> SUFFICES ASSUME NEW S, NEW M, NEW d PROVE \E p : IsDone(p, S, M, d)
  OBVIOUS
<1>1. IsDone(Note(S, M, {}, {d}, {}, 0), S, M, d)
  BY DEF IsDone, Note
<1> QED BY <1>1

\* An error after the flag is cleared deletes what has been created since.
LEMMA DoneHolds ==
  ASSUME NEW d, NEW S, NEW M, NEW N, NEW D, NEW p, NEW c, Caller(d, Top, << >>, S, M, N, D, p, c),
         NEW u, NEW O, Lists(u, O), O \subseteq Own(d), NEW K, K \subseteq N, NEW x, IsDone(x, S \cup O, K, d)
  PROVE  Abandons(u, x, c.exit) /\ \A e : StepGood(Values(e, u), x, x, c)
<1>1. PICK y : IsNote(y, S \cup O, K, {})
  BY SomeNote
<1>2. y.held = x.held /\ y.made = x.made /\ x.used \in Nat
  BY <1>1 DEF IsNote, IsDone
<1>3. Abandons(u, y, c.exit)
  BY <1>1, HoldsOnly
<1>4. Abandons(u, x, c.exit)
  BY <1>2, <1>3 DEF Abandons
<1>5. ASSUME NEW e PROVE StepGood(Values(e, u), x, x, c)
  <2>1. \A op \in TryOps : StepGood(Step(op, e, << >>, u), x, x, c)
    BY <1>2, <1>4, TryGood DEF TryOps, TakeOps
  <2> QED BY <2>1 DEF Values, TryOps
<1> QED BY <1>4, <1>5

DoneComes(d, N, o, x, A, K, y, B, L) ==
  /\ IsDone(x, A, K, d) /\ A \subseteq K /\ o \in Own(d) /\ o \notin K
  /\ IsDone(y, B, L, d) /\ B = A \cup {o} /\ K \cup {o} \subseteq L /\ K \subseteq N

\* An object is created after the flag is cleared: what is in it is not due again.
LEMMA DoneCreate ==
  ASSUME NEW d, NEW S, NEW M, NEW N, NEW D, NEW p, NEW c, Caller(d, Top, << >>, S, M, N, D, p, c),
         NEW o, NEW x, NEW A, NEW K, NEW y, NEW B, NEW L, DoneComes(d, N, o, x, A, K, y, B, L),
         NEW u, Abandons(u, x, c.exit)
  PROVE  StepGood(Create(d, <<o>>, u), x, y, c)
<1>1. /\ IsDone(x, A, K, d) /\ A \subseteq K /\ o \in Own(d) /\ o \notin K
      /\ IsDone(y, B, L, d) /\ B = A \cup {o} /\ K \cup {o} \subseteq L
  BY DEF DoneComes
<1>2. \A e \in Own(d) : /\ e \notin S /\ e \notin M /\ e # Text /\ e \in N
                        /\ SamplesOf({e}) \subseteq {d} /\ SamplesOf({e}) \subseteq AllSamples
  BY CallerOwn
<1>3. o # Text /\ o \in c.exit.made /\ SamplesOf({o}) \subseteq AllSamples /\ SamplesOf({o}) \subseteq {d}
  BY <1>1, <1>2 DEF Caller
<1>4. /\ x.used \in Nat /\ x.held \subseteq x.made /\ o \notin x.made /\ SamplesOf({o}) \ x.done \subseteq y.due
      /\ y.held = x.held \cup {o} /\ x.made \cup {o} \subseteq y.made /\ x.due \subseteq y.due
      /\ y.done \subseteq x.done /\ x.sent \subseteq y.sent /\ y.used = x.used
  <2>1. /\ x.held = A /\ x.made = K /\ x.due = {} /\ x.done = {d} /\ x.sent = {} /\ x.used = 0
        /\ y.held = B /\ y.made = L /\ y.due = {} /\ y.done = {d} /\ y.sent = {} /\ y.used = 0
    BY <1>1 DEF IsDone
  <2>2. SamplesOf({o}) \ {d} = {}
    BY <1>3
  <2>3. A \subseteq K /\ o \notin K /\ B = A \cup {o} /\ K \cup {o} \subseteq L
    BY <1>1
  <2>4. SamplesOf({o}) \ x.done \subseteq y.due /\ x.due \subseteq y.due
    BY <2>1, <2>2
  <2>5. x.held \subseteq x.made /\ o \notin x.made /\ y.held = x.held \cup {o} /\ x.made \cup {o} \subseteq y.made
    BY <2>1, <2>3
  <2>6. x.used \in Nat /\ y.done \subseteq x.done /\ x.sent \subseteq y.sent /\ y.used = x.used
    BY <2>1
  <2> QED BY <2>4, <2>5, <2>6, Zenon
<1> QED BY <1>3, <1>4, CreateAlone

DoneGoes(o, parent, y, B, K, z, A, L, d) ==
  /\ IsDone(y, B, K, d) /\ K \subseteq L /\ (IsDone(z, A, L, d) \/ IsNote(z, A, L, {}))
  /\ o \in B /\ parent \in B /\ A = B \ {o} /\ Level(parent) < Level(o)

\* An object goes into its parent after the flag is cleared.
LEMMA DoneAttach ==
  ASSUME NEW o, NEW parent, NEW y, NEW B, NEW K, NEW z, NEW A, NEW L, NEW d,
         DoneGoes(o, parent, y, B, K, z, A, L, d), NEW c
  PROVE  StepGood(Attach(d, parent, o), y, z, c)
<1>1. /\ parent \in y.held /\ o \in y.held /\ Level(parent) < Level(o) /\ y.used \in Nat
      /\ z.held = y.held \ {o} /\ y.made \subseteq z.made /\ y.due \subseteq z.due
      /\ z.done \subseteq y.done /\ y.sent \subseteq z.sent /\ z.used = y.used
  BY DEF DoneGoes, IsDone, IsNote
<1> QED BY <1>1, AttachGood

\* A sample of the modem's dynamic data: the flag is cleared on the way.
LEMMA dynamicMakes ==
  ASSUME NEW d, NEW S, NEW M, NEW N, NEW D, NEW p, NEW c, Caller(d, Top, << >>, S, M, N, D, p, c)
  PROVE  StepsGood(nrf_modem_dynamic_data(d), p, c.next, c)
<1>1. PICK v, o, t, r : v = Val(d) /\ o = Obj(d) /\ t = Object("content", d) /\ r = Object("rsrp", d)
  OBVIOUS
<1>2. /\ {"val", "obj", "content", "rsrp"} \subseteq OwnRoles
      /\ v = Object("val", d) /\ o = Object("obj", d) /\ t = Object("content", d) /\ r = Object("rsrp", d)
  BY <1>1 DEF OwnRoles, Val, Obj
<1>3. v # o /\ v # t /\ v # r /\ o # t /\ o # r /\ t # r
  BY <1>2, OwnFacts
<1>4. v \in Own(d) /\ o \in Own(d) /\ t \in Own(d) /\ r \in Own(d)
  BY <1>2, OwnFacts
<1>5. /\ v \notin M /\ o \notin M /\ t \notin M /\ r \notin M /\ v \notin S /\ o \notin S /\ t \notin S /\ r \notin S
      /\ v \in N /\ o \in N /\ t \in N /\ r \in N
  <2>1. \A e \in Own(d) : /\ e \notin S /\ e \notin M /\ e # Text /\ e \in N
                          /\ SamplesOf({e}) \subseteq {d} /\ SamplesOf({e}) \subseteq AllSamples
    BY CallerOwn
  <2> QED BY <1>4, <2>1
<1>6. Level(v) = 5 /\ Level(o) = 3 /\ Level(t) = 4 /\ Level(r) = 3
  <2>1. v[1] = "val" /\ o[1] = "obj" /\ t[1] = "content" /\ r[1] = "rsrp"
    BY <1>2 DEF Object
  <2> QED BY <2>1 DEF Level
<1>7. /\ S \subseteq M /\ M \subseteq N /\ D \subseteq {d} /\ IsNote(p, S, M, D) /\ IsNote(c.next, S, N, {})
      /\ p.used \in Nat /\ c.next.used \in Nat /\ Abandons(<< >>, p, c.exit) /\ Top \in S /\ Level(Top) < 3
  <2>1. /\ S \subseteq M /\ M \subseteq N /\ D \subseteq {d} /\ IsNote(p, S, M, D) /\ IsNote(c.next, S, N, {})
        /\ p.used \in Nat /\ c.next.used \in Nat /\ Abandons(<< >>, p, c.exit)
    BY CallerFacts
  <2>2. Top \in S /\ Level(Top) < 3
    BY DEF Caller
  <2> QED BY <2>1, <2>2
\* The objects, one after the other.
<1>8. PICK K1, K2, K3 : K1 = M \cup {v} /\ K2 = K1 \cup {o} /\ K3 = K2 \cup {t}
  OBVIOUS
<1>9. PICK A1, A2, A3, A4 : A1 = S \cup {v} /\ A2 = S \cup {v, o} /\ A3 = S \cup {v, o, t} /\ A4 = S \cup {o, t}
  OBVIOUS
<1>10. PICK A5, A6 : A5 = S \cup {o} /\ A6 = S \cup {r}
  OBVIOUS
<1>11. PICK x1 : IsNote(x1, A1, K1, {d})
  BY SomeNote
<1>12. PICK y1 : IsDone(y1, A1, K1, d)
  BY SomeDone
<1>13. PICK y2 : IsDone(y2, A2, K2, d)
  BY SomeDone
<1>14. PICK y3 : IsDone(y3, A3, K3, d)
  BY SomeDone
<1>15. PICK y4 : IsDone(y4, A4, K3, d)
  BY SomeDone
<1>16. PICK y5 : IsDone(y5, A5, K3, d)
  BY SomeDone
<1>17. PICK y6 : IsDone(y6, S, K3, d)
  BY SomeDone
<1>18. PICK y7 : IsDone(y7, A6, N, d)
  BY SomeDone
<1>19. /\ K1 \subseteq N /\ K2 \subseteq N /\ K3 \subseteq N /\ S \subseteq K3 /\ N \subseteq N /\ A1 \subseteq K1
       /\ A2 \subseteq K2 /\ o \notin K1 /\ t \notin K2 /\ r \notin K3 /\ K3 \cup {r} \subseteq N /\ K2 \subseteq K3
       /\ A2 = A1 \cup {o} /\ A3 = A2 \cup {t} /\ A4 = A3 \ {v} /\ A5 = A4 \ {t} /\ S = A5 \ {o} /\ S = A6 \ {r}
  BY <1>3, <1>5, <1>7, <1>8, <1>9, <1>10
<1>20. PICK u1, u2, u3, u4 : u1 = <<v>> /\ u2 = <<o, v>> /\ u3 = << >> /\ u4 = <<r>>
  OBVIOUS
<1>21. PICK O1, O2, O3, O4 : O1 = {v} /\ O2 = {o, v} /\ O3 = {} /\ O4 = {r}
  OBVIOUS
<1>22. /\ Lists(u1, O1) /\ Lists(u2, O2) /\ Lists(u3, O3) /\ Lists(u4, O4)
       /\ O1 \subseteq Own(d) /\ O2 \subseteq Own(d) /\ O3 \subseteq Own(d) /\ O4 \subseteq Own(d)
       /\ A1 = S \cup O1 /\ A2 = S \cup O2 /\ S = S \cup O3 /\ A6 = S \cup O4
  BY <1>3, <1>4, <1>9, <1>10, <1>20, <1>21, ShortLists
\* Until the flag is cleared.
<1>23. StepGood(IfQueued(d), p, p, c) /\ StepGood(Convert(d, << >>), p, p, c)
  BY BeginsWell
<1>24. StepGood(Create(d, u1, << >>), p, x1, c)
  <2>1. K1 = M \cup {v} /\ A1 = S \cup {v}
    BY <1>8, <1>9
  <2>2. Comes(d, N, v, p, S, M, D, x1, A1, K1)
    BY <1>4, <1>5, <1>7, <1>11, <2>1 DEF Comes
  <2>3. StepGood(Create(d, <<v>>, << >>), p, x1, c)
    BY <1>7, <2>2, ComesGood
  <2> QED BY <1>20, <2>3
<1>25. StepGood(Values(d, u1), x1, x1, c) /\ StepGood(Check(d, u1), x1, x1, c)
  <2>1. IsNote(x1, S \cup O1, K1, {d})
    BY <1>11, <1>22
  <2>2. Abandons(u1, x1, c.exit)
    BY <1>19, <1>22, <2>1, HoldsOnly
  <2> QED BY <1>11, <2>2, TryNote
<1>26. StepGood(Clear(d), x1, y1, c)
  <2>1. /\ y1.held = x1.held /\ x1.made \subseteq y1.made /\ x1.due \ {d} \subseteq y1.due
        /\ y1.done \subseteq x1.done \cup {d} /\ x1.sent \subseteq y1.sent /\ y1.used = x1.used /\ x1.used \in Nat
    BY <1>11, <1>12 DEF IsNote, IsDone
  <2> QED BY <2>1, ClearGood
\* Afterwards.
<1>27. Abandons(u1, y1, c.exit) /\ StepGood(Create(d, <<o>>, u1), y1, y2, c)
  <2>1. IsDone(y1, S \cup O1, K1, d)
    BY <1>12, <1>22
  <2>2. Abandons(u1, y1, c.exit)
    BY <1>19, <1>22, <2>1, DoneHolds
  <2>3. DoneComes(d, N, o, y1, A1, K1, y2, A2, K2)
    BY <1>4, <1>8, <1>12, <1>13, <1>19 DEF DoneComes
  <2> QED BY <2>2, <2>3, DoneCreate
<1>28. StepGood(Values(d, u2), y2, y2, c) /\ StepGood(Create(d, <<t>>, u2), y2, y3, c)
  <2>1. IsDone(y2, S \cup O2, K2, d)
    BY <1>13, <1>22
  <2>2. Abandons(u2, y2, c.exit) /\ StepGood(Values(d, u2), y2, y2, c)
    BY <1>19, <1>22, <2>1, DoneHolds
  <2>3. DoneComes(d, N, t, y2, A2, K2, y3, A3, K3)
    BY <1>4, <1>8, <1>13, <1>14, <1>19 DEF DoneComes
  <2> QED BY <2>2, <2>3, DoneCreate
<1>29. StepGood(Attach(d, t, v), y3, y4, c)
  <2>1. v \in A3 /\ t \in A3 /\ K3 \subseteq K3
    BY <1>9
  <2>2. DoneGoes(v, t, y3, A3, K3, y4, A4, K3, d)
    BY <1>6, <1>14, <1>15, <1>19, <2>1 DEF DoneGoes
  <2> QED BY <2>2, DoneAttach
<1>30. StepGood(Attach(d, o, t), y4, y5, c)
  <2>1. t \in A4 /\ o \in A4 /\ K3 \subseteq K3
    BY <1>9
  <2>2. DoneGoes(t, o, y4, A4, K3, y5, A5, K3, d)
    BY <1>6, <1>15, <1>16, <1>19, <2>1 DEF DoneGoes
  <2> QED BY <2>2, DoneAttach
<1>31. StepGood(Attach(d, Top, o), y5, y6, c)
  <2>1. o \in A5 /\ Top \in A5 /\ K3 \subseteq K3
    BY <1>7, <1>10
  <2>2. DoneGoes(o, Top, y5, A5, K3, y6, S, K3, d)
    BY <1>6, <1>7, <1>16, <1>17, <1>19, <2>1 DEF DoneGoes
  <2> QED BY <2>2, DoneAttach
\* The signal strength alone.
<1>32. StepGood(Create(d, u4, << >>), y6, y7, c)
  <2>1. IsDone(y6, S \cup O3, K3, d)
    BY <1>17, <1>22
  <2>2. Abandons(u3, y6, c.exit)
    BY <1>19, <1>22, <2>1, DoneHolds
  <2>3. DoneComes(d, N, r, y6, S, K3, y7, A6, N)
    BY <1>4, <1>10, <1>17, <1>18, <1>19 DEF DoneComes
  <2>4. StepGood(Create(d, <<r>>, u3), y6, y7, c)
    BY <2>2, <2>3, DoneCreate
  <2> QED BY <1>20, <2>4
<1>33. StepGood(Values(d, u4), y7, y7, c)
  <2>1. IsDone(y7, S \cup O4, N, d)
    BY <1>18, <1>22
  <2> QED BY <1>19, <1>22, <2>1, DoneHolds
<1>34. StepGood(Attach(d, Top, r), y7, c.next, c)
  <2>1. r \in A6 /\ Top \in A6
    BY <1>7, <1>10
  <2>2. DoneGoes(r, Top, y7, A6, N, c.next, S, N, d)
    BY <1>6, <1>7, <1>18, <1>19, <2>1 DEF DoneGoes
  <2> QED BY <2>2, DoneAttach
<1>35. /\ x1.used \in Nat /\ y1.used \in Nat /\ y2.used \in Nat /\ y3.used \in Nat /\ y4.used \in Nat
       /\ y5.used \in Nat /\ y6.used \in Nat /\ y7.used \in Nat
  BY <1>11, <1>12, <1>13, <1>14, <1>15, <1>16, <1>17, <1>18 DEF IsNote, IsDone
<1>36. StepsGood(<<IfQueued(d), Convert(d, << >>), Create(d, u1, << >>), Values(d, u1), Check(d, u1), Values(d, u1),
                   Clear(d), Create(d, <<o>>, u1), Values(d, u2), Create(d, <<t>>, u2), Attach(d, t, v),
                   Attach(d, o, t), Attach(d, Top, o)>>, p, y6, c)
  BY <1>7, <1>23, <1>24, <1>25, <1>26, <1>27, <1>28, <1>29, <1>30, <1>31, <1>35, ThirteenSteps
<1>37. StepsGood(<<Create(d, u4, << >>), Values(d, u4), Attach(d, Top, r)>>, y6, c.next, c)
  BY <1>7, <1>32, <1>33, <1>34, <1>35, ThreeSteps
<1>38. nrf_add_data(r, d, << >>) = <<Create(d, u4, << >>), Values(d, u4), Attach(d, Top, r)>>
  <2>1. <<r>> \o << >> = u4
    BY <1>20
  <2> QED BY <1>20, <2>1 DEF nrf_add_data
<1> QED BY <1>1, <1>20, <1>36, <1>37, <1>38, StepsJoin DEF nrf_modem_dynamic_data

---------------------------------------------------------------------------
(* Scripts, from their end.                                                  *)

\* v is t followed by u.
Glued(v, t, u) ==
  /\ Len(t) \in Nat /\ Len(u) \in Nat /\ Len(v) = Len(t) + Len(u)
  /\ \A i \in 1 .. Len(t) : v[i] = t[i]
  /\ \A i \in 1 .. Len(u) : v[Len(t) + i] = u[i]

\* The functions Z may follow a note p: errors of what stands before go on at the note e,
\* and the call returns with the note l.
Rest(Z, zb, x, kind) ==
  /\ Len(Z) \in Nat /\ DOMAIN zb = 1 .. Len(Z) + 1 /\ \A k \in DOMAIN zb : zb[k].used \in Nat
  /\ zb[Len(Z) + 1].held = {} /\ zb[Len(Z) + 1].due = {} /\ NextExit(Z, 0, x)
  /\ \A k \in 1 .. Len(Z) : \E n, a : FunctionNoted(Z, zb, k, n, kind, a)
GoodFrom(Z, p, e, l, kind) ==
  \E zb, x : Rest(Z, zb, x, kind) /\ zb[1] = p /\ zb[x] = e /\ zb[Len(Z) + 1] = l

Before(Z, p, e, l, kind) ==
  [next |-> p, exit |-> e, end |-> l, frees |-> OnlyFrees(Z, 1), kind |-> kind]

\* After the last function there is nothing.
LEMMA FromNothing ==
  ASSUME NEW l, l.held = {}, l.due = {}, l.used \in Nat, NEW kind, NEW Z, Len(Z) = 0
  PROVE  GoodFrom(Z, l, l, l, kind) /\ OnlyFrees(Z, 1)
<1>1. PICK zb : zb = <<l>>
  OBVIOUS
<1>2. DOMAIN zb = 1 .. 1 /\ zb[1] = l
  BY <1>1
<1>3. NextExit(Z, 0, 1)
  BY DEF NextExit
<1>4. Rest(Z, zb, 1, kind)
  BY <1>2, <1>3 DEF Rest
<1> QED BY <1>2, <1>4 DEF GoodFrom, OnlyFrees

\* A tail that may follow the blank note is a script.
LEMMA ToBlank ==
  ASSUME NEW Z, NEW e, NEW l, NEW kind, GoodFrom(Z, Blank, e, l, kind)
  PROVE  \E b : ScriptGood(Z, b, kind)
  BY DEF GoodFrom, Rest, ScriptGood

\* What is noted for Z is so for what ends with Z.
LEMMA NotedLater ==
  ASSUME NEW v, NEW B, NEW Z, Glued(v, B, Z), NEW b, NEW zb, \A m \in 1 .. Len(Z) + 1 : b[Len(B) + m] = zb[m],
         NEW k \in 1 .. Len(Z), NEW n, NEW kind, NEW a, FunctionNoted(Z, zb, k, n, kind, a)
  PROVE  FunctionNoted(v, b, Len(B) + k, Len(B) + n, kind, a)
<1>1. Len(B) \in Nat /\ Len(Z) \in Nat /\ Len(v) = Len(B) + Len(Z) /\ \A i \in 1 .. Len(Z) : v[Len(B) + i] = Z[i]
  BY DEF Glued
<1>2. NextExit(Z, k, n) /\ a[1] = zb[k] /\ FunctionGood(Z[k], a, Context(Z, zb, k, n, kind))
  BY DEF FunctionNoted
<1>3. n \in k + 1 .. Len(Z) + 1 /\ (n <= Len(Z) => AtExit(Z[n])) /\ \A m \in k + 1 .. n - 1 : ~AtExit(Z[m])
  BY <1>2 DEF NextExit
<1>4. NextExit(v, Len(B) + k, Len(B) + n)
  <2>0. PICK g, h : g = Len(B) + k /\ h = Len(B) + n
    OBVIOUS
  <2>1. h \in g + 1 .. Len(v) + 1
    BY <1>1, <1>3, <2>0
  <2>2. h <= Len(v) => AtExit(v[h])
    BY <1>1, <1>3, <2>0
  <2>3. ASSUME NEW m \in g + 1 .. h - 1 PROVE ~AtExit(v[m])
    <3>1. PICK i : i = m - Len(B)
      OBVIOUS
    <3>2. i \in k + 1 .. n - 1 /\ i \in 1 .. Len(Z) /\ m = Len(B) + i
      BY <1>1, <1>3, <2>0, <3>1
    <3> QED BY <1>1, <1>3, <3>2
  <2>4. NextExit(v, g, h)
    BY <2>1, <2>2, <2>3, Zenon DEF NextExit
  <2> QED BY <2>0, <2>4
<1>5. OnlyFrees(v, Len(B) + k + 1) = OnlyFrees(Z, k + 1)
  <2>1. ASSUME OnlyFrees(v, Len(B) + k + 1) PROVE OnlyFrees(Z, k + 1)
    <3>1. \A i \in Len(B) + k + 1 .. Len(v) : AtExit(v[i]) => v[i][1].op = "free"
      BY <2>1 DEF OnlyFrees
    <3>2. ASSUME NEW i \in k + 1 .. Len(Z) PROVE AtExit(Z[i]) => Z[i][1].op = "free"
      <4>1. Len(B) + i \in Len(B) + k + 1 .. Len(v) /\ v[Len(B) + i] = Z[i]
        BY <1>1
      <4> QED BY <3>1, <4>1
    <3> QED BY <3>2 DEF OnlyFrees
  <2>2. ASSUME OnlyFrees(Z, k + 1) PROVE OnlyFrees(v, Len(B) + k + 1)
    <3>1. \A i \in k + 1 .. Len(Z) : AtExit(Z[i]) => Z[i][1].op = "free"
      BY <2>2 DEF OnlyFrees
    <3>2. ASSUME NEW m \in Len(B) + k + 1 .. Len(v) PROVE AtExit(v[m]) => v[m][1].op = "free"
      <4>1. PICK i : i = m - Len(B)
        OBVIOUS
      <4>2. i \in k + 1 .. Len(Z) /\ i \in 1 .. Len(Z) /\ m = Len(B) + i
        BY <1>1, <4>1
      <4> QED BY <1>1, <3>1, <4>2
    <3> QED BY <3>2 DEF OnlyFrees
  <2> QED BY <2>1, <2>2 DEF OnlyFrees
<1>6. Context(v, b, Len(B) + k, Len(B) + n, kind) = Context(Z, zb, k, n, kind)
  <2>1. /\ b[Len(B) + k + 1] = zb[k + 1] /\ b[Len(B) + n] = zb[n] /\ b[Len(v) + 1] = zb[Len(Z) + 1]
    <3>1. k + 1 \in 1 .. Len(Z) + 1 /\ n \in 1 .. Len(Z) + 1 /\ Len(Z) + 1 \in 1 .. Len(Z) + 1
      BY <1>1, <1>3
    <3>2. Len(B) + k + 1 = Len(B) + (k + 1) /\ Len(v) + 1 = Len(B) + (Len(Z) + 1)
      BY <1>1
    <3> QED BY <3>1, <3>2
  <2> QED BY <1>5, <2>1 DEF Context
<1>7. v[Len(B) + k] = Z[k] /\ a[1] = b[Len(B) + k]
  BY <1>1, <1>2
<1> QED BY <1>2, <1>4, <1>6, <1>7 DEF FunctionNoted

\* One function more, or several whose errors go on at e.
NotedBefore(B, bb, q, Z, p, e, l, kind) ==
  /\ DOMAIN bb = 1 .. Len(B) + 1 /\ bb[1] = q /\ bb[Len(B) + 1] = p
  /\ \A k \in 1 .. Len(B) + 1 : bb[k].used \in Nat
  /\ \A k \in 1 .. Len(B) : \E a : a[1] = bb[k] /\ FunctionGood(B[k], a, Before(Z, bb[k + 1], e, l, kind))
  /\ (\A k \in 1 .. Len(B) : ~AtExit(B[k])) \/ Len(B) = 1

\* Functions before a tail, or a single one that is an exit.
LEMMA Prepend ==
  ASSUME NEW B, NEW Z, NEW v, Glued(v, B, Z), NEW p, NEW q, NEW e, NEW l, NEW kind, GoodFrom(Z, p, e, l, kind),
         NEW bb, NotedBefore(B, bb, q, Z, p, e, l, kind)
  PROVE  /\ (\A k \in 1 .. Len(B) : ~AtExit(B[k])) => GoodFrom(v, q, e, l, kind) /\ OnlyFrees(v, 1) = OnlyFrees(Z, 1)
         /\ Len(B) = 1 /\ AtExit(B[1]) => GoodFrom(v, q, q, l, kind)
<1>0. /\ DOMAIN bb = 1 .. Len(B) + 1 /\ bb[1] = q /\ bb[Len(B) + 1] = p
      /\ \A k \in 1 .. Len(B) + 1 : bb[k].used \in Nat
      /\ \A k \in 1 .. Len(B) : \E a : a[1] = bb[k] /\ FunctionGood(B[k], a, Before(Z, bb[k + 1], e, l, kind))
      /\ (\A k \in 1 .. Len(B) : ~AtExit(B[k])) \/ Len(B) = 1
  BY DEF NotedBefore
<1>1. PICK zb, x : Rest(Z, zb, x, kind) /\ zb[1] = p /\ zb[x] = e /\ zb[Len(Z) + 1] = l
  BY DEF GoodFrom
<1>2. Len(B) \in Nat /\ Len(Z) \in Nat /\ Len(v) = Len(B) + Len(Z)
      /\ (\A i \in 1 .. Len(B) : v[i] = B[i]) /\ (\A i \in 1 .. Len(Z) : v[Len(B) + i] = Z[i])
  BY DEF Glued
<1>3. /\ DOMAIN zb = 1 .. Len(Z) + 1 /\ (\A k \in 1 .. Len(Z) + 1 : zb[k].used \in Nat)
      /\ zb[Len(Z) + 1].held = {} /\ zb[Len(Z) + 1].due = {} /\ NextExit(Z, 0, x)
      /\ \A k \in 1 .. Len(Z) : \E n, a : FunctionNoted(Z, zb, k, n, kind, a)
  BY <1>1 DEF Rest
<1>4. PICK b : b = [k \in 1 .. Len(v) + 1 |-> IF k <= Len(B) THEN bb[k] ELSE zb[k - Len(B)]]
  OBVIOUS
<1>5. ASSUME NEW m \in 1 .. Len(Z) + 1 PROVE b[Len(B) + m] = zb[m]
  <2>1. Len(B) + m \in 1 .. Len(v) + 1 /\ ~(Len(B) + m <= Len(B)) /\ Len(B) + m - Len(B) = m
    BY <1>2
  <2> QED BY <1>4, <2>1
<1>6. ASSUME NEW m \in 1 .. Len(B) + 1 PROVE b[m] = bb[m]
  <2>1. CASE m = Len(B) + 1
    BY <1>0, <1>1, <1>2, <1>5, <2>1
  <2>2. CASE m <= Len(B)
    BY <1>2, <1>4, <2>2
  <2> QED BY <1>2, <2>1, <2>2
<1>7. /\ DOMAIN b = 1 .. Len(v) + 1 /\ b[1] = q /\ b[Len(v) + 1] = l /\ Len(v) \in Nat
      /\ b[Len(v) + 1].held = {} /\ b[Len(v) + 1].due = {}
  <2>1. Len(Z) + 1 \in 1 .. Len(Z) + 1 /\ Len(v) + 1 = Len(B) + (Len(Z) + 1) /\ 1 \in 1 .. Len(B) + 1
    BY <1>2
  <2>2. b[Len(v) + 1] = zb[Len(Z) + 1] /\ b[1] = bb[1]
    BY <1>5, <1>6, <2>1
  <2> QED BY <1>0, <1>1, <1>2, <1>3, <1>4, <2>2
<1>8. ASSUME NEW k \in DOMAIN b PROVE b[k].used \in Nat
  <2>1. CASE k <= Len(B)
    <3>1. k \in 1 .. Len(B) + 1
      BY <1>2, <1>7, <2>1
    <3> QED BY <1>0, <1>6, <3>1
  <2>2. CASE k > Len(B)
    <3>1. k - Len(B) \in 1 .. Len(Z) + 1 /\ k = Len(B) + (k - Len(B))
      BY <1>2, <1>7, <2>2
    <3> QED BY <1>3, <1>5, <3>1
  <2> QED BY <1>2, <1>7, <2>1, <2>2
<1>9. x \in 1 .. Len(Z) + 1 /\ (x <= Len(Z) => AtExit(Z[x])) /\ \A m \in 1 .. x - 1 : ~AtExit(Z[m])
  BY <1>3 DEF NextExit
<1>10. b[Len(B) + x] = e
  BY <1>1, <1>5, <1>9
<1>11. ASSUME NEW k \in 0 .. Len(B), \A m \in k + 1 .. Len(B) : ~AtExit(B[m]) PROVE NextExit(v, k, Len(B) + x)
  <2>0. PICK h : h = Len(B) + x
    OBVIOUS
  <2>1. h \in k + 1 .. Len(v) + 1
    BY <1>2, <1>9, <2>0
  <2>2. h <= Len(v) => AtExit(v[h])
    BY <1>2, <1>9, <2>0
  <2>3. ASSUME NEW m \in k + 1 .. h - 1 PROVE ~AtExit(v[m])
    <3>1. CASE m <= Len(B)
      BY <1>2, <1>9, <1>11, <3>1
    <3>2. CASE m > Len(B)
      <4>1. PICK i : i = m - Len(B)
        OBVIOUS
      <4>2. i \in 1 .. x - 1 /\ i \in 1 .. Len(Z) /\ m = Len(B) + i
        BY <1>2, <1>9, <2>0, <3>2, <4>1
      <4> QED BY <1>2, <1>9, <4>2
    <3> QED BY <1>2, <1>9, <2>0, <3>1, <3>2
  <2>4. NextExit(v, k, h)
    BY <2>1, <2>2, <2>3, Zenon DEF NextExit
  <2> QED BY <2>0, <2>4
<1>12. ASSUME NEW k \in 0 .. Len(B), \A m \in k + 1 .. Len(B) : ~AtExit(B[m])
       PROVE  OnlyFrees(v, k + 1) = OnlyFrees(Z, 1)
  <2>1. ASSUME OnlyFrees(v, k + 1) PROVE OnlyFrees(Z, 1)
    <3>1. \A i \in k + 1 .. Len(v) : AtExit(v[i]) => v[i][1].op = "free"
      BY <2>1 DEF OnlyFrees
    <3>2. ASSUME NEW i \in 1 .. Len(Z) PROVE AtExit(Z[i]) => Z[i][1].op = "free"
      <4>1. Len(B) + i \in k + 1 .. Len(v) /\ v[Len(B) + i] = Z[i]
        BY <1>2
      <4> QED BY <3>1, <4>1
    <3> QED BY <3>2 DEF OnlyFrees
  <2>2. ASSUME OnlyFrees(Z, 1) PROVE OnlyFrees(v, k + 1)
    <3>1. \A i \in 1 .. Len(Z) : AtExit(Z[i]) => Z[i][1].op = "free"
      BY <2>2 DEF OnlyFrees
    <3>2. ASSUME NEW m \in k + 1 .. Len(v) PROVE AtExit(v[m]) => v[m][1].op = "free"
      <4>1. CASE m <= Len(B)
        <5>1. m \in k + 1 .. Len(B) /\ m \in 1 .. Len(B)
          BY <1>2, <4>1
        <5>2. ~AtExit(v[m])
          BY <1>2, <1>12, <5>1
        <5> QED BY <5>2
      <4>2. CASE m > Len(B)
        <5>1. PICK i : i = m - Len(B)
          OBVIOUS
        <5>2. i \in 1 .. Len(Z) /\ m = Len(B) + i
          BY <1>2, <4>2, <5>1
        <5> QED BY <1>2, <3>1, <5>2
      <4> QED BY <1>2, <4>1, <4>2
    <3> QED BY <3>2 DEF OnlyFrees
  <2> QED BY <2>1, <2>2 DEF OnlyFrees
<1>13. ASSUME NEW k \in 1 .. Len(v) PROVE \E n, a : FunctionNoted(v, b, k, n, kind, a)
  <2>1. CASE k <= Len(B)
    <3>1. k \in 1 .. Len(B) /\ k + 1 \in 1 .. Len(B) + 1 /\ k \in 0 .. Len(B) /\ k \in 1 .. Len(B) + 1
      BY <1>2, <2>1
    <3>2. \A m \in k + 1 .. Len(B) : ~AtExit(B[m])
      BY <1>0, <1>2, <3>1
    <3>3. NextExit(v, k, Len(B) + x) /\ OnlyFrees(v, k + 1) = OnlyFrees(Z, 1)
      BY <1>11, <1>12, <3>1, <3>2
    <3>4. PICK a : a[1] = bb[k] /\ FunctionGood(B[k], a, Before(Z, bb[k + 1], e, l, kind))
      BY <1>0, <3>1
    <3>5. Context(v, b, k, Len(B) + x, kind) = Before(Z, bb[k + 1], e, l, kind)
      <4>1. b[k + 1] = bb[k + 1]
        BY <1>6, <3>1
      <4> QED BY <1>7, <1>10, <3>3, <4>1 DEF Context, Before
    <3>6. v[k] = B[k] /\ b[k] = bb[k]
      BY <1>2, <1>6, <3>1
    <3> QED BY <3>3, <3>4, <3>5, <3>6 DEF FunctionNoted
  <2>2. CASE k > Len(B)
    <3>1. PICK i : i = k - Len(B)
      OBVIOUS
    <3>2. i \in 1 .. Len(Z) /\ k = Len(B) + i
      BY <1>2, <2>2, <3>1
    <3>3. PICK n, a : FunctionNoted(Z, zb, i, n, kind, a)
      BY <1>3, <3>2
    <3>4. FunctionNoted(v, b, Len(B) + i, Len(B) + n, kind, a)
      BY <1>5, <3>2, <3>3, NotedLater
    <3> QED BY <3>2, <3>4
  <2> QED BY <1>2, <2>1, <2>2
<1>14. ASSUME \A k \in 1 .. Len(B) : ~AtExit(B[k])
       PROVE  GoodFrom(v, q, e, l, kind) /\ OnlyFrees(v, 1) = OnlyFrees(Z, 1)
  <2>1. 0 \in 0 .. Len(B) /\ \A m \in 0 + 1 .. Len(B) : ~AtExit(B[m])
    BY <1>2, <1>14
  <2>2. NextExit(v, 0, Len(B) + x) /\ OnlyFrees(v, 0 + 1) = OnlyFrees(Z, 1)
    BY <1>11, <1>12, <2>1
  <2>3. Rest(v, b, Len(B) + x, kind)
    BY <1>7, <1>8, <1>13, <2>2 DEF Rest
  <2>4. OnlyFrees(v, 1) = OnlyFrees(Z, 1)
    BY <2>2
  <2> QED BY <1>7, <1>10, <2>3, <2>4 DEF GoodFrom
<1>15. ASSUME Len(B) = 1, AtExit(B[1]) PROVE GoodFrom(v, q, q, l, kind)
  <2>1. v[1] = B[1]
    BY <1>2, <1>15
  <2>2. NextExit(v, 0, 1)
    BY <1>2, <1>15, <2>1 DEF NextExit
  <2>3. Rest(v, b, 1, kind)
    BY <1>7, <1>8, <1>13, <2>2 DEF Rest
  <2> QED BY <1>7, <2>3 DEF GoodFrom
<1> QED BY <1>14, <1>15

\* The length of two sequences.
LEMMA ConcatenatedLength ==
  ASSUME NEW t, NEW u, Len(t) \in Nat, Len(u) \in Nat PROVE Len(t \o u) = Len(t) + Len(u)
  OBVIOUS

\* A concatenation has the elements of both.
LEMMA Concatenated ==
  ASSUME NEW t, NEW u, Len(t) \in Nat, Len(u) \in Nat
  PROVE  /\ Glued(t \o u, t, u) /\ Len(t \o u) \in Nat /\ Len(t \o u) = Len(t) + Len(u)
         /\ \A w : Len(w) \in Nat => Glued((t \o u) \o w, t, u \o w)
<1>1. PICK v : v = t \o u
  OBVIOUS
<1>2. Len(v) = Len(t) + Len(u) /\ Len(v) \in Nat
  BY <1>1
<1>3. ASSUME NEW i \in 1 .. Len(t) PROVE v[i] = t[i]
  BY <1>1
<1>4. ASSUME NEW i \in 1 .. Len(u) PROVE v[Len(t) + i] = u[i]
  BY <1>1
<1>5. Glued(v, t, u)
  BY <1>2, <1>3, <1>4 DEF Glued
<1>6. ASSUME NEW w, Len(w) \in Nat PROVE Glued((t \o u) \o w, t, u \o w)
  <2>1. PICK x, y : x = v \o w /\ y = u \o w
    OBVIOUS
  <2>2. Len(x) = Len(t) + Len(u) + Len(w) /\ Len(y) = Len(u) + Len(w) /\ Len(y) \in Nat /\ Len(x) = Len(t) + Len(y)
    <3>1. Len(x) = Len(v) + Len(w)
      BY <1>2, <1>6, <2>1, ConcatenatedLength
    <3>2. Len(y) = Len(u) + Len(w)
      BY <1>6, <2>1
    <3> QED BY <1>2, <1>6, <3>1, <3>2
  <2>3. ASSUME NEW i \in 1 .. Len(t) PROVE x[i] = t[i]
    <3>1. i \in 1 .. Len(v)
      BY <1>2
    <3>2. x[i] = v[i]
      BY <1>2, <1>6, <2>1, <3>1
    <3> QED BY <1>3, <3>2
  <2>4. ASSUME NEW i \in 1 .. Len(y) PROVE x[Len(t) + i] = y[i]
    <3>1. CASE i <= Len(u)
      <4>1. i \in 1 .. Len(u) /\ Len(t) + i \in 1 .. Len(v)
        BY <1>2, <2>2, <3>1
      <4>2. x[Len(t) + i] = v[Len(t) + i] /\ y[i] = u[i]
        BY <1>2, <1>6, <2>1, <4>1
      <4> QED BY <1>4, <4>1, <4>2
    <3>2. CASE i > Len(u)
      <4>1. PICK k : k = i - Len(u)
        OBVIOUS
      <4>2. k \in 1 .. Len(w) /\ i = Len(u) + k /\ Len(t) + i = Len(v) + k
        BY <1>2, <2>2, <3>2, <4>1
      <4>3. x[Len(v) + k] = w[k] /\ y[Len(u) + k] = w[k]
        BY <1>2, <1>6, <2>1, <4>2
      <4> QED BY <4>2, <4>3
    <3> QED BY <2>2, <3>1, <3>2
  <2>5. Glued(x, t, y)
    BY <2>2, <2>3, <2>4 DEF Glued
  <2> QED BY <1>1, <2>1, <2>5
<1> QED BY <1>1, <1>2, <1>5, <1>6

\* A body before a tail.
LEMMA PrependBody ==
  ASSUME NEW Z, NEW p, NEW e, NEW l, NEW kind, GoodFrom(Z, p, e, l, kind),
         NEW B, NEW q, BodyGood(B, q, p, e), NEW v, Glued(v, B, Z)
  PROVE  GoodFrom(v, q, e, l, kind) /\ OnlyFrees(v, 1) = OnlyFrees(Z, 1)
<1>1. PICK bb : /\ DOMAIN bb = 1 .. Len(B) + 1 /\ bb[1] = q /\ bb[Len(B) + 1] = p
                /\ \A k \in 1 .. Len(B) + 1 : bb[k].used \in Nat
                /\ \A k \in 1 .. Len(B) : MakesOf(B[k], bb[k], bb[k + 1], e)
  BY DEF BodyGood
<1>2. ASSUME NEW k \in 1 .. Len(B)
      PROVE  ~AtExit(B[k]) /\ \E a : a[1] = bb[k] /\ FunctionGood(B[k], a, Before(Z, bb[k + 1], e, l, kind))
  <2>1. PICK c : c = Before(Z, bb[k + 1], e, l, kind)
    OBVIOUS
  <2>2. c.next = bb[k + 1] /\ c.exit = e
    BY <2>1 DEF Before
  <2>3. Len(B[k]) \in Nat \ {0} /\ ~AtExit(B[k]) /\ StepsGood(B[k], bb[k], c.next, c)
    BY <1>1, <2>2 DEF MakesOf
  <2>4. \E a : a[1] = bb[k] /\ FunctionGood(B[k], a, c)
    BY <2>3, FunctionOfSteps
  <2> QED BY <2>1, <2>3, <2>4
<1>3. /\ \A k \in 1 .. Len(B) : ~AtExit(B[k])
      /\ \A k \in 1 .. Len(B) : \E a : a[1] = bb[k] /\ FunctionGood(B[k], a, Before(Z, bb[k + 1], e, l, kind))
  BY <1>2
<1>4. NotedBefore(B, bb, q, Z, p, e, l, kind)
  BY <1>1, <1>3 DEF NotedBefore
<1> QED BY <1>3, <1>4, Prepend

\* One function before a tail; if it is an exit, errors before it go there.
LEMMA PrependOne ==
  ASSUME NEW Z, NEW p, NEW e, NEW l, NEW kind, GoodFrom(Z, p, e, l, kind), p.used \in Nat,
         NEW f, NEW q, q.used \in Nat, NEW a, a[1] = q, FunctionGood(f, a, Before(Z, p, e, l, kind)),
         NEW v, Glued(v, <<f>>, Z)
  PROVE  /\ ~AtExit(f) => GoodFrom(v, q, e, l, kind) /\ OnlyFrees(v, 1) = OnlyFrees(Z, 1)
         /\ AtExit(f) => GoodFrom(v, q, q, l, kind)
<1>1. PICK B, bb : B = <<f>> /\ bb = <<q, p>>
  OBVIOUS
<1>2. Len(B) = 1 /\ B[1] = f /\ DOMAIN bb = 1 .. 2 /\ bb[1] = q /\ bb[2] = p /\ Glued(v, B, Z)
  BY <1>1
<1>3. /\ DOMAIN bb = 1 .. Len(B) + 1 /\ bb[1] = q /\ bb[Len(B) + 1] = p
      /\ (\A k \in 1 .. Len(B) + 1 : bb[k].used \in Nat)
      /\ \A k \in 1 .. Len(B) : \E x : x[1] = bb[k] /\ FunctionGood(B[k], x, Before(Z, bb[k + 1], e, l, kind))
  BY <1>2
<1>4. (\A k \in 1 .. Len(B) : ~AtExit(B[k])) <=> ~AtExit(f)
  BY <1>2
<1>5. NotedBefore(B, bb, q, Z, p, e, l, kind)
  BY <1>2, <1>3 DEF NotedBefore
<1> QED BY <1>2, <1>4, <1>5, Prepend

\* A function of one step.
LEMMA SingleStep ==
  ASSUME NEW s, NEW q, q.used \in Nat, NEW c, StepGood(s, q, c.next, c),
         s.always => s.op \in ExitOps /\ (s.op = "print" => c.kind = "excused") /\ Weaker(After(s, q), c.exit)
  PROVE  FunctionGood(<<s>>, <<q>>, c)
<1>1. PICK f, a : f = <<s>> /\ a = <<q>>
  OBVIOUS
<1>2. Len(f) = 1 /\ f[1] = s /\ DOMAIN a = 1 .. 1 /\ a[1] = q
  BY <1>1
<1>3. AtExit(f) = s.always
  BY <1>2 DEF AtExit
<1>4. FunctionGood(f, a, c)
  BY <1>2, <1>3 DEF FunctionGood
<1> QED BY <1>1, <1>4

---------------------------------------------------------------------------
(* Documents.                                                                *)

\* At the functions of a call: S is held, M perhaps created.
At(S, M) == Note(S, M, {}, {}, {}, 0)
\* The text is printed.
Printed(S, M) == Note(S, M, {}, {}, AllSamples, 0)

\* What the notes of a document say.
LEMMA AtFacts ==
  ASSUME NEW S, NEW M
  PROVE  /\ IsNote(At(S, M), S, M, {}) /\ At(S, M).used \in Nat
         /\ Printed(S, M).held = S /\ Printed(S, M).made = M /\ Printed(S, M).due = {} /\ Printed(S, M).done = {}
         /\ Printed(S, M).sent = AllSamples /\ Printed(S, M).used = 0
  BY DEF IsNote, At, Printed, Note

\* The free of the root ends a document.
LEMMA FreeEnds ==
  ASSUME NEW root, NEW W, NEW kind, NEW q, NEW l, l = Printed({}, W),
         q.held = {root}, q.made \subseteq W, q.due = {}, q.done = {}, q.sent \subseteq AllSamples, q.used = 0,
         NEW Z, Z = << <<Free(root)>> >>
  PROVE  GoodFrom(Z, q, q, l, kind) /\ OnlyFrees(Z, 1) /\ Len(Z) = 1
<1>1. PICK s, E : s = Free(root) /\ E = << >>
  OBVIOUS
<1>2. s.op = "free" /\ s.os[1] = root /\ s.always = TRUE
  BY <1>1 DEF Free, Always, Step
<1>3. /\ l.held = {} /\ l.made = W /\ l.due = {} /\ l.done = {} /\ l.sent = AllSamples /\ l.used = 0 /\ l.used \in Nat
  BY AtFacts
<1>4. GoodFrom(E, l, l, l, kind)
  BY <1>1, <1>3, FromNothing
<1>5. PICK c : c = Before(E, l, l, l, kind)
  OBVIOUS
<1>6. c.next = l /\ c.exit = l
  BY <1>5 DEF Before
<1>7. PICK r : r = After(s, q)
  OBVIOUS
<1>8. r.held = {} /\ r.made = q.made /\ r.due = q.due /\ r.done = q.done /\ r.sent = q.sent /\ r.used = q.used
  <2>1. r = Note(q.held \ {root}, q.made, q.due, q.done, q.sent, q.used)
    BY <1>2, <1>7 DEF After, CreateOps
  <2>2. r.held = q.held \ {root} /\ r.made = q.made /\ r.due = q.due /\ r.done = q.done /\ r.sent = q.sent /\ r.used = q.used
    BY <2>1 DEF Note
  <2> QED BY <2>2
<1>9. Follows(r, l) /\ Weaker(r, l)
  BY <1>3, <1>8 DEF Follows, Weaker
<1>10. StepGood(s, q, c.next, c)
  <2>1. Named(s) /\ Finds(s, q) /\ Skips(s, q, c.next)
    BY <1>2 DEF Named, Finds, Skips, New, CreateOps, SamplesOf
  <2> QED BY <1>2, <1>6, <1>7, <1>9, <2>1 DEF StepGood, FailOps, OtherOps, InitOps
<1>11. FunctionGood(<<s>>, <<q>>, c)
  BY <1>2, <1>6, <1>7, <1>9, <1>10, SingleStep DEF ExitOps
<1>12. Len(Z) = 1 /\ Z[1] = <<s>> /\ AtExit(<<s>>) /\ <<q>>[1] = q /\ Len(E) = 0
  BY <1>1, <1>2 DEF AtExit
<1>13. Glued(Z, << <<s>> >>, E)
  BY <1>1, <1>12 DEF Glued
<1>14. GoodFrom(Z, q, q, l, kind)
  BY <1>3, <1>4, <1>5, <1>11, <1>12, <1>13, PrependOne
<1>15. OnlyFrees(Z, 1)
  BY <1>2, <1>12 DEF OnlyFrees
<1> QED BY <1>12, <1>14, <1>15

\* Before it, the text is printed.
LEMMA PrintEnds ==
  ASSUME NEW root, NEW M, Text \notin M, NEW kind, NEW Z, Z = << <<PrintTree(root)>>, <<Free(root)>> >>
  PROVE  GoodFrom(Z, At({root}, M), Printed({root}, M \cup {Text}), Printed({}, M \cup {Text}), kind) /\ Len(Z) = 2
<1>1. PICK s, Y : s = PrintTree(root) /\ Y = << <<Free(root)>> >>
  OBVIOUS
<1>2. s.op = "print" /\ s.os[1] = root /\ s.undo = << >> /\ s.always = FALSE /\ s.leaves = FALSE
  BY <1>1 DEF PrintTree, Step
<1>3. PICK q, e, l : q = At({root}, M) /\ e = Printed({root}, M \cup {Text}) /\ l = Printed({}, M \cup {Text})
  OBVIOUS
<1>4. /\ q.held = {root} /\ q.made = M /\ q.due = {} /\ q.done = {} /\ q.sent = {} /\ q.used = 0
      /\ e.held = {root} /\ e.made = M \cup {Text} /\ e.due = {} /\ e.done = {} /\ e.sent = AllSamples /\ e.used = 0
  BY <1>3, AtFacts DEF IsNote
<1>5. GoodFrom(Y, e, e, l, kind) /\ Len(Y) = 1
  BY <1>1, <1>3, <1>4, FreeEnds
<1>6. PICK c : c = Before(Y, e, e, l, kind)
  OBVIOUS
<1>7. c.next = e /\ c.exit = e
  BY <1>6 DEF Before
<1>8. New(s) = {} /\ Partly(s) = {{}} /\ Range(s.undo) = {} /\ Distinct(s.undo)
  <2>1. Range(<< >>) = {} /\ Distinct(<< >>)
    BY ShortLists DEF Lists
  <2> QED BY <1>2, <2>1 DEF New, Partly, CreateOps
<1>9. FailsWell(s, q, c)
  <2>1. Undone(s, q, e)
    BY <1>4, <1>8 DEF Undone
  <2> QED BY <1>2, <1>4, <1>7, <2>1 DEF FailsWell
<1>10. Follows(After(s, q), e)
  <2>1. PICK r : r = After(s, q)
    OBVIOUS
  <2>2. r = Note(q.held, q.made \cup {Text}, q.due, q.done, AllSamples, q.used)
    BY <1>2, <2>1 DEF After, CreateOps
  <2>3. r.held = {root} /\ r.made = M \cup {Text} /\ r.due = {} /\ r.done = {} /\ r.sent = AllSamples /\ r.used = 0
    BY <1>4, <2>2 DEF Note
  <2>4. Follows(r, e)
    BY <1>4, <2>3 DEF Follows, Weaker
  <2> QED BY <2>1, <2>4
<1>11. StepGood(s, q, c.next, c)
  <2>1. Named(s)
    <3>1. SamplesOf({}) = {}
      BY DEF SamplesOf
    <3> QED BY <1>2, <1>8, <3>1 DEF Named
  <2>2. Finds(s, q) /\ Skips(s, q, c.next)
    BY <1>2, <1>4 DEF Finds, Skips, CreateOps
  <2> QED BY <1>2, <1>7, <1>9, <1>10, <2>1, <2>2 DEF StepGood, FailOps, OtherOps, InitOps
<1>12. FunctionGood(<<s>>, <<q>>, c)
  <2>1. q.used \in Nat
    BY <1>4
  <2> QED BY <1>2, <1>11, <2>1, SingleStep
<1>13. Len(Z) = 2 /\ Z[1] = <<s>> /\ Z[2] = Y[1] /\ ~AtExit(<<s>>) /\ <<q>>[1] = q
  BY <1>1, <1>2 DEF AtExit
<1>14. Glued(Z, << <<s>> >>, Y)
  BY <1>5, <1>13 DEF Glued
<1>15. e.used \in Nat /\ q.used \in Nat
  BY <1>4
<1>16. GoodFrom(Z, q, e, l, kind)
  BY <1>5, <1>6, <1>12, <1>13, <1>14, <1>15, PrependOne
<1> QED BY <1>3, <1>13, <1>16

\* The objects of the root are created first; without memory the function returns at once.
LEMMA RootStarts ==
  ASSUME NEW os, NEW O, Lists(os, O), SamplesOf(O) \subseteq AllSamples, Text \notin O,
         NEW P, IsNote(P, O, O, SamplesOf(O)),
         NEW u, NEW U, Lists(u, U), (u = os /\ U = O) \/ (u = << >> /\ U = {} /\ \E o : O = {o}),
         NEW e, NEW l, l.held = {}, O \subseteq l.made,
         NEW kind, NEW Z, GoodFrom(Z, P, e, l, kind), NEW v, Glued(v, << <<Leaving(Create(NoSample, os, u))>> >>, Z)
  PROVE  \E b : ScriptGood(v, b, kind)
<1>1. PICK s : s = Leaving(Create(NoSample, os, u))
  OBVIOUS
<1>2. s.always = FALSE
  BY <1>1 DEF Leaving, Create, Step
<1>3. PICK q : q = Blank
  OBVIOUS
<1>4. q.held = {} /\ q.made = {} /\ q.due = {} /\ q.done = {} /\ q.sent = {} /\ q.used = 0 /\ q.used \in Nat
  BY <1>3 DEF Blank, Note
<1>5. P.held = O /\ P.made = O /\ P.due = SamplesOf(O) /\ P.done = {} /\ P.sent = {} /\ P.used = 0 /\ P.used \in Nat
  BY DEF IsNote
<1>6. PICK c : c = Before(Z, P, e, l, kind)
  OBVIOUS
<1>7. c.next = P /\ c.end = l
  BY <1>6 DEF Before
<1>8. StepGood(s, q, P, c)
  <2>1. /\ q.made \cap O = {} /\ Text \notin q.made \cup O /\ q.made \cup O \subseteq c.end.made
        /\ U \subseteq q.held \cup O /\ q.held \ U = c.end.held
        /\ P.held = q.held \cup O /\ q.made \cup O \subseteq P.made /\ q.due \cup (SamplesOf(O) \ q.done) \subseteq P.due
        /\ P.done \subseteq q.done /\ q.sent \subseteq P.sent /\ P.used = q.used
    BY <1>4, <1>5, <1>7
  <2>2. O \subseteq U \/ \E o : O = {o} /\ o \notin U
    OBVIOUS
  <2> QED BY <1>1, <1>4, <2>1, <2>2, CreateGood
<1>9. FunctionGood(<<s>>, <<q>>, c)
  BY <1>2, <1>4, <1>7, <1>8, SingleStep
<1>10. ~AtExit(<<s>>) /\ <<q>>[1] = q
  BY <1>2 DEF AtExit
<1>11. Glued(v, << <<s>> >>, Z)
  BY <1>1
<1>12. GoodFrom(v, q, e, l, kind)
  BY <1>4, <1>5, <1>6, <1>9, <1>10, <1>11, PrependOne
<1> QED BY <1>3, <1>12, ToBlank

\* Document(): a body between the root and the text.
LEMMA DocumentGood ==
  ASSUME NEW root, SamplesOf({root}) \subseteq AllSamples, root # Text, NEW M, root \in M, Text \notin M,
         NEW P, IsNote(P, {root}, {root}, SamplesOf({root})),
         NEW body, BodyGood(body, P, At({root}, M), Printed({root}, M \cup {Text})), NEW kind
  PROVE  \E b : ScriptGood(Document(root, body), b, kind)
<1>1. PICK os, u : os = <<root>> /\ u = << >>
  OBVIOUS
<1>2. PICK t, w : t = << <<Leaving(Create(NoSample, os, u))>> >> /\ w = << <<PrintTree(root)>>, <<Free(root)>> >>
  OBVIOUS
<1>3. PICK q, e, l : q = At({root}, M) /\ e = Printed({root}, M \cup {Text}) /\ l = Printed({}, M \cup {Text})
  OBVIOUS
<1>4. GoodFrom(w, q, e, l, kind) /\ Len(w) = 2
  BY <1>2, <1>3, PrintEnds
<1>5. Len(t) = 1 /\ Len(body) \in Nat
  BY <1>2 DEF BodyGood
<1>6. Glued(body \o w, body, w) /\ Glued((t \o body) \o w, t, body \o w)
  BY <1>4, <1>5, Concatenated
<1>7. GoodFrom(body \o w, P, e, l, kind)
  BY <1>3, <1>4, <1>6, PrependBody
<1>8. Lists(os, {root}) /\ Lists(u, {})
  BY <1>1, ShortLists
<1>9. l.held = {} /\ {root} \subseteq l.made
  BY <1>3, AtFacts
<1>10. \E b : ScriptGood((t \o body) \o w, b, kind)
  <2>1. PICK O, U, v : O = {root} /\ U = {} /\ v = (t \o body) \o w
    OBVIOUS
  <2>2. Lists(os, O) /\ Lists(u, U) /\ (u = << >> /\ U = {} /\ \E o : O = {o}) /\ SamplesOf(O) \subseteq AllSamples
        /\ Text \notin O /\ IsNote(P, O, O, SamplesOf(O)) /\ O \subseteq l.made
    BY <1>1, <1>8, <1>9, <2>1
  <2>3. Glued(v, << <<Leaving(Create(NoSample, os, u))>> >>, body \o w)
    BY <1>2, <1>6, <2>1
  <2>4. \E b : ScriptGood(v, b, kind)
    BY <1>7, <1>9, <2>2, <2>3, RootStarts
  <2> QED BY <2>1, <2>4
<1> QED BY <1>1, <1>2, <1>10 DEF Document

---------------------------------------------------------------------------
(* The functions of a document, one after the other.                         *)

\* Different samples have different objects.
LEMMA OwnApart == ASSUME NEW d, NEW e, d # e PROVE Own(d) \cap Own(e) = {}
<1>1. \A r : Object(r, d)[2] = d /\ Object(r, e)[2] = e
  BY DEF Object
<1> QED BY <1>1 DEF Own

\* There is room for the objects of d, added to parent, which is held with S at the note p;
\* errors go on at the note e.
Room(d, parent, up, S, M, D, p, e) ==
  /\ d \in AllSamples /\ parent \in S /\ Level(parent) < 3 /\ S \subseteq M /\ Text \notin M
  /\ M \cap Own(d) = {} /\ M \cup Own(d) \subseteq e.made
  /\ Lists(up, S \ e.held) /\ e.held \subseteq S
  /\ D \subseteq {d} /\ IsNote(p, S, M, D)

\* Room() is what a caller of an adding function provides.
LEMMA RoomForCaller ==
  ASSUME NEW d, NEW parent, NEW up, NEW S, NEW M, NEW D, NEW p, NEW e, Room(d, parent, up, S, M, D, p, e),
         NEW c, c.next = At(S, M \cup Own(d)), c.exit = e
  PROVE  Caller(d, parent, up, S, M, M \cup Own(d), D, p, c)
<1>1. IsNote(c.next, S, M \cup Own(d), {})
  BY AtFacts
<1>2. Abandons(up, p, e)
  BY DEF Room, Abandons, IsNote
<1> QED BY <1>1, <1>2 DEF Room, Caller

\* With room, the steps of an adder make the next note.
LEMMA RoomMakes ==
  ASSUME NEW d, NEW parent, NEW up, NEW S, NEW M, NEW D, NEW p, NEW e, Room(d, parent, up, S, M, D, p, e),
         NEW f, Len(f) \in Nat \ {0}, ~AtExit(f),
         \A c : Caller(d, parent, up, S, M, M \cup Own(d), D, p, c) => StepsGood(f, p, c.next, c)
  PROVE  MakesOf(f, p, At(S, M \cup Own(d)), e)
<1>1. ASSUME NEW c, c.next = At(S, M \cup Own(d)), c.exit = e PROVE StepsGood(f, p, c.next, c)
  BY <1>1, RoomForCaller
<1>2. ASSUME NEW c, c.next = At(S, M \cup Own(d)), c.exit = e PROVE StepsGood(f, p, At(S, M \cup Own(d)), c)
  BY <1>1, <1>2
<1> QED BY <1>2 DEF MakesOf

\* f adds the sample d, whoever calls it.
Adder(f, d, parent, up) ==
  /\ Len(f) \in Nat \ {0} /\ ~AtExit(f)
  /\ \A S, M, N, D, p, c : Caller(d, parent, up, S, M, N, D, p, c) => StepsGood(f, p, c.next, c)

\* All the objects of the first samples of dd.
OwnUpTo(dd, n) == UNION {Own(dd[j]) : j \in 1 .. n}

\* The functions B add the samples dd.
EachAdds(B, dd, parent, up, S, M, e) ==
  /\ Len(B) \in Nat /\ parent \in S /\ Level(parent) < 3 /\ S \subseteq M /\ Text \notin M
  /\ M \cup OwnUpTo(dd, Len(B)) \subseteq e.made /\ Lists(up, S \ e.held) /\ e.held \subseteq S
  /\ \A k \in 1 .. Len(B) : dd[k] \in AllSamples /\ Adder(B[k], dd[k], parent, up) /\ M \cap Own(dd[k]) = {}
  /\ \A j, k \in 1 .. Len(B) : j # k => dd[j] # dd[k]

\* Adders of different samples, one after the other.
LEMMA EachMakes ==
  ASSUME NEW B, NEW dd, NEW parent, NEW up, NEW S, NEW M, NEW e, EachAdds(B, dd, parent, up, S, M, e)
  PROVE  BodyGood(B, At(S, M), At(S, M \cup OwnUpTo(dd, Len(B))), e)
<1>0. /\ Len(B) \in Nat /\ parent \in S /\ Level(parent) < 3 /\ S \subseteq M /\ Text \notin M
      /\ M \cup OwnUpTo(dd, Len(B)) \subseteq e.made /\ Lists(up, S \ e.held) /\ e.held \subseteq S
      /\ \A k \in 1 .. Len(B) : dd[k] \in AllSamples /\ Adder(B[k], dd[k], parent, up) /\ M \cap Own(dd[k]) = {}
      /\ \A j, k \in 1 .. Len(B) : j # k => dd[j] # dd[k]
  BY DEF EachAdds
<1> DEFINE Made(k) == M \cup OwnUpTo(dd, k - 1)
<1>1. PICK b : b = [k \in 1 .. Len(B) + 1 |-> At(S, Made(k))]
  OBVIOUS
<1>2. ASSUME NEW k \in 1 .. Len(B) PROVE MakesOf(B[k], At(S, Made(k)), At(S, Made(k + 1)), e)
  <2>1. Made(k + 1) = Made(k) \cup Own(dd[k])
    <3>1. 1 .. k = 1 .. k - 1 \cup {k} /\ k + 1 - 1 = k
      BY <1>0
    <3>2. OwnUpTo(dd, k) = OwnUpTo(dd, k - 1) \cup Own(dd[k])
      BY <3>1 DEF OwnUpTo
    <3> QED BY <3>1, <3>2
  <2>2. Made(k) \cap Own(dd[k]) = {}
    <3>1. ASSUME NEW j \in 1 .. k - 1 PROVE Own(dd[j]) \cap Own(dd[k]) = {}
      <4>1. j \in 1 .. Len(B) /\ j # k
        BY <1>0
      <4> QED BY <1>0, <4>1, OwnApart
    <3>2. OwnUpTo(dd, k - 1) \cap Own(dd[k]) = {}
      BY <3>1 DEF OwnUpTo
    <3> QED BY <1>0, <3>2
  <2>3. Made(k + 1) \subseteq e.made
    <3>1. 1 .. k \subseteq 1 .. Len(B) /\ k + 1 - 1 = k
      BY <1>0
    <3>2. OwnUpTo(dd, k) \subseteq OwnUpTo(dd, Len(B))
      BY <3>1 DEF OwnUpTo
    <3> QED BY <1>0, <3>1, <3>2
  <2>4. Text \notin Made(k)
    <3>1. \A j : Text \notin Own(dd[j])
      BY OwnFacts
    <3>2. Text \notin OwnUpTo(dd, k - 1)
      BY <3>1 DEF OwnUpTo
    <3> QED BY <1>0, <3>2
  <2>5. PICK K, d : K = Made(k) /\ d = dd[k]
    OBVIOUS
  <2>6. IsNote(At(S, K), S, K, {})
    BY AtFacts
  <2>7. Room(d, parent, up, S, K, {}, At(S, K), e)
    BY <1>0, <2>1, <2>2, <2>3, <2>4, <2>5, <2>6 DEF Room
  <2>8. Adder(B[k], d, parent, up)
    BY <1>0, <2>5
  <2>9. MakesOf(B[k], At(S, K), At(S, K \cup Own(d)), e)
    BY <2>7, <2>8, RoomMakes DEF Adder
  <2> QED BY <2>1, <2>5, <2>9
<1>3. ASSUME NEW k \in 1 .. Len(B) + 1 PROVE b[k] = At(S, Made(k)) /\ b[k].used \in Nat
  BY <1>1, AtFacts
<1>4. ASSUME NEW k \in 1 .. Len(B) PROVE MakesOf(B[k], b[k], b[k + 1], e)
  <2>1. k \in 1 .. Len(B) + 1 /\ k + 1 \in 1 .. Len(B) + 1
    BY <1>0
  <2>2. b[k] = At(S, Made(k)) /\ b[k + 1] = At(S, Made(k + 1))
    BY <1>3, <2>1
  <2> QED BY <1>2, <2>2
<1>5. b[1] = At(S, M) /\ b[Len(B) + 1] = At(S, M \cup OwnUpTo(dd, Len(B)))
  <2>1. 1 \in 1 .. Len(B) + 1 /\ Len(B) + 1 \in 1 .. Len(B) + 1 /\ 1 - 1 = 0 /\ Len(B) + 1 - 1 = Len(B) /\ 1 .. 0 = {}
    BY <1>0
  <2>2. OwnUpTo(dd, 0) = {}
    BY <2>1 DEF OwnUpTo
  <2>3. b[1] = At(S, Made(1)) /\ b[Len(B) + 1] = At(S, Made(Len(B) + 1))
    BY <1>3, <2>1
  <2>4. Made(1) = M /\ Made(Len(B) + 1) = M \cup OwnUpTo(dd, Len(B))
    BY <2>1, <2>2
  <2> QED BY <2>3, <2>4
<1>6. DOMAIN b = 1 .. Len(B) + 1
  BY <1>1
<1> QED BY <1>0, <1>3, <1>4, <1>5, <1>6 DEF BodyGood

\* Which functions are such.
LEMMA StartsNormally ==
  ASSUME NEW d, NEW f, NEW u, f[1] \in {IfQueued(d), NeedQueued(d, u)} PROVE ~AtExit(f)
  BY DEF AtExit, IfQueued, NeedQueued, Step

\* The first element of two sequences.
LEMMA FirstOfJoined ==
  ASSUME NEW t, NEW u, Len(t) \in Nat \ {0}, Len(u) \in Nat
  PROVE  Len(t \o u) \in Nat \ {0} /\ (t \o u)[1] = t[1]
<1>1. Glued(t \o u, t, u)
  BY Concatenated
<1> QED BY <1>1 DEF Glued

\* SampleAdd() of every type adds its sample.
LEMMA SampleAdder ==
  ASSUME NEW d, NEW parent, NEW up, d[1] \in Range(BufferTypes)
  PROVE  /\ Adder(SampleAdd(d, parent, up), d, parent, up)
         /\ Adder(SampleAdd(d, parent, up) \o <<NoteAdded(d)>>, d, parent, up)
<1>1. PICK f, g : f = SampleAdd(d, parent, up) /\ g = f \o <<NoteAdded(d)>>
  OBVIOUS
<1>2. Len(f) \in Nat \ {0} /\ f[1] = IfQueued(d)
  BY <1>1, SampleStarts
<1>3. Len(g) \in Nat \ {0} /\ g[1] = IfQueued(d)
  <2>1. Len(<<NoteAdded(d)>>) = 1
    OBVIOUS
  <2>2. Glued(g, f, <<NoteAdded(d)>>) /\ Len(g) = Len(f) + 1
    BY <1>1, <1>2, <2>1, Concatenated
  <2>3. 1 \in 1 .. Len(f)
    BY <1>2
  <2> QED BY <1>2, <2>2, <2>3 DEF Glued
<1>4. ASSUME NEW S, NEW M, NEW N, NEW D, NEW p, NEW c, Caller(d, parent, up, S, M, N, D, p, c)
      PROVE  StepsGood(f, p, c.next, c) /\ StepsGood(g, p, c.next, c)
  <2>1. StepsGood(f, p, c.next, c)
    BY <1>1, <1>4, SampleMakes
  <2>2. c.next.used \in Nat
    BY <1>4, CallerFacts
  <2>3. StepGood(NoteAdded(d), c.next, c.next, c)
    BY <2>2, QuietGood
  <2>4. StepsGood(<<NoteAdded(d)>>, c.next, c.next, c)
    BY <2>2, <2>3, OneStep
  <2> QED BY <1>1, <2>1, <2>4, StepsJoin
<1> QED BY <1>1, <1>2, <1>3, <1>4, StartsNormally DEF Adder

\* The functions of nRF Cloud.
LEMMA nrfAdder ==
  ASSUME NEW d
  PROVE  /\ Adder(nrf_add_data_now(d), d, Top, << >>) /\ Adder(nrf_add_pvt_data(d), d, Top, << >>)
         /\ Adder(nrf_sensor_data(d), d, Top, << >>) /\ Adder(nrf_impact_data(d), d, Top, << >>)
         /\ Adder(nrf_modem_dynamic_data(d), d, Top, << >>)
<1>1. ASSUME NEW f, f \in {nrf_add_data_now(d), nrf_add_pvt_data(d), nrf_sensor_data(d), nrf_impact_data(d),
                           nrf_modem_dynamic_data(d)}
      PROVE  Len(f) \in Nat \ {0} /\ f[1] = IfQueued(d)
  <2>1. CASE f = nrf_add_data_now(d)
    BY <2>1 DEF nrf_add_data_now
  <2>2. CASE f = nrf_add_pvt_data(d)
    BY <2>2 DEF nrf_add_pvt_data
  <2>3. CASE f = nrf_sensor_data(d)
    <3> DEFINE t1 == <<IfQueued(d), Convert(d, << >>)>>
               R(r) == nrf_add_data(Object(r, d), d, << >>)
               t2 == R("air quality")
               t3 == R("humidity")
               t4 == R("temperature")
               t5 == R("pressure")
               t6 == <<Clear(d)>>
    <3>1. Len(t1) \in Nat \ {0} /\ t1[1] = IfQueued(d) /\ Len(t6) \in Nat
      OBVIOUS
    <3>2. \A r : Len(R(r)) \in Nat
      BY DEF nrf_add_data
    <3>3. Len(t2) \in Nat /\ Len(t3) \in Nat /\ Len(t4) \in Nat /\ Len(t5) \in Nat
      BY <3>2, Zenon
    <3>4. f = ((((t1 \o t2) \o t3) \o t4) \o t5) \o t6
      BY <2>3, Zenon DEF nrf_sensor_data
    <3> HIDE DEF t1, t2, t3, t4, t5, t6, R
    <3>5. Len(t1 \o t2) \in Nat \ {0} /\ (t1 \o t2)[1] = IfQueued(d)
      BY <3>1, <3>3, FirstOfJoined
    <3>6. Len((t1 \o t2) \o t3) \in Nat \ {0} /\ ((t1 \o t2) \o t3)[1] = IfQueued(d)
      BY <3>3, <3>5, FirstOfJoined
    <3>7. Len(((t1 \o t2) \o t3) \o t4) \in Nat \ {0} /\ (((t1 \o t2) \o t3) \o t4)[1] = IfQueued(d)
      BY <3>3, <3>6, FirstOfJoined
    <3>8. Len((((t1 \o t2) \o t3) \o t4) \o t5) \in Nat \ {0} /\ ((((t1 \o t2) \o t3) \o t4) \o t5)[1] = IfQueued(d)
      BY <3>3, <3>7, FirstOfJoined
    <3> QED BY <3>1, <3>4, <3>8, FirstOfJoined
  <2>4. CASE f = nrf_impact_data(d)
    BY <2>4 DEF nrf_impact_data, nrf_add_data
  <2>5. CASE f = nrf_modem_dynamic_data(d)
    BY <2>5 DEF nrf_modem_dynamic_data, nrf_add_data
  <2> QED BY <1>1, <2>1, <2>2, <2>3, <2>4, <2>5
<1> QED BY <1>1, StartsNormally, nowMakes, sensorMakes, impactMakes, dynamicMakes DEF Adder

---------------------------------------------------------------------------
(* What the documents are filled with.                                       *)

\* The length of a sequence that is written as a function.
LEMMA LengthOfList == ASSUME NEW n \in Nat, NEW f, f = [i \in 1 .. n |-> f[i]] PROVE Len(f) = n
<1>1. PICK V : V = {f[i] : i \in 1 .. n}
  OBVIOUS
<1>2. f \in [1 .. n -> V]
  BY <1>1
<1> QED BY <1>2

\* S is held, and to be held after an error; what is in M may have been created.
Still(S, M, e) == e.held = S /\ M \subseteq e.made /\ Text \notin M

\* Where an error finds the note as it is, nothing is to be deleted.
LEMMA StillAbandons ==
  ASSUME NEW S, NEW M, NEW e, Still(S, M, e)
  PROVE  Abandons(<< >>, At(S, M), e) /\ Lists(<< >>, S \ e.held)
<1>1. S \ e.held = {} /\ Lists(<< >>, {})
  BY ShortLists DEF Still
<1>2. At(S, M).held = S /\ At(S, M).made = M
  BY AtFacts DEF IsNote
<1> QED BY <1>1, <1>2 DEF Abandons, Still

\* The test for an empty message.
LEMMA NeedMakes ==
  ASSUME NEW S, NEW M, NEW e, Still(S, M, e), NEW s, s = NeedAdded \/ \E root : s = NeedElements(root)
  PROVE  /\ MakesOf(<<s>>, At(S, M), At(S, M), e)
         /\ BodyGood(<< <<s>> >>, At(S, M), At(S, M), e)
<1>1. PICK p : p = At(S, M)
  OBVIOUS
<1>2. Abandons(<< >>, p, e) /\ p.used \in Nat
  BY <1>1, StillAbandons, AtFacts
<1>3. ASSUME NEW c, c.exit = e PROVE StepsGood(<<s>>, p, p, c)
  <2>1. StepGood(s, p, p, c)
    <3>1. PICK op, os : op \in {"need_added", "need_elements"} /\ s = Step(op, NoSample, os, << >>)
      <4>1. CASE s = NeedAdded
        <5>1. s = Step("need_added", NoSample, << >>, << >>)
          BY <4>1 DEF NeedAdded
        <5> QED BY <5>1
      <4>2. CASE \E root : s = NeedElements(root)
        <5>1. PICK root : s = Step("need_elements", NoSample, <<root>>, << >>)
          BY <4>2 DEF NeedElements
        <5> QED BY <5>1
      <4> QED BY <4>1, <4>2
    <3>2. op \in TryOps \cup TakeOps /\ (op \in TakeOps => NoSample \in AllSamples)
      BY <3>1 DEF TryOps, TakeOps
    <3>3. StepGood(Step(op, NoSample, os, << >>), p, p, c)
      BY <1>2, <1>3, <3>2, TryGood
    <3> QED BY <3>1, <3>3
  <2> QED BY <1>2, <2>1, OneStep
<1>4. s.always = FALSE
  BY DEF NeedAdded, NeedElements, Step
<1>5. Len(<<s>>) = 1 /\ ~AtExit(<<s>>)
  BY <1>4 DEF AtExit
<1>6. MakesOf(<<s>>, p, p, e)
  BY <1>3, <1>5 DEF MakesOf
<1> QED BY <1>1, <1>2, <1>6, OneFunction

\* What config_add() needs.
LEMMA ConfigBody ==
  ASSUME NEW parent, NEW S, parent \in S, Level(parent) < 3, NEW M, S \subseteq M, M \cap ConfigOwn = {},
         NEW e, Still(S, M \cup ConfigOwn, e)
  PROVE  BodyGood(<<config_add(parent)>>, At(S, M), At(S, M \cup ConfigOwn), e)
<1>1. PICK p, q, N : N = M \cup ConfigOwn /\ p = At(S, M) /\ q = At(S, N)
  OBVIOUS
<1>2. IsNote(p, S, M, {}) /\ IsNote(q, S, N, {}) /\ p.used \in Nat /\ q.used \in Nat
  BY <1>1, AtFacts
<1>3. ASSUME NEW c, c.next = q, c.exit = e PROVE StepsGood(config_add(parent), p, q, c)
  <2>1. ConfigCaller(parent, S, M, N, p, c)
    BY <1>1, <1>2, <1>3 DEF ConfigCaller, Still
  <2> QED BY <1>3, <2>1, configMakes
<1>4. Len(config_add(parent)) \in Nat \ {0} /\ ~AtExit(config_add(parent))
  BY DEF config_add, AtExit, Create, Step
<1>5. MakesOf(config_add(parent), p, q, e)
  BY <1>3, <1>4 DEF MakesOf
<1> QED BY <1>1, <1>2, <1>5, OneFunction

\* Every sample that is named is one.
LEMMA SampleNames ==
  /\ \A t \in Types : SampleOf(t) \in AllSamples /\ SampleOf(t)[1] = t /\ SampleOf(t)[2] = 1
  /\ \A t \in Types, i \in 1 .. BatchCount : <<t, i>> \in AllSamples
  /\ Range(BufferTypes) \subseteq Types
<1>1. BatchCount \in Nat
  BY CodecsAssumption
<1>2. PICK m : m = Max({1, BatchCount})
  OBVIOUS
<1>3. m \in {1, BatchCount} /\ 1 <= m /\ BatchCount <= m
  <2>1. ASSUME NEW x \in {1, BatchCount}, \A y \in {1, BatchCount} : y <= x
        PROVE  \E x1 \in {1, BatchCount} : \A y \in {1, BatchCount} : y <= x1
    BY <2>1
  <2>2. \E x1 \in {1, BatchCount} : \A y \in {1, BatchCount} : y <= x1
    BY <1>1
  <2>3. m = CHOOSE x \in {1, BatchCount} : \A y \in {1, BatchCount} : x >= y
    BY <1>2 DEF Max
  <2> QED BY <1>1, <2>2, <2>3
<1>4. AllSamples = {<<t, i>> : t \in Types, i \in 1 .. m}
  BY <1>2 DEF AllSamples
<1> QED BY <1>1, <1>3, <1>4 DEF SampleOf, Types

DataSample == [n \in DOMAIN DataOrder |-> SampleOf(DataOrder[n])]

\* The samples of a data message.
LEMMA DataBody ==
  ASSUME NEW parent, NEW S, parent \in S, Level(parent) < 3, NEW M, S \subseteq M,
         \A o \in M : o[2] \notin AllSamples, NEW e, Still(S, M \cup OwnUpTo(DataSample, 7), e)
  PROVE  BodyGood(DataSamples(parent), At(S, M), At(S, M \cup OwnUpTo(DataSample, 7)), e)
<1>1. PICK B : B = DataSamples(parent)
  OBVIOUS
<1>2. DOMAIN DataOrder = 1 .. 7
  BY DEF DataOrder
<1>3. \A k \in 1 .. 7 : DataOrder[k] \in Range(BufferTypes)
  BY DEF DataOrder, BufferTypes, Range
<1>4. \A j, k \in 1 .. 7 : j # k => DataOrder[j] # DataOrder[k]
  BY DEF DataOrder
<1>5. \A k \in 1 .. 7 : /\ DataSample[k] = SampleOf(DataOrder[k])
                        /\ B[k] = SampleAdd(SampleOf(DataOrder[k]), parent, << >>) \o <<NoteAdded(SampleOf(DataOrder[k]))>>
  BY <1>1, <1>2 DEF DataSample, DataSamples
<1>6. Len(B) = 7
  <2>1. B = [k \in 1 .. 7 |-> B[k]]
    BY <1>1, <1>2 DEF DataSamples
  <2> QED BY <2>1, LengthOfList
<1>7. ASSUME NEW k \in 1 .. Len(B)
      PROVE  DataSample[k] \in AllSamples /\ Adder(B[k], DataSample[k], parent, << >>) /\ M \cap Own(DataSample[k]) = {}
  <2>1. PICK d : d = SampleOf(DataOrder[k])
    OBVIOUS
  <2>2. d \in AllSamples /\ d[1] \in Range(BufferTypes)
    BY <1>3, <1>6, <2>1, SampleNames
  <2>3. Adder(SampleAdd(d, parent, << >>) \o <<NoteAdded(d)>>, d, parent, << >>)
    BY <2>2, SampleAdder
  <2>4. M \cap Own(d) = {}
    <3>1. \A o \in Own(d) : o[2] = d
      BY DEF Own, Object
    <3> QED BY <2>2, <3>1
  <2> QED BY <1>5, <1>6, <2>1, <2>2, <2>3, <2>4
<1>8. \A j, k \in 1 .. Len(B) : j # k => DataSample[j] # DataSample[k]
  <2>1. \A k \in 1 .. 7 : DataSample[k][1] = DataOrder[k]
    BY <1>3, <1>5, SampleNames
  <2> QED BY <1>4, <1>6, <2>1
<1>9. EachAdds(B, DataSample, parent, << >>, S, M, e)
  <2>1. Lists(<< >>, S \ e.held) /\ e.held \subseteq S /\ Text \notin M
    BY StillAbandons DEF Still
  <2>2. M \cup OwnUpTo(DataSample, Len(B)) \subseteq e.made
    BY <1>6 DEF Still
  <2> QED BY <1>6, <1>7, <1>8, <2>1, <2>2 DEF EachAdds
<1> QED BY <1>1, <1>6, <1>9, EachMakes

---------------------------------------------------------------------------
(* Batches.                                                                  *)

Items(type) == [i \in 1 .. BatchCount |-> <<type, i>>]
OwnItems(type) == OwnUpTo(Items(type), BatchCount)
Array(type) == Object("array", <<type, 0>>)

\* The samples and the array of a batch.
LEMMA ItemFacts ==
  ASSUME NEW t
  PROVE  /\ \A o \in OwnItems(t) : o[2][1] = t /\ o # Text
         /\ Array(t)[2][1] = t /\ Array(t)[2][2] = 0 /\ Array(t) # Text /\ Array(t) # Top /\ Level(Array(t)) = 1
         /\ Array(t) \notin OwnItems(t) /\ SamplesOf({Array(t)}) = {} /\ Level(Top) = 0
         /\ BatchCount \in Nat
<1>1. \A i \in 1 .. BatchCount : Items(t)[i] = <<t, i>>
  BY DEF Items
<1>2. BatchCount \in Nat
  BY CodecsAssumption
<1>3. ASSUME NEW o \in OwnItems(t)
      PROVE  o[2][1] = t /\ o # Text /\ o # Array(t)
  <2>1. PICK i \in 1 .. BatchCount : o \in Own(Items(t)[i])
    BY <1>3 DEF OwnItems, OwnUpTo
  <2>2. o \in Own(<<t, i>>)
    BY <1>1, <2>1
  <2>3. PICK r : r \in OwnRoles /\ o = Object(r, <<t, i>>)
    BY <2>2 DEF Own
  <2>4. o[1] = r /\ o[2] = <<t, i>>
    BY <2>3 DEF Object
  <2>5. o[2][1] = t /\ o[2][2] = i /\ i # 0
    BY <1>2, <2>4
  <2>6. Array(t)[2] = <<t, 0>>
    BY DEF Array, Object
  <2>7. o # Text
    BY <2>2, OwnFacts
  <2>8. Array(t)[2][2] = 0
    BY <2>6
  <2> QED BY <2>4, <2>5, <2>6, <2>7, <2>8
<1>4. Array(t)[1] = "array" /\ Array(t)[2] = <<t, 0>>
  BY DEF Array, Object
<1>5. Array(t)[2][1] = t /\ Array(t)[2][2] = 0
  BY <1>4
<1>6. Text[1] = "text" /\ Top[1] = "root"
  BY DEF Text, Top, Root, Object
<1>7. SamplesOf({Array(t)}) = {}
  BY <1>5 DEF SamplesOf
<1>8. Level(Array(t)) = 1 /\ Level(Top) = 0
  BY <1>4, <1>6 DEF Level
<1> QED BY <1>2, <1>3, <1>4, <1>5, <1>6, <1>7, <1>8

\* The samples of a buffer, one after the other.
LEMMA ItemsBody ==
  ASSUME NEW type \in Range(BufferTypes), NEW B, NEW parent, NEW up, B = [i \in 1 .. BatchCount |-> B[i]],
         \A i \in 1 .. BatchCount : Adder(B[i], <<type, i>>, parent, up),
         NEW S, parent \in S, Level(parent) < 3, NEW M, S \subseteq M, Text \notin M,
         \A o \in M : o[2][1] # type \/ o[2][2] = 0,
         NEW e, M \cup OwnItems(type) \subseteq e.made, Lists(up, S \ e.held), e.held \subseteq S
  PROVE  BodyGood(B, At(S, M), At(S, M \cup OwnItems(type)), e)
<1>1. Len(B) = BatchCount /\ BatchCount \in Nat
  BY ItemFacts, LengthOfList
<1>2. \A i \in 1 .. BatchCount : Items(type)[i] = <<type, i>>
  BY DEF Items
<1>3. ASSUME NEW k \in 1 .. Len(B)
      PROVE  Items(type)[k] \in AllSamples /\ Adder(B[k], Items(type)[k], parent, up) /\ M \cap Own(Items(type)[k]) = {}
  <2>1. PICK d : d = <<type, k>>
    OBVIOUS
  <2>2. k \in 1 .. BatchCount /\ k # 0
    BY <1>1
  <2>3. d \in AllSamples
    BY <2>1, <2>2, SampleNames
  <2>4. M \cap Own(d) = {}
    <3>1. \A o \in Own(d) : o[2] = d
      BY DEF Own, Object
    <3>2. d[1] = type /\ d[2] = k
      BY <2>1
    <3> QED BY <2>2, <3>1, <3>2
  <2> QED BY <1>2, <2>1, <2>2, <2>3, <2>4
<1>4. \A j, k \in 1 .. Len(B) : j # k => Items(type)[j] # Items(type)[k]
  BY <1>1, <1>2
<1>5. EachAdds(B, Items(type), parent, up, S, M, e)
  <2>1. M \cup OwnUpTo(Items(type), Len(B)) \subseteq e.made
    BY <1>1 DEF OwnItems
  <2> QED BY <1>1, <1>3, <1>4, <2>1 DEF EachAdds
<1>6. BodyGood(B, At(S, M), At(S, M \cup OwnUpTo(Items(type), Len(B))), e)
  BY <1>5, EachMakes
<1> QED BY <1>1, <1>6 DEF OwnItems

\* A function that fills what the root has of one type.
Fills(F, own, type, W, e) ==
  \A M : Top \in M /\ (\A o \in M : o[2][1] # type) /\ M \cup own[type] \subseteq W
           => BodyGood(F, At({Top}, M), At({Top}, M \cup own[type]), e)

\* batch_data_add(): an array of the samples of a type.
LEMMA BatchFills ==
  ASSUME NEW type \in Range(BufferTypes), NEW own, own[type] = {Array(type)} \cup OwnItems(type),
         NEW W, NEW e, Still({Top}, W, e)
  PROVE  Fills(batch_data_add(type, BatchCount, Top, << >>), own, type, W, e)
<1> SUFFICES ASSUME NEW M, Top \in M, \A o \in M : o[2][1] # type, M \cup own[type] \subseteq W
             PROVE  BodyGood(batch_data_add(type, BatchCount, Top, << >>), At({Top}, M), At({Top}, M \cup own[type]), e)
  BY DEF Fills
<1>1. PICK a : a = Array(type)
  OBVIOUS
<1>2. PICK K, L, S : K = M \cup {a} /\ L = M \cup own[type] /\ S = {Top, a}
  OBVIOUS
<1>3. PICK p, q, r, z : p = At({Top}, M) /\ q = At(S, K) /\ r = At(S, L) /\ z = At({Top}, L)
  OBVIOUS
<1>4. /\ IsNote(p, {Top}, M, {}) /\ IsNote(q, S, K, {}) /\ IsNote(r, S, L, {}) /\ IsNote(z, {Top}, L, {})
      /\ p.used \in Nat /\ q.used \in Nat /\ r.used \in Nat /\ z.used \in Nat
  BY <1>3, AtFacts
<1>5. /\ a \notin M /\ a # Text /\ a # Top /\ a \in e.made /\ SamplesOf({a}) = {} /\ Level(Top) < Level(a) /\ Level(a) < 3
      /\ L = K \cup OwnItems(type) /\ L \subseteq W /\ W \subseteq e.made /\ Text \notin W /\ e.held = {Top}
  <2>1. /\ a[2][1] = type /\ a # Text /\ a # Top /\ SamplesOf({a}) = {} /\ Level(Top) = 0 /\ Level(a) = 1
    BY <1>1, ItemFacts
  <2>2. L = K \cup OwnItems(type) /\ L \subseteq W /\ a \in W
    BY <1>1, <1>2
  <2> QED BY <2>1, <2>2 DEF Still
<1>6. PICK B : B = [i \in 1 .. BatchCount |-> SampleAdd(<<type, i>>, a, <<a>> \o << >>)]
  OBVIOUS
<1>7. PICK s, t : s = Create(NoSample, <<a>>, << >>) /\ t = AttachIfFilled(Top, a)
  OBVIOUS
<1>8. MakesOf(<<s>>, p, q, e)
  <2>1. ASSUME NEW c, c.exit = e PROVE StepsGood(<<s>>, p, q, c)
    <3>1. Abandons(<< >>, p, e)
      <4>1. Still({Top}, M, e)
        BY <1>2, <1>5 DEF Still
      <4> QED BY <1>3, <4>1, StillAbandons
    <3>2. /\ S = {Top} \cup {a} /\ M \cup {a} \subseteq K /\ {} \cup SamplesOf({a}) \subseteq {} /\ {Top} \subseteq M
          /\ SamplesOf({a}) \subseteq AllSamples
      BY <1>2, <1>5
    <3>3. StepGood(s, p, q, c)
      BY <1>4, <1>5, <1>7, <2>1, <3>1, <3>2, CreateAloneNote
    <3> QED BY <1>4, <3>3, OneStep
  <2>2. Len(<<s>>) = 1 /\ ~AtExit(<<s>>)
    BY <1>7 DEF AtExit, Create, Step
  <2> QED BY <2>1, <2>2 DEF MakesOf
<1>9. BodyGood(B, q, r, e)
  <2>1. PICK up : up = <<a>> \o << >>
    OBVIOUS
  <2>2. Lists(up, S \ e.held) /\ e.held \subseteq S
    <3>1. Lists(<<a>>, {a}) /\ Lists(<< >>, {})
      BY ShortLists
    <3>2. Lists(up, {a} \cup {})
      BY <2>1, <3>1, JoinedLists
    <3>3. {a} \cup {} = S \ e.held /\ e.held \subseteq S
      BY <1>2, <1>5
    <3> QED BY <3>2, <3>3
  <2>3. \A i \in 1 .. BatchCount : Adder(B[i], <<type, i>>, a, up)
    <3>1. \A i : <<type, i>>[1] = type
      OBVIOUS
    <3> QED BY <1>6, <2>1, <3>1, SampleAdder
  <2>4. B = [i \in 1 .. BatchCount |-> B[i]]
    BY <1>6
  <2>5. \A o \in K : o[2][1] # type \/ o[2][2] = 0
    <3>1. a[2][2] = 0
      BY <1>1, ItemFacts
    <3> QED BY <1>2, <3>1
  <2>6. a \in S /\ S \subseteq K /\ Text \notin K /\ K \cup OwnItems(type) \subseteq e.made
    BY <1>2, <1>5
  <2>7. BodyGood(B, At(S, K), At(S, K \cup OwnItems(type)), e)
    BY <1>5, <2>2, <2>3, <2>4, <2>5, <2>6, ItemsBody
  <2> QED BY <1>3, <1>5, <2>7
<1>10. MakesOf(<<t>>, r, z, e)
  <2>1. ASSUME NEW c, c.exit = e PROVE StepsGood(<<t>>, r, z, c)
    <3>1. a \in S /\ {Top} = S \ {a} /\ Top \in S /\ L \subseteq L
      BY <1>2, <1>5
    <3>2. StepGood(t, r, z, c)
      BY <1>4, <1>5, <1>7, <3>1, AttachNote
    <3> QED BY <1>4, <3>2, OneStep
  <2>2. Len(<<t>>) = 1 /\ ~AtExit(<<t>>)
    BY <1>7 DEF AtExit, AttachIfFilled, Step
  <2> QED BY <2>1, <2>2 DEF MakesOf
<1>11. BodyGood((<< <<s>> >> \o B) \o << <<t>> >>, p, z, e)
  <2>1. BodyGood(<< <<s>> >>, p, q, e) /\ BodyGood(<< <<t>> >>, r, z, e)
    BY <1>4, <1>8, <1>10, OneFunction
  <2>2. BodyGood(<< <<s>> >> \o B, p, r, e)
    BY <1>9, <2>1, BodyJoin
  <2> QED BY <2>1, <2>2, BodyJoin
<1>12. batch_data_add(type, BatchCount, Top, << >>) = (<< <<s>> >> \o B) \o << <<t>> >>
  BY <1>1, <1>6, <1>7, Zenon DEF batch_data_add, Array
<1> QED BY <1>2, <1>3, <1>11, <1>12

\* The copy of nRF Cloud: its samples hang into the root.
LEMMA nrfFills ==
  ASSUME NEW type \in Range(BufferTypes), NEW own, own[type] = OwnItems(type), NEW W, NEW e, Still({Top}, W, e)
  PROVE  Fills(add_batch_data(type), own, type, W, e)
<1> SUFFICES ASSUME NEW M, Top \in M, \A o \in M : o[2][1] # type, M \cup own[type] \subseteq W
             PROVE  BodyGood(add_batch_data(type), At({Top}, M), At({Top}, M \cup own[type]), e)
  BY DEF Fills
<1>1. PICK B : B = add_batch_data(type)
  OBVIOUS
<1>2. B = [i \in 1 .. BatchCount |-> B[i]]
  BY <1>1 DEF add_batch_data
<1>3. ASSUME NEW i \in 1 .. BatchCount PROVE Adder(B[i], <<type, i>>, Top, << >>)
  <2>1. PICK d : d = <<type, i>>
    OBVIOUS
  <2>2. B[i] \in {nrf_add_data_now(d), nrf_add_pvt_data(d), nrf_sensor_data(d), nrf_impact_data(d),
                  nrf_modem_dynamic_data(d)}
    BY <1>1, <2>1 DEF add_batch_data
  <2> QED BY <2>1, <2>2, nrfAdder
<1>4. /\ Level(Top) < 3 /\ {Top} \subseteq M /\ Text \notin M /\ M \cup OwnItems(type) \subseteq e.made
      /\ Lists(<< >>, {Top} \ e.held) /\ e.held \subseteq {Top}
  <2>1. Level(Top) = 0
    BY ItemFacts
  <2>2. Lists(<< >>, {Top} \ e.held)
    BY StillAbandons
  <2>3. e.held = {Top} /\ W \subseteq e.made /\ Text \notin W
    BY DEF Still
  <2> QED BY <2>1, <2>2, <2>3
<1>5. BodyGood(B, At({Top}, M), At({Top}, M \cup OwnItems(type)), e)
  BY <1>2, <1>3, <1>4, ItemsBody
<1> QED BY <1>1, <1>5

\* Several of them, one after the other: those of the types T are still to come.
Filling(B, own, T, W, e) ==
  \E M : /\ BodyGood(B, At({Top}, {Top}), At({Top}, M), e) /\ Top \in M /\ (\A o \in M : o[2][1] \notin T)
         /\ M \cup UNION {own[t] : t \in T} = W

\* The first type of a batch.
LEMMA FillingStarts ==
  ASSUME NEW own, NEW T, NEW t \in T, \A o \in own[t] : o[2][1] = t, "none" \notin T,
         NEW W, W = {Top} \cup UNION {own[x] : x \in T}, NEW e, NEW F, Fills(F, own, t, W, e)
  PROVE  Filling(F, own, T \ {t}, W, e)
<1>1. Top[2][1] = "none"
  BY DEF Top, Root, NoSample, Object
<1>2. PICK M : M = {Top} \cup own[t]
  OBVIOUS
<1>3. BodyGood(F, At({Top}, {Top}), At({Top}, M), e)
  <2>1. \A o \in {Top} : o[2][1] # t
    BY <1>1
  <2>2. {Top} \cup own[t] \subseteq W
    OBVIOUS
  <2> QED BY <1>2, <2>1, <2>2 DEF Fills
<1>4. Top \in M /\ \A o \in M : o[2][1] \notin T \ {t}
  BY <1>1, <1>2
<1>5. M \cup UNION {own[x] : x \in T \ {t}} = W
  BY <1>2
<1> QED BY <1>3, <1>4, <1>5 DEF Filling

\* One more type.
LEMMA FillingOn ==
  ASSUME NEW B, NEW own, NEW T, NEW W, NEW e, Filling(B, own, T, W, e),
         NEW t \in T, \A o \in own[t] : o[2][1] = t, NEW F, Fills(F, own, t, W, e)
  PROVE  Filling(B \o F, own, T \ {t}, W, e)
<1>1. PICK M : /\ BodyGood(B, At({Top}, {Top}), At({Top}, M), e) /\ Top \in M /\ (\A o \in M : o[2][1] \notin T)
               /\ M \cup UNION {own[x] : x \in T} = W
  BY DEF Filling
<1>2. PICK N : N = M \cup own[t]
  OBVIOUS
<1>3. BodyGood(F, At({Top}, M), At({Top}, N), e)
  <2>1. \A o \in M : o[2][1] # t
    BY <1>1
  <2>2. M \cup own[t] \subseteq W
    BY <1>1
  <2> QED BY <1>1, <1>2, <2>1, <2>2 DEF Fills
<1>4. BodyGood(B \o F, At({Top}, {Top}), At({Top}, N), e)
  BY <1>1, <1>3, BodyJoin
<1>5. Top \in N /\ \A o \in N : o[2][1] \notin T \ {t}
  BY <1>1, <1>2
<1>6. N \cup UNION {own[x] : x \in T \ {t}} = W
  BY <1>1, <1>2
<1> QED BY <1>4, <1>5, <1>6 DEF Filling

\* Then the document is.
LEMMA FilledGood ==
  ASSUME NEW B, NEW own, NEW W, NEW e, e = Printed({Top}, W \cup {Text}), Text \notin W, Filling(B, own, {}, W, e),
         NEW s, s \in {NeedAdded, NeedElements(Top)}, NEW kind
  PROVE  \E b : ScriptGood(Document(Top, B \o << <<s>> >>), b, kind)
<1>1. BodyGood(B, At({Top}, {Top}), At({Top}, W), e) /\ Top \in W
  <2>1. UNION {own[t] : t \in {}} = {}
    OBVIOUS
  <2> QED BY <2>1 DEF Filling
<1>2. Still({Top}, W, e)
  BY AtFacts DEF Still
<1>3. BodyGood(<< <<s>> >>, At({Top}, W), At({Top}, W), e)
  BY <1>2, NeedMakes
<1>4. BodyGood(B \o << <<s>> >>, At({Top}, {Top}), At({Top}, W), e)
  BY <1>1, <1>3, BodyJoin
<1>5. SamplesOf({Top}) = {} /\ Top # Text
  BY DEF SamplesOf, Top, Root, Text, Object, NoSample
<1>6. IsNote(At({Top}, {Top}), {Top}, {Top}, SamplesOf({Top}))
  <2>1. IsNote(At({Top}, {Top}), {Top}, {Top}, {})
    BY AtFacts
  <2> QED BY <1>5, <2>1
<1> QED BY <1>1, <1>4, <1>5, <1>6, DocumentGood

---------------------------------------------------------------------------
(* The documents of AWS IoT, Azure IoT Hub and nRF Cloud.                    *)

BatchOwn == [t \in Range(BufferTypes) |-> {Array(t)} \cup OwnItems(t)]
nrfOwn == [t \in Range(BufferTypes) |-> OwnItems(t)]

\* What the types of a batch need differs in its sample.
LEMMA BatchObjects ==
  /\ Range(BufferTypes) = {"static", "dynamic", "gnss", "sensor", "ui", "impact", "battery"}
  /\ \A t \in Range(BufferTypes) : /\ BatchOwn[t] = {Array(t)} \cup OwnItems(t) /\ nrfOwn[t] = OwnItems(t)
                                   /\ \A o \in BatchOwn[t] : o[2][1] = t /\ o # Text
                                   /\ \A o \in nrfOwn[t] : o[2][1] = t /\ o # Text
  /\ Top # Text
<1>1. Range(BufferTypes) = {"static", "dynamic", "gnss", "sensor", "ui", "impact", "battery"}
  BY DEF BufferTypes, Range
<1>2. ASSUME NEW t \in Range(BufferTypes)
      PROVE  /\ BatchOwn[t] = {Array(t)} \cup OwnItems(t) /\ nrfOwn[t] = OwnItems(t)
             /\ \A o \in BatchOwn[t] : o[2][1] = t /\ o # Text
             /\ \A o \in nrfOwn[t] : o[2][1] = t /\ o # Text
  <2>1. BatchOwn[t] = {Array(t)} \cup OwnItems(t) /\ nrfOwn[t] = OwnItems(t)
    BY DEF BatchOwn, nrfOwn
  <2>2. (\A o \in OwnItems(t) : o[2][1] = t /\ o # Text) /\ Array(t)[2][1] = t /\ Array(t) # Text
    BY ItemFacts
  <2> QED BY <2>1, <2>2
<1>3. Top # Text
  BY DEF Top, Root, Text, Object
<1> QED BY <1>1, <1>2, <1>3

\* json_common: the batch message.
LEMMA BatchGood == ASSUME NEW kind PROVE \E b : ScriptGood(json_encode_batch, b, kind)
<1>1. PICK T : T = Range(BufferTypes)
  OBVIOUS
<1>2. PICK W : W = {Top} \cup UNION {BatchOwn[t] : t \in T}
  BY Zenon
<1>3. PICK e : e = Printed({Top}, W \cup {Text})
  OBVIOUS
<1>4. Text \notin W
  BY <1>1, <1>2, BatchObjects
<1>5. Still({Top}, W, e)
  BY <1>3, <1>4, AtFacts DEF Still
<1> DEFINE F(t) == batch_data_add(t, BatchCount, Top, << >>)
<1>6. \A t \in T : Fills(F(t), BatchOwn, t, W, e) /\ \A o \in BatchOwn[t] : o[2][1] = t
  BY <1>1, <1>5, BatchObjects, BatchFills
<1>7. T = {"static", "dynamic", "gnss", "sensor", "ui", "impact", "battery"} /\ "none" \notin T
  BY <1>1, BatchObjects
<1> HIDE DEF F
<1>8. Filling(F("static"), BatchOwn, T \ {"static"}, W, e)
  BY <1>2, <1>6, <1>7, FillingStarts
<1>9. Filling(F("static") \o F("dynamic"), BatchOwn, (T \ {"static"}) \ {"dynamic"}, W, e)
  BY <1>6, <1>7, <1>8, FillingOn
<1>10. PICK B2 : B2 = F("static") \o F("dynamic")
  OBVIOUS
<1>11. Filling(B2 \o F("gnss"), BatchOwn, ((T \ {"static"}) \ {"dynamic"}) \ {"gnss"}, W, e)
  BY <1>6, <1>7, <1>9, <1>10, FillingOn
<1>12. PICK B3 : B3 = B2 \o F("gnss")
  OBVIOUS
<1>13. Filling(B3 \o F("sensor"), BatchOwn, (((T \ {"static"}) \ {"dynamic"}) \ {"gnss"}) \ {"sensor"}, W, e)
  BY <1>6, <1>7, <1>11, <1>12, FillingOn
<1>14. PICK B4 : B4 = B3 \o F("sensor")
  OBVIOUS
<1>15. PICK T4 : T4 = {"ui", "impact", "battery"}
  OBVIOUS
<1>16. (((T \ {"static"}) \ {"dynamic"}) \ {"gnss"}) \ {"sensor"} = T4
  BY <1>7, <1>15
<1>17. Filling(B4 \o F("ui"), BatchOwn, T4 \ {"ui"}, W, e)
  BY <1>6, <1>7, <1>13, <1>14, <1>15, <1>16, FillingOn
<1>18. PICK B5 : B5 = B4 \o F("ui")
  OBVIOUS
<1>19. Filling(B5 \o F("impact"), BatchOwn, (T4 \ {"ui"}) \ {"impact"}, W, e)
  BY <1>6, <1>7, <1>15, <1>17, <1>18, FillingOn
<1>20. PICK B6 : B6 = B5 \o F("impact")
  OBVIOUS
<1>21. Filling(B6 \o F("battery"), BatchOwn, ((T4 \ {"ui"}) \ {"impact"}) \ {"battery"}, W, e)
  BY <1>6, <1>7, <1>15, <1>19, <1>20, FillingOn
<1>22. ((T4 \ {"ui"}) \ {"impact"}) \ {"battery"} = {}
  BY <1>15
<1>23. PICK B7 : B7 = B6 \o F("battery")
  OBVIOUS
<1>24. Filling(B7, BatchOwn, {}, W, e)
  BY <1>21, <1>22, <1>23
<1>25. \E b : ScriptGood(Document(Top, B7 \o << <<NeedAdded>> >>), b, kind)
  BY <1>3, <1>4, <1>24, FilledGood
<1>26. json_encode_batch = Document(Top, B7 \o << <<NeedAdded>> >>)
  BY <1>10, <1>12, <1>14, <1>18, <1>20, <1>23, Zenon DEF json_encode_batch, F
<1> QED BY <1>25, <1>26

\* nRF Cloud: the batch message.
LEMMA nrfBatchGood == ASSUME NEW kind PROVE \E b : ScriptGood(nrf_encode_batch, b, kind)
<1>1. PICK T : T = {"gnss", "sensor", "ui", "impact", "battery", "dynamic"}
  OBVIOUS
<1>2. PICK W : W = {Top} \cup UNION {nrfOwn[t] : t \in T}
  BY Zenon
<1>3. PICK e : e = Printed({Top}, W \cup {Text})
  OBVIOUS
<1>4. T \subseteq Range(BufferTypes) /\ "none" \notin T
  BY <1>1, BatchObjects
<1>5. Text \notin W
  BY <1>2, <1>4, BatchObjects
<1>6. Still({Top}, W, e)
  BY <1>3, <1>5, AtFacts DEF Still
<1> DEFINE F(t) == add_batch_data(t)
<1>7. \A t \in T : Fills(F(t), nrfOwn, t, W, e) /\ \A o \in nrfOwn[t] : o[2][1] = t
  BY <1>4, <1>6, BatchObjects, nrfFills
<1> HIDE DEF F
<1>8. Filling(F("gnss"), nrfOwn, T \ {"gnss"}, W, e)
  BY <1>1, <1>2, <1>4, <1>7, FillingStarts
<1>9. Filling(F("gnss") \o F("sensor"), nrfOwn, (T \ {"gnss"}) \ {"sensor"}, W, e)
  BY <1>1, <1>7, <1>8, FillingOn
<1>10. PICK B2 : B2 = F("gnss") \o F("sensor")
  OBVIOUS
<1>11. Filling(B2 \o F("ui"), nrfOwn, ((T \ {"gnss"}) \ {"sensor"}) \ {"ui"}, W, e)
  BY <1>1, <1>7, <1>9, <1>10, FillingOn
<1>12. PICK B3 : B3 = B2 \o F("ui")
  OBVIOUS
<1>13. PICK T3 : T3 = {"impact", "battery", "dynamic"}
  OBVIOUS
<1>14. ((T \ {"gnss"}) \ {"sensor"}) \ {"ui"} = T3
  BY <1>1, <1>13
<1>15. Filling(B3 \o F("impact"), nrfOwn, T3 \ {"impact"}, W, e)
  BY <1>1, <1>7, <1>11, <1>12, <1>13, <1>14, FillingOn
<1>16. PICK B4 : B4 = B3 \o F("impact")
  OBVIOUS
<1>17. Filling(B4 \o F("battery"), nrfOwn, (T3 \ {"impact"}) \ {"battery"}, W, e)
  BY <1>1, <1>7, <1>13, <1>15, <1>16, FillingOn
<1>18. PICK B5 : B5 = B4 \o F("battery")
  OBVIOUS
<1>19. Filling(B5 \o F("dynamic"), nrfOwn, ((T3 \ {"impact"}) \ {"battery"}) \ {"dynamic"}, W, e)
  BY <1>1, <1>7, <1>13, <1>17, <1>18, FillingOn
<1>20. ((T3 \ {"impact"}) \ {"battery"}) \ {"dynamic"} = {}
  BY <1>13
<1>21. PICK B6 : B6 = B5 \o F("dynamic")
  OBVIOUS
<1>22. Filling(B6, nrfOwn, {}, W, e)
  BY <1>19, <1>20, <1>21
<1>23. \E b : ScriptGood(Document(Top, B6 \o << <<NeedElements(Top)>> >>), b, kind)
  BY <1>3, <1>5, <1>22, FilledGood
<1>24. nrf_encode_batch = Document(Top, B6 \o << <<NeedElements(Top)>> >>)
  BY <1>10, <1>12, <1>16, <1>18, <1>21, Zenon DEF nrf_encode_batch, F
<1> QED BY <1>23, <1>24

\* Roots.
LEMMA RootFacts ==
  /\ \A d : Root(d)[1] = "root" /\ Root(d)[2] = d /\ Level(Root(d)) = 0 /\ Root(d) # Text /\ SamplesOf({Root(d)}) \subseteq {d}
  /\ \A d, x : Root(d) \notin Own(x)
  /\ Level(Top) = 0 /\ Top[2] = NoSample /\ SamplesOf({Top}) = {} /\ Top # Text /\ Top \notin ConfigOwn
  /\ NoSample \notin AllSamples
<1>1. \A d : Root(d)[1] = "root" /\ Root(d)[2] = d
  BY DEF Root, Object
<1>2. \A d : Level(Root(d)) = 0
  <2>1. ASSUME NEW o, o[1] = "root" PROVE Level(o) = 0
    BY <2>1 DEF Level
  <2> QED BY <1>1, <2>1
<1>3. Text[1] = "text"
  BY DEF Text, Object
<1>4. ASSUME NEW d, NEW x PROVE Root(d) \notin Own(x)
  <2>1. \A r \in OwnRoles : Level(Object(r, x)) >= 3
    BY OwnLevels
  <2>2. \A o \in Own(x) : Level(o) >= 3
    BY <2>1 DEF Own
  <2> QED BY <1>2, <2>2
<1>5. NoSample[2] = 0 /\ NoSample[1] = "none"
  BY DEF NoSample
<1>6. Top[1] = "root" /\ Top[2] = NoSample
  BY <1>1 DEF Top
<1>7. SamplesOf({Top}) = {}
  BY <1>5, <1>6 DEF SamplesOf
<1>8. Top \notin ConfigOwn
  <2>1. Object("config", NoSample)[1] = "config" /\ Object("nod_list", NoSample)[1] = "nod_list"
    BY DEF Object
  <2> QED BY <1>6, <2>1 DEF ConfigOwn
<1>9. NoSample \notin AllSamples
  <2>1. \A d \in AllSamples : d[2] \in 1 .. Max({1, BatchCount})
    BY DEF AllSamples
  <2>2. \A m : 0 \notin 1 .. m
    OBVIOUS
  <2> QED BY <1>5, <2>1, <2>2
<1>10. \A d : SamplesOf({Root(d)}) \subseteq {d}
  BY <1>1 DEF SamplesOf
<1> QED BY <1>1, <1>2, <1>3, <1>4, <1>6, <1>7, <1>8, <1>9, <1>10 DEF Top

\* Azure IoT Hub: the data message.
LEMMA azureDataGood == ASSUME NEW kind PROVE \E b : ScriptGood(azure_encode_data, b, kind)
<1>1. PICK S, M, e : S = {Top} /\ M = {Top} \cup OwnUpTo(DataSample, 7) /\ e = Printed(S, M \cup {Text})
  OBVIOUS
<1>2. Text \notin M
  <2>1. \A j : Text \notin Own(DataSample[j])
    BY OwnFacts
  <2> QED BY <1>1, <2>1, RootFacts DEF OwnUpTo
<1>3. Still(S, M, e)
  BY <1>1, <1>2, AtFacts DEF Still
<1>4. BodyGood(DataSamples(Top), At(S, {Top}), At(S, M), e)
  <2>1. PICK X : X = {Top}
    BY Zenon
  <2>2. Top \in S /\ Level(Top) < 3 /\ S \subseteq X /\ (\A o \in X : o[2] \notin AllSamples) /\ Still(S, X \cup OwnUpTo(DataSample, 7), e)
    BY <1>1, <1>3, <2>1, RootFacts
  <2>3. BodyGood(DataSamples(Top), At(S, X), At(S, X \cup OwnUpTo(DataSample, 7)), e)
    BY <2>2, DataBody
  <2> QED BY <1>1, <2>1, <2>3
<1>5. BodyGood(DataSamples(Top) \o << <<NeedAdded>> >>, At(S, {Top}), At(S, M), e)
  BY <1>3, <1>4, NeedMakes, BodyJoin
<1>6. IsNote(At(S, {Top}), {Top}, {Top}, SamplesOf({Top}))
  <2>1. IsNote(At(S, {Top}), S, {Top}, {})
    BY AtFacts
  <2> QED BY <1>1, <2>1, RootFacts
<1> QED BY <1>1, <1>2, <1>5, <1>6, RootFacts, DocumentGood DEF azure_encode_data

\* Azure IoT Hub: the configuration.
LEMMA azureConfigGood == ASSUME NEW kind PROVE \E b : ScriptGood(azure_encode_config, b, kind)
<1>1. PICK S, M, e : S = {Top} /\ M = {Top} \cup ConfigOwn /\ e = Printed(S, M \cup {Text})
  OBVIOUS
<1>2. Text \notin M
  BY <1>1, RootFacts, ConfigObjects
<1>3. Still(S, M, e)
  BY <1>1, <1>2, AtFacts DEF Still
<1>4. BodyGood(<<config_add(Top)>>, At(S, {Top}), At(S, M), e)
  <2>1. PICK X : X = {Top}
    BY Zenon
  <2>2. Top \in S /\ Level(Top) < 3 /\ S \subseteq X /\ X \cap ConfigOwn = {} /\ Still(S, X \cup ConfigOwn, e)
    BY <1>1, <1>3, <2>1, RootFacts
  <2>3. BodyGood(<<config_add(Top)>>, At(S, X), At(S, X \cup ConfigOwn), e)
    BY <2>2, ConfigBody
  <2> QED BY <1>1, <2>1, <2>3
<1>5. IsNote(At(S, {Top}), {Top}, {Top}, SamplesOf({Top}))
  <2>1. IsNote(At(S, {Top}), S, {Top}, {})
    BY AtFacts
  <2> QED BY <1>1, <2>1, RootFacts
<1> QED BY <1>1, <1>2, <1>4, <1>5, RootFacts, DocumentGood DEF azure_encode_config

\* Documents about one sample.
LEMMA RequestGood ==
  ASSUME NEW d \in AllSamples, NEW root, root \in {Top, Root(d)}, NEW f, Adder(f, d, root, << >>), NEW kind
  PROVE  \E b : ScriptGood(Document(root, <<f>>), b, kind)
<1>1. PICK S, D, M : S = {root} /\ D = SamplesOf({root}) /\ M = {root} \cup Own(d)
  BY Zenon
<1>2. /\ root \in S /\ Level(root) = 0 /\ root # Text /\ D \subseteq {d} /\ D \subseteq AllSamples
      /\ S \cap Own(d) = {} /\ Text \notin M /\ M = S \cup Own(d)
  <2>1. Level(root) = 0 /\ root # Text /\ SamplesOf({root}) \subseteq {d} /\ root \notin Own(d)
    <3>1. CASE root = Top
      BY <3>1, RootFacts DEF Top
    <3>2. CASE root = Root(d)
      BY <3>2, RootFacts
    <3> QED BY <3>1, <3>2
  <2>2. Text \notin Own(d)
    BY OwnFacts
  <2> QED BY <1>1, <2>1, <2>2
<1>3. PICK P : IsNote(P, S, S, D)
  BY SomeNote
<1>4. PICK e, q : e = Printed(S, M \cup {Text}) /\ q = At(S, M)
  OBVIOUS
<1>5. e.held = S /\ M \subseteq e.made /\ q.used \in Nat /\ P.used \in Nat
  BY <1>3, <1>4, AtFacts, UsedOf
<1>6. Room(d, root, << >>, S, S, D, P, e)
  <2>1. Lists(<< >>, S \ e.held)
    <3>1. S \ e.held = {} /\ Lists(<< >>, {})
      BY <1>5, ShortLists
    <3> QED BY <3>1
  <2>2. S \cup Own(d) \subseteq e.made /\ Text \notin S /\ S \subseteq S /\ Level(root) < 3
    BY <1>2, <1>5
  <2> QED BY <1>2, <1>3, <1>5, <2>1, <2>2 DEF Room
<1>7. MakesOf(f, P, q, e)
  <2>1. MakesOf(f, P, At(S, S \cup Own(d)), e)
    BY <1>6, RoomMakes DEF Adder
  <2> QED BY <1>2, <1>4, <2>1
<1>8. BodyGood(<<f>>, P, q, e)
  BY <1>5, <1>7, OneFunction
<1> QED BY <1>1, <1>2, <1>3, <1>4, <1>8, DocumentGood

\* A sample that has to be queued, where others may be.
LEMMA NeededInstead == ASSUME NEW d PROVE [IfQueued(d) EXCEPT !.op = "need_queued"] = NeedQueued(d, << >>)
<1>1. PICK r, q, n : r = IfQueued(d) /\ q = [r EXCEPT !.op = "need_queued"] /\ n = NeedQueued(d, << >>)
  OBVIOUS
<1> DEFINE Fields == {"op", "d", "os", "undo", "always", "leaves"}
<1>2. /\ r = [op |-> "if_queued", d |-> d, os |-> << >>, undo |-> << >>, always |-> FALSE, leaves |-> FALSE]
      /\ n = [op |-> "need_queued", d |-> d, os |-> << >>, undo |-> << >>, always |-> FALSE, leaves |-> FALSE]
  BY <1>1 DEF IfQueued, NeedQueued, Step
<1>3. /\ DOMAIN r = Fields /\ r.d = d /\ r.os = << >> /\ r.undo = << >> /\ r.always = FALSE /\ r.leaves = FALSE
  BY <1>2
<1>4. q = [k \in Fields |-> IF k = "op" THEN "need_queued" ELSE r[k]]
  BY <1>1, <1>3
<1>5. /\ DOMAIN q = Fields /\ q.op = "need_queued" /\ q.d = d /\ q.os = << >> /\ q.undo = << >>
      /\ q.always = FALSE /\ q.leaves = FALSE
  BY <1>3, <1>4
<1>6. q = n
  BY <1>2, <1>4, <1>5
<1> QED BY <1>1, <1>6

\* Only() leaves a function its discipline: the sample is needed instead of asked for.
LEMMA OnlyAdder ==
  ASSUME NEW d, NEW parent
  PROVE  Adder(Only(FlatObject(d, parent, << >>)), d, parent, << >>)
<1>1. PICK f, g : f = FlatObject(d, parent, << >>) /\ g = Only(f)
  OBVIOUS
<1>2. /\ Len(f) = 6 /\ DOMAIN f = 1 .. 6 /\ f[1] = IfQueued(d)
  BY <1>1 DEF FlatObject
<1>3. g = [n \in 1 .. 6 |-> IF n = 1 THEN [f[1] EXCEPT !.op = "need_queued"] ELSE f[n]]
  BY <1>1, <1>2 DEF Only
<1>4. Len(g) = 6
  <2>1. g = [n \in 1 .. 6 |-> g[n]]
    BY <1>3
  <2> QED BY <2>1, LengthOfList
<1>5. g[1] = NeedQueued(d, << >>) /\ \A n \in 2 .. 6 : g[n] = f[n]
  <2>1. g[1] = [f[1] EXCEPT !.op = "need_queued"] /\ \A n \in 2 .. 6 : g[n] = f[n]
    BY <1>3
  <2>2. [IfQueued(d) EXCEPT !.op = "need_queued"] = NeedQueued(d, << >>)
    BY NeededInstead
  <2> QED BY <1>2, <2>1, <2>2
<1>6. ASSUME NEW S, NEW M, NEW N, NEW D, NEW p, NEW c, Caller(d, parent, << >>, S, M, N, D, p, c)
      PROVE  StepsGood(g, p, c.next, c)
  <2>1. StepsGood(f, p, c.next, c)
    BY <1>1, <1>6, FlatObjectMakes
  <2>2. PICK a : /\ DOMAIN a = 1 .. 7 /\ a[1] = p /\ a[7] = c.next /\ (\A n \in 1 .. 7 : a[n].used \in Nat)
                 /\ \A n \in 1 .. 6 : StepGood(f[n], a[n], a[n + 1], c)
    BY <1>2, <2>1 DEF StepsGood
  <2>3. StepGood(g[1], a[1], a[2], c)
    <3>1. PICK s, t : s = IfQueued(d) /\ t = NeedQueued(d, << >>)
      OBVIOUS
    <3>2. s.op = "if_queued" /\ t.op = "need_queued"
      BY <3>1 DEF IfQueued, NeedQueued, Step
    <3>3. After(s, p) = p /\ After(t, p) = p
      BY <3>2 DEF After, CreateOps
    <3>4. StepGood(s, p, a[2], c)
      <4>1. 1 \in 1 .. 6 /\ 1 + 1 = 2
        OBVIOUS
      <4> QED BY <1>2, <2>2, <3>1, <4>1
    <3>5. Follows(p, a[2])
      BY <3>2, <3>3, <3>4 DEF StepGood
    <3>6. StepGood(t, p, p, c)
      BY <1>6, <3>1, CallerFacts, TryNote
    <3>7. StepGood(t, p, a[2], c)
      BY <3>3, <3>5, <3>6 DEF StepGood
    <3> QED BY <1>5, <2>2, <3>1, <3>7
  <2>4. ASSUME NEW n \in 1 .. 6 PROVE StepGood(g[n], a[n], a[n + 1], c)
    <3>1. CASE n = 1
      BY <2>3, <3>1
    <3>2. CASE n \in 2 .. 6
      BY <1>5, <2>2, <3>2
    <3> QED BY <3>1, <3>2
  <2> QED BY <1>4, <2>2, <2>4 DEF StepsGood
<1>7. ~AtExit(g)
  BY <1>5, StartsNormally
<1>8. Adder(g, d, parent, << >>)
  BY <1>4, <1>6, <1>7 DEF Adder
<1> QED BY <1>1, <1>8

\* A press of the button, an impact.
LEMMA PressGood ==
  ASSUME NEW kind
  PROVE  /\ \E b : ScriptGood(json_encode_ui, b, kind)
         /\ \E b : ScriptGood(json_encode_impact, b, kind)
<1>1. "ui" \in Types /\ "impact" \in Types
  BY DEF Types, BufferTypes, Range
<1>2. SampleOf("ui") \in AllSamples /\ SampleOf("impact") \in AllSamples
  BY <1>1, SampleNames
<1> QED BY <1>2, OnlyAdder, RequestGood DEF json_encode_ui, json_encode_impact, ui_data_add, impact_data_add

\* Requests for assistance data are added like samples.
LEMMA RequestAdders ==
  ASSUME NEW d, NEW parent, NEW up
  PROVE  /\ Adder(agnss_request_data_add(d, parent, up), d, parent, up)
         /\ Adder(pgps_request_data_add(d, parent, up), d, parent, up)
<1>1. PICK f, g : f = agnss_request_data_add(d, parent, up) /\ g = pgps_request_data_add(d, parent, up)
  OBVIOUS
<1>2. Len(f) \in Nat \ {0} /\ Len(g) \in Nat \ {0} /\ f[1] = NeedQueued(d, up) /\ g[1] = NeedQueued(d, up)
  BY <1>1 DEF agnss_request_data_add, pgps_request_data_add
<1>3. ~AtExit(f) /\ ~AtExit(g)
  BY <1>2, StartsNormally
<1> QED BY <1>1, <1>2, <1>3, agnssMakes, pgpsMakes DEF Adder

\* Requests for assistance data.
LEMMA AssistanceGood ==
  ASSUME NEW kind
  PROVE  /\ \E b : ScriptGood(json_encode_agnss, b, kind)
         /\ \E b : ScriptGood(json_encode_pgps, b, kind)
<1>1. "agnss" \in Types /\ "pgps" \in Types
  BY DEF Types
<1>2. SampleOf("agnss") \in AllSamples /\ SampleOf("pgps") \in AllSamples
  BY <1>1, SampleNames
<1> QED BY <1>2, RequestAdders, RequestGood DEF json_encode_agnss, json_encode_pgps

\* Cells and Wi-Fi access points.
LEMMA neighborAdder ==
  ASSUME NEW d, NEW n, NEW parent, NEW up
  PROVE  Adder(neighbor_cells_data_add(d, n, parent, up), d, parent, up)
<1>1. PICK f : f = neighbor_cells_data_add(d, n, parent, up)
  OBVIOUS
<1>2. Len(f) \in Nat \ {0} /\ f[1] = NeedQueued(d, up)
  <2> DEFINE One(cell) == <<Create(d, <<cell>>, <<Obj(d), List(d)>> \o up),
                            Values(d, <<Obj(d), List(d), cell>> \o up), Attach(d, List(d), cell)>>
             c1 == <<Create(d, <<List(d)>>, <<Obj(d)>> \o up)>>
             c2 == One(Object("cell 1", d))
             c3 == IF n > 1 THEN One(Object("cell 2", d)) ELSE << >>
             c4 == <<Attach(d, Obj(d), List(d))>>
             t == <<NeedQueued(d, up), Create(d, <<Obj(d)>>, up), Convert(d, <<Obj(d)>> \o up),
                    Values(d, <<Obj(d)>> \o up)>>
             u == IF n > 0 THEN ((c1 \o c2) \o c3) \o c4 ELSE << >>
             w == <<Attach(d, parent, Obj(d)), Clear(d)>>
  <2>1. \A cell : Len(One(cell)) \in Nat
    OBVIOUS
  <2>2. Len(c1) \in Nat \ {0} /\ Len(c4) \in Nat /\ Len(w) \in Nat /\ Len(t) \in Nat \ {0} /\ t[1] = NeedQueued(d, up)
    OBVIOUS
  <2>3. Len(<< >>) \in Nat
    OBVIOUS
  <2>4. f = (t \o u) \o w
    BY <1>1, Zenon DEF neighbor_cells_data_add
  <2> HIDE DEF One, c1, c2, c3, c4, t, u, w
  <2>5. Len(c2) \in Nat /\ Len(c3) \in Nat
    BY <2>1, <2>3, Zenon DEF c2, c3
  <2>6. Len(c1 \o c2) \in Nat \ {0}
    BY <2>2, <2>5, FirstOfJoined
  <2>7. Len((c1 \o c2) \o c3) \in Nat \ {0}
    BY <2>5, <2>6, FirstOfJoined
  <2>8. Len(((c1 \o c2) \o c3) \o c4) \in Nat
    BY <2>2, <2>7, FirstOfJoined
  <2>9. Len(u) \in Nat
    BY <2>3, <2>8 DEF u
  <2>10. Len(t \o u) \in Nat \ {0} /\ (t \o u)[1] = NeedQueued(d, up)
    BY <2>2, <2>9, FirstOfJoined
  <2> QED BY <2>2, <2>4, <2>10, FirstOfJoined
<1>3. ~AtExit(f)
  BY <1>2, StartsNormally
<1> QED BY <1>1, <1>2, <1>3, neighborMakes DEF Adder

\* A location request, with cells, access points or both.
LEMMA LocationGood ==
  ASSUME NEW v, v \in Valid, v # {}, NEW kind
  PROVE  \E b : ScriptGood(json_encode_location(v), b, kind)
<1>1. PICK dc, dw : dc = SampleOf("cells") /\ dw = SampleOf("wifi")
  OBVIOUS
<1>2. dc \in AllSamples /\ dw \in AllSamples /\ dc # dw
  <2>1. "cells" \in Types /\ "wifi" \in Types
    BY DEF Types
  <2>2. dc \in AllSamples /\ dw \in AllSamples /\ dc[1] = "cells" /\ dw[1] = "wifi"
    BY <1>1, <2>1, SampleNames
  <2> QED BY <2>2
<1>3. PICK S, M1, M2 : /\ S = {Top} /\ M1 = {Top} \cup (IF "cells" \in v THEN Own(dc) ELSE {})
                       /\ M2 = M1 \cup (IF "wifi" \in v THEN Own(dw) ELSE {})
  BY Zenon
<1>4. /\ \A o \in Own(dc) : o[2] = dc
      /\ \A o \in Own(dw) : o[2] = dw
      /\ Text \notin Own(dc) /\ Text \notin Own(dw)
  <2>1. \A d, r : Object(r, d)[2] = d
    BY DEF Object
  <2>2. \A d : \A o \in Own(d) : o[2] = d
    BY <2>1 DEF Own
  <2> QED BY <2>2, OwnFacts
<1>5. \A o \in M1 : o[2] # dw
  BY <1>2, <1>3, <1>4, RootFacts
<1>6. PICK e : e = Printed(S, M2 \cup {Text})
  OBVIOUS
<1>7. e.held = S /\ e.made = M2 \cup {Text} /\ Text \notin M2 /\ Top \in M1 /\ M1 \subseteq M2
  BY <1>3, <1>4, <1>6, AtFacts, RootFacts
<1>8. Lists(<< >>, S \ e.held)
  <2>1. S \ e.held = {} /\ Lists(<< >>, {})
    BY <1>7, ShortLists
  <2> QED BY <2>1
<1>9. ASSUME NEW d \in AllSamples, NEW K, Top \in K, K \cap Own(d) = {}, K \cup Own(d) \subseteq M2
      PROVE  Room(d, Top, << >>, S, K, {}, At(S, K), e)
  <2>1. IsNote(At(S, K), S, K, {})
    BY AtFacts
  <2>2. S \subseteq K /\ Top \in S /\ Level(Top) < 3 /\ Text \notin K /\ K \cup Own(d) \subseteq e.made /\ e.held \subseteq S
    BY <1>3, <1>7, <1>9, RootFacts
  <2> QED BY <1>8, <1>9, <2>1, <2>2 DEF Room
<1>10. PICK f, g : /\ f = neighbor_cells_data_add(dc, Neighbours, Top, << >>)
                   /\ g = wifi_ap_data_add(dw, Top, << >>)
  OBVIOUS
<1>11. PICK B, C : B = (IF "cells" \in v THEN <<f>> ELSE << >>) /\ C = (IF "wifi" \in v THEN <<g>> ELSE << >>)
  OBVIOUS
<1>12. \A K : At(S, K).used \in Nat
  BY AtFacts
<1>13. BodyGood(B, At(S, {Top}), At(S, M1), e)
  <2>1. CASE "cells" \in v
    <3>1. PICK K : K = {Top}
      BY Zenon
    <3>2. M1 = K \cup Own(dc) /\ Top \in K /\ K \cap Own(dc) = {} /\ K \cup Own(dc) \subseteq M2
      BY <1>2, <1>3, <1>4, <2>1, <3>1, RootFacts
    <3>3. Room(dc, Top, << >>, S, K, {}, At(S, K), e)
      BY <1>2, <1>9, <3>2
    <3>4. Adder(f, dc, Top, << >>)
      BY <1>10, neighborAdder
    <3>5. MakesOf(f, At(S, K), At(S, K \cup Own(dc)), e)
      BY <3>3, <3>4, RoomMakes DEF Adder
    <3>6. BodyGood(<<f>>, At(S, K), At(S, M1), e)
      BY <1>12, <3>2, <3>5, OneFunction
    <3> QED BY <1>11, <2>1, <3>1, <3>6
  <2>2. CASE "cells" \notin v
    <3>1. M1 = {Top} /\ B = << >>
      BY <1>3, <1>11, <2>2
    <3> QED BY <1>12, <3>1, NoFunctions
  <2> QED BY <2>1, <2>2
<1>14. BodyGood(C, At(S, M1), At(S, M2), e)
  <2>1. CASE "wifi" \in v
    <3>1. M2 = M1 \cup Own(dw) /\ M1 \cap Own(dw) = {}
      BY <1>3, <1>4, <1>5, <2>1
    <3>2. Room(dw, Top, << >>, S, M1, {}, At(S, M1), e)
      BY <1>2, <1>7, <1>9, <3>1
    <3>3. Len(g) \in Nat \ {0} /\ g[1] = NeedQueued(dw, << >>)
      BY <1>10 DEF wifi_ap_data_add
    <3>4. ~AtExit(g)
      BY <3>3, StartsNormally
    <3>5. \A c : Caller(dw, Top, << >>, S, M1, M1 \cup Own(dw), {}, At(S, M1), c) => StepsGood(g, At(S, M1), c.next, c)
      BY <1>5, <1>10, wifiMakes
    <3>6. MakesOf(g, At(S, M1), At(S, M1 \cup Own(dw)), e)
      BY <3>2, <3>3, <3>4, <3>5, RoomMakes
    <3>7. BodyGood(<<g>>, At(S, M1), At(S, M2), e)
      BY <1>12, <3>1, <3>6, OneFunction
    <3> QED BY <1>11, <2>1, <3>7
  <2>2. CASE "wifi" \notin v
    <3>1. M2 = M1 /\ C = << >>
      BY <1>3, <1>11, <2>2
    <3> QED BY <1>12, <3>1, NoFunctions
  <2> QED BY <2>1, <2>2
<1>15. BodyGood(B \o C, At(S, {Top}), At(S, M2), e)
  BY <1>13, <1>14, BodyJoin
<1>16. IsNote(At(S, {Top}), {Top}, {Top}, SamplesOf({Top}))
  <2>1. IsNote(At(S, {Top}), S, {Top}, {})
    BY AtFacts
  <2> QED BY <1>3, <2>1, RootFacts
<1>17. json_encode_location(v) = Document(Top, B \o C)
  BY <1>1, <1>10, <1>11, Zenon DEF json_encode_location
<1>18. \E b : ScriptGood(Document(Top, B \o C), b, kind)
  <2>1. SamplesOf({Top}) \subseteq AllSamples /\ Top # Text /\ Top \in M2 /\ Text \notin M2
    BY <1>7, RootFacts
  <2>2. BodyGood(B \o C, At(S, {Top}), At({Top}, M2), Printed({Top}, M2 \cup {Text}))
    BY <1>3, <1>6, <1>15
  <2> QED BY <1>16, <2>1, <2>2, DocumentGood
<1> QED BY <1>17, <1>18

---------------------------------------------------------------------------
(* {"state": {"reported": {...}}}                                            *)

Trunk == {Top, State, Reported}

\* The objects "state" and "reported".
LEMMA TrunkFacts ==
  /\ Level(Top) = 0 /\ Level(State) = 1 /\ Level(Reported) = 2
  /\ Top # State /\ Top # Reported /\ State # Reported /\ Text \notin Trunk /\ SamplesOf(Trunk) = {}
  /\ Lists(<<Top, State, Reported>>, Trunk) /\ Trunk \cap ConfigOwn = {}
  /\ \A o \in Trunk : o[2] \notin AllSamples
<1>1. /\ Top[1] = "root" /\ State[1] = "state" /\ Reported[1] = "reported" /\ Text[1] = "text"
      /\ Top[2] = NoSample /\ State[2] = NoSample /\ Reported[2] = NoSample
  BY DEF Top, Root, State, Reported, Text, Object
<1>2. Top # State /\ Top # Reported /\ State # Reported /\ Text # Top /\ Text # State /\ Text # Reported
  BY <1>1
<1>3. Lists(<<Top, State, Reported>>, Trunk)
  BY <1>2, ShortLists DEF Trunk
<1>4. Level(State) = 1 /\ Level(Reported) = 2
  BY <1>1 DEF Level
<1>5. NoSample[2] = 0
  BY DEF NoSample
<1>6. \A o \in Trunk : o[2] = NoSample
  BY <1>1 DEF Trunk
<1>7. SamplesOf(Trunk) = {}
  BY <1>5, <1>6 DEF SamplesOf
<1>8. Object("config", NoSample)[1] = "config" /\ Object("nod_list", NoSample)[1] = "nod_list"
  BY DEF Object
<1>9. Trunk \cap ConfigOwn = {}
  BY <1>1, <1>8 DEF Trunk, ConfigOwn
<1> QED BY <1>2, <1>3, <1>4, <1>6, <1>7, <1>9, RootFacts DEF Trunk

\* More about sequences that are put together.
LEMMA GluedAgain ==
  ASSUME NEW v, NEW t, NEW u, NEW w, Len(t) \in Nat, Len(u) \in Nat, Len(w) \in Nat, Glued(v, t \o u, w)
  PROVE  Glued(v, t, u \o w) /\ Len(u \o w) \in Nat
<1>1. PICK x, y : x = t \o u /\ y = u \o w
  OBVIOUS
<1>2. Glued(x, t, u) /\ Glued(y, u, w)
  BY <1>1, Concatenated
<1>3. /\ Len(x) = Len(t) + Len(u) /\ (\A i \in 1 .. Len(t) : x[i] = t[i]) /\ (\A i \in 1 .. Len(u) : x[Len(t) + i] = u[i])
      /\ Len(y) = Len(u) + Len(w) /\ (\A i \in 1 .. Len(u) : y[i] = u[i]) /\ (\A i \in 1 .. Len(w) : y[Len(u) + i] = w[i])
  BY <1>2 DEF Glued
<1>4. /\ Len(v) = Len(x) + Len(w) /\ (\A i \in 1 .. Len(x) : v[i] = x[i]) /\ (\A i \in 1 .. Len(w) : v[Len(x) + i] = w[i])
  BY <1>1 DEF Glued
<1>5. Len(v) = Len(t) + Len(y) /\ Len(y) \in Nat
  BY <1>3, <1>4
<1>6. ASSUME NEW i \in 1 .. Len(t) PROVE v[i] = t[i]
  <2>1. i \in 1 .. Len(x)
    BY <1>3
  <2> QED BY <1>3, <1>4, <2>1
<1>7. ASSUME NEW i \in 1 .. Len(y) PROVE v[Len(t) + i] = y[i]
  <2>1. CASE i <= Len(u)
    <3>1. i \in 1 .. Len(u) /\ Len(t) + i \in 1 .. Len(x)
      BY <1>3, <2>1
    <3>2. v[Len(t) + i] = x[Len(t) + i]
      BY <1>4, <3>1
    <3> QED BY <1>3, <3>1, <3>2
  <2>2. CASE i > Len(u)
    <3>1. PICK k : k = i - Len(u)
      OBVIOUS
    <3>2. k \in 1 .. Len(w) /\ i = Len(u) + k /\ Len(t) + i = Len(x) + k
      BY <1>3, <2>2, <3>1
    <3>3. v[Len(x) + k] = w[k] /\ y[Len(u) + k] = w[k]
      BY <1>3, <1>4, <3>2
    <3> QED BY <3>2, <3>3
  <2> QED BY <1>3, <2>1, <2>2
<1>8. Glued(v, t, y)
  BY <1>5, <1>6, <1>7 DEF Glued
<1> QED BY <1>1, <1>5, <1>8

\* One of the objects that are hung together after an error as well.
LEMMA HungEnds ==
  ASSUME NEW S, NEW parent, parent \in S, NEW o, o \in S, o # parent, Level(parent) < Level(o), NEW M,
         NEW T, T = S \ {o}, NEW e, e.held = T, M \subseteq e.made,
         NEW l, NEW kind, NEW Z, GoodFrom(Z, At(T, M), e, l, kind),
         NEW v, Glued(v, << <<Always(Attach(NoSample, parent, o))>> >>, Z)
  PROVE  GoodFrom(v, At(S, M), At(S, M), l, kind)
<1>1. PICK s, q, p : s = Always(Attach(NoSample, parent, o)) /\ q = At(S, M) /\ p = At(T, M)
  OBVIOUS
<1>2. s.op = "attach" /\ s.os[2] = o /\ s.always = TRUE
  BY <1>1 DEF Always, Attach, Step
<1>3. IsNote(q, S, M, {}) /\ IsNote(p, T, M, {}) /\ q.used \in Nat /\ p.used \in Nat
  BY <1>1, AtFacts
<1>4. PICK c : c = Before(Z, p, e, l, kind)
  OBVIOUS
<1>5. c.next = p /\ c.exit = e
  BY <1>4 DEF Before
<1>6. StepGood(s, q, c.next, c)
  BY <1>1, <1>3, <1>5, AttachNote
<1>7. Weaker(After(s, q), c.exit)
  <2>1. PICK r : r = After(s, q)
    OBVIOUS
  <2>2. r = Note(q.held \ {o}, q.made, q.due, q.done, q.sent, q.used)
    BY <1>2, <2>1 DEF After, CreateOps
  <2>3. r.held = q.held \ {o} /\ r.made = q.made
    BY <2>2 DEF Note
  <2>4. Weaker(r, e)
    BY <1>3, <2>3 DEF Weaker, IsNote
  <2> QED BY <1>5, <2>1, <2>4
<1>8. FunctionGood(<<s>>, <<q>>, c)
  BY <1>2, <1>3, <1>6, <1>7, SingleStep DEF ExitOps
<1>9. AtExit(<<s>>) /\ <<q>>[1] = q
  BY <1>2 DEF AtExit
<1> QED BY <1>1, <1>3, <1>4, <1>8, <1>9, PrependOne

\* ReportedDocument(): a body, and tests, around the two objects that are hung in.
LEMMA ReportedGood ==
  ASSUME NEW M, Trunk \subseteq M, Text \notin M,
         NEW body, BodyGood(body, At(Trunk, Trunk), At(Trunk, M), At(Trunk, M)),
         NEW checks, BodyGood(checks, At({Top}, M), At({Top}, M), Printed({Top}, M \cup {Text})), NEW kind
  PROVE  \E b : ScriptGood(ReportedDocument(body, checks), b, kind)
<1>1. PICK os : os = <<Top, State, Reported>>
  OBVIOUS
<1>2. PICK s1, s2 : s1 = Always(Attach(NoSample, State, Reported)) /\ s2 = Always(Attach(NoSample, Top, State))
  OBVIOUS
<1>3. PICK A, X, Y : /\ A = << <<Leaving(Create(NoSample, os, os))>> >> /\ X = << <<s1>>, <<s2>> >>
                     /\ Y = << <<PrintTree(Top)>>, <<Free(Top)>> >>
  OBVIOUS
<1>4. PICK e, l : e = Printed({Top}, M \cup {Text}) /\ l = Printed({}, M \cup {Text})
  OBVIOUS
<1>5. Len(A) = 1 /\ Len(X) = 2 /\ X[1] = <<s1>> /\ X[2] = <<s2>> /\ Len(body) \in Nat /\ Len(checks) \in Nat
  BY <1>3 DEF BodyGood
<1>6. GoodFrom(Y, At({Top}, M), e, l, kind) /\ Len(Y) = 2
  BY <1>3, <1>4, PrintEnds
<1>7. PICK Y3 : Y3 = checks \o Y
  OBVIOUS
<1>8. GoodFrom(Y3, At({Top}, M), e, l, kind) /\ Len(Y3) \in Nat
  <2>1. Glued(Y3, checks, Y) /\ Len(Y3) \in Nat
    BY <1>5, <1>6, <1>7, Concatenated
  <2> QED BY <1>4, <1>6, <2>1, PrependBody
<1>9. PICK Y2, Y1 : Y2 = << <<s2>> >> \o Y3 /\ Y1 = X \o Y3
  OBVIOUS
<1>10. Glued(Y2, << <<s2>> >>, Y3) /\ Glued(Y1, X, Y3) /\ Len(Y1) \in Nat /\ Len(Y2) \in Nat /\ Len(Y2) = 1 + Len(Y3)
  <2>1. Len(<< <<s2>> >>) = 1
    OBVIOUS
  <2> QED BY <1>5, <1>8, <1>9, <2>1, Concatenated
<1>11. GoodFrom(Y2, At({Top, State}, M), At({Top, State}, M), l, kind)
  <2>1. PICK S, T : S = {Top, State} /\ T = {Top}
    BY Zenon
  <2>2. /\ Top \in S /\ State \in S /\ State # Top /\ Level(Top) < Level(State) /\ T = S \ {State}
        /\ e.held = T /\ M \subseteq e.made
    BY <1>4, <2>1, TrunkFacts, AtFacts
  <2>3. GoodFrom(Y3, At(T, M), e, l, kind)
    BY <1>8, <2>1
  <2>4. GoodFrom(Y2, At(S, M), At(S, M), l, kind)
    BY <1>2, <1>10, <2>2, <2>3, HungEnds
  <2> QED BY <2>1, <2>4
<1>12. Glued(Y1, << <<s1>> >>, Y2)
  <2>1. Len(<< <<s1>> >>) = 1 /\ << <<s1>> >>[1] = <<s1>> /\ << <<s2>> >>[1] = <<s2>> /\ Len(<< <<s2>> >>) = 1
    OBVIOUS
  <2>2. Len(Y1) = 2 + Len(Y3) /\ (\A i \in 1 .. 2 : Y1[i] = X[i]) /\ (\A i \in 1 .. Len(Y3) : Y1[2 + i] = Y3[i])
    BY <1>5, <1>10 DEF Glued
  <2>3. Y2[1] = <<s2>> /\ (\A i \in 1 .. Len(Y3) : Y2[1 + i] = Y3[i])
    BY <1>10, <2>1 DEF Glued
  <2>4. Y1[1] = <<s1>> /\ Y1[2] = <<s2>>
    BY <1>5, <2>2
  <2>5. ASSUME NEW i \in 1 .. Len(Y2) PROVE Y1[1 + i] = Y2[i]
    <3>1. CASE i = 1
      BY <2>3, <2>4, <3>1
    <3>2. CASE i > 1
      <4>1. PICK k : k = i - 1
        OBVIOUS
      <4>2. k \in 1 .. Len(Y3) /\ i = 1 + k /\ 1 + i = 2 + k
        BY <1>8, <1>10, <3>2, <4>1
      <4>3. Y1[2 + k] = Y3[k] /\ Y2[1 + k] = Y3[k]
        BY <2>2, <2>3, <4>2
      <4> QED BY <4>2, <4>3
    <3> QED BY <3>1, <3>2
  <2>6. PICK F : F = << <<s1>> >>
    OBVIOUS
  <2>7. Len(F) = 1 /\ F[1] = <<s1>>
    BY <2>1, <2>6
  <2>8. /\ Len(Y1) = Len(F) + Len(Y2) /\ (\A i \in 1 .. Len(F) : Y1[i] = F[i])
        /\ (\A i \in 1 .. Len(Y2) : Y1[Len(F) + i] = Y2[i])
    BY <1>8, <1>10, <2>2, <2>4, <2>5, <2>7
  <2>9. Glued(Y1, F, Y2)
    BY <1>10, <2>7, <2>8 DEF Glued
  <2> QED BY <2>6, <2>9
<1>13. GoodFrom(Y1, At(Trunk, M), At(Trunk, M), l, kind)
  <2>1. PICK T : T = {Top, State}
    BY Zenon
  <2>2. /\ State \in Trunk /\ Reported \in Trunk /\ Reported # State /\ Level(State) < Level(Reported)
        /\ T = Trunk \ {Reported} /\ At(T, M).held = T /\ M \subseteq At(T, M).made
    BY <2>1, TrunkFacts, AtFacts DEF Trunk, IsNote
  <2>3. GoodFrom(Y2, At(T, M), At(T, M), l, kind)
    BY <1>11, <2>1
  <2> QED BY <1>2, <1>12, <2>2, <2>3, HungEnds
<1>14. PICK Y0 : Y0 = body \o Y1
  OBVIOUS
<1>15. GoodFrom(Y0, At(Trunk, Trunk), At(Trunk, M), l, kind)
  <2>1. Glued(Y0, body, Y1)
    BY <1>5, <1>10, <1>14, Concatenated
  <2> QED BY <1>13, <2>1, PrependBody
<1>16. PICK V : V = (((A \o body) \o X) \o checks) \o Y
  OBVIOUS
<1>17. Glued(V, A, Y0)
  <2>1. Len(A \o body) \in Nat
    BY <1>5, Concatenated
  <2>2. PICK t : t = A \o body
    OBVIOUS
  <2>3. Len(t \o X) \in Nat /\ Len(t) \in Nat
    BY <1>5, <2>1, <2>2, Concatenated
  <2>4. PICK u : u = t \o X
    OBVIOUS
  <2>5. V = (u \o checks) \o Y /\ Len(u) \in Nat
    BY <1>16, <2>2, <2>3, <2>4
  <2>6. Glued(V, u, Y3)
    BY <1>5, <1>6, <1>7, <2>5, Concatenated
  <2>7. Glued(V, t, Y1)
    BY <1>5, <1>8, <1>9, <2>3, <2>4, <2>6, GluedAgain
  <2> QED BY <1>5, <1>10, <1>14, <2>2, <2>7, GluedAgain
<1>18. \E b : ScriptGood(V, b, kind)
  <2>1. IsNote(At(Trunk, Trunk), Trunk, Trunk, SamplesOf(Trunk))
    <3>1. IsNote(At(Trunk, Trunk), Trunk, Trunk, {})
      BY AtFacts
    <3> QED BY <3>1, TrunkFacts
  <2>2. l.held = {} /\ Trunk \subseteq l.made
    BY <1>4, AtFacts
  <2>3. Lists(os, Trunk) /\ SamplesOf(Trunk) \subseteq AllSamples /\ Text \notin Trunk
    BY <1>1, TrunkFacts
  <2> QED BY <1>3, <1>15, <1>17, <2>1, <2>2, <2>3, RootStarts
<1>19. V = ReportedDocument(body, checks)
  BY <1>1, <1>2, <1>3, <1>16, Zenon DEF ReportedDocument
<1> QED BY <1>18, <1>19

\* AWS IoT: the data message.
LEMMA awsDataGood == ASSUME NEW kind PROVE \E b : ScriptGood(aws_encode_data, b, kind)
<1>1. PICK M, e : M = Trunk \cup OwnUpTo(DataSample, 7) /\ e = Printed({Top}, M \cup {Text})
  OBVIOUS
<1>2. Text \notin M /\ Trunk \subseteq M
  <2>1. \A j : Text \notin Own(DataSample[j])
    BY OwnFacts
  <2> QED BY <1>1, <2>1, TrunkFacts DEF OwnUpTo
<1>3. Still(Trunk, M, At(Trunk, M)) /\ Still({Top}, M, e)
  BY <1>1, <1>2, AtFacts DEF Still, IsNote
<1>4. BodyGood(DataSamples(Reported), At(Trunk, Trunk), At(Trunk, M), At(Trunk, M))
  <2>1. Reported \in Trunk /\ Level(Reported) < 3 /\ Trunk \subseteq Trunk /\ \A o \in Trunk : o[2] \notin AllSamples
    BY TrunkFacts DEF Trunk
  <2> QED BY <1>1, <1>3, <2>1, DataBody
<1>5. BodyGood(<< <<NeedAdded>> >>, At({Top}, M), At({Top}, M), e)
  BY <1>3, NeedMakes
<1> QED BY <1>1, <1>2, <1>4, <1>5, ReportedGood DEF aws_encode_data

\* AWS IoT, nRF Cloud: the configuration.
LEMMA ReportedConfigGood ==
  ASSUME NEW kind PROVE \E b : ScriptGood(ReportedDocument(<<config_add(Reported)>>, << >>), b, kind)
<1>1. PICK M, e : M = Trunk \cup ConfigOwn /\ e = Printed({Top}, M \cup {Text})
  OBVIOUS
<1>2. Text \notin M /\ Trunk \subseteq M
  BY <1>1, TrunkFacts, ConfigObjects
<1>3. Still(Trunk, M, At(Trunk, M))
  BY <1>2, AtFacts DEF Still, IsNote
<1>4. BodyGood(<<config_add(Reported)>>, At(Trunk, Trunk), At(Trunk, M), At(Trunk, M))
  <2>1. Reported \in Trunk /\ Level(Reported) < 3 /\ Trunk \subseteq Trunk /\ Trunk \cap ConfigOwn = {}
    BY TrunkFacts DEF Trunk
  <2> QED BY <1>1, <1>3, <2>1, ConfigBody
<1>5. BodyGood(<< >>, At({Top}, M), At({Top}, M), e)
  BY AtFacts, NoFunctions
<1> QED BY <1>1, <1>2, <1>4, <1>5, ReportedGood

---------------------------------------------------------------------------
(* The calls that are written differently.                                   *)

\* The text is created.
LEMMA PrintGood ==
  ASSUME NEW root, NEW p, p.held = {root}, Text \notin p.made, p.used \in Nat,
         NEW q, q.held = {root}, p.made \cup {Text} \subseteq q.made, p.due \subseteq q.due,
         q.done \subseteq p.done, q.sent = AllSamples, q.used = p.used,
         NEW c, c.exit.held = {root}, p.made \subseteq c.exit.made,
         NEW s, s \in {PrintTree(root), Always(PrintTree(root))}
  PROVE  StepGood(s, p, q, c)
<1>1. s.op = "print" /\ s.os[1] = root /\ s.undo = << >> /\ s.leaves = FALSE
  BY DEF PrintTree, Always, Step
<1>2. New(s) = {} /\ Partly(s) = {{}} /\ Range(s.undo) = {} /\ Distinct(s.undo)
  <2>1. Range(<< >>) = {} /\ Distinct(<< >>)
    BY ShortLists DEF Lists
  <2> QED BY <1>1, <2>1 DEF New, Partly, CreateOps
<1>3. FailsWell(s, p, c)
  <2>1. Undone(s, p, c.exit)
    BY <1>2 DEF Undone
  <2> QED BY <1>1, <2>1 DEF FailsWell
<1>4. Follows(After(s, p), q)
  <2>1. PICK r : r = After(s, p)
    OBVIOUS
  <2>2. r = Note(p.held, p.made \cup {Text}, p.due, p.done, AllSamples, p.used)
    BY <1>1, <2>1 DEF After, CreateOps
  <2>3. /\ r.held = p.held /\ r.made = p.made \cup {Text} /\ r.due = p.due /\ r.done = p.done
        /\ r.sent = AllSamples /\ r.used = p.used
    BY <2>2 DEF Note
  <2>4. Follows(r, q)
    BY <2>3 DEF Follows, Weaker
  <2> QED BY <2>1, <2>4
<1>5. Named(s)
  <2>1. SamplesOf({}) = {}
    BY DEF SamplesOf
  <2> QED BY <1>1, <1>2, <2>1 DEF Named
<1>6. Finds(s, p) /\ Skips(s, p, c.next)
  BY <1>1 DEF Finds, Skips, CreateOps
<1> QED BY <1>1, <1>3, <1>4, <1>5, <1>6 DEF StepGood, FailOps, OtherOps, InitOps

\* Before the first request for a location.
LEMMA NoLocationGood == \E b : ScriptGood(json_encode_location({}), b, "excused")
<1>1. PICK M, S, p, q, l : /\ M = {Top, Text} /\ S = {Top} /\ p = At(S, S) /\ q = Printed(S, M) /\ l = Printed({}, M)
  BY Zenon
<1>2. /\ p.held = S /\ p.made = S /\ p.due = {} /\ p.done = {} /\ p.sent = {} /\ p.used = 0 /\ p.used \in Nat
      /\ q.held = S /\ q.made = M /\ q.due = {} /\ q.done = {} /\ q.sent = AllSamples /\ q.used = 0 /\ q.used \in Nat
      /\ l.held = {} /\ l.made = M
  BY <1>1, AtFacts DEF IsNote
<1>3. Top # Text /\ SamplesOf({Top}) = {}
  BY RootFacts
<1>4. PICK s, t, y : s = PresetError /\ t = Always(PrintTree(Top)) /\ y = Free(Top)
  OBVIOUS
<1>5. PICK Y1 : Y1 = << <<y>> >>
  OBVIOUS
<1>6. GoodFrom(Y1, q, q, l, "excused") /\ Len(Y1) = 1 /\ Y1[1] = <<y>>
  <2>1. q.held = {Top} /\ q.made \subseteq M /\ q.sent \subseteq AllSamples
    BY <1>1, <1>2
  <2>2. GoodFrom(Y1, q, q, l, "excused") /\ Len(Y1) = 1
    BY <1>1, <1>2, <1>4, <1>5, <2>1, FreeEnds
  <2> QED BY <1>5, <2>2
<1>7. PICK Y2 : Y2 = << <<t>>, <<y>> >>
  OBVIOUS
<1>8. Len(Y2) = 2 /\ Y2[1] = <<t>> /\ Y2[2] = <<y>>
  BY <1>7
<1>9. GoodFrom(Y2, p, p, l, "excused")
  <2>1. PICK c : c = Before(Y1, q, q, l, "excused")
    OBVIOUS
  <2>2. c.next = q /\ c.exit = q /\ c.kind = "excused"
    BY <2>1 DEF Before
  <2>3. t.op = "print" /\ t.always = TRUE
    BY <1>4 DEF Always, PrintTree, Step
  <2>4. StepGood(t, p, c.next, c)
    <3>1. /\ p.held = {Top} /\ Text \notin p.made /\ q.held = {Top} /\ p.made \cup {Text} \subseteq q.made
          /\ p.due \subseteq q.due /\ q.done \subseteq p.done /\ q.used = p.used /\ p.made \subseteq q.made
      BY <1>1, <1>2, <1>3
    <3> QED BY <1>2, <1>4, <2>2, <3>1, PrintGood
  <2>5. Weaker(After(t, p), c.exit)
    BY <2>2, <2>3, <2>4 DEF StepGood, Follows
  <2>6. FunctionGood(<<t>>, <<p>>, c)
    BY <1>2, <2>2, <2>3, <2>4, <2>5, SingleStep DEF ExitOps
  <2>7. AtExit(<<t>>) /\ <<p>>[1] = p /\ Len(<< <<t>> >>) = 1 /\ << <<t>> >>[1] = <<t>>
    BY <2>3 DEF AtExit
  <2>8. Glued(Y2, << <<t>> >>, Y1)
    BY <1>6, <1>8, <2>7 DEF Glued
  <2> QED BY <1>2, <1>6, <2>1, <2>6, <2>7, <2>8, PrependOne
<1>10. PICK Y3 : Y3 = << <<s>>, <<t>>, <<y>> >>
  OBVIOUS
<1>11. Len(Y3) = 3 /\ Y3[1] = <<s>> /\ Y3[2] = <<t>> /\ Y3[3] = <<y>>
  BY <1>10
<1>12. GoodFrom(Y3, p, p, l, "excused")
  <2>1. PICK c : c = Before(Y2, p, p, l, "excused")
    OBVIOUS
  <2>2. c.next = p /\ c.exit = p
    BY <2>1 DEF Before
  <2>3. s.op = "preset_error" /\ s.undo = << >> /\ s.always = FALSE /\ s.leaves = FALSE
    BY <1>4 DEF PresetError, Step
  <2>4. StepGood(s, p, c.next, c)
    <3>1. New(s) = {} /\ Partly(s) = {{}} /\ Range(s.undo) = {} /\ Distinct(s.undo)
      <4>1. Range(<< >>) = {} /\ Distinct(<< >>)
        BY ShortLists DEF Lists
      <4> QED BY <2>3, <4>1 DEF New, Partly, CreateOps
    <3>2. FailsWell(s, p, c)
      <4>1. Undone(s, p, p)
        BY <3>1 DEF Undone
      <4>2. Text \notin p.made
        BY <1>1, <1>2, <1>3
      <4> QED BY <2>2, <2>3, <4>1, <4>2 DEF FailsWell
    <3>3. Named(s) /\ Finds(s, p) /\ Skips(s, p, c.next)
      <4>1. SamplesOf({}) = {}
        BY DEF SamplesOf
      <4> QED BY <2>3, <3>1, <4>1 DEF Named, Finds, Skips, CreateOps
    <3> QED BY <2>3, <3>2, <3>3 DEF StepGood, FailOps, InitOps
  <2>5. FunctionGood(<<s>>, <<p>>, c)
    BY <1>2, <2>3, <2>4, SingleStep
  <2>6. ~AtExit(<<s>>) /\ <<p>>[1] = p /\ Len(<< <<s>> >>) = 1 /\ << <<s>> >>[1] = <<s>>
    BY <2>3 DEF AtExit
  <2>7. Glued(Y3, << <<s>> >>, Y2)
    BY <1>8, <1>11, <2>6 DEF Glued
  <2> QED BY <1>2, <1>9, <2>1, <2>5, <2>6, <2>7, PrependOne
<1>13. PICK os, u : os = <<Top>> /\ u = << >>
  OBVIOUS
<1>14. PICK a, V : a = Leaving(Create(NoSample, os, u)) /\ V = << <<a>>, <<s>>, <<t>>, <<y>> >>
  OBVIOUS
<1>15. \E b : ScriptGood(V, b, "excused")
  <2>1. Len(V) = 4 /\ V[1] = <<a>> /\ V[2] = <<s>> /\ V[3] = <<t>> /\ V[4] = <<y>>
    BY <1>14
  <2>2. Len(<< <<a>> >>) = 1 /\ << <<a>> >>[1] = <<a>>
    OBVIOUS
  <2>3. Glued(V, << <<a>> >>, Y3)
    BY <1>11, <2>1, <2>2 DEF Glued
  <2>4. Lists(os, S) /\ Lists(u, {})
    <3>1. Lists(os, {Top}) /\ Lists(u, {})
      BY <1>13, ShortLists
    <3> QED BY <1>1, <3>1
  <2>5. IsNote(p, S, S, SamplesOf(S))
    BY <1>1, <1>2, <1>3 DEF IsNote
  <2>6. \E U : /\ U = {} /\ Lists(u, U) /\ (u = << >> /\ U = {} /\ \E o : S = {o}) /\ SamplesOf(S) \subseteq AllSamples
               /\ Text \notin S /\ S \subseteq l.made
    BY <1>1, <1>2, <1>3, <1>13, <2>4
  <2> QED BY <1>2, <1>12, <1>14, <2>3, <2>4, <2>5, <2>6, RootStarts
<1>16. json_encode_location({}) = V
  BY <1>4, <1>13, <1>14, Zenon DEF json_encode_location
<1> QED BY <1>15, <1>16

\* A function that ends at the free of the root, which nothing else precedes.
LEMMA ThenFree ==
  ASSUME NEW root, NEW d, root = Root(d), NEW M, M = {root, Text}, NEW q, q = Printed({root}, M), NEW l, l = Printed({}, M),
         NEW Z, Z = << <<Free(root)>> >>, NEW kind, NEW c, c = Before(Z, q, q, l, kind),
         NEW f, Len(f) # 0, ~AtExit(f), StepsGood(f, Blank, c.next, c), NEW v, v = << f, <<Free(root)>> >>
  PROVE  \E b : ScriptGood(v, b, kind)
<1>1. /\ q.held = {root} /\ q.made = M /\ q.due = {} /\ q.done = {} /\ q.sent = AllSamples /\ q.used = 0 /\ q.used \in Nat
  BY AtFacts
<1>2. GoodFrom(Z, q, q, l, kind) /\ Len(Z) = 1
  <2>1. q.made \subseteq M /\ q.sent \subseteq AllSamples
    BY <1>1
  <2> QED BY <1>1, <2>1, FreeEnds
<1>3. PICK a : a[1] = Blank /\ FunctionGood(f, a, c)
  BY FunctionOfSteps
<1>4. Blank.used \in Nat
  BY DEF Blank, Note
<1>5. PICK y : y = <<Free(root)>>
  OBVIOUS
<1>6. Len(v) = 2 /\ v[1] = f /\ v[2] = y /\ Z[1] = y /\ Len(<<f>>) = 1 /\ <<f>>[1] = f
  BY <1>5
<1>7. Glued(v, <<f>>, Z)
  BY <1>2, <1>6 DEF Glued
<1>8. GoodFrom(v, Blank, q, l, kind)
  <2>1. PICK p : p = Blank
    OBVIOUS
  <2>2. PICK w : w = Before(Z, q, q, l, kind)
    OBVIOUS
  <2>3. w = c /\ FunctionGood(f, a, w) /\ a[1] = p /\ p.used \in Nat /\ q.used \in Nat
    BY <1>1, <1>3, <1>4, <2>1, <2>2
  <2>4. FunctionGood(f, a, Before(Z, q, q, l, kind))
    BY <2>2, <2>3
  <2>5. ~AtExit(f) => GoodFrom(v, p, q, l, kind)
    BY <1>2, <1>7, <2>3, <2>4, PrependOne
  <2> QED BY <2>1, <2>5
<1> QED BY <1>8, ToBlank

\* Nothing has been created: an error leads to a free of nothing.
LEMMA BlankNeeds ==
  ASSUME NEW d \in AllSamples, NEW c, c.frees
  PROVE  StepGood(NeedQueued(d, << >>), Blank, Blank, c)
<1>1. PICK s, p : s = NeedQueued(d, << >>) /\ p = Blank
  OBVIOUS
<1>2. s.op = "need_queued" /\ s.d = d /\ s.undo = << >> /\ s.leaves = FALSE
  BY <1>1 DEF NeedQueued, Step
<1>3. p.held = {} /\ p.made = {}
  BY <1>1 DEF Blank, Note
<1>4. New(s) = {} /\ Partly(s) = {{}}
  BY <1>2 DEF New, Partly, CreateOps
<1>5. FailsWell(s, p, c)
  BY <1>2, <1>3, <1>4 DEF FailsWell
<1>6. p.used \in Nat
  BY <1>1 DEF Blank, Note
<1>7. After(s, p) = p /\ Follows(p, p)
  BY <1>2, <1>6 DEF After, CreateOps, Follows, Weaker
<1>8. Named(s) /\ Finds(s, p) /\ Skips(s, p, c.next)
  <2>1. SamplesOf({}) = {}
    BY DEF SamplesOf
  <2> QED BY <1>2, <1>4, <2>1 DEF Named, Finds, Skips, CreateOps
<1> QED BY <1>1, <1>2, <1>5, <1>7, <1>8 DEF StepGood, FailOps, InitOps

\* nRF Cloud: a press, an impact.
LEMMA nrfSampleGood == ASSUME NEW d \in AllSamples, NEW kind PROVE \E b : ScriptGood(nrf_encode_sample(d), b, kind)
<1>1. PICK root : root = Root(d)
  OBVIOUS
<1>2. PICK S, M : S = {root} /\ M = {root, Text}
  BY Zenon
<1>3. PICK q, l, Z : q = Printed(S, M) /\ l = Printed({}, M) /\ Z = << <<Free(root)>> >>
  OBVIOUS
<1>4. PICK c : c = Before(Z, q, q, l, kind)
  OBVIOUS
<1>5. /\ q.held = S /\ q.made = M /\ q.due = {} /\ q.done = {} /\ q.sent = AllSamples /\ q.used = 0 /\ q.used \in Nat
      /\ l.held = {} /\ l.made = M
  BY <1>3, AtFacts
<1>6. c.next = q /\ c.exit = q /\ c.end = l /\ c.frees
  <2>1. OnlyFrees(Z, 1)
    <3>1. Len(Z) = 1 /\ Z[1] = <<Free(root)>> /\ Free(root).op = "free" /\ <<Free(root)>>[1] = Free(root)
      BY <1>3 DEF Free, Always, Step
    <3> QED BY <3>1 DEF OnlyFrees
  <2> QED BY <1>4, <2>1 DEF Before
<1>7. root # Text /\ SamplesOf({root}) \subseteq {d} /\ SamplesOf({root}) \subseteq AllSamples
  BY <1>1, RootFacts
<1>8. PICK x : IsNote(x, S, S, {d})
  BY SomeNote
<1>9. PICK z : z = Note(S, M, {d}, {}, AllSamples, 0)
  OBVIOUS
<1>10. z.held = S /\ z.made = M /\ z.due = {d} /\ z.done = {} /\ z.sent = AllSamples /\ z.used = 0 /\ z.used \in Nat
  BY <1>9 DEF Note
<1>11. PICK p : p = Blank
  OBVIOUS
<1>12. p.held = {} /\ p.made = {} /\ p.due = {} /\ p.done = {} /\ p.sent = {} /\ p.used = 0 /\ p.used \in Nat
  BY <1>11 DEF Blank, Note
<1>13. x.held = S /\ x.made = S /\ x.due = {d} /\ x.done = {} /\ x.sent = {} /\ x.used = 0 /\ x.used \in Nat
  BY <1>8 DEF IsNote
<1>14. PICK s1, s2, s3, s4 : /\ s1 = NeedQueued(d, << >>) /\ s2 = Leaving(Create(NoSample, <<Root(d)>>, << >>))
                             /\ s3 = Values(NoSample, << >>) /\ s4 = Convert(d, << >>)
  OBVIOUS
<1>15. PICK s6, s7 : s6 = PrintTree(root) /\ s7 = Clear(d)
  OBVIOUS
<1>16. StepGood(s1, p, p, c)
  BY <1>6, <1>11, <1>14, BlankNeeds
<1>17. StepGood(s2, p, x, c)
  <2>1. PICK os, u, O, U, e : os = <<Root(d)>> /\ u = << >> /\ O = S /\ U = {} /\ e = l
    BY Zenon
  <2>2. Lists(os, {root}) /\ Lists(u, {})
    BY <1>1, <2>1, ShortLists
  <2>3. /\ Lists(os, O) /\ SamplesOf(O) \subseteq AllSamples /\ p.made \cap O = {} /\ Text \notin p.made \cup O
        /\ p.made \cup O \subseteq e.made /\ Lists(u, U) /\ U \subseteq p.held \cup O /\ p.held \ U = e.held
        /\ (\E o : O = {o} /\ o \notin U) /\ x.held = p.held \cup O /\ p.made \cup O \subseteq x.made
        /\ p.due \cup (SamplesOf(O) \ p.done) \subseteq x.due /\ x.done \subseteq p.done /\ p.sent \subseteq x.sent
        /\ x.used = p.used
    <3>1. SamplesOf(O) \subseteq {d} /\ SamplesOf(O) \subseteq AllSamples
      BY <1>2, <1>7, <2>1
    <3>2. Lists(os, O) /\ Lists(u, U)
      BY <1>2, <2>1, <2>2
    <3> QED BY <1>2, <1>5, <1>7, <1>12, <1>13, <2>1, <3>1, <3>2
  <2>4. s2 = Leaving(Create(NoSample, os, u)) /\ e = c.end
    BY <1>6, <1>14, <2>1
  <2> QED BY <1>12, <2>3, <2>4, CreateGood
<1>18. Abandons(<< >>, x, c.exit)
  <2>1. x.held \ q.held = {} /\ Lists(<< >>, {})
    BY <1>5, <1>13, ShortLists
  <2> QED BY <1>2, <1>5, <1>6, <1>7, <1>13, <2>1 DEF Abandons
<1>19. StepGood(s3, x, x, c) /\ StepGood(s4, x, x, c)
  BY <1>8, <1>14, <1>18, TryNote
<1>20. StepGood(s6, x, z, c)
  <2>1. /\ x.held = {root} /\ Text \notin x.made /\ z.held = {root} /\ x.made \cup {Text} \subseteq z.made
        /\ x.due \subseteq z.due /\ z.done \subseteq x.done /\ z.sent = AllSamples /\ z.used = x.used
        /\ c.exit.held = {root} /\ x.made \subseteq c.exit.made
    BY <1>2, <1>5, <1>6, <1>7, <1>10, <1>13
  <2> QED BY <1>13, <1>15, <2>1, PrintGood
<1>21. StepGood(s7, z, q, c)
  BY <1>5, <1>10, <1>15, ClearGood
<1>22. PICK f : f = <<s1, s2, s3, s4, s3, s6, s7>>
  OBVIOUS
<1>23. StepsGood(f, p, q, c)
  BY <1>5, <1>10, <1>12, <1>13, <1>16, <1>17, <1>19, <1>20, <1>21, <1>22, SevenSteps
<1>24. Len(f) # 0 /\ ~AtExit(f)
  <2>1. Len(f) = 7 /\ f[1] = NeedQueued(d, << >>)
    BY <1>14, <1>22
  <2> QED BY <2>1, StartsNormally
<1>25. nrf_encode_sample(d) = << f, <<Free(root)>> >>
  BY <1>1, <1>14, <1>15, <1>22, Zenon DEF nrf_encode_sample
<1>26. StepsGood(f, Blank, c.next, c)
  BY <1>6, <1>11, <1>23
<1>27. q = Printed({root}, M)
  BY <1>2, <1>3
<1> QED BY <1>1, <1>2, <1>3, <1>4, <1>24, <1>25, <1>26, <1>27, ThenFree

\* nRF Cloud: a location request.
LEMMA nrfLocationGood == ASSUME NEW kind PROVE \E b : ScriptGood(nrf_encode_location, b, kind)
<1>0. PICK d : d = SampleOf("location") /\ d \in AllSamples
  <2>1. "location" \in Types
    BY DEF Types
  <2> QED BY <2>1, SampleNames
<1>1. PICK root : root = Root(d)
  OBVIOUS
<1>2. PICK S, M : S = {root} /\ M = {root, Text}
  BY Zenon
<1>3. PICK q, l, Z : q = Printed(S, M) /\ l = Printed({}, M) /\ Z = << <<Free(root)>> >>
  OBVIOUS
<1>4. PICK c : c = Before(Z, q, q, l, kind)
  OBVIOUS
<1>5. /\ q.held = S /\ q.made = M /\ q.due = {} /\ q.done = {} /\ q.sent = AllSamples /\ q.used = 0 /\ q.used \in Nat
  BY <1>3, AtFacts
<1>6. c.next = q /\ c.exit = q /\ c.frees
  <2>1. OnlyFrees(Z, 1)
    <3>1. Len(Z) = 1 /\ Z[1] = <<Free(root)>> /\ Free(root).op = "free" /\ <<Free(root)>>[1] = Free(root)
      BY <1>3 DEF Free, Always, Step
    <3> QED BY <3>1 DEF OnlyFrees
  <2> QED BY <1>4, <2>1 DEF Before
<1>7. root # Text /\ SamplesOf({root}) \subseteq {d} /\ SamplesOf({root}) \subseteq AllSamples
  BY <1>0, <1>1, RootFacts
<1>8. PICK x, z : x = Note(S, S, {d}, {}, {}, 0) /\ z = Note(S, M, {d}, {}, AllSamples, 0)
  OBVIOUS
<1>9. /\ x.held = S /\ x.made = S /\ x.due = {d} /\ x.done = {} /\ x.sent = {} /\ x.used = 0 /\ x.used \in Nat
      /\ z.held = S /\ z.made = M /\ z.due = {d} /\ z.done = {} /\ z.sent = AllSamples /\ z.used = 0 /\ z.used \in Nat
  BY <1>8 DEF Note
<1>10. PICK p : p = Blank
  OBVIOUS
<1>11. p.held = {} /\ p.made = {} /\ p.due = {} /\ p.done = {} /\ p.sent = {} /\ p.used = 0 /\ p.used \in Nat
  BY <1>10 DEF Blank, Note
<1>12. PICK s1, s2, s3, s4 : /\ s1 = NeedQueued(d, << >>) /\ s2 = Create(NoSample, <<root>>, << >>)
                             /\ s3 = PrintTree(root) /\ s4 = Clear(d)
  OBVIOUS
<1>13. StepGood(s1, p, p, c)
  BY <1>0, <1>6, <1>10, <1>12, BlankNeeds
<1>14. StepGood(s2, p, x, c)
  <2>1. s2.op = "create" /\ s2.os = <<root>> /\ s2.undo = << >> /\ s2.leaves = FALSE
    BY <1>12 DEF Create, Step
  <2>2. New(s2) = S /\ Partly(s2) = {{}}
    <3>1. Range(s2.os) = {root}
      BY <2>1, ShortLists DEF Lists
    <3>2. (SUBSET {root}) \ {{root}} = {{}}
      OBVIOUS
    <3> QED BY <1>2, <2>1, <3>1, <3>2 DEF New, Partly, CreateOps
  <2>3. SamplesOf(S) \subseteq {d} /\ SamplesOf(S) \subseteq AllSamples
    BY <1>2, <1>7
  <2>4. Follows(After(s2, p), x)
    <3>1. PICK r : r = After(s2, p)
      OBVIOUS
    <3>2. r = Note(p.held \cup S, p.made \cup S, p.due \cup (SamplesOf(S) \ p.done), p.done, p.sent, p.used)
      BY <2>1, <2>2, <3>1 DEF After, CreateOps
    <3>3. /\ r.held = p.held \cup S /\ r.made = p.made \cup S /\ r.due = p.due \cup (SamplesOf(S) \ p.done)
          /\ r.done = p.done /\ r.sent = p.sent /\ r.used = p.used
      BY <3>2 DEF Note
    <3>4. Follows(r, x)
      BY <1>9, <1>11, <2>3, <3>3 DEF Follows, Weaker
    <3> QED BY <3>1, <3>4
  <2>5. FailsWell(s2, p, c)
    BY <1>6, <1>11, <2>1, <2>2 DEF FailsWell
  <2>6. Named(s2) /\ Finds(s2, p) /\ Skips(s2, p, c.next)
    BY <1>2, <1>7, <1>11, <2>1, <2>2, <2>3 DEF Named, Finds, Skips, CreateOps
  <2> QED BY <2>1, <2>4, <2>5, <2>6 DEF StepGood, FailOps, InitOps
<1>15. StepGood(s3, x, z, c)
  <2>1. /\ x.held = {root} /\ Text \notin x.made /\ z.held = {root} /\ x.made \cup {Text} \subseteq z.made
        /\ x.due \subseteq z.due /\ z.done \subseteq x.done /\ z.sent = AllSamples /\ z.used = x.used
        /\ c.exit.held = {root} /\ x.made \subseteq c.exit.made
    BY <1>2, <1>5, <1>6, <1>7, <1>9
  <2> QED BY <1>9, <1>12, <2>1, PrintGood
<1>16. StepGood(s4, z, q, c)
  BY <1>5, <1>9, <1>12, ClearGood
<1>17. PICK f : f = <<s1, s2, s3, s4>>
  OBVIOUS
<1>18. StepsGood(f, p, q, c)
  BY <1>5, <1>9, <1>11, <1>13, <1>14, <1>15, <1>16, <1>17, FourSteps
<1>19. Len(f) # 0 /\ ~AtExit(f)
  <2>1. Len(f) = 4 /\ f[1] = NeedQueued(d, << >>)
    BY <1>12, <1>17
  <2> QED BY <2>1, StartsNormally
<1>20. nrf_encode_location = << f, <<Free(root)>> >>
  BY <1>0, <1>1, <1>12, <1>17, Zenon DEF nrf_encode_location
<1>21. StepsGood(f, Blank, c.next, c)
  BY <1>6, <1>10, <1>18
<1>22. q = Printed({root}, M)
  BY <1>2, <1>3
<1> QED BY <1>1, <1>2, <1>3, <1>4, <1>19, <1>20, <1>21, <1>22, ThenFree

---------------------------------------------------------------------------
(* LwM2M: nothing is created, but samples are written and paths listed.     *)

\* Of the samples A at most are with the engine, those in D have their flag still to clear.
Bare(p, D, A, n) ==
  /\ p.held = {} /\ p.made = {} /\ p.due = D /\ p.done = {} /\ p.sent = A /\ p.used = n /\ n \in Nat

\* There are such notes.
LEMMA SomeBare == ASSUME NEW n \in Nat PROVE \A D, A : \E p : Bare(p, D, A, n)
<1>1. ASSUME NEW D, NEW A PROVE \E p : Bare(p, D, A, n)
  <2>1. PICK p : p = Note({}, {}, D, {}, A, n)
    OBVIOUS
  <2>2. Bare(p, D, A, n)
    BY <2>1 DEF Note, Bare
  <2> QED BY <2>2
<1> QED BY <1>1

\* The blank note is one.
LEMMA BareFacts == Bare(Blank, {}, {}, 0) /\ Text \notin {}
  BY DEF Bare, Blank, Note

\* An error has nothing to delete.
LEMMA BareAbandons ==
  ASSUME NEW p, NEW D, NEW A, NEW n, Bare(p, D, A, n), NEW e, e.held = {}
  PROVE  p.used \in Nat /\ Abandons(<< >>, p, e)
<1>1. Lists(<< >>, {}) /\ p.held \ e.held = {}
  BY ShortLists DEF Bare
<1>2. p.used \in Nat /\ e.held \subseteq p.held /\ p.made \subseteq e.made /\ Text \notin p.made
  BY DEF Bare
<1> QED BY <1>1, <1>2 DEF Abandons

\* Steps that change nothing.
LEMMA BareTries ==
  ASSUME NEW p, NEW D, NEW A, NEW n, Bare(p, D, A, n), NEW c, c.exit.held = {}, NEW d
  PROVE  /\ StepGood(Check(d, << >>), p, p, c) /\ StepGood(NoteAdded(d), p, p, c) /\ StepGood(NeedAdded, p, p, c)
         /\ d \in AllSamples => StepGood(Convert(d, << >>), p, p, c) /\ StepGood(NeedQueued(d, << >>), p, p, c)
<1>1. p.used \in Nat /\ Abandons(<< >>, p, c.exit)
  BY BareAbandons
<1>2. \A x : \A op \in TryOps : StepGood(Step(op, x, << >>, << >>), p, p, c)
  BY <1>1, TryGood DEF TryOps, TakeOps
<1>3. ASSUME d \in AllSamples PROVE \A op \in TakeOps : StepGood(Step(op, d, << >>, << >>), p, p, c)
  BY <1>1, <1>3, TryGood DEF TryOps, TakeOps
<1>4. StepGood(NoteAdded(d), p, p, c)
  BY <1>1, QuietGood
<1> QED BY <1>2, <1>3, <1>4 DEF Check, NeedAdded, Convert, NeedQueued, TryOps, TakeOps

\* A step that may fail, with nothing to delete then.
LEMMA BareFails ==
  ASSUME NEW s, s.op \notin CreateOps, s.op # "preset_error", s.undo = << >>, s.leaves = FALSE,
         NEW p, NEW D, NEW A, NEW n, Bare(p, D, A, n), NEW c, c.exit.held = {}
  PROVE  FailsWell(s, p, c) /\ New(s) = {} /\ SamplesOf(New(s)) = {}
<1>1. New(s) = {} /\ Partly(s) = {{}}
  BY DEF New, Partly
<1>2. Distinct(s.undo) /\ Range(s.undo) = {}
  BY ShortLists DEF Lists
<1>3. Undone(s, p, c.exit)
  BY <1>1, <1>2 DEF Undone, Bare
<1>4. SamplesOf({}) = {}
  BY DEF SamplesOf
<1> QED BY <1>1, <1>3, <1>4 DEF FailsWell, Bare

\* A written sample is with the engine, its flag to clear.
LEMMA WriteGood ==
  ASSUME NEW d \in AllSamples \cup {NoSample}, NEW p, NEW D, NEW A, NEW n, Bare(p, D, A, n), NEW c, c.exit.held = {},
         NEW q, Bare(q, D \cup ({d} \ {NoSample, Cells}), AllSamples, n)
  PROVE  StepGood(Write(d), p, q, c)
<1>1. PICK s : s = Write(d)
  OBVIOUS
<1>2. s.op = "write" /\ s.d = d /\ s.undo = << >> /\ s.leaves = FALSE
  BY <1>1 DEF Write, Step
<1>3. FailsWell(s, p, c) /\ New(s) = {} /\ SamplesOf(New(s)) = {}
  BY <1>2, BareFails DEF CreateOps
<1>4. Follows(After(s, p), q)
  <2>1. PICK r : r = After(s, p)
    OBVIOUS
  <2>2. r = Note(p.held, p.made, p.due \cup ({d} \ {NoSample, Cells}), p.done, AllSamples, p.used)
    BY <1>2, <2>1 DEF After, CreateOps
  <2>3. /\ r.held = p.held /\ r.made = p.made /\ r.due = p.due \cup ({d} \ {NoSample, Cells})
        /\ r.done = p.done /\ r.sent = AllSamples /\ r.used = p.used
    BY <2>2 DEF Note
  <2>4. Follows(r, q)
    BY <2>3 DEF Follows, Weaker, Bare
  <2> QED BY <2>1, <2>4
<1>5. Named(s) /\ Finds(s, p) /\ Skips(s, p, c.next)
  BY <1>2, <1>3 DEF Named, Finds, Skips, CreateOps
<1> QED BY <1>1, <1>2, <1>3, <1>4, <1>5 DEF StepGood, FailOps, InitOps

\* Paths that fit are listed.
LEMMA AddPathsGood ==
  ASSUME NEW d, NEW k \in Nat, NEW p, NEW D, NEW A, NEW n, Bare(p, D, A, n), n + k <= PathsNeeded, NEW c, c.exit.held = {},
         NEW q, Bare(q, D, A, n + k)
  PROVE  StepGood(AddPaths(d, k), p, q, c)
<1>1. PICK s : s = AddPaths(d, k)
  OBVIOUS
<1>2. PICK os : os = [i \in 1 .. k |-> NoSample]
  OBVIOUS
<1>3. Len(os) = k
  <2>1. os = [i \in 1 .. k |-> os[i]]
    BY <1>2
  <2> QED BY <2>1, LengthOfList
<1>4. s.op = "add_paths" /\ s.d = d /\ s.os = os /\ s.undo = << >> /\ s.leaves = FALSE
  BY <1>1, <1>2 DEF AddPaths, Step
<1>5. FailsWell(s, p, c) /\ New(s) = {} /\ SamplesOf(New(s)) = {}
  BY <1>4, BareFails DEF CreateOps
<1>6. Follows(After(s, p), q)
  <2>1. PICK r : r = After(s, p)
    OBVIOUS
  <2>2. r = Note(p.held, p.made, p.due, p.done, p.sent, p.used + Len(s.os))
    BY <1>4, <2>1 DEF After, CreateOps
  <2>3. /\ r.held = p.held /\ r.made = p.made /\ r.due = p.due
        /\ r.done = p.done /\ r.sent = p.sent /\ r.used = p.used + k
    BY <1>3, <1>4, <2>2 DEF Note
  <2>4. Follows(r, q)
    BY <2>3 DEF Follows, Weaker, Bare
  <2> QED BY <2>1, <2>4
<1>7. Finds(s, p)
  BY <1>3, <1>4 DEF Finds, CreateOps, Bare
<1>8. Named(s) /\ Skips(s, p, c.next)
  BY <1>4, <1>5 DEF Named, Skips, CreateOps
<1> QED BY <1>1, <1>4, <1>5, <1>6, <1>7, <1>8 DEF StepGood, FailOps, InitOps

\* A flag is cleared.
LEMMA BareClear ==
  ASSUME NEW d, NEW p, NEW D, NEW A, NEW n, Bare(p, D, A, n), NEW c, NEW q, Bare(q, D \ {d}, A, n)
  PROVE  StepGood(Clear(d), p, q, c)
<1>1. /\ p.used \in Nat /\ q.held = p.held /\ p.made \subseteq q.made /\ p.due \ {d} \subseteq q.due
      /\ q.done \subseteq p.done \cup {d} /\ p.sent \subseteq q.sent /\ q.used = p.used
  BY DEF Bare
<1> QED BY <1>1, ClearGood

\* Nothing follows a refusal.
LEMMA NotSupportedGood ==
  ASSUME NEW p, NEW D, NEW A, NEW n, Bare(p, D, A, n), NEW c, c.exit.held = {}, NEW q
  PROVE  StepGood(NotSupported, p, q, c)
<1>1. PICK s : s = NotSupported
  OBVIOUS
<1>2. s.op = "not_supported" /\ s.undo = << >> /\ s.leaves = FALSE
  BY <1>1 DEF NotSupported, Step
<1>3. FailsWell(s, p, c) /\ New(s) = {} /\ SamplesOf(New(s)) = {}
  BY <1>2, BareFails DEF CreateOps
<1>4. Named(s) /\ Finds(s, p) /\ Skips(s, p, c.next)
  BY <1>2, <1>3 DEF Named, Finds, Skips, CreateOps
<1> QED BY <1>1, <1>2, <1>3, <1>4 DEF StepGood, FailOps, InitOps

\* The steps of cloud_codec_init().
LEMMA EngineGood ==
  ASSUME NEW op \in InitOps, NEW p, NEW D, NEW A, NEW n, Bare(p, D, A, n), NEW c, c.exit.held = {}, c.kind = "init"
  PROVE  StepGood(Step(op, NoSample, << >>, << >>), p, p, c)
<1>1. PICK s : s = Step(op, NoSample, << >>, << >>)
  OBVIOUS
<1>2. s.op = op /\ s.undo = << >> /\ s.leaves = FALSE /\ op \in {"set_config", "set_callbacks", "set_handler"}
  BY <1>1 DEF Step, InitOps
<1>3. FailsWell(s, p, c) /\ New(s) = {} /\ SamplesOf(New(s)) = {}
  BY <1>2, BareFails DEF CreateOps
<1>4. Named(s) /\ Finds(s, p) /\ Skips(s, p, c.next)
  BY <1>2, <1>3 DEF Named, Finds, Skips, CreateOps
<1>5. After(s, p) = p /\ Follows(p, p)
  <2>1. p.used \in Nat
    BY DEF Bare
  <2> QED BY <1>2, <2>1 DEF After, CreateOps, Follows, Weaker
<1> QED BY <1>1, <1>2, <1>3, <1>4, <1>5 DEF StepGood, FailOps, OtherOps

\* A script of one function.
LEMMA AloneGood ==
  ASSUME NEW l, l.held = {}, l.due = {}, l.used \in Nat, NEW kind, NEW f, Len(f) # 0, ~AtExit(f),
         \A c : c.next = l /\ c.exit = l /\ c.kind = kind => StepsGood(f, Blank, l, c)
  PROVE  \E b : ScriptGood(<<f>>, b, kind)
<1>1. PICK Z, v, p : Z = << >> /\ v = <<f>> /\ p = Blank
  OBVIOUS
<1>2. PICK c : c = Before(Z, l, l, l, kind)
  OBVIOUS
<1>3. c.next = l /\ c.exit = l /\ c.kind = kind
  BY <1>2 DEF Before
<1>4. StepsGood(f, Blank, c.next, c)
  BY <1>3
<1>5. PICK a : a[1] = p /\ FunctionGood(f, a, c)
  <2>1. \E a : a[1] = Blank /\ FunctionGood(f, a, c)
    BY <1>4, FunctionOfSteps
  <2> QED BY <1>1, <2>1
<1>6. p.used \in Nat
  BY <1>1 DEF Blank, Note
<1>7. Len(Z) = 0 /\ Len(v) = 1 /\ v[1] = f /\ Len(<<f>>) = 1 /\ <<f>>[1] = f
  BY <1>1
<1>8. Glued(v, <<f>>, Z)
  BY <1>7 DEF Glued
<1>9. GoodFrom(Z, l, l, l, kind)
  BY <1>7, FromNothing
<1>10. FunctionGood(f, a, Before(Z, l, l, l, kind))
  BY <1>2, <1>5
<1>11. ~AtExit(f) => GoodFrom(v, p, l, l, kind)
  BY <1>5, <1>6, <1>8, <1>9, <1>10, PrependOne
<1>12. GoodFrom(v, Blank, l, l, kind)
  BY <1>1, <1>11
<1>13. \E b : ScriptGood(v, b, kind)
  BY <1>12, ToBlank
<1> QED BY <1>1, <1>13

---------------------------------------------------------------------------
(* The scripts of the LwM2M codec.                                          *)

\* The samples that LwM2M writes and clears are not the cells.
LEMMA TypedSample ==
  ASSUME NEW t \in Types, t # "cells", NEW d, d = SampleOf(t)
  PROVE  d \in AllSamples /\ d # NoSample /\ d # Cells /\ {d} \ {NoSample, Cells} = {d}
<1>1. d \in AllSamples /\ d[1] = t /\ d[2] = 1
  BY SampleNames
<1>2. Cells[1] = "cells" /\ NoSample[2] = 0
  BY DEF Cells, SampleOf, NoSample
<1>3. d # NoSample /\ d # Cells
  BY <1>1, <1>2
<1> QED BY <1>1, <1>3

\* The types it writes.
LEMMA TypeNames ==
  /\ {"gnss", "dynamic", "static", "battery", "sensor", "ui", "agnss", "pgps", "cells"} \subseteq Types
  /\ "cells" \notin {"gnss", "dynamic", "static", "battery", "sensor", "ui", "agnss", "pgps"}
<1>1. {"gnss", "dynamic", "static", "battery", "sensor", "ui"} \subseteq Range(BufferTypes)
  <2>1. PICK B : B = BufferTypes
    OBVIOUS
  <2>2. DOMAIN B = 1 .. 7 /\ B[1] = "static" /\ B[2] = "dynamic" /\ B[3] = "gnss" /\ B[4] = "sensor" /\ B[5] = "ui" /\ B[7] = "battery"
    BY <2>1 DEF BufferTypes
  <2>3. {B[1], B[2], B[3], B[4], B[5], B[7]} \subseteq Range(B)
    BY <2>2 DEF Range
  <2> QED BY <2>1, <2>2, <2>3
<1> QED BY <1>1 DEF Types

\* How a sample is written: set_*_data(), before its paths are listed.
Writes(set, d) ==
  \/ set = <<IfQueued(d), Write(d)>>
  \/ \E t \in {Convert(d, << >>), Check(d, << >>)} : set = <<IfQueued(d), t, Write(d)>>

\* A sample is written, its k paths listed, its flag cleared.
LEMMA ListedMakes ==
  ASSUME NEW t \in Types, t # "cells", NEW d, d = SampleOf(t), NEW set, Writes(set, d), NEW k \in Nat,
         NEW A, A \subseteq AllSamples, NEW p, NEW n, Bare(p, {}, A, n),
         NEW r, Bare(r, {}, AllSamples, n + k), n + k <= PathsNeeded, NEW e, e.held = {}
  PROVE  MakesOf(Listed(set, k), p, r, e)
<1>1. d \in AllSamples /\ d # NoSample /\ {d} \ {NoSample, Cells} = {d}
  BY TypedSample
<1>2. n \in Nat /\ n + k \in Nat
  BY DEF Bare
<1>3. PICK w : Bare(w, {d}, AllSamples, n)
  BY <1>2, SomeBare
<1>4. PICK x : Bare(x, {d}, AllSamples, n + k)
  BY <1>2, SomeBare
<1>5. p.used \in Nat /\ w.used \in Nat /\ x.used \in Nat /\ r.used \in Nat
  BY <1>2, <1>3, <1>4 DEF Bare
<1>6. PICK rest : rest = <<AddPaths(d, k), Clear(d), NoteAdded(d)>>
  OBVIOUS
<1>7. Listed(set, k) = set \o rest
  <2>1. set[1] = IfQueued(d)
    BY DEF Writes
  <2>2. set[1].d = d
    BY <2>1 DEF IfQueued, Step
  <2> QED BY <1>6, <2>2, Zenon DEF Listed
<1>8. ASSUME NEW c, c.next = r, c.exit = e PROVE StepsGood(set \o rest, p, r, c)
  <2>1. StepGood(IfQueued(d), p, p, c)
    <3>1. PICK y : y = Note(p.held, p.made, p.due \ {d}, p.done, p.sent, p.used)
      OBVIOUS
    <3>2. y.held = {} /\ y.made = {} /\ y.due = {} /\ y.done = {} /\ y.sent = A /\ y.used = n
      BY <3>1 DEF Note, Bare
    <3>3. Follows(y, r)
      BY <1>2, <3>2 DEF Follows, Weaker, Bare
    <3>4. Follows(Note(p.held, p.made, p.due \ {d}, p.done, p.sent, p.used), c.next)
      BY <1>8, <3>1, <3>3
    <3> QED BY <1>1, <1>5, <3>4, QuietGood
  <2>2. StepGood(Write(d), p, w, c)
    <3>1. Bare(w, {} \cup ({d} \ {NoSample, Cells}), AllSamples, n)
      BY <1>1, <1>3
    <3> QED BY <1>1, <1>8, <3>1, WriteGood
  <2>3. StepGood(Convert(d, << >>), p, p, c) /\ StepGood(Check(d, << >>), p, p, c)
    BY <1>1, <1>8, BareTries
  <2>4. StepsGood(set, p, w, c)
    <3>1. CASE set = <<IfQueued(d), Write(d)>>
      BY <1>5, <2>1, <2>2, <3>1, TwoSteps
    <3>2. CASE \E s \in {Convert(d, << >>), Check(d, << >>)} : set = <<IfQueued(d), s, Write(d)>>
      <4>1. PICK s : StepGood(s, p, p, c) /\ set = <<IfQueued(d), s, Write(d)>>
        BY <2>3, <3>2, Zenon
      <4> QED BY <1>5, <2>1, <2>2, <4>1, ThreeSteps
    <3> QED BY <3>1, <3>2, Zenon DEF Writes
  <2>5. StepGood(AddPaths(d, k), w, x, c)
    BY <1>3, <1>4, <1>8, AddPathsGood
  <2>6. StepGood(Clear(d), x, r, c)
    <3>1. {d} \ {d} = {}
      OBVIOUS
    <3> QED BY <1>4, <3>1, BareClear
  <2>7. StepGood(NoteAdded(d), r, r, c)
    BY <1>8, BareTries
  <2>8. StepsGood(rest, w, r, c)
    BY <1>5, <1>6, <2>5, <2>6, <2>7, ThreeSteps
  <2> QED BY <2>4, <2>8, StepsJoin
<1>9. Len(set \o rest) \in Nat \ {0} /\ ~AtExit(set \o rest)
  <2>1. Len(set) \in Nat \ {0} /\ set[1] = IfQueued(d) /\ Len(rest) \in Nat
    BY <1>6 DEF Writes
  <2>2. Len(set \o rest) \in Nat \ {0} /\ (set \o rest)[1] = IfQueued(d)
    BY <2>1, FirstOfJoined
  <2> QED BY <2>2, StartsNormally
<1> QED BY <1>7, <1>8, <1>9 DEF MakesOf

\* LwM2M: the data message, 1 + 2 + 5 + 1 + 6 paths.
LEMMA lwm2mDataGood == ASSUME NEW kind PROVE \E b : ScriptGood(lwm2m_encode_data, b, kind)
<1>1. PICK p0, p1 : Bare(p0, {}, {}, 0) /\ p0 = Blank /\ Bare(p1, {}, AllSamples, 1)
  BY BareFacts, SomeBare
<1>2. PICK p2, p3, p4 : Bare(p2, {}, AllSamples, 3) /\ Bare(p3, {}, AllSamples, 8) /\ Bare(p4, {}, AllSamples, 9)
  BY SomeBare
<1>3. PICK l : Bare(l, {}, AllSamples, 15)
  BY SomeBare
<1>4. /\ p0.used \in Nat /\ p1.used \in Nat /\ p2.used \in Nat /\ p3.used \in Nat /\ p4.used \in Nat /\ l.used \in Nat
      /\ l.held = {} /\ l.due = {}
  BY <1>1, <1>2, <1>3 DEF Bare
<1>5. PathsNeeded = 15
  BY DEF PathsNeeded
<1>6. PICK d1, d2, d3, d4, d5 : /\ d1 = SampleOf("gnss") /\ d2 = SampleOf("dynamic") /\ d3 = SampleOf("static")
                                /\ d4 = SampleOf("battery") /\ d5 = SampleOf("sensor")
  OBVIOUS
<1>7. PICK f1 : f1 = Listed(set_gnss_data(d1), 1)
  OBVIOUS
<1>8. PICK f2 : f2 = Listed(set_modem_dynamic_data(d2), 2)
  OBVIOUS
<1>9. PICK f3 : f3 = Listed(set_modem_static_data(d3), 5)
  OBVIOUS
<1>10. PICK f4 : f4 = Listed(set_battery_data(d4), 1)
  OBVIOUS
<1>11. PICK f5 : f5 = Listed(set_sensor_data(d5), 6)
  OBVIOUS
<1>12. PICK f6 : f6 = <<NeedAdded>>
  OBVIOUS
<1>13. MakesOf(f1, p0, p1, l)
  <2>1. Writes(set_gnss_data(d1), d1)
    BY Zenon DEF Writes, set_gnss_data
  <2>2. "gnss" \in Types /\ "gnss" # "cells" /\ 0 + 1 = 1 /\ 1 <= PathsNeeded /\ {} \subseteq AllSamples
    BY <1>5, TypeNames
  <2> QED BY <1>1, <1>4, <1>6, <1>7, <2>1, <2>2, ListedMakes
<1>14. MakesOf(f2, p1, p2, l)
  <2>1. Writes(set_modem_dynamic_data(d2), d2)
    BY Zenon DEF Writes, set_modem_dynamic_data
  <2>2. "dynamic" \in Types /\ "dynamic" # "cells" /\ 1 + 2 = 3 /\ 3 <= PathsNeeded /\ AllSamples \subseteq AllSamples
    BY <1>5, TypeNames
  <2> QED BY <1>1, <1>2, <1>4, <1>6, <1>8, <2>1, <2>2, ListedMakes
<1>15. MakesOf(f3, p2, p3, l)
  <2>1. Writes(set_modem_static_data(d3), d3)
    BY Zenon DEF Writes, set_modem_static_data
  <2>2. "static" \in Types /\ "static" # "cells" /\ 3 + 5 = 8 /\ 8 <= PathsNeeded /\ AllSamples \subseteq AllSamples
    BY <1>5, TypeNames
  <2> QED BY <1>2, <1>4, <1>6, <1>9, <2>1, <2>2, ListedMakes
<1>16. MakesOf(f4, p3, p4, l)
  <2>1. Writes(set_battery_data(d4), d4)
    BY Zenon DEF Writes, set_battery_data
  <2>2. "battery" \in Types /\ "battery" # "cells" /\ 8 + 1 = 9 /\ 9 <= PathsNeeded /\ AllSamples \subseteq AllSamples
    BY <1>5, TypeNames
  <2> QED BY <1>2, <1>4, <1>6, <1>10, <2>1, <2>2, ListedMakes
<1>17. MakesOf(f5, p4, l, l)
  <2>1. Writes(set_sensor_data(d5), d5)
    BY Zenon DEF Writes, set_sensor_data
  <2>2. "sensor" \in Types /\ "sensor" # "cells" /\ 9 + 6 = 15 /\ 15 <= PathsNeeded /\ AllSamples \subseteq AllSamples
    BY <1>5, TypeNames
  <2> QED BY <1>2, <1>3, <1>4, <1>6, <1>11, <2>1, <2>2, ListedMakes
<1>18. MakesOf(f6, l, l, l)
  <2>1. ASSUME NEW c, c.exit = l PROVE StepsGood(f6, l, l, c)
    <3>1. c.exit.held = {}
      BY <1>4, <2>1
    <3>2. StepGood(NeedAdded, l, l, c)
      BY <1>3, <3>1, BareTries
    <3> QED BY <1>4, <1>12, <3>2, OneStep
  <2>2. Len(f6) = 1 /\ ~AtExit(f6)
    BY <1>12 DEF AtExit, NeedAdded, Step
  <2> QED BY <2>1, <2>2 DEF MakesOf
<1>19. PICK B : B = <<f1, f2, f3, f4, f5, f6>>
  OBVIOUS
<1>20. BodyGood(B, p0, l, l)
  <2>1. PICK b : b = <<p0, p1, p2, p3, p4, l, l>>
    OBVIOUS
  <2>2. /\ DOMAIN b = 1 .. 7 /\ b[1] = p0 /\ b[2] = p1 /\ b[3] = p2 /\ b[4] = p3 /\ b[5] = p4 /\ b[6] = l /\ b[7] = l
        /\ Len(B) = 6 /\ B[1] = f1 /\ B[2] = f2 /\ B[3] = f3 /\ B[4] = f4 /\ B[5] = f5 /\ B[6] = f6
    BY <1>19, <2>1
  <2>3. \A k \in 1 .. 7 : b[k].used \in Nat
    BY <1>4, <2>2
  <2>4. \A k \in 1 .. 6 : MakesOf(B[k], b[k], b[k + 1], l)
    BY <1>13, <1>14, <1>15, <1>16, <1>17, <1>18, <2>2
  <2> QED BY <2>2, <2>3, <2>4 DEF BodyGood
<1>21. PICK Z : Z = << >>
  OBVIOUS
<1>22. GoodFrom(Z, l, l, l, kind)
  <2>1. Len(Z) = 0
    BY <1>21
  <2> QED BY <1>4, <2>1, FromNothing
<1>23. Glued(B, B, Z)
  <2>1. Len(Z) = 0 /\ Len(B) = 6
    BY <1>19, <1>21
  <2> QED BY <2>1 DEF Glued
<1>24. GoodFrom(B, p0, l, l, kind)
  BY <1>20, <1>22, <1>23, PrependBody
<1>25. lwm2m_encode_data = B
  BY <1>6, <1>7, <1>8, <1>9, <1>10, <1>11, <1>12, <1>19, Zenon DEF lwm2m_encode_data
<1>26. \E b : ScriptGood(B, b, kind)
  BY <1>1, <1>24, ToBlank
<1> QED BY <1>25, <1>26

\* A press of the button.
LEMMA lwm2mPressGood == ASSUME NEW kind PROVE \E b : ScriptGood(lwm2m_encode_ui, b, kind)
<1>1. PICK d : d = SampleOf("ui")
  OBVIOUS
<1>2. d \in AllSamples /\ {d} \ {NoSample, Cells} = {d}
  BY <1>1, TypeNames, TypedSample
<1>3. PICK p, w : Bare(p, {}, {}, 0) /\ p = Blank /\ Bare(w, {d}, AllSamples, 0)
  BY BareFacts, SomeBare
<1>4. PICK x, l : Bare(x, {d}, AllSamples, 1) /\ Bare(l, {}, AllSamples, 1)
  BY SomeBare
<1>5. p.used \in Nat /\ w.used \in Nat /\ x.used \in Nat /\ l.used \in Nat /\ l.held = {} /\ l.due = {}
  BY <1>3, <1>4 DEF Bare
<1>6. PICK g, h : g = set_user_interface_data(d) /\ h = <<AddPaths(d, 1), Clear(d)>>
  OBVIOUS
<1>7. g = <<NeedQueued(d, << >>), Check(d, << >>), Convert(d, << >>), Write(d)>>
  BY <1>6, Zenon DEF set_user_interface_data
<1>8. ASSUME NEW c, c.exit = l PROVE StepsGood(g \o h, p, l, c)
  <2>0. c.exit.held = {}
    BY <1>5, <1>8
  <2>1. StepGood(NeedQueued(d, << >>), p, p, c) /\ StepGood(Check(d, << >>), p, p, c) /\ StepGood(Convert(d, << >>), p, p, c)
    BY <1>2, <1>3, <2>0, BareTries
  <2>2. StepGood(Write(d), p, w, c)
    <3>1. Bare(w, {} \cup ({d} \ {NoSample, Cells}), AllSamples, 0)
      BY <1>2, <1>3
    <3> QED BY <1>2, <1>3, <2>0, <3>1, WriteGood
  <2>3. StepsGood(g, p, w, c)
    BY <1>5, <1>7, <2>1, <2>2, FourSteps
  <2>4. StepGood(AddPaths(d, 1), w, x, c)
    <3>1. Bare(x, {d}, AllSamples, 0 + 1) /\ 0 + 1 <= PathsNeeded
      BY <1>4 DEF PathsNeeded
    <3> QED BY <1>3, <2>0, <3>1, AddPathsGood
  <2>5. StepGood(Clear(d), x, l, c)
    <3>1. {d} \ {d} = {}
      OBVIOUS
    <3> QED BY <1>4, <3>1, BareClear
  <2>6. StepsGood(h, w, l, c)
    BY <1>5, <1>6, <2>4, <2>5, TwoSteps
  <2> QED BY <2>3, <2>6, StepsJoin
<1>9. Len(g \o h) \in Nat \ {0} /\ ~AtExit(g \o h)
  <2>1. Len(g) \in Nat \ {0} /\ g[1] = NeedQueued(d, << >>) /\ Len(h) \in Nat
    BY <1>6, <1>7
  <2>2. Len(g \o h) \in Nat \ {0} /\ (g \o h)[1] = g[1]
    BY <2>1, FirstOfJoined
  <2>3. PICK y : y = g \o h
    OBVIOUS
  <2>4. y[1] \in {IfQueued(d), NeedQueued(d, << >>)}
    BY <2>1, <2>2, <2>3
  <2>5. ~AtExit(y)
    BY <2>4, StartsNormally
  <2> QED BY <2>2, <2>3, <2>5
<1>10. PICK f : f = g \o h
  OBVIOUS
<1>11. \A c : c.next = l /\ c.exit = l /\ c.kind = kind => StepsGood(f, Blank, l, c)
  BY <1>3, <1>8, <1>10
<1>12. Len(f) # 0 /\ ~AtExit(f)
  BY <1>9, <1>10
<1>13. \E b : ScriptGood(<<f>>, b, kind)
  BY <1>5, <1>11, <1>12, AloneGood
<1>14. lwm2m_encode_ui = <<f>>
  BY <1>1, <1>6, <1>10, Zenon DEF lwm2m_encode_ui
<1> QED BY <1>13, <1>14

\* One that writes the sample d and clears the flag of x; the flag of the cells stays.
LEMMA WrittenGood ==
  ASSUME NEW d \in AllSamples, NEW x, {d} \ {NoSample, Cells, x} = {}, NEW kind, NEW g, g = <<NeedQueued(d, << >>), Write(d)>>
  PROVE  \E b : ScriptGood(<<g \o <<Clear(x)>> >>, b, kind)
<1>1. PICK D : D = {} \cup ({d} \ {NoSample, Cells})
  BY Zenon
<1>2. PICK p, w, l : Bare(p, {}, {}, 0) /\ p = Blank /\ Bare(w, D, AllSamples, 0) /\ Bare(l, {}, AllSamples, 0)
  BY BareFacts, SomeBare
<1>3. p.used \in Nat /\ w.used \in Nat /\ l.used \in Nat /\ l.held = {} /\ l.due = {}
  BY <1>2 DEF Bare
<1>4. PICK h, f : h = <<Clear(x)>> /\ f = g \o h
  OBVIOUS
<1>5. ASSUME NEW c, c.exit = l PROVE StepsGood(g \o h, p, l, c)
  <2>0. c.exit.held = {}
    BY <1>3, <1>5
  <2>1. StepGood(NeedQueued(d, << >>), p, p, c)
    BY <1>2, <2>0, BareTries
  <2>2. StepGood(Write(d), p, w, c)
    BY <1>1, <1>2, <2>0, WriteGood
  <2>3. StepsGood(g, p, w, c)
    BY <1>3, <2>1, <2>2, TwoSteps
  <2>4. StepGood(Clear(x), w, l, c)
    <3>1. D \ {x} = {}
      BY <1>1
    <3> QED BY <1>2, <3>1, BareClear
  <2>5. StepsGood(h, w, l, c)
    BY <1>3, <1>4, <2>4, OneStep
  <2> QED BY <2>3, <2>5, StepsJoin
<1>6. Len(f) # 0 /\ ~AtExit(f)
  <2>1. Len(g) \in Nat \ {0} /\ g[1] = NeedQueued(d, << >>) /\ Len(h) \in Nat
    BY <1>4
  <2>2. Len(g \o h) \in Nat \ {0} /\ (g \o h)[1] = g[1]
    BY <2>1, FirstOfJoined
  <2>3. Len(f) # 0 /\ f[1] \in {IfQueued(d), NeedQueued(d, << >>)}
    BY <1>4, <2>1, <2>2
  <2> QED BY <2>3, StartsNormally
<1>7. \A c : c.next = l /\ c.exit = l /\ c.kind = kind => StepsGood(f, Blank, l, c)
  BY <1>2, <1>4, <1>5
<1>8. \E b : ScriptGood(<<f>>, b, kind)
  BY <1>3, <1>6, <1>7, AloneGood
<1> QED BY <1>4, <1>8

\* LwM2M: requests for a location and for assistance data.
LEMMA lwm2mRequestsGood ==
  ASSUME NEW kind
  PROVE  /\ \E b : ScriptGood(lwm2m_encode_location, b, kind)
         /\ \E b : ScriptGood(lwm2m_encode_agnss, b, kind)
         /\ \E b : ScriptGood(lwm2m_encode_pgps, b, kind)
<1>1. \E b : ScriptGood(lwm2m_encode_location, b, kind)
  <2>1. PICK d, x : d = Cells /\ x = SampleOf("location")
    OBVIOUS
  <2>2. d \in AllSamples
    BY <2>1, TypeNames, SampleNames DEF Cells
  <2>3. PICK g : g = <<NeedQueued(d, << >>), Write(d)>>
    OBVIOUS
  <2>4. {d} \ {NoSample, Cells, x} = {}
    BY <2>1
  <2>5. \E b : ScriptGood(<<g \o <<Clear(x)>> >>, b, kind)
    BY <2>2, <2>3, <2>4, WrittenGood
  <2>6. lwm2m_encode_location = <<g \o <<Clear(x)>> >>
    BY <2>1, <2>3, Zenon DEF lwm2m_encode_location, set_neighbor_cell_data, Cells
  <2> QED BY <2>5, <2>6
<1>2. \E b : ScriptGood(lwm2m_encode_agnss, b, kind)
  <2>1. PICK d : d = SampleOf("agnss")
    OBVIOUS
  <2>2. d \in AllSamples /\ {d} \ {NoSample, Cells, d} = {}
    BY <2>1, TypeNames, SampleNames
  <2>3. PICK g : g = <<NeedQueued(d, << >>), Write(d)>>
    OBVIOUS
  <2>4. \E b : ScriptGood(<<g \o <<Clear(d)>> >>, b, kind)
    BY <2>2, <2>3, WrittenGood
  <2>5. lwm2m_encode_agnss = <<g \o <<Clear(d)>> >>
    BY <2>1, <2>3, Zenon DEF lwm2m_encode_agnss, set_agnss_data
  <2> QED BY <2>4, <2>5
<1>3. \E b : ScriptGood(lwm2m_encode_pgps, b, kind)
  <2>1. PICK d : d = SampleOf("pgps")
    OBVIOUS
  <2>2. d \in AllSamples /\ {d} \ {NoSample, Cells, d} = {}
    BY <2>1, TypeNames, SampleNames
  <2>3. PICK g : g = <<NeedQueued(d, << >>), Write(d)>>
    OBVIOUS
  <2>4. \E b : ScriptGood(<<g \o <<Clear(d)>> >>, b, kind)
    BY <2>2, <2>3, WrittenGood
  <2>5. lwm2m_encode_pgps = <<g \o <<Clear(d)>> >>
    BY <2>1, <2>3, Zenon DEF lwm2m_encode_pgps, set_pgps_data
  <2> QED BY <2>4, <2>5
<1> QED BY <1>1, <1>2, <1>3

\* A codec that has no such message.
LEMMA RefusedGood ==
  ASSUME NEW kind
  PROVE  /\ \E b : ScriptGood(<< <<NotSupported>> >>, b, kind)
         /\ \A d : \E b : ScriptGood(<< <<Clear(d), NotSupported>> >>, b, kind)
<1>1. PICK p : Bare(p, {}, {}, 0) /\ p = Blank
  BY BareFacts
<1>2. p.used \in Nat /\ p.held = {} /\ p.due = {}
  BY <1>1 DEF Bare
<1>3. ASSUME NEW c, c.exit = p
      PROVE  StepsGood(<<NotSupported>>, p, p, c) /\ \A d : StepsGood(<<Clear(d), NotSupported>>, p, p, c)
  <2>1. StepGood(NotSupported, p, p, c)
    BY <1>1, <1>2, <1>3, NotSupportedGood
  <2>2. ASSUME NEW d PROVE StepGood(Clear(d), p, p, c)
    <3>1. {} \ {d} = {}
      OBVIOUS
    <3> QED BY <1>1, <3>1, BareClear
  <2> QED BY <1>2, <2>1, <2>2, OneStep, TwoSteps
<1>4. \E b : ScriptGood(<< <<NotSupported>> >>, b, kind)
  <2>1. PICK f : f = <<NotSupported>>
    OBVIOUS
  <2>2. Len(f) # 0 /\ ~AtExit(f)
    BY <2>1 DEF AtExit, NotSupported, Step
  <2>3. \A c : c.next = p /\ c.exit = p /\ c.kind = kind => StepsGood(f, Blank, p, c)
    BY <1>1, <1>3, <2>1
  <2> QED BY <1>2, <2>1, <2>2, <2>3, AloneGood
<1>5. ASSUME NEW d PROVE \E b : ScriptGood(<< <<Clear(d), NotSupported>> >>, b, kind)
  <2>1. PICK f : f = <<Clear(d), NotSupported>>
    OBVIOUS
  <2>2. Len(f) # 0 /\ ~AtExit(f)
    BY <2>1 DEF AtExit, Clear, Step
  <2>3. \A c : c.next = p /\ c.exit = p /\ c.kind = kind => StepsGood(f, Blank, p, c)
    BY <1>1, <1>3, <2>1
  <2> QED BY <1>2, <2>1, <2>2, <2>3, AloneGood
<1> QED BY <1>4, <1>5

\* Nothing to initialise.
LEMMA NoInitGood == ASSUME NEW kind PROVE \E b : ScriptGood(<< >>, b, kind)
<1>1. PICK l, Z : l = Blank /\ Z = << >>
  OBVIOUS
<1>2. l.held = {} /\ l.due = {} /\ l.used \in Nat /\ Len(Z) = 0
  BY <1>1 DEF Blank, Note
<1>3. GoodFrom(Z, l, l, l, kind)
  BY <1>2, FromNothing
<1>4. GoodFrom(Z, Blank, l, l, kind)
  BY <1>1, <1>3
<1> QED BY <1>1, <1>4, ToBlank

\* LwM2M: the initialisation.
LEMMA InitGood == \E b : ScriptGood(lwm2m_init, b, "init")
<1>1. PICK p, l : Bare(p, {}, {}, 0) /\ p = Blank /\ Bare(l, {}, AllSamples, 0)
  BY BareFacts, SomeBare
<1>2. p.used \in Nat /\ l.used \in Nat /\ l.held = {} /\ l.due = {}
  BY <1>1 DEF Bare
<1>3. PICK t, u : t = create_objects_and_resources /\ u = setup_resources
  OBVIOUS
<1>4. PICK v, w : v = setup_configuration_object /\ w = <<Step("set_handler", NoSample, << >>, << >>)>>
  OBVIOUS
<1>5. t = <<Write(NoSample)>> /\ u = <<Write(NoSample)>>
  BY <1>3 DEF create_objects_and_resources, setup_resources
<1>6. v = <<Step("set_config", NoSample, << >>, << >>), Step("set_callbacks", NoSample, << >>, << >>)>>
  BY <1>4, Zenon DEF setup_configuration_object, set_configuration, set_callback_for_config_object
<1>7. PICK f : f = t \o u \o v \o w
  OBVIOUS
<1>8. ASSUME NEW c, c.exit = l, c.kind = "init" PROVE StepsGood(f, p, l, c)
  <2>0. c.exit.held = {} /\ NoSample \in AllSamples \cup {NoSample}
    BY <1>2, <1>8
  <2>1. Bare(l, {} \cup ({NoSample} \ {NoSample, Cells}), AllSamples, 0)
    BY <1>1
  <2>2. StepGood(Write(NoSample), p, l, c)
    BY <1>1, <2>0, <2>1, WriteGood
  <2>3. StepGood(Write(NoSample), l, l, c)
    BY <1>1, <2>0, <2>1, WriteGood
  <2>4. \A op \in InitOps : StepGood(Step(op, NoSample, << >>, << >>), l, l, c)
    BY <1>1, <1>8, <2>0, EngineGood
  <2>5. /\ StepGood(Step("set_config", NoSample, << >>, << >>), l, l, c)
        /\ StepGood(Step("set_callbacks", NoSample, << >>, << >>), l, l, c)
        /\ StepGood(Step("set_handler", NoSample, << >>, << >>), l, l, c)
    BY <2>4 DEF InitOps
  <2>6. StepsGood(t, p, l, c) /\ StepsGood(u, l, l, c)
    BY <1>2, <1>5, <2>2, <2>3, OneStep
  <2>7. StepsGood(v, l, l, c)
    BY <1>2, <1>6, <2>5, TwoSteps
  <2>8. StepsGood(w, l, l, c)
    BY <1>2, <1>4, <2>5, OneStep
  <2>9. StepsGood(t \o u, p, l, c)
    BY <2>6, StepsJoin
  <2>10. StepsGood((t \o u) \o v, p, l, c)
    BY <2>7, <2>9, StepsJoin
  <2>11. StepsGood(((t \o u) \o v) \o w, p, l, c)
    BY <2>8, <2>10, StepsJoin
  <2> QED BY <1>7, <2>11
<1>9. Len(f) # 0 /\ ~AtExit(f)
  <2>1. Len(t) \in Nat \ {0} /\ t[1] = Write(NoSample) /\ Len(u) \in Nat /\ Len(v) \in Nat /\ Len(w) \in Nat
    BY <1>4, <1>5, <1>6
  <2>2. PICK x : x = t \o u
    OBVIOUS
  <2>3. Len(x) \in Nat \ {0} /\ x[1] = t[1]
    BY <2>1, <2>2, FirstOfJoined
  <2>4. PICK y : y = x \o v
    OBVIOUS
  <2>5. Len(y) \in Nat \ {0} /\ y[1] = x[1]
    BY <2>1, <2>3, <2>4, FirstOfJoined
  <2>6. Len(y \o w) \in Nat \ {0} /\ (y \o w)[1] = y[1]
    BY <2>1, <2>5, FirstOfJoined
  <2>7. f = y \o w
    BY <1>7, <2>2, <2>4, Zenon
  <2>8. Len(f) # 0 /\ f[1] = Write(NoSample)
    BY <2>1, <2>3, <2>5, <2>6, <2>7
  <2> QED BY <2>8 DEF AtExit, Write, Step
<1>10. \A c : c.next = l /\ c.exit = l /\ c.kind = "init" => StepsGood(f, Blank, l, c)
  BY <1>1, <1>8
<1>11. \E b : ScriptGood(<<f>>, b, "init")
  BY <1>2, <1>9, <1>10, AloneGood
<1>12. lwm2m_init = <<f>>
  BY <1>3, <1>4, <1>7, Zenon DEF lwm2m_init
<1> QED BY <1>11, <1>12

---------------------------------------------------------------------------
(* Every script of every cloud.                                             *)

\* The encoders that do not depend on a location request.
LEMMA EncodersGood ==
  ASSUME NEW c, c \in {"aws_iot", "azure_iot_hub", "nrf_cloud", "lwm2m"}, NEW kind
  PROVE  /\ \E b : ScriptGood(encode_data(c), b, kind)
         /\ \E b : ScriptGood(encode_batch_data(c), b, kind)
         /\ \E b : ScriptGood(encode_config(c), b, kind)
         /\ \E b : ScriptGood(encode_ui_data(c), b, kind)
         /\ \E b : ScriptGood(encode_impact_data(c), b, kind)
         /\ \E b : ScriptGood(encode_agnss_request(c), b, kind)
         /\ \E b : ScriptGood(encode_pgps_request(c), b, kind)
<1>0. \E b : ScriptGood(<< <<NotSupported>> >>, b, kind)
  BY RefusedGood
<1>1. \E b : ScriptGood(encode_data(c), b, kind)
  <2>1. CASE c = "aws_iot"
    <3>1. encode_data(c) = aws_encode_data
      BY <2>1 DEF encode_data
    <3> QED BY <3>1, awsDataGood
  <2>2. CASE c = "azure_iot_hub"
    <3>1. encode_data(c) = azure_encode_data
      BY <2>2 DEF encode_data
    <3> QED BY <3>1, azureDataGood
  <2>3. CASE c = "nrf_cloud"
    <3>1. encode_data(c) = << <<NotSupported>> >>
      BY <2>3 DEF encode_data
    <3> QED BY <1>0, <3>1
  <2>4. CASE c = "lwm2m"
    <3>1. encode_data(c) = lwm2m_encode_data
      BY <2>4 DEF encode_data
    <3> QED BY <3>1, lwm2mDataGood
  <2> QED BY <2>1, <2>2, <2>3, <2>4
<1>2. \E b : ScriptGood(encode_batch_data(c), b, kind)
  <2>1. CASE c \in {"aws_iot", "azure_iot_hub"}
    <3>1. encode_batch_data(c) = json_encode_batch
      BY <2>1 DEF encode_batch_data, azure_encode_batch
    <3> QED BY <3>1, BatchGood
  <2>2. CASE c = "nrf_cloud"
    <3>1. encode_batch_data(c) = nrf_encode_batch
      BY <2>2 DEF encode_batch_data
    <3> QED BY <3>1, nrfBatchGood
  <2>3. CASE c = "lwm2m"
    <3>1. encode_batch_data(c) = << <<NotSupported>> >>
      BY <2>3 DEF encode_batch_data
    <3> QED BY <1>0, <3>1
  <2> QED BY <2>1, <2>2, <2>3
<1>3. \E b : ScriptGood(encode_config(c), b, kind)
  <2>1. CASE c \in {"aws_iot", "nrf_cloud"}
    <3>1. encode_config(c) = ReportedDocument(<<config_add(Reported)>>, << >>)
      <4>1. CASE c = "aws_iot"
        <5>1. encode_config(c) = aws_encode_config
          BY <4>1 DEF encode_config
        <5> QED BY <5>1 DEF aws_encode_config
      <4>2. CASE c = "nrf_cloud"
        <5>1. encode_config(c) = nrf_encode_config
          BY <4>2 DEF encode_config
        <5> QED BY <5>1 DEF nrf_encode_config, nrf_config_add
      <4> QED BY <2>1, <4>1, <4>2
    <3> QED BY <3>1, ReportedConfigGood
  <2>2. CASE c = "azure_iot_hub"
    <3>1. encode_config(c) = azure_encode_config
      BY <2>2 DEF encode_config
    <3> QED BY <3>1, azureConfigGood
  <2>3. CASE c = "lwm2m"
    <3>1. encode_config(c) = << <<NotSupported>> >>
      BY <2>3 DEF encode_config
    <3> QED BY <1>0, <3>1
  <2> QED BY <2>1, <2>2, <2>3
<1>4. \E b : ScriptGood(encode_ui_data(c), b, kind)
  <2>1. CASE c \in {"aws_iot", "azure_iot_hub"}
    <3>1. encode_ui_data(c) = json_encode_ui
      BY <2>1 DEF encode_ui_data, azure_encode_ui
    <3> QED BY <3>1, PressGood
  <2>2. CASE c = "nrf_cloud"
    <3>1. encode_ui_data(c) = nrf_encode_sample(SampleOf("ui"))
      BY <2>2 DEF encode_ui_data, nrf_encode_ui
    <3>2. SampleOf("ui") \in AllSamples
      BY TypeNames, SampleNames
    <3> QED BY <3>1, <3>2, nrfSampleGood
  <2>3. CASE c = "lwm2m"
    <3>1. encode_ui_data(c) = lwm2m_encode_ui
      BY <2>3 DEF encode_ui_data
    <3> QED BY <3>1, lwm2mPressGood
  <2> QED BY <2>1, <2>2, <2>3
<1>5. \E b : ScriptGood(encode_impact_data(c), b, kind)
  <2>1. CASE c \in {"aws_iot", "azure_iot_hub"}
    <3>1. encode_impact_data(c) = json_encode_impact
      BY <2>1 DEF encode_impact_data, azure_encode_impact
    <3> QED BY <3>1, PressGood
  <2>2. CASE c = "nrf_cloud"
    <3>1. encode_impact_data(c) = nrf_encode_sample(SampleOf("impact"))
      BY <2>2 DEF encode_impact_data, nrf_encode_impact
    <3>2. SampleOf("impact") \in AllSamples
      <4>1. PICK B : B = BufferTypes
        OBVIOUS
      <4>2. DOMAIN B = 1 .. 7 /\ B[6] = "impact"
        BY <4>1 DEF BufferTypes
      <4>3. B[6] \in Range(B)
        BY <4>2 DEF Range
      <4> QED BY <4>1, <4>2, <4>3, SampleNames
    <3> QED BY <3>1, <3>2, nrfSampleGood
  <2>3. CASE c = "lwm2m"
    <3>1. encode_impact_data(c) = << <<NotSupported>> >>
      BY <2>3 DEF encode_impact_data
    <3> QED BY <1>0, <3>1
  <2> QED BY <2>1, <2>2, <2>3
<1>6. \E b : ScriptGood(encode_agnss_request(c), b, kind)
  <2>1. CASE c \in {"aws_iot", "azure_iot_hub"}
    <3>1. encode_agnss_request(c) = json_encode_agnss
      BY <2>1 DEF encode_agnss_request, azure_encode_agnss
    <3> QED BY <3>1, AssistanceGood
  <2>2. CASE c = "nrf_cloud"
    <3>1. encode_agnss_request(c) = << <<Clear(SampleOf("agnss")), NotSupported>> >>
      BY <2>2 DEF encode_agnss_request, nrf_encode_agnss
    <3> QED BY <3>1, RefusedGood
  <2>3. CASE c = "lwm2m"
    <3>1. encode_agnss_request(c) = lwm2m_encode_agnss
      BY <2>3 DEF encode_agnss_request
    <3> QED BY <3>1, lwm2mRequestsGood
  <2> QED BY <2>1, <2>2, <2>3
<1>7. \E b : ScriptGood(encode_pgps_request(c), b, kind)
  <2>1. CASE c \in {"aws_iot", "azure_iot_hub"}
    <3>1. encode_pgps_request(c) = json_encode_pgps
      BY <2>1 DEF encode_pgps_request, azure_encode_pgps
    <3> QED BY <3>1, AssistanceGood
  <2>2. CASE c = "nrf_cloud"
    <3>1. encode_pgps_request(c) = << <<Clear(SampleOf("pgps")), NotSupported>> >>
      BY <2>2 DEF encode_pgps_request, nrf_encode_pgps
    <3> QED BY <3>1, RefusedGood
  <2>3. CASE c = "lwm2m"
    <3>1. encode_pgps_request(c) = lwm2m_encode_pgps
      BY <2>3 DEF encode_pgps_request
    <3> QED BY <3>1, lwm2mRequestsGood
  <2> QED BY <2>1, <2>2, <2>3
<1> QED BY <1>1, <1>2, <1>3, <1>4, <1>5, <1>6, <1>7

\* Location requests.
LEMMA LocationsGood ==
  ASSUME NEW c, c \in {"aws_iot", "azure_iot_hub", "nrf_cloud", "lwm2m"}, NEW v \in Valid
  PROVE  \E b : ScriptGood(encode_cloud_location(c, v), b, Kind(c, "location", v))
<1>1. CASE c \in {"aws_iot", "azure_iot_hub"} /\ v = {}
  <2>1. encode_cloud_location(c, v) = json_encode_location({})
    BY <1>1 DEF encode_cloud_location, azure_encode_location
  <2>2. Kind(c, "location", v) = "excused"
    BY <1>1 DEF Kind
  <2> QED BY <2>1, <2>2, NoLocationGood
<1>2. CASE c \in {"aws_iot", "azure_iot_hub"} /\ v # {}
  <2>1. encode_cloud_location(c, v) = json_encode_location(v)
    BY <1>2 DEF encode_cloud_location, azure_encode_location
  <2> QED BY <1>2, <2>1, LocationGood
<1>3. CASE c = "nrf_cloud"
  <2>1. encode_cloud_location(c, v) = nrf_encode_location
    BY <1>3 DEF encode_cloud_location
  <2> QED BY <2>1, nrfLocationGood
<1>4. CASE c = "lwm2m"
  <2>1. encode_cloud_location(c, v) = lwm2m_encode_location
    BY <1>4 DEF encode_cloud_location
  <2> QED BY <2>1, lwm2mRequestsGood
<1> QED BY <1>1, <1>2, <1>3, <1>4

\* Every script is disciplined.
LEMMA EveryScript ==
  \A c \in Clouds, a \in Apis \cup {"init"}, v \in Valid : \E b : ScriptGood(ScriptOf(c, a, v), b, Kind(c, a, v))
<1> SUFFICES ASSUME NEW c \in Clouds, NEW a \in Apis \cup {"init"}, NEW v \in Valid
             PROVE  \E b : ScriptGood(ScriptOf(c, a, v), b, Kind(c, a, v))
  OBVIOUS
<1>1. c \in {"aws_iot", "azure_iot_hub", "nrf_cloud", "lwm2m"}
  BY CodecsAssumption
<1>2. PICK kind : kind = Kind(c, a, v)
  OBVIOUS
<1>3. CASE a = "init"
  <2>1. ScriptOf(c, a, v) = codec_init(c) /\ kind = "init"
    BY <1>2, <1>3 DEF ScriptOf, Kind
  <2>2. CASE c = "lwm2m"
    <3>1. codec_init(c) = lwm2m_init
      BY <2>2 DEF codec_init
    <3> QED BY <1>2, <2>1, <3>1, InitGood
  <2>3. CASE c # "lwm2m"
    <3>1. codec_init(c) = << >>
      BY <2>3 DEF codec_init
    <3> QED BY <2>1, <3>1, NoInitGood
  <2> QED BY <2>2, <2>3
<1>4. CASE a = "location"
  <2>1. ScriptOf(c, a, v) = encode_cloud_location(c, v)
    BY <1>4 DEF ScriptOf
  <2> QED BY <1>1, <1>4, <2>1, LocationsGood
<1>5. CASE a = "data"
  <2>1. ScriptOf(c, a, v) = encode_data(c)
    BY <1>5 DEF ScriptOf
  <2> QED BY <1>1, <2>1, EncodersGood
<1>6. CASE a = "batch"
  <2>1. ScriptOf(c, a, v) = encode_batch_data(c)
    BY <1>6 DEF ScriptOf
  <2> QED BY <1>1, <2>1, EncodersGood
<1>7. CASE a = "config"
  <2>1. ScriptOf(c, a, v) = encode_config(c)
    BY <1>7 DEF ScriptOf
  <2> QED BY <1>1, <2>1, EncodersGood
<1>8. CASE a = "ui"
  <2>1. ScriptOf(c, a, v) = encode_ui_data(c)
    BY <1>8 DEF ScriptOf
  <2> QED BY <1>1, <2>1, EncodersGood
<1>9. CASE a = "impact"
  <2>1. ScriptOf(c, a, v) = encode_impact_data(c)
    BY <1>9 DEF ScriptOf
  <2> QED BY <1>1, <2>1, EncodersGood
<1>10. CASE a = "agnss"
  <2>1. ScriptOf(c, a, v) = encode_agnss_request(c)
    BY <1>10 DEF ScriptOf
  <2> QED BY <1>1, <2>1, EncodersGood
<1>11. CASE a = "pgps"
  <2>1. ScriptOf(c, a, v) = encode_pgps_request(c)
    BY <1>11 DEF ScriptOf
  <2> QED BY <1>1, <2>1, EncodersGood
<1>12. a \in {"init", "location", "data", "batch", "config", "ui", "impact", "agnss", "pgps"}
  BY DEF Apis
<1> QED BY <1>3, <1>4, <1>5, <1>6, <1>7, <1>8, <1>9, <1>10, <1>11, <1>12

---------------------------------------------------------------------------
(* Trees                                                                    *)

\* There are six levels.
LEMMA LevelRange == ASSUME NEW o PROVE Level(o) \in 0 .. 5
  BY DEF Level

\* WithItems(h, {o}), five times.
LEMMA TreeParts ==
  ASSUME NEW h, NEW o
  PROVE  \E T : /\ T[0] = {o} /\ T[5] = Tree(h, o)
                /\ \A n \in 1 .. 5 : T[n] = WithItems(h, T[n - 1])
<1> DEFINE A == WithItems(h, {o})
           B == WithItems(h, A)
           C == WithItems(h, B)
           D == WithItems(h, C)
           T == [n \in 0 .. 5 |-> IF n = 0 THEN {o} ELSE IF n = 1 THEN A ELSE IF n = 2 THEN B
                                  ELSE IF n = 3 THEN C ELSE IF n = 4 THEN D ELSE WithItems(h, D)]
<1>1. T[5] = Tree(h, o)
  BY DEF Tree
<1>2. \A n \in 1 .. 5 : T[n] = WithItems(h, T[n - 1])
  <2> HIDE DEF A, B, C, D
  <2>1. /\ T[0] = {o} /\ T[1] = A /\ T[2] = B /\ T[3] = C /\ T[4] = D /\ T[5] = WithItems(h, D)
        /\ A = WithItems(h, {o}) /\ B = WithItems(h, A) /\ C = WithItems(h, B) /\ D = WithItems(h, C)
    BY DEF A, B, C, D
  <2> HIDE DEF T
  <2> QED BY <2>1
<1>3. T[0] = {o}
  OBVIOUS
<1> HIDE DEF T
<1> QED BY <1>1, <1>2, <1>3

\* A tree is closed under what is in its objects: no more than six levels.
LEMMA TreeFacts ==
  ASSUME NEW h, HeapOK(h), NEW o
  PROVE  /\ o \in Tree(h, o)
         /\ \A e \in h.in : e[2] \in Tree(h, o) => e[1] \in Tree(h, o)
         /\ \A x \in Tree(h, o) : x = o \/ \E e \in h.in : e[1] = x
         /\ Tree(h, o) \subseteq h.live \cup {o}
<1>1. PICK T : /\ T[0] = {o} /\ T[5] = Tree(h, o)
               /\ \A n \in 1 .. 5 : T[n] = WithItems(h, T[n - 1])
  BY TreeParts
<1>2. \A n \in 1 .. 5 : \A x : x \in T[n] <=> x \in T[n - 1] \/ \E e \in h.in : e[1] = x /\ e[2] \in T[n - 1]
  BY <1>1 DEF WithItems
<1> DEFINE Deep(n) == \A x \in T[n] : x \notin T[n - 1] => Level(x) >= n
<1>3. ASSUME NEW n \in 2 .. 5, Deep(n - 1) PROVE Deep(n)
  <2> SUFFICES ASSUME NEW x \in T[n], x \notin T[n - 1] PROVE Level(x) >= n
    OBVIOUS
  <2>1. PICK e \in h.in : e[1] = x /\ e[2] \in T[n - 1]
    BY <1>2
  <2>2. e[2] \notin T[(n - 1) - 1]
    BY <1>2, <2>1, n - 1 \in 1 .. 5
  <2>3. Level(e[2]) >= n - 1
    BY <1>3, <2>1, <2>2
  <2>4. Level(e[2]) < Level(x)
    BY <2>1 DEF HeapOK
  <2> QED BY <2>3, <2>4, LevelRange
<1>4. Deep(1)
  <2> SUFFICES ASSUME NEW x \in T[1], x \notin T[0] PROVE Level(x) >= 1
    BY 1 - 1 = 0
  <2>1. PICK e \in h.in : e[1] = x
    BY <1>2, 1 - 1 = 0
  <2> QED BY <2>1, LevelRange DEF HeapOK
<1>5. Deep(2) /\ Deep(3) /\ Deep(4) /\ Deep(5)
  <2> HIDE DEF Deep
  <2>1. Deep(2)
    BY <1>3, <1>4, 2 - 1 = 1
  <2>2. Deep(3)
    BY <1>3, <2>1, 3 - 1 = 2
  <2>3. Deep(4)
    BY <1>3, <2>2, 4 - 1 = 3
  <2> QED BY <1>3, <2>1, <2>2, <2>3, 5 - 1 = 4
<1>6. \A e \in h.in : e[2] \in T[5] => e[1] \in T[5]
  <2> SUFFICES ASSUME NEW e \in h.in, e[2] \in T[5], e[1] \notin T[5] PROVE FALSE
    OBVIOUS
  <2>1. e[2] \notin T[5 - 1]
    BY <1>2
  <2>2. Level(e[2]) >= 5 /\ Level(e[2]) < Level(e[1])
    BY <1>5, <2>1 DEF HeapOK
  <2> QED BY <2>2, LevelRange
<1>7. ASSUME NEW n \in 1 .. 5, o \in T[n - 1],
             \A x \in T[n - 1] : x = o \/ \E e \in h.in : e[1] = x
      PROVE  o \in T[n] /\ \A x \in T[n] : x = o \/ \E e \in h.in : e[1] = x
  BY <1>2, <1>7
<1>8. o \in T[5] /\ \A x \in T[5] : x = o \/ \E e \in h.in : e[1] = x
  <2> DEFINE Member(n) == o \in T[n] /\ \A x \in T[n] : x = o \/ \E e \in h.in : e[1] = x
  <2>1. Member(0)
    BY <1>1
  <2>2. \A n \in 1 .. 5 : Member(n - 1) => Member(n)
    BY <1>7
  <2> HIDE DEF Member
  <2>3. Member(1) /\ Member(2) /\ Member(3) /\ Member(4) /\ Member(5)
    BY <2>1, <2>2, 1 - 1 = 0, 2 - 1 = 1, 3 - 1 = 2, 4 - 1 = 3, 5 - 1 = 4
  <2> QED BY <2>3 DEF Member
<1>9. T[5] \subseteq h.live \cup {o}
  BY <1>8 DEF HeapOK
<1> QED BY <1>1, <1>6, <1>8, <1>9

\* What floats is above all the rest.
LEMMA AllUnderFloating ==
  ASSUME NEW h, HeapOK(h), NEW S, Floating(h) \subseteq S,
         \A e \in h.in : e[2] \in S => e[1] \in S
  PROVE  h.live \ {Text} \subseteq S
<1> DEFINE Above(n) == \A x \in h.live \ {Text} : Level(x) < n => x \in S
<1>1. Level(Text) = 5
  BY DEF Level, Text, Object
<1>2. ASSUME NEW n \in 0 .. 5, Above(n) PROVE Above(n + 1)
  <2> SUFFICES ASSUME NEW x \in h.live \ {Text}, Level(x) < n + 1, x \notin S PROVE FALSE
    OBVIOUS
  <2>1. PICK e \in h.in : e[1] = x
    BY DEF Floating
  <2>2. Level(e[2]) < Level(x) /\ e[2] \in h.live
    BY <2>1 DEF HeapOK
  <2>3. e[2] # Text /\ Level(e[2]) < n
    BY <1>1, <2>2, LevelRange
  <2> QED BY <1>2, <2>1, <2>2, <2>3
<1>3. Above(0)
  BY LevelRange
<1>4. Above(6)
  <2> HIDE DEF Above
  <2>1. Above(1) /\ Above(2) /\ Above(3)
    BY <1>2, <1>3, 0 + 1 = 1, 1 + 1 = 2, 2 + 1 = 3
  <2> QED BY <1>2, <2>1, 3 + 1 = 4, 4 + 1 = 5, 5 + 1 = 6
<1> QED BY <1>4, LevelRange

---------------------------------------------------------------------------
(* What the cJSON library does to a heap that is in order.                  *)

\* More objects, more samples.
LEMMA SamplesGrow ==
  ASSUME NEW S, NEW T
  PROVE  /\ S \subseteq T => SamplesOf(S) \subseteq SamplesOf(T)
         /\ SamplesOf(S \cup T) = SamplesOf(S) \cup SamplesOf(T)
  BY DEF SamplesOf

\* New objects float.
LEMMA AllocFacts ==
  ASSUME NEW h, HeapOK(h), NEW S, S \cap h.made = {}, Text \notin S, SamplesOf(S) \subseteq AllSamples,
         NEW g, g = Alloc(h, S)
  PROVE  /\ HeapOK(g) /\ Floating(g) = Floating(h) \cup S
         /\ g.made = h.made \cup S /\ g.live = h.live \cup S
<1>1. /\ DOMAIN g = {"live", "made", "in", "fault"} /\ g.fault = FALSE
      /\ g.live = h.live \cup S /\ g.made = h.made \cup S /\ g.in = h.in
  BY DEF HeapOK, Alloc
<1>2. HeapOK(g)
  BY <1>1, SamplesGrow DEF HeapOK
<1>3. Floating(g) = Floating(h) \cup S
  BY <1>1 DEF Floating, HeapOK
<1> QED BY <1>1, <1>2, <1>3

\* The text is in no tree.
LEMMA TextFacts ==
  ASSUME NEW h, HeapOK(h), NEW g, g = Alloc(h, {Text})
  PROVE  /\ HeapOK(g) /\ Floating(g) = Floating(h) /\ g.made = h.made \cup {Text}
         /\ SamplesOf(g.live) = SamplesOf(h.live)
<1>1. /\ DOMAIN g = {"live", "made", "in", "fault"} /\ g.fault = FALSE
      /\ g.live = h.live \cup {Text} /\ g.made = h.made \cup {Text} /\ g.in = h.in
  BY DEF HeapOK, Alloc
<1>2. Text[2][2] = 0
  BY DEF Text, Object, NoSample
<1>3. SamplesOf(g.live) = SamplesOf(h.live)
  BY <1>1, <1>2 DEF SamplesOf
<1>4. HeapOK(g)
  <2>1. /\ h.in \subseteq h.live \X h.live /\ h.live \subseteq h.made
        /\ SamplesOf(h.live) \subseteq AllSamples
        /\ \A e \in h.in : Level(e[2]) < Level(e[1])
    BY DEF HeapOK
  <2>2. g.in \subseteq g.live \X g.live
    BY <1>1, <2>1
  <2> QED BY <1>1, <1>3, <2>1, <2>2 DEF HeapOK
<1>5. Floating(g) = Floating(h)
  BY <1>1 DEF Floating
<1> QED BY <1>1, <1>3, <1>4, <1>5

\* A hung object floats no longer.
LEMMA PutFacts ==
  ASSUME NEW h, HeapOK(h), NEW p \in Floating(h), NEW o \in Floating(h), Level(p) < Level(o),
         NEW g, g = Put(h, p, o)
  PROVE  HeapOK(g) /\ Floating(g) = Floating(h) \ {o} /\ g.made = h.made /\ g.live = h.live
<1>1. /\ DOMAIN g = {"live", "made", "in", "fault"} /\ g.fault = FALSE
      /\ g.live = h.live /\ g.made = h.made /\ g.in = h.in \cup {<<o, p>>}
  BY DEF HeapOK, Put
<1>2. p \in h.live /\ o \in h.live
  BY DEF Floating
<1>3. HeapOK(g)
  BY <1>1, <1>2 DEF HeapOK
<1>4. ASSUME NEW x PROVE (\A e \in g.in : e[1] # x) <=> x # o /\ \A e \in h.in : e[1] # x
  <2>1. <<o, p>>[1] = o
    OBVIOUS
  <2> QED BY <1>1, <2>1
<1>5. Floating(g) = Floating(h) \ {o}
  BY <1>1, <1>4 DEF Floating
<1> QED BY <1>1, <1>3, <1>5

\* Objects that are deleted while they float, each at most once, are gone, with what is
\* in them.
LEMMA DeleteFacts ==
  ASSUME NEW h, HeapOK(h), NEW objects, Distinct(objects),
         \A i \in DOMAIN objects : objects[i] \in h.made => objects[i] \in Floating(h),
         NEW g, g = DeleteAll(h, objects)
  PROVE  /\ HeapOK(g) /\ Floating(g) = Floating(h) \ Range(objects) /\ g.made = h.made
         /\ g.live \subseteq h.live /\ g.live \cap Range(objects) = {}
<1> DEFINE made == {i \in DOMAIN objects : objects[i] \in h.made}
           gone == UNION {Tree(h, objects[i]) : i \in made}
<1>1. \A i \in made : objects[i] \in h.live /\ ~\E e \in h.in : e[1] = objects[i]
  BY DEF Floating
<1>2. \A i, j \in made : j < i => objects[i] \notin Tree(h, objects[j])
  <2> SUFFICES ASSUME NEW i \in made, NEW j \in made, j < i, objects[i] \in Tree(h, objects[j])
               PROVE FALSE
    OBVIOUS
  <2>1. objects[i] = objects[j]
    BY <1>1, TreeFacts
  <2> QED BY <2>1 DEF Distinct
<1>3. /\ DOMAIN g = {"live", "made", "in", "fault"} /\ g.fault = FALSE
      /\ g.live = h.live \ gone /\ g.made = h.made /\ g.in = {e \in h.in : e[1] \notin gone}
  <2>1. ~\E i \in made : \/ objects[i] \notin h.live
                         \/ \E e \in h.in : e[1] = objects[i]
                         \/ \E j \in made : j < i /\ objects[i] \in Tree(h, objects[j])
    BY <1>1, <1>2
  <2>2. h.fault = FALSE /\ DOMAIN h = {"live", "made", "in", "fault"}
    BY DEF HeapOK
  <2>3. g = [h EXCEPT !.live = @ \ gone, !.in = {e \in @ : e[1] \notin gone}, !.fault = FALSE]
    BY <2>1, <2>2 DEF DeleteAll
  <2> HIDE DEF gone, made
  <2> QED BY <2>2, <2>3
<1>4. \A e \in h.in : e[2] \in gone => e[1] \in gone
  BY TreeFacts
<1>5. \A i \in made : objects[i] \in gone
  BY TreeFacts
<1>6. Floating(h) \cap gone \subseteq Range(objects)
  <2> SUFFICES ASSUME NEW o \in Floating(h), NEW i \in made, o \in Tree(h, objects[i])
               PROVE o \in Range(objects)
    OBVIOUS
  <2>1. o = objects[i]
    BY TreeFacts DEF Floating
  <2> QED BY <2>1 DEF Range
<1>7. Range(objects) \cap h.live \subseteq gone
  BY <1>5 DEF Range, HeapOK
<1> HIDE DEF gone, made
<1>8. HeapOK(g)
  <2>1. SamplesOf(g.live) \subseteq SamplesOf(h.live)
    BY <1>3, SamplesGrow
  <2> QED BY <1>3, <1>4, <2>1 DEF HeapOK
<1>9. Floating(g) = Floating(h) \ Range(objects)
  BY <1>3, <1>6, <1>7 DEF Floating
<1> QED BY <1>3, <1>7, <1>8, <1>9

\* One object and all that is in it.
LEMMA DeleteOne ==
  ASSUME NEW h, HeapOK(h), NEW o, o \in h.made => o \in Floating(h), NEW g, g = Delete(h, o)
  PROVE  /\ HeapOK(g) /\ Floating(g) = Floating(h) \ {o} /\ g.made = h.made
         /\ g.live \subseteq h.live /\ o \notin g.live
<1>1. Distinct(<<o>>) /\ DOMAIN <<o>> = {1} /\ <<o>>[1] = o /\ Range(<<o>>) = {o}
  BY DEF Distinct, Range
<1> HIDE DEF DeleteAll
<1>2. g = DeleteAll(h, <<o>>)
  BY DEF Delete
<1> QED BY <1>1, <1>2, DeleteFacts

---------------------------------------------------------------------------
(* Where a step goes.  s is the step the call is at, p the note before it,  *)
(* c its circumstances.                                                     *)

AtStep(scr, b, kind, n, a, s, p, c) ==
  /\ ScriptGood(scr, b, kind) /\ FunctionNoted(scr, b, fn, n, kind, a)
  /\ fn \in 1 .. Len(scr) /\ pc \in 1 .. Len(scr[fn])
  /\ s = scr[fn][pc] /\ p = a[pc] /\ c = Context(scr, b, fn, n, kind)
  /\ HeapOK(heap) /\ Holds(scr, p) /\ doc \subseteq AllSamples /\ (kind = "excused" => Excused)

\* What a disciplined script says of the step the call is at.
LEMMA AtStepFacts ==
  ASSUME NEW scr, NEW b, NEW kind, NEW n, NEW a, NEW s, NEW p, NEW c,
         AtStep(scr, b, kind, n, a, s, p, c)
  PROVE  /\ Len(scr) \in Nat /\ fn \in 1 .. Len(scr) /\ Len(scr[fn]) \in Nat /\ pc \in 1 .. Len(scr[fn])
         /\ DOMAIN b = 1 .. Len(scr) + 1 /\ s = scr[fn][pc]
         /\ NextExit(scr, fn, n) /\ p.used \in Nat
         /\ StepGood(s, p, IF pc = Len(scr[fn]) THEN b[fn + 1] ELSE a[pc + 1], c)
         /\ c.next = b[fn + 1] /\ c.exit = b[n] /\ c.end = b[Len(scr) + 1]
         /\ c.kind = kind /\ c.frees = OnlyFrees(scr, fn + 1)
         /\ AtExit(scr[fn]) => /\ pc = 1 /\ Len(scr[fn]) = 1 /\ s.op \in ExitOps
                               /\ s.op = "print" => Excused
                               /\ Weaker(After(s, p), c.exit)
         /\ err # "ok" => AtExit(scr[fn])
<1>1. /\ ScriptGood(scr, b, kind) /\ NextExit(scr, fn, n) /\ FunctionGood(scr[fn], a, c)
      /\ fn \in 1 .. Len(scr) /\ pc \in 1 .. Len(scr[fn]) /\ s = scr[fn][pc] /\ p = a[pc]
      /\ err # "ok" /\ fn <= Len(scr) => AtExit(scr[fn])
      /\ kind = "excused" => Excused
  BY DEF AtStep, FunctionNoted, Holds
<1>2. /\ c.next = b[fn + 1] /\ c.exit = b[n] /\ c.end = b[Len(scr) + 1]
      /\ c.kind = kind /\ c.frees = OnlyFrees(scr, fn + 1)
  BY DEF AtStep, Context
<1>3. Len(scr) \in Nat /\ DOMAIN b = 1 .. Len(scr) + 1
  BY <1>1 DEF ScriptGood
<1>4. /\ Len(scr[fn]) \in Nat /\ p.used \in Nat
      /\ StepGood(s, p, IF pc = Len(scr[fn]) THEN b[fn + 1] ELSE a[pc + 1], c)
  BY <1>1, <1>2 DEF FunctionGood
<1>5. ASSUME AtExit(scr[fn])
      PROVE  /\ pc = 1 /\ Len(scr[fn]) = 1 /\ s.op \in ExitOps
             /\ s.op = "print" => Excused
             /\ Weaker(After(s, p), c.exit)
  BY <1>1, <1>2, <1>5 DEF FunctionGood
<1> QED BY <1>1, <1>2, <1>3, <1>4, <1>5

\* A function begins.
LEMMA Enter ==
  ASSUME NEW scr, NEW b, NEW kind, ScriptGood(scr, b, kind), NEW k \in 1 .. Len(scr) + 1,
         fn' = k, pc' = 1, Holds(scr, b[k])'
  PROVE  Noted(scr, kind)'
<1>1. Len(scr) \in Nat
  BY DEF ScriptGood
<1>2. CASE k = Len(scr) + 1
  <2>1. ~(fn' <= Len(scr)) /\ b[k] = b[fn'] /\ fn' \in 1 .. Len(scr) + 1
    BY <1>1, <1>2
  <2>2. Holds(scr, b[fn])'
    BY <2>1
  <2> QED BY <2>1, <2>2 DEF Noted
<1>3. CASE k <= Len(scr)
  <2>1. PICK n, a : FunctionNoted(scr, b, k, n, kind, a)
    BY <1>1, <1>3 DEF ScriptGood
  <2>2. a[1] = b[k] /\ 1 \in 1 .. Len(scr[k])
    BY <2>1 DEF FunctionNoted, FunctionGood
  <2>3. Holds(scr, a[pc])'
    BY <2>2
  <2>4. fn' # Len(scr) + 1
    BY <1>1, <1>3
  <2> QED BY <2>1, <2>2, <2>3, <2>4 DEF Noted
<1> QED BY <1>1, <1>2, <1>3

\* There is one exit.
LEMMA UniqueExit ==
  ASSUME NEW scr, Len(scr) \in Nat, NEW k \in 1 .. Len(scr), NEW n, NEW m,
         NextExit(scr, k, n), NextExit(scr, k, m)
  PROVE  n = m
  BY DEF NextExit

\* An exit that is next for Leave is next for the notes.
LEMMA LeaveAfterError ==
  ASSUME NEW scr, Len(scr) \in Nat, fn \in 1 .. Len(scr), NEW e, e # "ok", Leave(scr, e)
  PROVE  /\ NextExit(scr, fn, fn') /\ pc' = 1 /\ fn' \in fn + 1 .. Len(scr) + 1
         /\ fn' <= Len(scr) => AtExit(scr[fn'])
<1>1. PICK m \in fn + 1 .. Len(scr) + 1 :
        /\ m <= Len(scr) => AtExit(scr[m])
        /\ \A l \in fn + 1 .. m - 1 : ~AtExit(scr[l])
        /\ fn' = m /\ pc' = 1
  BY DEF Leave
<1> QED BY <1>1 DEF NextExit

\* Without an error a function is followed by the next.
LEMMA LeaveWell ==
  ASSUME NEW scr, Len(scr) \in Nat, fn \in 1 .. Len(scr), Leave(scr, "ok")
  PROVE  fn' = fn + 1 /\ pc' = 1
<1>1. PICK m \in fn + 1 .. Len(scr) + 1 :
        /\ \A l \in fn + 1 .. m - 1 : FALSE
        /\ fn' = m /\ pc' = 1
  BY DEF Leave
<1> QED BY <1>1

\* Later there are no more exits than before.
LEMMA FreesAhead ==
  ASSUME NEW scr, NEW k \in Nat, NEW m \in Nat, k <= m, OnlyFrees(scr, k) PROVE OnlyFrees(scr, m)
  BY DEF OnlyFrees

\* A step succeeds.
LEMMA Succeeds ==
  ASSUME NEW scr, NEW b, NEW kind, NEW n, NEW a, NEW s, NEW p, NEW c,
         AtStep(scr, b, kind, n, a, s, p, c),
         s.op \notin {"not_supported", "preset_error"}, err = "ok" \/ HeapHolds(p),
         Go(scr), HeapHolds(After(s, p))',
         err = "ok" => MessageHolds(After(s, p))', err # "ok" /\ Text \in heap'.live => Excused'
  PROVE  Noted(scr, kind)'
<1>1. /\ Len(scr) \in Nat /\ fn \in 1 .. Len(scr) /\ Len(scr[fn]) \in Nat /\ pc \in 1 .. Len(scr[fn])
      /\ NextExit(scr, fn, n) /\ c.exit = b[n] /\ c.next = b[fn + 1]
      /\ StepGood(s, p, IF pc = Len(scr[fn]) THEN b[fn + 1] ELSE a[pc + 1], c)
      /\ ScriptGood(scr, b, kind) /\ FunctionNoted(scr, b, fn, n, kind, a)
  BY AtStepFacts DEF AtStep
<1>2. err' = err /\ IF pc < Len(scr[fn]) THEN fn' = fn /\ pc' = pc + 1 ELSE Leave(scr, err)
  BY DEF Go
<1>3. CASE err # "ok"
  <2>1. AtExit(scr[fn]) /\ pc = 1 /\ Len(scr[fn]) = 1 /\ Weaker(After(s, p), b[n])
    BY <1>1, <1>3, AtStepFacts
  <2>2. Leave(scr, err)
    BY <1>2, <2>1
  <2>3. /\ fn' = n /\ pc' = 1 /\ n \in 1 .. Len(scr) + 1
        /\ fn' <= Len(scr) => AtExit(scr[fn'])
    BY <1>1, <1>3, <2>2, LeaveAfterError, UniqueExit
  <2>4. HeapHolds(b[n])'
    BY <2>1 DEF HeapHolds, Weaker
  <2>5. Holds(scr, b[n])'
    BY <1>2, <1>3, <2>3, <2>4 DEF Holds
  <2> QED BY <1>1, <2>3, <2>5, Enter
<1>4. CASE err = "ok"
  <2>1. PICK q : q = IF pc = Len(scr[fn]) THEN b[fn + 1] ELSE a[pc + 1]
    OBVIOUS
  <2>2. Follows(After(s, p), q)
    BY <1>1, <2>1 DEF StepGood
  <2>3. HeapHolds(q)' /\ MessageHolds(q)'
    <3>1. After(s, p).used \in Nat
      <4>1. p.used \in Nat /\ (s.op = "add_paths" => Len(s.os) \in Nat)
        BY <1>1, AtStepFacts DEF StepGood, Finds, CreateOps
      <4> QED BY <4>1 DEF After, Note
    <3>2. q.used \in Nat
      <4>0. DOMAIN a = 1 .. Len(scr[fn]) /\ \A i \in DOMAIN a : a[i].used \in Nat
        BY <1>1 DEF FunctionNoted, FunctionGood
      <4>1. pc # Len(scr[fn]) => pc + 1 \in DOMAIN a /\ a[pc + 1].used \in Nat
        BY <1>1, <4>0
      <4>2. b[fn + 1].used \in Nat
        BY <1>1 DEF ScriptGood
      <4> QED BY <2>1, <4>1, <4>2
    <3>3. HeapHolds(q)'
      BY <2>2 DEF Follows, Weaker, HeapHolds
    <3>4. MessageHolds(q)'
      BY <1>4, <2>2, <3>1, <3>2 DEF Follows, MessageHolds
    <3> QED BY <3>3, <3>4
  <2>4. Holds(scr, q)'
    BY <1>2, <1>4, <2>3 DEF Holds
  <2>5. CASE pc < Len(scr[fn])
    <3>1. fn' = fn /\ pc' = pc + 1 /\ q = a[pc'] /\ pc' \in 1 .. Len(scr[fn])
      BY <1>1, <1>2, <2>1, <2>5
    <3>2. Holds(scr, a[pc])'
      BY <2>4, <3>1
    <3>3. fn' \in 1 .. Len(scr) + 1 /\ fn' # Len(scr) + 1
      BY <1>1, <3>1
    <3>4. FunctionNoted(scr, b, fn', n, kind, a) /\ pc' \in 1 .. Len(scr[fn'])
      BY <1>1, <3>1
    <3>5. ScriptGood(scr, b, kind)
      BY <1>1
    <3> QED BY <3>2, <3>3, <3>4, <3>5 DEF Noted
  <2>6. CASE pc = Len(scr[fn])
    <3>1. fn' = fn + 1 /\ pc' = 1
      BY <1>1, <1>2, <1>4, <2>6, LeaveWell
    <3>2. PICK k : k = fn + 1
      OBVIOUS
    <3>3. k \in 1 .. Len(scr) + 1 /\ fn' = k /\ pc' = 1 /\ q = b[k]
      BY <1>1, <2>1, <2>6, <3>1, <3>2
    <3> QED BY <1>1, <2>4, <3>3, Enter
  <2> QED BY <1>1, <2>5, <2>6
<1> QED BY <1>3, <1>4

\* The function returns before its end, without an error.
LEMMA Skipping ==
  ASSUME NEW scr, NEW b, NEW kind, NEW n, NEW a, NEW s, NEW p, NEW c,
         AtStep(scr, b, kind, n, a, s, p, c), err = "ok", SkipSample(scr),
         HeapHolds(c.next)', MessageHolds(c.next)'
  PROVE  Noted(scr, kind)'
<1>1. Len(scr) \in Nat /\ fn \in 1 .. Len(scr) /\ c.next = b[fn + 1] /\ ScriptGood(scr, b, kind)
  BY AtStepFacts DEF AtStep
<1>2. err' = "ok" /\ fn' = fn + 1 /\ pc' = 1
  BY <1>1, LeaveWell DEF SkipSample
<1>3. PICK k : k = fn + 1
  OBVIOUS
<1>4. k \in 1 .. Len(scr) + 1 /\ fn' = k /\ c.next = b[k]
  BY <1>1, <1>2, <1>3
<1>5. Holds(scr, b[k])'
  BY <1>2, <1>4 DEF Holds
<1> QED BY <1>1, <1>2, <1>4, <1>5, Enter

\* A step fails, part of what it creates having been created, and has deleted what it has
\* to: the exit label expects it.
LEMMA FailsTo ==
  ASSUME NEW scr, NEW b, NEW kind, NEW n, NEW a, NEW s, NEW p, NEW c,
         AtStep(scr, b, kind, n, a, s, p, c), s.op \in FailOps, HeapHolds(p),
         NEW e, e # "ok", Error(scr, s, e), NEW part \in Partly(s),
         heap'.made \subseteq heap.made \cup part, heap'.live \subseteq heap.live \cup part,
         Floating(heap)' = (p.held \cup part) \ Range(s.undo)
  PROVE  Noted(scr, kind)'
<1>1. /\ Len(scr) \in Nat /\ fn \in 1 .. Len(scr) /\ ScriptGood(scr, b, kind)
      /\ NextExit(scr, fn, n) /\ c.exit = b[n] /\ c.end = b[Len(scr) + 1]
      /\ c.frees = OnlyFrees(scr, fn + 1) /\ Finds(s, p) /\ FailsWell(s, p, c)
  BY AtStepFacts DEF AtStep, StepGood
<1>2. part \subseteq New(s)
  BY DEF Partly, New
<1>3. Text \notin heap'.live
  <2>1. Text \notin p.made /\ heap.made \subseteq p.made /\ heap.live \subseteq heap.made
    BY <1>1 DEF FailsWell, HeapHolds, AtStep, HeapOK
  <2>2. Text \notin New(s)
    BY <1>1 DEF Finds, New, CreateOps
  <2> QED BY <1>2, <2>1, <2>2
<1>4. err' = e /\ IF s.leaves THEN fn' = Len(scr) + 1 /\ pc' = 1 ELSE Leave(scr, e)
  BY DEF Error
<1>5. /\ pc' = 1 /\ fn' \in fn + 1 .. Len(scr) + 1
      /\ fn' <= Len(scr) => AtExit(scr[fn'])
      /\ fn' = IF s.leaves THEN Len(scr) + 1 ELSE n
  <2>1. CASE s.leaves
    BY <1>1, <1>4, <2>1
  <2>2. CASE ~s.leaves
    BY <1>1, <1>4, <2>2, LeaveAfterError, UniqueExit
  <2> QED BY <2>1, <2>2
<1>6. PICK k : k = fn'
  OBVIOUS
<1>7. Holds(scr, b[k])'
  <2>1. HeapHolds(b[k])' \/ (heap'.made = {} /\ OnlyFrees(scr, fn'))
    <3>1. CASE Undone(s, p, IF s.leaves THEN c.end ELSE c.exit)
      <4>1. Undone(s, p, b[k])
        BY <1>1, <1>5, <1>6, <3>1
      <4>2. Floating(heap)' = b[k].held
        BY <4>1 DEF Undone
      <4>3. heap'.made \subseteq b[k].made
        BY <1>2, <4>1 DEF Undone, HeapHolds
      <4> QED BY <4>2, <4>3 DEF HeapHolds
    <3>2. CASE c.frees /\ p.made = {} /\ Partly(s) = {{}} /\ s.undo = << >> /\ ~s.leaves
      <4>1. heap'.made = {}
        BY <3>2 DEF HeapHolds
      <4>2. OnlyFrees(scr, fn')
        BY <1>1, <1>5, <3>2, FreesAhead
      <4> QED BY <4>1, <4>2
    <3> QED BY <1>1, <3>1, <3>2 DEF FailsWell
  <2>2. err' # "ok"
    BY <1>4
  <2> QED BY <1>3, <1>5, <2>1, <2>2 DEF Holds
<1>8. k \in 1 .. Len(scr) + 1
  BY <1>1, <1>5, <1>6
<1> QED BY <1>1, <1>5, <1>6, <1>7, <1>8, Enter

\* What a failing step deletes floats.
LEMMA UndoFacts ==
  ASSUME NEW scr, NEW b, NEW kind, NEW n, NEW a, NEW s, NEW p, NEW c,
         AtStep(scr, b, kind, n, a, s, p, c), HeapHolds(p),
         NEW e, Undone(s, p, e), NEW part \in Partly(s),
         NEW h, HeapOK(h), Floating(h) = p.held \cup part,
         h.made = heap.made \cup part, h.live = heap.live \cup part,
         NEW g, g = DeleteAll(h, s.undo)
  PROVE  /\ HeapOK(g) /\ Floating(g) = (p.held \cup part) \ Range(s.undo)
         /\ g.made = heap.made \cup part /\ g.live \subseteq heap.live \cup part
         /\ g.live \cap Range(s.undo) = {}
<1>1. Finds(s, p)
  BY AtStepFacts DEF StepGood
<1>2. New(s) \cap heap.made = {}
  BY <1>1 DEF Finds, New, HeapHolds, CreateOps
<1>3. ASSUME NEW i \in DOMAIN s.undo, s.undo[i] \in h.made PROVE s.undo[i] \in Floating(h)
  <2>1. s.undo[i] \in p.held \cup New(s)
    BY DEF Undone, Range
  <2>2. CASE s.undo[i] \in p.held
    BY <2>2
  <2>3. CASE s.undo[i] \in New(s)
    BY <1>2, <1>3, <2>3
  <2> QED BY <2>1, <2>2, <2>3
<1>4. Distinct(s.undo)
  BY DEF Undone
<1> QED BY <1>3, <1>4, DeleteFacts

InOrder(scr, kind) == HeapOK(heap) /\ Noted(scr, kind)

\* An error that deletes what the discipline wants deleted.
LEMMA FailsWith ==
  ASSUME NEW scr, NEW b, NEW kind, NEW n, NEW a, NEW s, NEW p, NEW c,
         AtStep(scr, b, kind, n, a, s, p, c), s.op \in FailOps, HeapHolds(p),
         NEW e, e # "ok", Error(scr, s, e), NEW part \in Partly(s),
         NEW h, HeapOK(h), Floating(h) = p.held \cup part,
         h.made = heap.made \cup part, h.live = heap.live \cup part,
         heap' = DeleteAll(h, s.undo)
  PROVE  InOrder(scr, kind)'
<1>1. FailsWell(s, p, c)
  BY AtStepFacts DEF StepGood
<1>2. /\ HeapOK(heap') /\ Floating(heap') = (p.held \cup part) \ Range(s.undo)
      /\ heap'.made = heap.made \cup part /\ heap'.live \subseteq heap.live \cup part
  <2>1. CASE \E x : Undone(s, p, x)
    BY <2>1, UndoFacts
  <2>2. CASE s.undo = << >>
    <3>1. Distinct(<< >>) /\ DOMAIN << >> = {} /\ Range(<< >>) = {}
      BY DEF Distinct, Range
    <3> QED BY <2>2, <3>1, DeleteFacts
  <2> QED BY <1>1, <2>1, <2>2 DEF FailsWell
<1>3. Noted(scr, kind)'
  BY <1>2, FailsTo
<1>4. HeapOK(heap')
  BY <1>2
<1> QED BY <1>3, <1>4 DEF InOrder

---------------------------------------------------------------------------
(* The steps, one lemma per kind.                                           *)

\* A step that is at no exit comes before any error.
LEMMA BeforeError ==
  ASSUME NEW scr, NEW b, NEW kind, NEW n, NEW a, NEW s, NEW p, NEW c,
         AtStep(scr, b, kind, n, a, s, p, c), s.op \notin ExitOps
  PROVE  err = "ok" /\ HeapOK(heap) /\ HeapHolds(p) /\ MessageHolds(p)
<1>1. err = "ok"
  BY AtStepFacts
<1> QED BY <1>1 DEF AtStep, Holds

\* Nothing that the notes are about changes.
LEMMA SucceedsQuietly ==
  ASSUME NEW scr, NEW b, NEW kind, NEW n, NEW a, NEW s, NEW p, NEW c,
         AtStep(scr, b, kind, n, a, s, p, c), s.op \notin ExitOps,
         s.op \notin {"not_supported", "preset_error"}, After(s, p) = p,
         Go(scr), UNCHANGED <<heap, doc, queued, paths>>
  PROVE  InOrder(scr, kind)'
<1>1. err = "ok" /\ HeapOK(heap) /\ HeapHolds(p) /\ MessageHolds(p)
  BY BeforeError
<1>2. HeapOK(heap)' /\ HeapHolds(p)' /\ MessageHolds(p)'
  BY <1>1 DEF HeapHolds, MessageHolds, InMessage
<1> QED BY <1>1, <1>2, Succeeds DEF InOrder

\* A step that creates nothing fails.
LEMMA FailsQuietly ==
  ASSUME NEW scr, NEW b, NEW kind, NEW n, NEW a, NEW s, NEW p, NEW c,
         AtStep(scr, b, kind, n, a, s, p, c), s.op \in FailOps \ (CreateOps \cup ExitOps),
         NEW e, e # "ok", Abort(scr, s, e)
  PROVE  InOrder(scr, kind)'
<1>1. HeapOK(heap) /\ HeapHolds(p)
  BY BeforeError
<1>2. Partly(s) = {{}}
  BY DEF Partly
<1>3. /\ Floating(heap) = p.held \cup {} /\ heap.made = heap.made \cup {}
      /\ heap.live = heap.live \cup {}
  BY <1>1 DEF HeapHolds
<1>4. heap' = DeleteAll(heap, s.undo) /\ Error(scr, s, e)
  BY DEF Abort
<1> QED BY <1>1, <1>2, <1>3, <1>4, FailsWith

\* Path counts are numbers.
LEMMA NotesTyped ==
  ASSUME NEW scr, NEW b, NEW kind, NEW n, NEW a, NEW s, NEW p, NEW c,
         AtStep(scr, b, kind, n, a, s, p, c)
  PROVE  p.used \in Nat /\ c.next.used \in Nat
<1>1. /\ fn \in 1 .. Len(scr) /\ Len(scr) \in Nat /\ DOMAIN b = 1 .. Len(scr) + 1
      /\ p.used \in Nat /\ c.next = b[fn + 1]
  BY AtStepFacts
<1>2. \A k \in DOMAIN b : b[k].used \in Nat
  BY DEF AtStep, ScriptGood
<1> QED BY <1>1, <1>2

\* if (!data->queued).
LEMMA TakeSampleKeeps ==
  ASSUME NEW scr, NEW b, NEW kind, NEW n, NEW a, NEW s, NEW p, NEW c,
         AtStep(scr, b, kind, n, a, s, p, c), TakeSample(scr, s)
  PROVE  InOrder(scr, kind)'
<1>1. /\ s.op \in {"if_queued", "need_queued"} /\ s.op \notin ExitOps /\ UNCHANGED <<doc, queued, paths>>
      /\ s.op \notin CreateOps
  BY DEF TakeSample, ExitOps, CreateOps
<1>2. After(s, p) = p
  BY <1>1 DEF After, CreateOps
<1>3. CASE Go(scr) /\ UNCHANGED heap
  BY <1>1, <1>2, <1>3, SucceedsQuietly
<1>4. CASE s.d \notin queued /\ s.op = "if_queued" /\ SkipSample(scr) /\ UNCHANGED heap
  <2>1. err = "ok" /\ HeapOK(heap) /\ HeapHolds(p) /\ MessageHolds(p)
    BY <1>1, BeforeError
  <2>2. Follows(Note(p.held, p.made, p.due \ {s.d}, p.done, p.sent, p.used), c.next)
    <3>1. Skips(s, p, c.next)
      BY AtStepFacts DEF StepGood
    <3> QED BY <1>4, <3>1 DEF Skips
  <2>3. HeapHolds(c.next)'
    BY <1>4, <2>1, <2>2 DEF HeapHolds, Follows, Weaker, Note
  <2>4. MessageHolds(c.next)'
    <3>1. c.next.used \in Nat /\ p.used \in Nat
      BY NotesTyped
    <3> QED BY <1>1, <1>4, <2>1, <2>2, <3>1 DEF MessageHolds, Follows, Note, InMessage
  <2> QED BY <1>4, <2>1, <2>3, <2>4, Skipping DEF InOrder
<1>5. CASE s.op = "need_queued" /\ Abort(scr, s, "ENODATA")
  BY <1>1, <1>5, FailsQuietly DEF FailOps
<1> QED BY <1>3, <1>4, <1>5 DEF TakeSample

\* date_time_uptime_to_unix_time_ms().
LEMMA ConvertTimeKeeps ==
  ASSUME NEW scr, NEW b, NEW kind, NEW n, NEW a, NEW s, NEW p, NEW c,
         AtStep(scr, b, kind, n, a, s, p, c), ConvertTime(scr, s)
  PROVE  InOrder(scr, kind)'
<1>1. /\ s.op \in {"convert", "try_convert"} /\ UNCHANGED <<doc, queued, paths>>
      /\ s.op \notin CreateOps \cup ExitOps
  BY DEF ConvertTime, ExitOps, CreateOps
<1>2. After(s, p) = p
  BY <1>1 DEF After
<1>3. CASE Go(scr) /\ UNCHANGED heap
  BY <1>1, <1>2, <1>3, SucceedsQuietly
<1>4. CASE s.op = "convert" /\ Abort(scr, s, "EINVAL")
  BY <1>1, <1>4, FailsQuietly DEF FailOps
<1> QED BY <1>3, <1>4 DEF ConvertTime

\* What is created when not all is.
LEMMA PartOfNew ==
  ASSUME NEW s, s.op \in CreateOps, NEW part \in SUBSET New(s), part # New(s) PROVE part \in Partly(s)
  BY DEF Partly, New

\* cJSON_CreateObject() and its kind.
LEMMA CreateObjectsKeeps ==
  ASSUME NEW scr, NEW b, NEW kind, NEW n, NEW a, NEW s, NEW p, NEW c,
         AtStep(scr, b, kind, n, a, s, p, c), CreateObjects(scr, s)
  PROVE  InOrder(scr, kind)'
<1>1. /\ s.op \in CreateOps /\ s.op \notin ExitOps /\ UNCHANGED <<doc, queued, paths>>
      /\ s.op \notin {"not_supported", "preset_error"}
  BY DEF CreateObjects, ExitOps, CreateOps
<1>2. err = "ok" /\ HeapOK(heap) /\ HeapHolds(p) /\ MessageHolds(p)
  BY <1>1, BeforeError
<1>3. StepGood(s, p, IF pc = Len(scr[fn]) THEN b[fn + 1] ELSE a[pc + 1], c)
  BY AtStepFacts
<1>4. /\ New(s) = Range(s.os) /\ New(s) \cap heap.made = {} /\ Text \notin New(s)
      /\ SamplesOf(New(s)) \subseteq AllSamples
  <2>1. Finds(s, p) /\ Named(s)
    BY <1>3 DEF StepGood
  <2>2. heap.made \subseteq p.made
    BY <1>2 DEF HeapHolds
  <2> QED BY <1>1, <2>1, <2>2 DEF New, Finds, Named, CreateOps
<1>5. PICK made \in SUBSET New(s) :
        \/ made = New(s) /\ Go(scr) /\ heap' = Alloc(heap, made)
        \/ /\ made # New(s) /\ s.op = "create"
           /\ Error(scr, s, "ENOMEM") /\ heap' = DeleteAll(Alloc(heap, made), s.undo)
        \/ /\ made # New(s) /\ s.op = "create_or_leave_out"
           /\ SkipSample(scr) /\ heap' = DeleteAll(Alloc(heap, made), s.undo)
  BY <1>4 DEF CreateObjects
<1>6. PICK h : h = Alloc(heap, made)
  OBVIOUS
<1>7. /\ HeapOK(h) /\ Floating(h) = p.held \cup made
      /\ h.made = heap.made \cup made /\ h.live = heap.live \cup made
  <2>1. made \cap heap.made = {} /\ Text \notin made /\ SamplesOf(made) \subseteq AllSamples
    BY <1>4, SamplesGrow
  <2> QED BY <1>2, <1>6, <2>1, AllocFacts DEF HeapHolds
<1>8. CASE made = New(s) /\ Go(scr) /\ heap' = h
  <2>1. /\ After(s, p).held = p.held \cup New(s) /\ After(s, p).made = p.made \cup New(s)
        /\ After(s, p).due = p.due \cup (SamplesOf(New(s)) \ p.done)
        /\ After(s, p).done = p.done /\ After(s, p).used = p.used /\ After(s, p).sent = p.sent
    BY <1>1 DEF After, Note, CreateOps
  <2>2. HeapOK(heap)'
    BY <1>7, <1>8
  <2>3. HeapHolds(After(s, p))'
    BY <1>2, <1>7, <1>8, <2>1 DEF HeapHolds
  <2>4. MessageHolds(After(s, p))'
    <3>1. InMessage' = InMessage \cup SamplesOf(New(s))
      BY <1>1, <1>7, <1>8, SamplesGrow DEF InMessage
    <3> QED BY <1>1, <1>2, <2>1, <3>1 DEF MessageHolds
  <2> QED BY <1>1, <1>2, <1>8, <2>2, <2>3, <2>4, Succeeds DEF InOrder
<1>9. CASE made # New(s) /\ s.op = "create" /\ Error(scr, s, "ENOMEM") /\ heap' = DeleteAll(h, s.undo)
  <2>1. made \in Partly(s) /\ s.op \in FailOps
    BY <1>1, <1>9, PartOfNew DEF FailOps
  <2> QED BY <1>2, <1>7, <1>9, <2>1, FailsWith
<1>10. CASE /\ made # New(s) /\ s.op = "create_or_leave_out"
            /\ SkipSample(scr) /\ heap' = DeleteAll(h, s.undo)
  <2>1. made \in Partly(s)
    BY <1>1, <1>10, PartOfNew
  <2>2. /\ Undone(s, p, c.next) /\ p.due \ {s.d} \subseteq c.next.due
        /\ c.next.done \subseteq p.done /\ p.used <= c.next.used
        /\ p.sent \subseteq c.next.sent /\ made = {} /\ s.d \notin p.sent
        /\ \A o \in p.made : o[2] = s.d => o \in Range(s.undo)
    <3>1. Skips(s, p, c.next)
      BY <1>3 DEF StepGood
    <3> QED BY <1>10, <2>1, <3>1 DEF Skips
  <2>3. /\ HeapOK(heap') /\ Floating(heap') = (p.held \cup made) \ Range(s.undo)
        /\ heap'.made = heap.made \cup made /\ heap'.live \subseteq heap.live \cup made
        /\ heap'.live \cap Range(s.undo) = {}
    <3>1. Undone(s, p, c.next)
      BY <2>2
    <3> QED BY <1>2, <1>7, <1>10, <2>1, <3>1, UndoFacts
  <2>4. HeapHolds(c.next)'
    BY <1>2, <2>1, <2>2, <2>3 DEF HeapHolds, Undone
  <2>5. MessageHolds(c.next)'
    <3>1. heap'.live \subseteq heap.live /\ heap.live \subseteq p.made
      BY <1>2, <2>2, <2>3 DEF HeapOK, HeapHolds
    <3>2. s.d \notin SamplesOf(heap'.live)
      BY <2>2, <2>3, <3>1 DEF SamplesOf
    <3>3. s.d \notin doc
      BY <1>2, <2>2 DEF MessageHolds
    <3>4. InMessage' \subseteq InMessage \ {s.d}
      BY <1>1, <3>1, <3>2, <3>3, SamplesGrow DEF InMessage
    <3>5. c.next.used \in Nat /\ p.used \in Nat
      BY NotesTyped
    <3> QED BY <1>1, <1>2, <2>2, <3>4, <3>5 DEF MessageHolds
  <2>6. HeapOK(heap)'
    BY <2>3
  <2> QED BY <1>2, <1>10, <2>4, <2>5, <2>6, Skipping DEF InOrder
<1> QED BY <1>5, <1>6, <1>8, <1>9, <1>10

\* json_add_number() and its kind.
LEMMA AddValuesKeeps ==
  ASSUME NEW scr, NEW b, NEW kind, NEW n, NEW a, NEW s, NEW p, NEW c,
         AtStep(scr, b, kind, n, a, s, p, c), AddValues(scr, s)
  PROVE  InOrder(scr, kind)'
<1>1. s.op = "values" /\ UNCHANGED <<doc, queued, paths>>
  BY DEF AddValues
<1>2. /\ s.op \notin ExitOps /\ s.op \in FailOps \ (CreateOps \cup ExitOps)
      /\ s.op \notin {"not_supported", "preset_error"} /\ After(s, p) = p
  BY <1>1 DEF ExitOps, CreateOps, FailOps, After
<1>3. CASE Go(scr) /\ UNCHANGED heap
  BY <1>1, <1>2, <1>3, SucceedsQuietly
<1>4. CASE Abort(scr, s, "ENOMEM")
  BY <1>2, <1>4, FailsQuietly
<1> QED BY <1>3, <1>4 DEF AddValues

\* Elements, values without an encoding, empty samples, writes to the engine.
LEMMA TryStepKeeps ==
  ASSUME NEW scr, NEW b, NEW kind, NEW n, NEW a, NEW s, NEW p, NEW c,
         AtStep(scr, b, kind, n, a, s, p, c), TryStep(scr, s)
  PROVE  InOrder(scr, kind)'
<1>1. s.op \in {"element", "check", "check_data", "write"} /\ UNCHANGED <<queued, paths>> /\ Fails(s) # "ok"
  BY DEF TryStep, Fails
<1>2. /\ s.op \notin ExitOps /\ s.op \in FailOps \ (CreateOps \cup ExitOps)
      /\ s.op \notin {"not_supported", "preset_error"}
  BY <1>1 DEF ExitOps, CreateOps, FailOps
<1>3. CASE Go(scr) /\ UNCHANGED heap /\ s.op # "write"
  <2>1. After(s, p) = p /\ doc' = doc
    BY <1>1, <1>3 DEF After, CreateOps, TryStep
  <2> QED BY <1>1, <1>2, <1>3, <2>1, SucceedsQuietly
<1>4. CASE Go(scr) /\ UNCHANGED heap /\ s.op = "write"
  <2>1. err = "ok" /\ HeapOK(heap) /\ HeapHolds(p) /\ MessageHolds(p)
    BY <1>2, BeforeError
  <2>2. /\ After(s, p).held = p.held /\ After(s, p).made = p.made
        /\ After(s, p).due = p.due \cup ({s.d} \ {NoSample, Cells})
        /\ After(s, p).done = p.done /\ After(s, p).sent = AllSamples /\ After(s, p).used = p.used
    BY <1>4 DEF After, Note, CreateOps
  <2>3. s.d \in AllSamples \cup {NoSample} /\ doc' = doc \cup ({s.d} \ {NoSample})
    <3>1. Named(s)
      BY AtStepFacts DEF StepGood
    <3> QED BY <1>4, <3>1 DEF Named, TryStep
  <2>4. HeapHolds(After(s, p))' /\ HeapOK(heap)'
    BY <1>4, <2>1, <2>2 DEF HeapHolds
  <2>5. MessageHolds(After(s, p))'
    <3>1. InMessage' = InMessage \cup ({s.d} \ {NoSample})
      BY <1>4, <2>3 DEF InMessage
    <3>2. doc \subseteq AllSamples
      BY DEF AtStep
    <3> QED BY <1>1, <2>1, <2>2, <2>3, <3>1, <3>2 DEF MessageHolds
  <2> QED BY <1>2, <1>4, <2>1, <2>4, <2>5, Succeeds DEF InOrder
<1>5. CASE Abort(scr, s, Fails(s))
  BY <1>1, <1>2, <1>5, FailsQuietly
<1> QED BY <1>3, <1>4, <1>5 DEF TryStep

\* An object is hung into its parent or, without memory for its key, deleted.
LEMMA HangOrDelete ==
  ASSUME NEW h, HeapOK(h), NEW p \in Floating(h), NEW o \in Floating(h), Level(p) < Level(o),
         NEW g, g = Put(h, p, o) \/ g = Delete(h, o)
  PROVE  /\ HeapOK(g) /\ Floating(g) = Floating(h) \ {o}
         /\ g.made = h.made /\ g.live \subseteq h.live
  BY PutFacts, DeleteOne

\* Only at a free can the heap be other than noted.
LEMMA ButForFree ==
  ASSUME NEW scr, NEW b, NEW kind, NEW n, NEW a, NEW s, NEW p, NEW c,
         AtStep(scr, b, kind, n, a, s, p, c), s.op # "free"
  PROVE  HeapOK(heap) /\ HeapHolds(p) /\ (err = "ok" => MessageHolds(p))
<1>1. HeapOK(heap) /\ Holds(scr, p)
  BY DEF AtStep
<1>2. CASE err # "ok" /\ heap.made = {} /\ OnlyFrees(scr, fn)
  <2>1. AtExit(scr[fn]) /\ pc = 1 /\ s = scr[fn][pc] /\ fn \in 1 .. Len(scr) /\ Len(scr) \in Nat
    BY <1>2, AtStepFacts
  <2>2. scr[fn][1].op = "free"
    BY <1>2, <2>1 DEF OnlyFrees
  <2> QED BY <2>1, <2>2
<1> QED BY <1>1, <1>2 DEF Holds

\* json_add_obj(), also behind an exit label.
LEMMA AttachObjectKeeps ==
  ASSUME NEW scr, NEW b, NEW kind, NEW n, NEW a, NEW s, NEW p, NEW c,
         AtStep(scr, b, kind, n, a, s, p, c), AttachObject(scr, s),
         UNCHANGED <<cloud, api, valid>>
  PROVE  InOrder(scr, kind)'
<1>1. s.op = "attach" /\ Go(scr) /\ UNCHANGED <<queued, paths, doc>>
  BY DEF AttachObject
<1>3. HeapOK(heap) /\ HeapHolds(p) /\ (err = "ok" => MessageHolds(p))
  BY <1>1, ButForFree
<1>4. s.os[1] \in Floating(heap) /\ s.os[2] \in Floating(heap) /\ Level(s.os[1]) < Level(s.os[2])
  <2>1. Finds(s, p)
    BY AtStepFacts DEF StepGood
  <2> QED BY <1>1, <1>3, <2>1 DEF Finds, CreateOps, HeapHolds
<1>5. PICK h : /\ h = Put(heap, s.os[1], s.os[2]) \/ h = Delete(heap, s.os[2])
               /\ heap' = [h EXCEPT !.fault = @ \/ {s.os[1], s.os[2]} \ heap.live # {}]
  BY DEF AttachObject, json_add_obj
<1>6. /\ HeapOK(h) /\ Floating(h) = Floating(heap) \ {s.os[2]}
      /\ h.made = heap.made /\ h.live \subseteq heap.live
  BY <1>3, <1>4, <1>5, HangOrDelete
<1>7. heap'.live = h.live /\ heap'.made = h.made /\ Floating(heap') = Floating(h) /\ HeapOK(heap)'
  <2>1. {s.os[1], s.os[2]} \ heap.live = {}
    BY <1>4 DEF Floating
  <2>2. DOMAIN h = {"live", "made", "in", "fault"} /\ h.fault = FALSE
    BY <1>6 DEF HeapOK
  <2>3. heap' = [h EXCEPT !.fault = FALSE]
    BY <1>5, <2>1, <2>2
  <2>4. /\ DOMAIN heap' = {"live", "made", "in", "fault"} /\ heap'.fault = FALSE
        /\ heap'.live = h.live /\ heap'.made = h.made /\ heap'.in = h.in
    BY <2>2, <2>3
  <2>5. Floating(heap') = Floating(h)
    BY <2>4 DEF Floating
  <2>6. HeapOK(heap)'
    BY <1>6, <2>4 DEF HeapOK
  <2> QED BY <2>4, <2>5, <2>6
<1>8. /\ After(s, p).held = p.held \ {s.os[2]} /\ After(s, p).made = p.made /\ After(s, p).due = p.due
      /\ After(s, p).done = p.done /\ After(s, p).sent = p.sent /\ After(s, p).used = p.used
  BY <1>1 DEF After, Note, CreateOps
<1>9. HeapHolds(After(s, p))'
  BY <1>3, <1>6, <1>7, <1>8 DEF HeapHolds
<1>10. ASSUME err = "ok" PROVE MessageHolds(After(s, p))'
  <2>1. InMessage' \subseteq InMessage
    BY <1>1, <1>6, <1>7, SamplesGrow DEF InMessage
  <2> QED BY <1>1, <1>3, <1>8, <1>10, <2>1 DEF MessageHolds
<1>11. err # "ok" /\ Text \in heap'.live => Excused'
  BY <1>6, <1>7 DEF AtStep, Holds, Excused
<1> QED BY <1>1, <1>3, <1>7, <1>9, <1>10, <1>11, Succeeds DEF InOrder

\* The array of a batch.
LEMMA AttachArrayKeeps ==
  ASSUME NEW scr, NEW b, NEW kind, NEW n, NEW a, NEW s, NEW p, NEW c,
         AtStep(scr, b, kind, n, a, s, p, c), AttachArray(scr, s)
  PROVE  InOrder(scr, kind)'
<1>1. /\ s.op = "attach_if_filled" /\ s.op \notin ExitOps /\ Go(scr) /\ UNCHANGED <<queued, paths, doc>>
  BY DEF AttachArray, ExitOps
<1>2. err = "ok" /\ HeapOK(heap) /\ HeapHolds(p) /\ MessageHolds(p)
  BY <1>1, BeforeError
<1>3. s.os[1] \in Floating(heap) /\ s.os[2] \in Floating(heap) /\ Level(s.os[1]) < Level(s.os[2])
  <2>1. Finds(s, p)
    BY AtStepFacts DEF StepGood
  <2> QED BY <1>1, <1>2, <2>1 DEF Finds, CreateOps, HeapHolds
<1>4. heap' = Put(heap, s.os[1], s.os[2]) \/ heap' = Delete(heap, s.os[2])
  BY DEF AttachArray
<1>5. /\ HeapOK(heap') /\ Floating(heap') = Floating(heap) \ {s.os[2]}
      /\ heap'.made = heap.made /\ heap'.live \subseteq heap.live
  BY <1>2, <1>3, <1>4, HangOrDelete
<1>6. /\ After(s, p).held = p.held \ {s.os[2]} /\ After(s, p).made = p.made /\ After(s, p).due = p.due
      /\ After(s, p).done = p.done /\ After(s, p).sent = p.sent /\ After(s, p).used = p.used
  BY <1>1 DEF After, Note, CreateOps
<1>7. HeapHolds(After(s, p))' /\ HeapOK(heap)'
  BY <1>2, <1>5, <1>6 DEF HeapHolds
<1>8. MessageHolds(After(s, p))'
  <2>1. InMessage' \subseteq InMessage
    BY <1>1, <1>5, SamplesGrow DEF InMessage
  <2> QED BY <1>1, <1>2, <1>6, <2>1 DEF MessageHolds
<1> QED BY <1>1, <1>2, <1>7, <1>8, Succeeds DEF InOrder

\* data->queued = false.
LEMMA ClearQueuedKeeps ==
  ASSUME NEW scr, NEW b, NEW kind, NEW n, NEW a, NEW s, NEW p, NEW c,
         AtStep(scr, b, kind, n, a, s, p, c), ClearQueued(scr, s)
  PROVE  InOrder(scr, kind)'
<1>1. /\ s.op = "clear" /\ s.op \notin ExitOps /\ Go(scr) /\ UNCHANGED <<heap, paths, doc>>
      /\ queued' = queued \ {s.d}
  BY DEF ClearQueued, ExitOps
<1>2. err = "ok" /\ HeapOK(heap) /\ HeapHolds(p) /\ MessageHolds(p)
  BY <1>1, BeforeError
<1>3. /\ After(s, p).held = p.held /\ After(s, p).made = p.made /\ After(s, p).due = p.due \ {s.d}
      /\ After(s, p).done = p.done \cup {s.d} /\ After(s, p).sent = p.sent /\ After(s, p).used = p.used
  BY <1>1 DEF After, Note, CreateOps
<1>4. HeapHolds(After(s, p))' /\ HeapOK(heap)'
  BY <1>1, <1>2, <1>3 DEF HeapHolds
<1>5. MessageHolds(After(s, p))'
  BY <1>1, <1>2, <1>3 DEF MessageHolds, InMessage
<1> QED BY <1>1, <1>2, <1>4, <1>5, Succeeds DEF InOrder

\* cJSON_Delete() of the root, after an error too.
LEMMA FreeObjectKeeps ==
  ASSUME NEW scr, NEW b, NEW kind, NEW n, NEW a, NEW s, NEW p, NEW c,
         AtStep(scr, b, kind, n, a, s, p, c), FreeObject(scr, s), UNCHANGED <<cloud, api, valid>>
  PROVE  InOrder(scr, kind)'
<1>1. /\ s.op = "free" /\ Go(scr) /\ UNCHANGED <<queued, paths, doc>> /\ heap' = Delete(heap, s.os[1])
  BY DEF FreeObject
<1>2. HeapOK(heap) /\ Holds(scr, p) /\ p.held = {s.os[1]}
  <2>1. Finds(s, p)
    BY AtStepFacts DEF StepGood
  <2> QED BY <1>1, <2>1 DEF Finds, CreateOps, AtStep
<1>3. s.os[1] \in heap.made => s.os[1] \in Floating(heap)
  BY <1>2 DEF Holds, HeapHolds
<1>4. /\ HeapOK(heap') /\ Floating(heap') = Floating(heap) \ {s.os[1]}
      /\ heap'.made = heap.made /\ heap'.live \subseteq heap.live
  BY <1>1, <1>2, <1>3, DeleteOne
<1>5. err # "ok" /\ Text \in heap'.live => Excused'
  BY <1>2, <1>4 DEF Holds, Excused
<1>6. /\ After(s, p).held = p.held \ {s.os[1]} /\ After(s, p).made = p.made /\ After(s, p).due = p.due
      /\ After(s, p).done = p.done /\ After(s, p).sent = p.sent /\ After(s, p).used = p.used
  BY <1>1 DEF After, Note, CreateOps
<1>7. CASE HeapHolds(p)
  <2>1. HeapHolds(After(s, p))' /\ HeapOK(heap)'
    BY <1>4, <1>6, <1>7 DEF HeapHolds
  <2>2. err = "ok" => MessageHolds(After(s, p))'
    <3>1. InMessage' \subseteq InMessage
      BY <1>1, <1>4, SamplesGrow DEF InMessage
    <3> QED BY <1>1, <1>2, <1>6, <3>1 DEF Holds, MessageHolds
  <2> QED BY <1>1, <1>5, <1>7, <2>1, <2>2, Succeeds DEF InOrder
<1>8. CASE err # "ok" /\ heap.made = {} /\ OnlyFrees(scr, fn)
  <2>1. /\ AtExit(scr[fn]) /\ pc = 1 /\ Len(scr[fn]) = 1 /\ fn \in 1 .. Len(scr) /\ Len(scr) \in Nat
        /\ ScriptGood(scr, b, kind)
    BY <1>8, AtStepFacts DEF AtStep
  <2>2. err' = err /\ Leave(scr, err)
    BY <1>1, <2>1 DEF Go
  <2>3. /\ pc' = 1 /\ fn' \in fn + 1 .. Len(scr) + 1 /\ (fn' <= Len(scr) => AtExit(scr[fn']))
    BY <1>8, <2>1, <2>2, LeaveAfterError
  <2>4. OnlyFrees(scr, fn')
    BY <1>8, <2>1, <2>3, FreesAhead
  <2>5. PICK k : k = fn'
    OBVIOUS
  <2>6. heap'.made = {} /\ Text \notin heap'.live
    BY <1>2, <1>4, <1>8 DEF HeapOK
  <2>7. Holds(scr, b[k])'
    BY <1>8, <2>2, <2>3, <2>4, <2>6 DEF Holds
  <2>8. k \in 1 .. Len(scr) + 1
    BY <2>1, <2>3, <2>5
  <2>9. Noted(scr, kind)'
    BY <2>1, <2>3, <2>5, <2>7, <2>8, Enter
  <2> QED BY <1>4, <2>9 DEF InOrder
<1> QED BY <1>2, <1>7, <1>8 DEF Holds

\* The lesser of two numbers.
LEMMA MinOfTwo == ASSUME NEW i \in Nat, NEW j \in Nat PROVE Min({i, j}) = IF i <= j THEN i ELSE j
  BY DEF Min

\* The path list.
LEMMA AddPathsKeeps ==
  ASSUME NEW scr, NEW b, NEW kind, NEW n, NEW a, NEW s, NEW p, NEW c,
         AtStep(scr, b, kind, n, a, s, p, c), AddPathsToList(scr, s)
  PROVE  InOrder(scr, kind)'
<1>1. /\ s.op = "add_paths" /\ s.op \notin ExitOps /\ UNCHANGED <<queued, doc>>
      /\ s.op \in FailOps \ (CreateOps \cup ExitOps)
  BY DEF AddPathsToList, ExitOps, FailOps, CreateOps
<1>2. err = "ok" /\ HeapOK(heap) /\ HeapHolds(p) /\ MessageHolds(p)
  BY <1>1, BeforeError
<1>3. Len(s.os) \in Nat /\ p.used \in Nat
  <2>1. Finds(s, p)
    BY AtStepFacts DEF StepGood
  <2> QED BY <1>1, <2>1, NotesTyped DEF Finds, CreateOps
<1>4. CASE paths + Len(s.os) <= PathListSize /\ Go(scr) /\ UNCHANGED heap
  <2>1. /\ After(s, p).held = p.held /\ After(s, p).made = p.made /\ After(s, p).due = p.due
        /\ After(s, p).done = p.done /\ After(s, p).sent = p.sent /\ After(s, p).used = p.used + Len(s.os)
    BY <1>1 DEF After, Note, CreateOps
  <2>2. paths \in 0 .. p.used /\ paths' = paths + Len(s.os)
    BY <1>2, <1>3, <1>4, StepsAssumption, MinOfTwo DEF MessageHolds, AddPathsToList
  <2>3. HeapHolds(After(s, p))' /\ HeapOK(heap)'
    BY <1>2, <1>4, <2>1 DEF HeapHolds
  <2>4. MessageHolds(After(s, p))'
    BY <1>1, <1>2, <1>3, <1>4, <2>1, <2>2 DEF MessageHolds, InMessage
  <2> QED BY <1>1, <1>2, <1>4, <2>3, <2>4, Succeeds DEF InOrder
<1>5. CASE Abort(scr, s, "EPATHS")
  BY <1>1, <1>5, FailsQuietly
<1> QED BY <1>4, <1>5 DEF AddPathsToList

\* object_added = true.
LEMMA NoteObjectAddedKeeps ==
  ASSUME NEW scr, NEW b, NEW kind, NEW n, NEW a, NEW s, NEW p, NEW c,
         AtStep(scr, b, kind, n, a, s, p, c), NoteObjectAdded(scr, s)
  PROVE  InOrder(scr, kind)'
<1>1. /\ s.op = "note_added" /\ s.op \notin ExitOps /\ After(s, p) = p
      /\ s.op \notin {"not_supported", "preset_error"}
  BY DEF NoteObjectAdded, ExitOps, After, CreateOps
<1> QED BY <1>1, SucceedsQuietly DEF NoteObjectAdded

\* The tests for an empty message.
LEMMA CheckContentKeeps ==
  ASSUME NEW scr, NEW b, NEW kind, NEW n, NEW a, NEW s, NEW p, NEW c,
         AtStep(scr, b, kind, n, a, s, p, c), CheckContent(scr, s)
  PROVE  InOrder(scr, kind)'
<1>1. s.op \in {"need_added", "need_elements"} /\ UNCHANGED <<doc, queued, paths>>
  BY DEF CheckContent
<1>2. /\ s.op \notin ExitOps /\ s.op \in FailOps \ (CreateOps \cup ExitOps)
      /\ s.op \notin {"not_supported", "preset_error"} /\ After(s, p) = p
  BY <1>1 DEF ExitOps, CreateOps, FailOps, After
<1>3. CASE Go(scr) /\ UNCHANGED heap
  BY <1>1, <1>2, <1>3, SucceedsQuietly
<1>4. CASE Abort(scr, s, "ENODATA")
  BY <1>2, <1>4, FailsQuietly
<1> QED BY <1>3, <1>4 DEF CheckContent

\* cJSON_PrintUnformatted(): what is in the text is in the tree, and due.
LEMMA PrintTextKeeps ==
  ASSUME NEW scr, NEW b, NEW kind, NEW n, NEW a, NEW s, NEW p, NEW c,
         AtStep(scr, b, kind, n, a, s, p, c), PrintText(scr, s), UNCHANGED <<cloud, api, valid>>
  PROVE  InOrder(scr, kind)' /\ doc' \subseteq AllSamples
<1>1. /\ s.op = "print" /\ s.op \notin CreateOps /\ s.op \in FailOps /\ UNCHANGED <<queued, paths>>
      /\ s.op \notin {"not_supported", "preset_error"}
  BY DEF PrintText, CreateOps, FailOps
<1>2. HeapOK(heap) /\ HeapHolds(p) /\ (err = "ok" => MessageHolds(p)) /\ doc \subseteq AllSamples
  BY <1>1, ButForFree DEF AtStep
<1>3. CASE Go(scr) /\ doc' = Samples(heap, s.os[1]) /\ heap' = Alloc(heap, {Text})
  <2>1. /\ After(s, p).held = p.held /\ After(s, p).made = p.made \cup {Text} /\ After(s, p).due = p.due
        /\ After(s, p).done = p.done /\ After(s, p).sent = AllSamples /\ After(s, p).used = p.used
    BY <1>1 DEF After, Note, CreateOps
  <2>2. /\ HeapOK(heap') /\ Floating(heap') = Floating(heap) /\ heap'.made = heap.made \cup {Text}
        /\ SamplesOf(heap'.live) = SamplesOf(heap.live)
    BY <1>2, <1>3, TextFacts
  <2>3. doc' \subseteq SamplesOf(heap.live)
    <3>1. s.os[1] \in heap.live
      <4>1. Finds(s, p)
        BY AtStepFacts DEF StepGood
      <4> QED BY <1>1, <1>2, <4>1 DEF Finds, CreateOps, HeapHolds, Floating
    <3>2. Tree(heap, s.os[1]) \subseteq heap.live
      BY <1>2, <3>1, TreeFacts
    <3> QED BY <1>3, <3>2 DEF Samples, SamplesOf
  <2>4. doc' \subseteq AllSamples
    BY <1>2, <2>3 DEF HeapOK
  <2>5. HeapHolds(After(s, p))' /\ HeapOK(heap)'
    BY <1>2, <2>1, <2>2 DEF HeapHolds
  <2>6. err = "ok" => MessageHolds(After(s, p))'
    <3>1. InMessage' \subseteq InMessage
      BY <2>2, <2>3 DEF InMessage
    <3> QED BY <1>1, <1>2, <2>1, <2>4, <3>1 DEF MessageHolds
  <2>7. err # "ok" => Excused'
    BY <1>1, AtStepFacts DEF Excused
  <2> QED BY <1>1, <1>2, <1>3, <2>4, <2>5, <2>6, <2>7, Succeeds DEF InOrder
<1>4. CASE Abort(scr, s, "ENOMEM") /\ UNCHANGED doc
  <2>1. Partly(s) = {{}}
    BY <1>1 DEF Partly
  <2>2. /\ Floating(heap) = p.held \cup {} /\ heap.made = heap.made \cup {}
        /\ heap.live = heap.live \cup {}
    BY <1>2 DEF HeapHolds
  <2>3. heap' = DeleteAll(heap, s.undo) /\ Error(scr, s, "ENOMEM")
    BY <1>4 DEF Abort
  <2>4. InOrder(scr, kind)'
    BY <1>1, <1>2, <2>1, <2>2, <2>3, FailsWith
  <2> QED BY <1>2, <1>4, <2>4
<1> QED BY <1>3, <1>4 DEF PrintText

\* err = -ENODATA.
LEMMA SetErrorKeeps ==
  ASSUME NEW scr, NEW b, NEW kind, NEW n, NEW a, NEW s, NEW p, NEW c,
         AtStep(scr, b, kind, n, a, s, p, c), SetError(scr, s)
  PROVE  InOrder(scr, kind)'
<1>1. s.op = "preset_error" /\ s.op \notin ExitOps /\ s.op \in FailOps /\ UNCHANGED heap
  BY DEF SetError, ExitOps, FailOps
<1>2. HeapOK(heap) /\ HeapHolds(p)
  BY <1>1, BeforeError
<1>3. {} \in Partly(s)
  BY <1>1 DEF Partly, CreateOps
<1>4. Floating(heap)' = (p.held \cup {}) \ Range(s.undo)
  <2>1. s.undo = << >>
    BY <1>1, AtStepFacts DEF StepGood, FailsWell
  <2>2. Range(<< >>) = {}
    BY DEF Range
  <2> QED BY <1>1, <1>2, <2>1, <2>2 DEF HeapHolds
<1>5. Noted(scr, kind)'
  BY <1>1, <1>2, <1>3, <1>4, FailsTo DEF SetError
<1> QED BY <1>1, <1>2, <1>5 DEF InOrder

\* -ENOTSUP.
LEMMA RefuseKeeps ==
  ASSUME NEW scr, NEW b, NEW kind, NEW n, NEW a, NEW s, NEW p, NEW c,
         AtStep(scr, b, kind, n, a, s, p, c), Refuse(scr, s)
  PROVE  InOrder(scr, kind)'
<1>1. s.op \in FailOps \ (CreateOps \cup ExitOps) /\ Abort(scr, s, "ENOTSUP")
  BY DEF Refuse, ExitOps, FailOps, CreateOps
<1> QED BY <1>1, FailsQuietly

\* Every step of every disciplined script keeps the heap in order and the note true.
LEMMA PerformKeeps ==
  ASSUME NEW scr, NEW b, NEW kind, NEW n, NEW a, NEW s, NEW p, NEW c,
         AtStep(scr, b, kind, n, a, s, p, c), Perform(scr), UNCHANGED <<cloud, api, valid>>
  PROVE  InOrder(scr, kind)'
<1>1. s = scr[fn][pc]
  BY DEF AtStep
<1>2. \/ TakeSample(scr, s)    \/ ConvertTime(scr, s)     \/ CreateObjects(scr, s)
      \/ AddValues(scr, s)     \/ TryStep(scr, s)         \/ AttachObject(scr, s)
      \/ AttachArray(scr, s)   \/ ClearQueued(scr, s)     \/ NoteObjectAdded(scr, s)
      \/ CheckContent(scr, s)  \/ PrintText(scr, s)       \/ FreeObject(scr, s)
      \/ AddPathsToList(scr, s) \/ SetError(scr, s)     \/ Refuse(scr, s)
  BY <1>1 DEF Perform
<1>3. CASE TakeSample(scr, s) \/ ConvertTime(scr, s) \/ CreateObjects(scr, s)
  BY <1>3, TakeSampleKeeps, ConvertTimeKeeps, CreateObjectsKeeps
<1>4. CASE AddValues(scr, s) \/ TryStep(scr, s) \/ AttachObject(scr, s)
  BY <1>4, AddValuesKeeps, TryStepKeeps, AttachObjectKeeps
<1>5. CASE AttachArray(scr, s) \/ ClearQueued(scr, s) \/ NoteObjectAdded(scr, s)
  BY <1>5, AttachArrayKeeps, ClearQueuedKeeps, NoteObjectAddedKeeps
<1>6. CASE CheckContent(scr, s) \/ PrintText(scr, s) \/ FreeObject(scr, s)
  BY <1>6, CheckContentKeeps, PrintTextKeeps, FreeObjectKeeps
<1>7. CASE AddPathsToList(scr, s) \/ SetError(scr, s) \/ Refuse(scr, s)
  BY <1>7, AddPathsKeeps, SetErrorKeeps, RefuseKeeps
<1> QED BY <1>2, <1>3, <1>4, <1>5, <1>6, <1>7

---------------------------------------------------------------------------
(* The state of the codecs.                                                 *)

StateInv ==
  /\ cloud \in Clouds /\ api \in Apis \cup {"init"} /\ valid \in Valid
  /\ err \in Errors /\ (PathsNeeded <= PathListSize => PathsFit)
  /\ queued \subseteq AllSamples /\ converted \subseteq AllSamples
  /\ doc \subseteq AllSamples /\ taken \subseteq AllSamples
  /\ cfg \in [Settings -> 0 .. MaxVersion] /\ object \in [Settings -> 0 .. MaxVersion]
  /\ shadow \in 0 .. MaxVersion
  /\ paths \in 0 .. PathListSize /\ unadded \in 0 .. MaxUnadded

callVars == <<cloud, api, valid, taken, cfg, object, shadow>>

\* A codec begins in such a state.
LEMMA StateInit == Init => StateInv
  BY StepsAssumption, CodecsAssumption DEF Init, StateInv, PathsFit, Errors, Valid, configVars

\* A step keeps it.
LEMMA PerformState ==
  ASSUME StateInv, NEW scr, NEW b, NEW kind, NEW n, NEW a, NEW s, NEW p, NEW c,
         AtStep(scr, b, kind, n, a, s, p, c), Perform(scr), UNCHANGED callVars
  PROVE  StateInv'
<1>1. StepGood(s, p, IF pc = Len(scr[fn]) THEN b[fn + 1] ELSE a[pc + 1], c)
  BY AtStepFacts
<1>2. Named(s) /\ Finds(s, p) /\ p.used \in Nat
  BY <1>1, NotesTyped DEF StepGood
<1>3. doc' \subseteq AllSamples
  <2>1. CASE TryStep(scr, s)
    BY <1>2, <2>1 DEF TryStep, Named, StateInv
  <2>2. CASE PrintText(scr, s)
    BY <2>2, PrintTextKeeps DEF callVars
  <2>3. CASE UNCHANGED doc
    BY <2>3 DEF StateInv
  <2> QED BY <2>1, <2>2, <2>3 DEF AtStep, Perform, TakeSample, ConvertTime, CreateObjects, AddValues,
             AttachObject, AttachArray, ClearQueued, NoteObjectAdded, CheckContent, FreeObject,
             AddPathsToList, SetError, Refuse
<1>4. queued' \subseteq queued
  BY DEF Perform, TakeSample, ConvertTime, CreateObjects, AddValues, TryStep, PrintText,
             AttachObject, AttachArray, ClearQueued, NoteObjectAdded, CheckContent, FreeObject,
             AddPathsToList, SetError, Refuse
<1>5. converted' = converted \/ (s.d \in AllSamples /\ converted' = converted \cup {s.d})
  <2>1. CASE ConvertTime(scr, s)
    BY <1>2, <2>1 DEF ConvertTime, Named
  <2> QED BY <2>1 DEF AtStep, Perform, TakeSample, CreateObjects, AddValues, TryStep, PrintText,
             AttachObject, AttachArray, ClearQueued, NoteObjectAdded, CheckContent, FreeObject,
             AddPathsToList, SetError, Refuse
<1>6. paths' \in 0 .. PathListSize
  <2>1. CASE AddPathsToList(scr, s)
    <3>1. Len(s.os) \in Nat
      BY <1>2, <2>1 DEF Finds, AddPathsToList, CreateOps
    <3> QED BY <2>1, <3>1, StepsAssumption, MinOfTwo DEF AddPathsToList, StateInv
  <2> QED BY <2>1 DEF StateInv, AtStep, Perform, TakeSample, ConvertTime, CreateObjects, AddValues, TryStep,
             PrintText, AttachObject, AttachArray, ClearQueued, NoteObjectAdded, CheckContent, FreeObject,
             SetError, Refuse
<1>7. unadded' \in 0 .. MaxUnadded
  <2>1. unadded \in 0 .. MaxUnadded /\ MaxUnadded \in Nat
    BY StepsAssumption DEF StateInv
  <2>2. CASE AttachObject(scr, s)
    BY <2>1, <2>2 DEF AttachObject
  <2>3. CASE AttachArray(scr, s) \/ AddValues(scr, s)
    BY <2>1, <2>3 DEF AttachArray, AddValues
  <2> QED BY <2>1, <2>2, <2>3 DEF AtStep, Perform, TakeSample, ConvertTime, CreateObjects, TryStep,
             PrintText, ClearQueued, NoteObjectAdded, CheckContent, FreeObject,
             AddPathsToList, SetError, Refuse
<1>8. err' \in Errors
  BY DEF StateInv, Errors, Perform, TakeSample, ConvertTime, CreateObjects, AddValues, TryStep, PrintText,
         AttachObject, AttachArray, ClearQueued, NoteObjectAdded, CheckContent, FreeObject,
         AddPathsToList, SetError, Refuse, Go, Abort, Error, SkipSample, Fails
<1>9. ASSUME PathsNeeded <= PathListSize PROVE err' # "EPATHS"
  <2>1. CASE AddPathsToList(scr, s)
    <3>1. s.op = "add_paths" /\ s.op \notin ExitOps
      BY <2>1 DEF AddPathsToList, ExitOps
    <3>2. paths \in 0 .. p.used /\ Len(s.os) \in Nat /\ p.used + Len(s.os) <= PathsNeeded
      BY <1>2, <3>1, BeforeError DEF MessageHolds, Finds, CreateOps
    <3>3. paths + Len(s.os) <= PathListSize
      BY <1>2, <1>9, <3>2, StepsAssumption DEF PathsNeeded
    <3> QED BY <1>9, <2>1, <3>3 DEF AddPathsToList, Go, StateInv, PathsFit
  <2> QED BY <1>9, <2>1 DEF StateInv, PathsFit, AtStep, Perform, TakeSample, ConvertTime, CreateObjects,
             AddValues, TryStep, PrintText, AttachObject, AttachArray, ClearQueued, NoteObjectAdded,
             CheckContent, FreeObject, SetError, Refuse, Go, Abort, Error, SkipSample, Fails
<1> QED BY <1>3, <1>4, <1>5, <1>6, <1>7, <1>8, <1>9 DEF StateInv, PathsFit, callVars

---------------------------------------------------------------------------
(* The invariant of all codecs.                                             *)

AllGood ==
  \A c \in Clouds, a \in Apis \cup {"init"}, v \in Valid :
    \E b : ScriptGood(ScriptOf(c, a, v), b, Kind(c, a, v))

CodecInv == HeapOK(heap) /\ StateInv /\ CallInv /\ InitInv /\ (Idle => pc = 1)

\* The script that is executed.
LEMMA ScriptIs ==
  ASSUME StateInv, NEW a \in Apis \cup {"init"} PROVE Script(a) = ScriptOf(cloud, a, valid)
  BY DEF StateInv, Script, Scripts

\* Nothing is on an empty heap.
LEMMA EmptyFacts ==
  /\ HeapOK(EmptyHeap) /\ Floating(EmptyHeap) = {}
  /\ EmptyHeap.made = {} /\ EmptyHeap.live = {} /\ SamplesOf({}) = {}
  BY DEF EmptyHeap, HeapOK, Floating, SamplesOf

\* A call begins.
LEMMA Begin ==
  ASSUME NEW scr, NEW kind, \E b : ScriptGood(scr, b, kind),
         fn = 1, pc = 1, err = "ok", heap = EmptyHeap, doc = {}, paths = 0
  PROVE  Noted(scr, kind)
<1>1. PICK b : ScriptGood(scr, b, kind)
  OBVIOUS
<1>2. Len(scr) \in Nat /\ b[1] = Blank
  BY <1>1 DEF ScriptGood
<1>3. Holds(scr, Blank)
  BY EmptyFacts DEF Holds, HeapHolds, MessageHolds, InMessage, Blank, Note
<1>4. ASSUME 1 <= Len(scr)
      PROVE \E n, a : FunctionNoted(scr, b, fn, n, kind, a) /\ pc \in 1 .. Len(scr[fn]) /\ Holds(scr, a[pc])
  <2>1. PICK n, a : FunctionNoted(scr, b, 1, n, kind, a)
    BY <1>1, <1>2, <1>4 DEF ScriptGood
  <2>2. a[1] = Blank /\ 1 \in 1 .. Len(scr[1])
    BY <1>2, <2>1 DEF FunctionNoted, FunctionGood
  <2> QED BY <1>3, <2>1, <2>2
<1>5. fn = Len(scr) + 1 => pc = 1 /\ Holds(scr, b[fn])
  BY <1>2, <1>3
<1> QED BY <1>1, <1>2, <1>4, <1>5 DEF Noted

\* The same after a step.
LEMMA BeginNext ==
  ASSUME NEW scr, NEW kind, \E b : ScriptGood(scr, b, kind),
         fn' = 1, pc' = 1, err' = "ok", heap' = EmptyHeap, doc' = {}, paths' = 0
  PROVE  Noted(scr, kind)'
<1>1. PICK b : ScriptGood(scr, b, kind)
  OBVIOUS
<1>2. Len(scr) \in Nat /\ b[1] = Blank /\ 1 \in 1 .. Len(scr) + 1
  BY <1>1 DEF ScriptGood
<1>3. Holds(scr, Blank)'
  BY EmptyFacts DEF Holds, HeapHolds, MessageHolds, InMessage, Blank, Note
<1> QED BY <1>1, <1>2, <1>3, Enter

\* The script of a call is disciplined.
LEMMA ScriptOfCall ==
  ASSUME AllGood, StateInv PROVE \E b : ScriptGood(Script(api), b, Kind(cloud, api, valid))
  BY ScriptIs DEF AllGood, StateInv

\* The invariant holds at first.
LEMMA CodecInit == AllGood /\ Init => CodecInv
<1> SUFFICES ASSUME AllGood, Init PROVE CodecInv
  OBVIOUS
<1>1. StateInv
  BY StateInit
<1>2. fn = 1 /\ pc = 1 /\ err = "ok" /\ heap = EmptyHeap /\ doc = {} /\ paths = 0 /\ callbacks = FALSE
  BY DEF Init
<1>3. Noted(Script(api), Kind(cloud, api, valid))
  BY <1>1, <1>2, ScriptOfCall, Begin
<1> QED BY <1>1, <1>2, <1>3, EmptyFacts DEF CodecInv, CallInv, InitInv, Idle

\* What the functions look at are samples.
LEMMA LookedSamples ==
  ASSUME NEW scr, NEW b, NEW kind, ScriptGood(scr, b, kind), DOMAIN scr = 1 .. Len(scr),
         \A k \in 1 .. Len(scr) : DOMAIN scr[k] = 1 .. Len(scr[k])
  PROVE  Looked(scr) \subseteq AllSamples
<1> SUFFICES ASSUME NEW k \in 1 .. Len(scr), NEW m \in 1 .. Len(scr[k]),
                    scr[k][m].op \in {"if_queued", "need_queued"}
             PROVE  scr[k][m].d \in AllSamples
  BY DEF Looked, Range
<1>1. PICK n, a : FunctionNoted(scr, b, k, n, kind, a)
  BY DEF ScriptGood
<1>2. \E q, c : StepGood(scr[k][m], a[m], q, c)
  BY <1>1 DEF FunctionNoted, FunctionGood
<1>3. Named(scr[k][m])
  BY <1>2 DEF StepGood
<1> QED BY <1>3 DEF Named

\* A call begins.
LEMMA CallKeeps ==
  ASSUME AllGood, CodecInv, NEW a \in Apis, Call(a) PROVE CodecInv'
<1>1. /\ fn' = 1 /\ pc' = 1 /\ err' = "ok" /\ heap' = EmptyHeap /\ doc' = {} /\ paths' = 0 /\ unadded' = 0
      /\ api' = a /\ UNCHANGED <<cloud, configVars>> /\ taken' = queued'
  BY DEF Call
<1>2. a # "init"
  BY DEF Apis
<1>3. StateInv'
  <2>1. cloud' \in Clouds /\ api' \in Apis \cup {"init"} /\ cfg' = cfg /\ object' = object /\ shadow' = shadow
    BY <1>1 DEF CodecInv, StateInv, configVars
  <2>2. CASE a = "location"
    <3>1. Request
      BY <2>2 DEF Call
    <3>2. CASE UNCHANGED <<valid, queued, converted>>
      BY <1>1, <2>1, <3>2, StepsAssumption DEF CodecInv, StateInv, PathsFit, Errors
    <3>3. ASSUME NEW v \in Valid \ {{}}, NEW new, new = {SampleOf(type) : type \in v \cup {"location"}},
                 valid' = v, queued' = (queued \ {SampleOf("cells"), SampleOf("wifi")}) \cup new,
                 converted' = converted \ new
          PROVE  StateInv'
      <4>1. v \cup {"location"} \subseteq Types
        BY DEF Valid, Types
      <4>2. new \subseteq AllSamples
        BY <3>3, <4>1, SampleNames
      <4>3. queued' \subseteq AllSamples /\ converted' \subseteq AllSamples /\ valid' \in Valid
        BY <3>3, <4>2 DEF CodecInv, StateInv
      <4> QED BY <1>1, <2>1, <4>3, StepsAssumption DEF CodecInv, StateInv, PathsFit, Errors
    <3> QED BY <3>1, <3>2, <3>3 DEF Request
  <2>3. CASE a # "location"
    <3>1. valid' = valid /\ \E new \in Arrivals(Looked(Script(a))) :
               queued' = queued \cup new /\ converted' = converted \ new
      BY <2>3 DEF Call
    <3>2. Looked(Script(a)) \subseteq AllSamples
      <4>1. PICK b : ScriptGood(Script(a), b, Kind(cloud, a, valid))
        BY ScriptIs DEF AllGood, CodecInv, StateInv
      <4>2. /\ DOMAIN Script(a) = 1 .. Len(Script(a))
            /\ \A k \in 1 .. Len(Script(a)) : DOMAIN Script(a)[k] = 1 .. Len(Script(a)[k])
        BY <4>1 DEF ScriptGood, FunctionNoted, FunctionGood
      <4> QED BY <4>1, <4>2, LookedSamples
    <3>3. \A new \in Arrivals(Looked(Script(a))) : new \subseteq AllSamples
      BY <3>2 DEF Arrivals
    <3>4. queued' \subseteq AllSamples /\ converted' \subseteq AllSamples
      BY <3>1, <3>3 DEF CodecInv, StateInv
    <3> QED BY <1>1, <2>1, <3>1, <3>4, StepsAssumption DEF CodecInv, StateInv, PathsFit, Errors
  <2> QED BY <2>2, <2>3
<1>4. CallInv'
  <2>1. PICK scr, kind : scr = Script(api)' /\ kind = Kind(cloud, api, valid)'
    OBVIOUS
  <2>2. \E b : ScriptGood(scr, b, kind)
    <3>1. scr = ScriptOf(cloud, api, valid)'
      BY <1>3, <2>1 DEF StateInv, Script, Scripts
    <3> QED BY <1>3, <2>1, <3>1 DEF AllGood, StateInv
  <2>3. Noted(scr, kind)'
    BY <1>1, <2>2, BeginNext
  <2> QED BY <2>1, <2>3 DEF CallInv
<1> QED BY <1>1, <1>2, <1>3, <1>4, EmptyFacts DEF CodecInv, InitInv, Idle

---------------------------------------------------------------------------
(* Every step of a codec keeps the invariant.                               *)

\* A call that has not returned is at a step.
LEMMA AtTheStep ==
  ASSUME CodecInv, ~Idle, ~Returned, NEW scr, scr = Script(api), NEW kind, kind = Kind(cloud, api, valid)
  PROVE  \E b, n, a, s, p, c : AtStep(scr, b, kind, n, a, s, p, c) /\ s = scr[fn][pc]
<1>1. Noted(scr, kind)
  BY DEF CodecInv, CallInv
<1>2. PICK b : /\ ScriptGood(scr, b, kind) /\ fn \in 1 .. Len(scr) + 1
               /\ fn <= Len(scr) =>
                    \E n, a : /\ FunctionNoted(scr, b, fn, n, kind, a)
                              /\ pc \in 1 .. Len(scr[fn]) /\ Holds(scr, a[pc])
  BY <1>1 DEF Noted
<1>3. Len(scr) \in Nat /\ fn \in 1 .. Len(scr)
  BY <1>2 DEF ScriptGood, Returned
<1>4. PICK n, a : FunctionNoted(scr, b, fn, n, kind, a) /\ pc \in 1 .. Len(scr[fn]) /\ Holds(scr, a[pc])
  BY <1>2, <1>3
<1>5. HeapOK(heap) /\ doc \subseteq AllSamples /\ (kind = "excused" => Excused)
  BY DEF CodecInv, StateInv, Kind, Excused
<1>6. AtStep(scr, b, kind, n, a, scr[fn][pc], a[pc], Context(scr, b, fn, n, kind))
  BY <1>2, <1>3, <1>4, <1>5 DEF AtStep
<1> QED BY <1>6

\* A step leads to the next one of its function or to a later function.
LEMMA Moves ==
  ASSUME NEW scr, Len(scr) \in Nat, fn \in 1 .. Len(scr),
         NEW s, NEW e, Go(scr) \/ SkipSample(scr) \/ Abort(scr, s, e) \/ Error(scr, s, e)
  PROVE  fn' \in Nat /\ (fn' > fn \/ (fn' = fn /\ pc' = pc + 1))
<1>1. ASSUME NEW x, Leave(scr, x) PROVE fn' \in Nat /\ fn' > fn
  BY <1>1 DEF Leave
<1> QED BY <1>1 DEF Go, SkipSample, Abort, Error

\* A call does not go back.
LEMMA PerformMoves ==
  ASSUME NEW scr, Len(scr) \in Nat, fn \in 1 .. Len(scr), Perform(scr)
  PROVE  fn' \in Nat /\ (fn' > fn \/ (fn' = fn /\ pc' = pc + 1))
<1>1. \/ Go(scr) \/ SkipSample(scr) \/ \E s, e : Abort(scr, s, e) \/ Error(scr, s, e)
  BY DEF Perform, TakeSample, ConvertTime, CreateObjects, AddValues, TryStep, AttachObject, AttachArray,
         ClearQueued, NoteObjectAdded, CheckContent, PrintText, FreeObject, AddPathsToList, SetError, Refuse
<1> QED BY <1>1, Moves

\* An encoder goes on.
LEMMA EncodeKeeps ==
  ASSUME CodecInv, Encode PROVE CodecInv'
<1>0. PICK scr : scr = Script(api)
  OBVIOUS
<1>1. PICK kind : kind = Kind(cloud, api, valid)
  OBVIOUS
<1>2. ~Idle /\ ~Returned /\ Perform(scr) /\ UNCHANGED <<cloud, ready, api, valid, taken, calls, configVars>>
  BY <1>0 DEF Encode
<1>3. PICK b, n, a, s, p, c : AtStep(scr, b, kind, n, a, s, p, c)
  BY <1>0, <1>1, <1>2, AtTheStep
<1>4. InOrder(scr, kind)'
  BY <1>2, <1>3, PerformKeeps
<1>5. StateInv'
  BY <1>2, <1>3, PerformState DEF CodecInv, configVars, callVars
<1>6. (Script(api))' = scr /\ Kind(cloud, api, valid)' = kind /\ callbacks' = callbacks /\ api' = api
  BY <1>0, <1>1, <1>2 DEF Script, configVars
<1>7. CallInv'
  BY <1>4, <1>6 DEF CallInv, InOrder
<1>8. Len(scr) \in Nat /\ fn \in 1 .. Len(scr) /\ Len(scr[fn]) \in Nat /\ pc \in 1 .. Len(scr[fn])
  BY <1>3, AtStepFacts
<1>9. fn' \in Nat /\ (fn' > fn \/ (fn' = fn /\ pc' = pc + 1))
  BY <1>2, <1>8, PerformMoves
<1>10. InitInv' /\ ~Idle'
  BY <1>6, <1>8, <1>9 DEF CodecInv, InitInv, Idle
<1> QED BY <1>4, <1>5, <1>7, <1>10 DEF CodecInv, InOrder

---------------------------------------------------------------------------
(* The initialisation of the LwM2M codec.                                   *)

\* The steps of the initialisation.
LEMMA InitScript ==
  ASSUME NEW f, f = lwm2m_init[1]
  PROVE  /\ Len(lwm2m_init) = 1 /\ Len(f) = 5 /\ f[1].op = "write" /\ f[2].op = "write"
         /\ f[3].op = "set_config" /\ f[4].op = "set_callbacks" /\ f[5].op = "set_handler"
<1>1. PICK h : h = Step("set_handler", NoSample, << >>, << >>)
  OBVIOUS
<1>2. f = create_objects_and_resources \o setup_resources \o setup_configuration_object \o <<h>>
  BY <1>1 DEF lwm2m_init
<1>3. Len(lwm2m_init) = 1
  BY DEF lwm2m_init
<1>4. Len(f) = 5 /\ f[1] = Write(NoSample) /\ f[2] = Write(NoSample) /\ f[3] = set_configuration
      /\ f[4] = set_callback_for_config_object /\ f[5] = h
  BY <1>2 DEF create_objects_and_resources, setup_resources, setup_configuration_object
<1> QED BY <1>1, <1>3, <1>4 DEF Write, set_configuration, set_callback_for_config_object, Step

\* The initialisation goes on: the engine cannot call back before there is a handler.
LEMMA InitStepKeeps ==
  ASSUME CodecInv, InitStep PROVE CodecInv'
<1>0. PICK scr : scr = Script(api)
  OBVIOUS
<1>1. PICK kind : kind = Kind(cloud, api, valid)
  OBVIOUS
<1>2. /\ ~Idle /\ ~Returned
      /\ UNCHANGED <<queued, converted, paths, unadded, object_added, doc, cloud, ready, api, valid,
                 taken, calls, messages, object, version_prev, cfg, shadow, handled>>
  BY <1>0 DEF InitStep
<1>3. PICK b, n, a, s, p, c : AtStep(scr, b, kind, n, a, s, p, c) /\ s = scr[fn][pc]
  BY <1>0, <1>1, <1>2, AtTheStep
<1>4. \/ /\ s.op = "set_config"
         /\ \/ Go(scr) /\ heap' = [heap EXCEPT !.fault = @ \/ (callbacks /\ ~module_evt_handler)]
            \/ Abort(scr, s, "ENOENT")
         /\ callbacks' = callbacks
      \/ /\ s.op = "set_callbacks" /\ callbacks' = TRUE
         /\ \/ Go(scr) /\ UNCHANGED heap
            \/ Abort(scr, s, "ENOENT")
      \/ /\ s.op = "set_handler" /\ UNCHANGED <<heap, callbacks>> /\ Go(scr)
  BY <1>0, <1>3 DEF InitStep
<1>5. /\ Len(scr) \in Nat /\ fn \in 1 .. Len(scr) /\ Len(scr[fn]) \in Nat /\ pc \in 1 .. Len(scr[fn])
      /\ StepGood(s, p, IF pc = Len(scr[fn]) THEN b[fn + 1] ELSE a[pc + 1], c) /\ c.kind = kind
  BY <1>3, AtStepFacts
<1>6. api = "init" /\ fn = 1 /\ (s.op = "set_config" => pc = 3) /\ (s.op = "set_callbacks" => pc = 4)
      /\ (s.op = "set_handler" => pc = 5)
  <2>1. kind = "init" /\ api = "init"
    BY <1>1, <1>4, <1>5 DEF StepGood, InitOps, Kind
  <2>2. scr = codec_init(cloud)
    <3>1. cloud \in Clouds /\ valid \in Valid /\ "init" \in Apis \cup {"init"}
      BY DEF CodecInv, StateInv
    <3>2. scr = ScriptOf(cloud, "init", valid)
      BY <1>0, <2>1, ScriptIs DEF CodecInv
    <3> QED BY <3>2 DEF ScriptOf
  <2>3. scr = lwm2m_init
    BY <1>5, <2>2 DEF codec_init
  <2> QED BY <1>3, <1>5, <2>1, <2>3, InitScript
<1>7. HeapOK(heap) /\ ~(s.op = "set_config" /\ callbacks)
  BY <1>6 DEF CodecInv, InitInv
<1>8. InOrder(scr, kind)'
  <2>1. s.op \notin ExitOps /\ s.op \notin CreateOps /\ s.op \notin {"not_supported", "preset_error"}
        /\ After(s, p) = p
    BY <1>4 DEF ExitOps, CreateOps, After
  <2>2. CASE Go(scr)
    <3>1. err = "ok" /\ HeapHolds(p) /\ MessageHolds(p)
      BY <1>3, <2>1, BeforeError
    <3>2. /\ heap'.live = heap.live /\ heap'.made = heap.made /\ heap'.in = heap.in
          /\ heap'.fault = FALSE /\ DOMAIN heap' = {"live", "made", "in", "fault"}
      <4>1. CASE s.op = "set_config" /\ heap' = [heap EXCEPT !.fault = @ \/ (callbacks /\ ~module_evt_handler)]
        <5>1. (heap.fault \/ (callbacks /\ ~module_evt_handler)) = FALSE
          BY <1>7, <4>1 DEF HeapOK
        <5>2. heap' = [heap EXCEPT !.fault = FALSE]
          BY <4>1, <5>1, Zenon
        <5> QED BY <1>7, <5>2 DEF HeapOK
      <4>2. CASE Abort(scr, s, "ENOENT")
        BY <2>2, <3>1, <4>2 DEF Go, Abort, Error
      <4>3. CASE heap' = heap
        BY <1>7, <4>3 DEF HeapOK
      <4> QED BY <1>4, <4>1, <4>2, <4>3
    <3>3. Floating(heap)' = Floating(heap)
      BY <3>2 DEF Floating
    <3>4. HeapOK(heap)' /\ HeapHolds(p)' /\ MessageHolds(p)'
      BY <1>2, <1>7, <3>1, <3>2, <3>3 DEF HeapOK, HeapHolds, MessageHolds, InMessage
    <3> QED BY <1>3, <2>1, <2>2, <3>1, <3>4, Succeeds DEF InOrder
  <2>3. CASE Abort(scr, s, "ENOENT") /\ s.op \in FailOps
    BY <1>3, <2>1, <2>3, FailsQuietly
  <2> QED BY <1>4, <2>2, <2>3 DEF FailOps
<1>9. (Script(api))' = scr /\ Kind(cloud, api, valid)' = kind
  BY <1>0, <1>1, <1>2 DEF Script
<1>10. StateInv'
  <2>1. err' = err \/ err' = "ENOENT"
    BY <1>4 DEF Go, Abort, Error
  <2> QED BY <1>2, <2>1 DEF CodecInv, StateInv, PathsFit, Errors
<1>11. fn' \in Nat /\ (fn' > fn \/ (fn' = fn /\ pc' = pc + 1))
  BY <1>4, <1>5, Moves
<1>12. InitInv' /\ ~Idle'
  BY <1>2, <1>4, <1>5, <1>6, <1>11 DEF CodecInv, InitInv, Idle
<1> QED BY <1>8, <1>9, <1>10, <1>12 DEF CodecInv, CallInv, InOrder

---------------------------------------------------------------------------
(* Between the calls.                                                       *)

\* A call returns.
LEMMA ReturnKeeps == ASSUME CodecInv, Return PROVE CodecInv'
<1>1. /\ fn' = 0 /\ pc' = 1 /\ err' = "ok" /\ doc' = {} /\ taken' = {} /\ paths' = 0 /\ unadded' = 0
      /\ heap' = [EmptyHeap EXCEPT !.fault = heap.fault]
      /\ UNCHANGED <<queued, converted, cloud, api, valid, cfg, object, shadow>>
  BY DEF Return, configVars
<1>2. heap' = EmptyHeap
  BY <1>1 DEF CodecInv, HeapOK, EmptyHeap
<1> QED BY <1>1, <1>2, EmptyFacts, StepsAssumption
        DEF CodecInv, StateInv, PathsFit, CallInv, InitInv, Idle, Errors

\* Between calls.
LEMMA IdleKeeps ==
  ASSUME CodecInv, fn = 0, UNCHANGED <<fn, pc, err, queued, converted, paths, unadded, doc, cloud, api,
                                        valid, taken>>,
         HeapOK(heap)', cfg' \in [Settings -> 0 .. MaxVersion], object' \in [Settings -> 0 .. MaxVersion],
         shadow' \in 0 .. MaxVersion
  PROVE  CodecInv'
  BY DEF CodecInv, StateInv, PathsFit, CallInv, InitInv, Idle

\* A message from the cloud.
LEMMA MessageKeeps ==
  ASSUME CodecInv, config_update_cb \/ ShadowUpdate \/ RefusedMessage PROVE CodecInv'
<1>1. fn = 0 /\ MaxVersion \in Nat
  BY CodecsAssumption DEF config_update_cb, ShadowUpdate, RefusedMessage, Idle
<1>2. /\ cfg \in [Settings -> 0 .. MaxVersion] /\ object \in [Settings -> 0 .. MaxVersion]
      /\ shadow \in 0 .. MaxVersion
  BY DEF CodecInv, StateInv
<1>3. CASE config_update_cb
  <2>1. shadow' \in 0 .. MaxVersion
    BY <1>1, <1>2, <1>3 DEF config_update_cb
  <2>2. PICK s \in Settings : object' = [object EXCEPT ![s] = shadow'] /\ cfg' \in {object', cfg}
    BY <1>3 DEF config_update_cb, get_configuration_object
  <2>3. object' \in [Settings -> 0 .. MaxVersion]
    BY <1>2, <2>1, <2>2
  <2>4. UNCHANGED <<stepVars, cloud, api, valid, taken>>
    BY <1>3 DEF config_update_cb
  <2>5. HeapOK(heap)'
    BY <2>4 DEF CodecInv, stepVars
  <2> QED BY <1>1, <1>2, <2>1, <2>2, <2>3, <2>4, <2>5, IdleKeeps DEF stepVars
<1>4. CASE ShadowUpdate
  <2>1. PICK version \in {shadow + 1} \cup {v \in 1 .. shadow : v + Window > shadow} :
          /\ version <= MaxVersion
          /\ shadow' = IF version > shadow THEN version ELSE shadow
          /\ \E present \in SUBSET Settings : decode_config(version, [s \in present |-> version])
    BY <1>4 DEF ShadowUpdate
  <2>2. version \in 0 .. MaxVersion /\ shadow' \in 0 .. MaxVersion
    BY <1>1, <1>2, <2>1
  <2>3. cfg' \in [Settings -> 0 .. MaxVersion]
    <3>1. PICK present \in SUBSET Settings : decode_config(version, [s \in present |-> version])
      BY <2>1
    <3>2. cfg' = cfg \/ cfg' = [s \in DOMAIN cfg |-> IF s \in present THEN version ELSE cfg[s]]
      BY <3>1 DEF decode_config, config_get
    <3> QED BY <1>2, <2>2, <3>2
  <2>4. /\ UNCHANGED <<fn, pc, err, queued, converted, paths, unadded, doc, cloud, api, valid, taken, object>>
        /\ heap' = EmptyHeap
    BY <1>4 DEF ShadowUpdate
  <2> QED BY <1>1, <1>2, <2>2, <2>3, <2>4, EmptyFacts, IdleKeeps
<1>5. CASE RefusedMessage
  <2>1. UNCHANGED <<fn, pc, err, queued, converted, paths, unadded, doc, cloud, api, valid, taken, object, cfg, shadow>>
    BY <1>5 DEF RefusedMessage, configVars
  <2>2. HeapOK(heap)'
    <3>1. heap' = [live |-> {Object("parsed", NoSample)}, made |-> {Object("parsed", NoSample)}, in |-> {}, fault |-> FALSE]
      BY <1>5 DEF RefusedMessage, Alloc, EmptyHeap
    <3>2. SamplesOf({Object("parsed", NoSample)}) = {}
      BY DEF SamplesOf, Object, NoSample
    <3> QED BY <3>1, <3>2 DEF HeapOK
  <2> QED BY <1>1, <1>2, <2>1, <2>2, IdleKeeps
<1> QED BY <1>3, <1>4, <1>5

\* Every step keeps the invariant.
LEMMA CodecStep ==
  ASSUME AllGood, CodecInv, [Next]_vars PROVE CodecInv'
<1>1. CASE \E a \in Apis : Call(a)
  BY <1>1, CallKeeps
<1>2. CASE Encode \/ InitStep \/ Return
  BY <1>2, EncodeKeeps, InitStepKeeps, ReturnKeeps
<1>3. CASE config_update_cb \/ ShadowUpdate \/ RefusedMessage
  BY <1>3, MessageKeeps
<1>4. CASE UNCHANGED vars
  <2>1. (Script(api))' = Script(api) /\ Kind(cloud, api, valid)' = Kind(cloud, api, valid)
    BY <1>4 DEF vars, Script
  <2>2. ASSUME NEW scr, NEW kind, Noted(scr, kind) PROVE Noted(scr, kind)'
    BY <1>4, <2>2 DEF vars, configVars, stepVars, Noted, Holds, HeapHolds, MessageHolds, InMessage, Excused
  <2>3. CallInv'
    BY <1>4, <2>1, <2>2 DEF CodecInv, CallInv, vars, stepVars, Idle
  <2> QED BY <1>4, <2>3 DEF CodecInv, StateInv, PathsFit, InitInv, Idle, vars, stepVars, configVars
<1> QED BY <1>1, <1>2, <1>3, <1>4 DEF Next

---------------------------------------------------------------------------
(* What the invariant says of a call that returns.                          *)

\* The last note of a call.
LEMMA AtTheEnd ==
  ASSUME CodecInv, Done
  PROVE  \E p : p.held = {} /\ p.due = {} /\ Holds(Script(api), p) /\ fn = Len(Script(api)) + 1
                /\ Len(Script(api)) \in Nat
<1>1. PICK scr, kind : scr = Script(api) /\ Noted(scr, kind) /\ fn = Len(scr) + 1
  BY DEF CodecInv, CallInv, Done, Returned
<1>2. PICK b : ScriptGood(scr, b, kind) /\ Holds(scr, b[fn])
  BY <1>1 DEF Noted
<1> QED BY <1>1, <1>2 DEF ScriptGood

\* Nothing is left but the text.
LEMMA EndHeap ==
  ASSUME CodecInv, Done PROVE heap.live \subseteq IF err = "ok" \/ Excused THEN {Text} ELSE {}
<1>1. PICK p : p.held = {} /\ Holds(Script(api), p)
  BY AtTheEnd
<1>2. HeapOK(heap)
  BY DEF CodecInv
<1>3. heap.live \subseteq {Text}
  <2>1. CASE HeapHolds(p)
    BY <1>1, <1>2, <2>1, AllUnderFloating DEF HeapHolds
  <2>2. CASE heap.made = {}
    BY <1>2, <2>2 DEF HeapOK
  <2> QED BY <1>1, <2>1, <2>2 DEF Holds
<1>4. err # "ok" /\ Text \in heap.live => Excused
  BY <1>1 DEF Holds
<1> QED BY <1>3, <1>4

\* The invariant says where the call is and what is kept.
LEMMA InvariantTypes == CodecInv => CodecTypeOK
<1> SUFFICES ASSUME CodecInv PROVE CodecTypeOK
  OBVIOUS
<1>1. HeapOK(heap) /\ StateInv /\ (Idle => pc = 1)
  BY DEF CodecInv
<1>2. PICK scr : scr = Script(api)
  OBVIOUS
<1>3. Len(scr) \in Nat
  <2>1. AllGood
    BY EveryScript DEF AllGood
  <2>2. \E b : ScriptGood(scr, b, Kind(cloud, api, valid))
    BY <1>1, <1>2, <2>1, ScriptOfCall
  <2> QED BY <2>2 DEF ScriptGood
<1>4. fn \in 0 .. Len(scr) + 1 /\ pc \in 1 .. IF Idle \/ Returned THEN 1 ELSE Len(scr[fn])
  <2>1. CASE Idle
    BY <1>1, <1>3, <2>1 DEF Idle
  <2>2. CASE ~Idle
    <3>1. PICK kind : Noted(scr, kind)
      BY <1>2, <2>2 DEF CodecInv, CallInv
    <3>2. /\ fn \in 1 .. Len(scr) + 1 /\ (fn = Len(scr) + 1 => pc = 1)
          /\ (fn <= Len(scr) => pc \in 1 .. Len(scr[fn]))
      BY <3>1 DEF Noted
    <3>3. Returned <=> fn = Len(scr) + 1
      BY <1>2 DEF Returned
    <3> QED BY <1>3, <2>2, <3>2, <3>3
  <2> QED BY <2>1, <2>2
<1>5. heap.in \subseteq heap.live \X heap.live /\ heap.live \subseteq heap.made
  BY <1>1 DEF HeapOK
<1>6. err \in Errors
  BY <1>1 DEF StateInv
<1> QED BY <1>1, <1>2, <1>4, <1>5, <1>6 DEF StateInv, CodecTypeOK

\* It says that the heap is sound.
LEMMA InvariantHeap == CodecInv => HeapSound
<1> SUFFICES ASSUME CodecInv PROVE HeapSound
  OBVIOUS
<1>1. heap.fault = FALSE
  BY DEF CodecInv, HeapOK
<1>2. ASSUME ~Excused PROVE NothingLeft
  BY <1>2, EndHeap DEF NothingLeft
<1> QED BY <1>1, <1>2 DEF HeapSound

\* What is in the message and due is cleared at the end.
LEMMA InvariantSent == CodecInv => SentOnceButCells
<1> SUFFICES ASSUME CodecInv, Done, err = "ok" PROVE doc \cap queued \subseteq {<<"cells", 1>>}
  BY DEF SentOnceButCells
<1>1. PICK p : p.due = {} /\ Holds(Script(api), p)
  BY AtTheEnd
<1>2. (InMessage \cap queued) \ {Cells} \subseteq p.due
  BY <1>1 DEF Holds, MessageHolds
<1> QED BY <1>1, <1>2 DEF InMessage, Cells, SampleOf

\* The list, if it is long enough, never overflows.
LEMMA InvariantPaths == ASSUME PathsNeeded <= PathListSize PROVE CodecInv => PathsFit
  BY DEF CodecInv, StateInv

\* The invariant holds in every behaviour.
LEMMA CodecAlways == Spec => []CodecInv
<1>1. AllGood
  BY EveryScript DEF AllGood
<1>2. Init => CodecInv
  BY <1>1, CodecInit
<1>3. CodecInv /\ [Next]_vars => CodecInv'
  BY <1>1, CodecStep
<1> QED BY <1>2, <1>3, PTL DEF Spec

\* CodecTypeOK: at every step of every call, a codec is at a statement of the function
\* it executes, and what it keeps is what the C declares.
THEOREM CodecsTyped == Spec => []CodecTypeOK
  BY CodecAlways, InvariantTypes, PTL

\* HeapSound: whichever allocation, conversion or check fails in a codec, and whatever the
\* call before left behind, no cJSON object is deleted twice or while it is part of another
\* one, none is used after it was deleted, the LwM2M callback finds its handler, and a call
\* that returns leaves nothing on the heap but its text (but for the one that is excused).
THEOREM HeapStaysSound == Spec => []HeapSound
  BY CodecAlways, InvariantHeap, PTL

\* SentOnceButCells: a sample that is in a message has its queued flag cleared by the time
\* the codec returns, but for the cells of an LwM2M location request.
THEOREM SamplesSentOnce == Spec => []SentOnceButCells
  BY CodecAlways, InvariantSent, PTL

\* PathsFit: the LwM2M codec never finds its path list full if it has the 15 entries that
\* overlay-lwm2m.conf gives it, or more.
THEOREM PathListSuffices == ASSUME PathsNeeded <= PathListSize PROVE Spec => []PathsFit
  BY CodecAlways, InvariantPaths, PTL

===============================================================================
