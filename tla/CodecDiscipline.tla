--------------------------- MODULE CodecDiscipline ---------------------------
(***************************************************************************)
(* The discipline that the codecs keep, statement by statement, and the    *)
(* invariant of a call that rests on it.  A note says what holds before a  *)
(* step as long as nothing has failed: which objects the function and its  *)
(* callers still have to hang somewhere or to delete, which may have been  *)
(* created, which samples may be in the message with their flag still to   *)
(* clear, how many paths are listed at most.  A script is disciplined if   *)
(* there are notes such that each step makes the next note of its own one, *)
(* and each error leaves what the exit label expects.  CodecsProofs shows  *)
(* that all scripts are, and what a call keeps to if its script is.        *)
(***************************************************************************)
EXTENDS CloudCodecs

\* How far down in a tree an object of a role can be: parents are above.
Level(o) ==
  CASE o[1] = "root" -> 0
    [] o[1] \in {"state", "array"} -> 1
    [] o[1] = "reported" -> 2
    [] o[1] \in {"obj", "config", "air quality", "humidity", "temperature", "pressure", "rsrp"} -> 3
    [] o[1] \in {"list", "content", "nod_list"} -> 4
    [] OTHER -> 5

\* Live objects in no tree of another one, but for the text: somebody has to delete them.
Floating(h) == {o \in h.live \ {Text} : \A e \in h.in : e[1] # o}

SamplesOf(objects) == {d \in {o[2] : o \in objects} : d[2] > 0}

HeapOK(h) ==
  /\ DOMAIN h = {"live", "made", "in", "fault"} /\ h.fault = FALSE
  /\ h.live \subseteq h.made /\ SamplesOf(h.live) \subseteq AllSamples
  /\ h.in \subseteq h.live \X h.live /\ \A e \in h.in : Level(e[2]) < Level(e[1])

---------------------------------------------------------------------------
(* Notes                                                                    *)

PathsNeeded == 15
Cells == SampleOf("cells")

Note(held, made, due, done, sent, used) ==
  [held |-> held, made |-> made, due |-> due, done |-> done, sent |-> sent, used |-> used]
Blank == Note({}, {}, {}, {}, {}, 0)

CreateOps == {"create", "create_or_leave_out"}
FailOps == {"need_queued", "convert", "create", "values", "element", "check", "check_data", "write",
            "add_paths", "need_added", "need_elements", "print", "not_supported", "preset_error",
            "set_config", "set_callbacks"}
InitOps == {"set_config", "set_callbacks", "set_handler"}
OtherOps == {"if_queued", "try_convert", "create_or_leave_out", "attach", "attach_if_filled",
             "clear", "free", "note_added", "set_handler"}

New(s) == IF s.op \in CreateOps THEN Range(s.os) ELSE {}
\* What a step may have created when it fails.
Partly(s) == IF s.op \in CreateOps THEN (SUBSET Range(s.os)) \ {Range(s.os)} ELSE {{}}

\* What may stand behind the label "exit".
ExitOps == {"attach", "free", "print"}

\* p, as the step s leaves it.
After(s, p) ==
  CASE s.op \in CreateOps ->
         Note(p.held \cup New(s), p.made \cup New(s), p.due \cup (SamplesOf(New(s)) \ p.done),
              p.done, p.sent, p.used)
    [] s.op \in {"attach", "attach_if_filled"} ->
         Note(p.held \ {s.os[2]}, p.made, p.due, p.done, p.sent, p.used)
    [] s.op = "free" -> Note(p.held \ {s.os[1]}, p.made, p.due, p.done, p.sent, p.used)
    [] s.op = "clear" -> Note(p.held, p.made, p.due \ {s.d}, p.done \cup {s.d}, p.sent, p.used)
    [] s.op = "write" -> Note(p.held, p.made, p.due \cup ({s.d} \ {NoSample, Cells}), p.done, AllSamples, p.used)
    [] s.op = "print" -> Note(p.held, p.made \cup {Text}, p.due, p.done, AllSamples, p.used)
    [] s.op = "add_paths" -> Note(p.held, p.made, p.due, p.done, p.sent, p.used + Len(s.os))
    [] OTHER -> p

Weaker(p, q) == p.held = q.held /\ p.made \subseteq q.made
Follows(p, q) ==
  /\ Weaker(p, q)
  /\ p.due \subseteq q.due /\ q.done \subseteq p.done /\ p.sent \subseteq q.sent /\ p.used <= q.used

\* What the function deletes on an error, part of New(s) having been created: exactly what
\* it holds, and what it must not leave for the note e.
Distinct(objects) ==
  DOMAIN objects \subseteq Nat /\ \A i, j \in DOMAIN objects : i # j => objects[i] # objects[j]
Undone(s, p, e) ==
  /\ Distinct(s.undo) /\ Range(s.undo) \subseteq p.held \cup New(s)
  /\ p.made \cup New(s) \subseteq e.made
  /\ \A part \in Partly(s) : (p.held \cup part) \ Range(s.undo) = e.held

\* return 0 before the end of the function: there is no sample, or nothing of it is left.
Skips(s, p, x) ==
  CASE s.op = "if_queued" -> Follows(Note(p.held, p.made, p.due \ {s.d}, p.done, p.sent, p.used), x)
    [] s.op = "create_or_leave_out" ->
         /\ Undone(s, p, x) /\ p.due \ {s.d} \subseteq x.due
         /\ x.done \subseteq p.done /\ p.sent \subseteq x.sent /\ p.used <= x.used
         /\ Partly(s) = {{}} /\ s.d \notin p.sent
         /\ \A o \in p.made : o[2] = s.d => o \in Range(s.undo)
    [] OTHER -> TRUE

\* s finds what it needs.
Finds(s, p) ==
  CASE s.op \in CreateOps -> New(s) \cap p.made = {} /\ Text \notin New(s)
    [] s.op \in {"attach", "attach_if_filled"} ->
         {s.os[1], s.os[2]} \subseteq p.held /\ Level(s.os[1]) < Level(s.os[2])
    [] s.op = "free" -> p.held = {s.os[1]}
    [] s.op = "print" -> p.held = {s.os[1]}
    [] s.op = "add_paths" -> Len(s.os) \in Nat /\ p.used + Len(s.os) <= PathsNeeded
    [] OTHER -> TRUE

\* Samples are named only where there are any.
Named(s) ==
  /\ s.op \in {"if_queued", "need_queued", "convert", "try_convert"} => s.d \in AllSamples
  /\ s.op = "write" => s.d \in AllSamples \cup {NoSample}
  /\ SamplesOf(New(s)) \subseteq AllSamples

\* The circumstances of a step: c.next holds before the next function, c.exit at the exit
\* label, c.end when the call returns.  Where nothing has been created yet, an error may
\* leave it at that, if nothing but deletions follow (c.frees).
FailsWell(s, p, c) ==
  /\ Text \notin p.made /\ (s.op = "preset_error" => s.undo = << >>)
  /\ \/ Undone(s, p, IF s.leaves THEN c.end ELSE c.exit)
     \/ c.frees /\ p.made = {} /\ Partly(s) = {{}} /\ s.undo = << >> /\ ~s.leaves

\* A step that makes q of p.
StepGood(s, p, q, c) ==
  /\ s.op \in FailOps \cup OtherOps /\ Named(s) /\ Finds(s, p)
  /\ s.op \in InitOps => c.kind = "init"
  /\ s.op \in FailOps => FailsWell(s, p, c)
  /\ s.op \notin {"not_supported", "preset_error"} => Follows(After(s, p), q)
  /\ Skips(s, p, c.next)

\* a[n] is the note before step n of the function f.
FunctionGood(f, a, c) ==
  /\ Len(f) \in Nat \ {0} /\ DOMAIN a = 1 .. Len(f) /\ \A n \in DOMAIN a : a[n].used \in Nat
  /\ \A n \in 1 .. Len(f) : StepGood(f[n], a[n], IF n = Len(f) THEN c.next ELSE a[n + 1], c)
  /\ AtExit(f) =>
       /\ Len(f) = 1 /\ f[1].op \in ExitOps /\ (f[1].op = "print" => c.kind = "excused")
       /\ Weaker(After(f[1], a[1]), c.exit)

---------------------------------------------------------------------------
(* Scripts                                                                  *)

\* Where an error in function k of the script goes on.
NextExit(scr, k, n) ==
  /\ n \in k + 1 .. Len(scr) + 1
  /\ n <= Len(scr) => AtExit(scr[n])
  /\ \A m \in k + 1 .. n - 1 : ~AtExit(scr[m])

OnlyFrees(scr, k) == \A n \in k .. Len(scr) : AtExit(scr[n]) => scr[n][1].op = "free"

\* b[k] is the note before function k of the script, n the exit of that function.
Context(scr, b, k, n, kind) ==
  [next |-> b[k + 1], exit |-> b[n], end |-> b[Len(scr) + 1],
   frees |-> OnlyFrees(scr, k + 1), kind |-> kind]

FunctionNoted(scr, b, k, n, kind, a) ==
  /\ NextExit(scr, k, n) /\ a[1] = b[k]
  /\ FunctionGood(scr[k], a, Context(scr, b, k, n, kind))

ScriptGood(scr, b, kind) ==
  /\ Len(scr) \in Nat /\ DOMAIN b = 1 .. Len(scr) + 1 /\ \A k \in DOMAIN b : b[k].used \in Nat
  /\ b[1] = Blank /\ b[Len(scr) + 1].held = {} /\ b[Len(scr) + 1].due = {}
  /\ \A k \in 1 .. Len(scr) : \E n, a : FunctionNoted(scr, b, k, n, kind, a)

Kind(c, a, v) ==
  CASE a = "init" -> "init"
    [] c \in {"aws_iot", "azure_iot_hub"} /\ a = "location" /\ v = {} -> "excused"
    [] OTHER -> "plain"

---------------------------------------------------------------------------
(* The invariant of a call                                                  *)

\* Samples that are in the message, or in an object that is or will be part of it.
InMessage == doc \cup SamplesOf(heap.live)

\* The note p, of the heap and, as long as nothing has failed, of the message.
HeapHolds(p) == Floating(heap) = p.held /\ heap.made \subseteq p.made
MessageHolds(p) ==
  /\ (InMessage \cap queued) \ {Cells} \subseteq p.due /\ p.done \cap queued = {}
  /\ doc \subseteq p.sent /\ paths \in 0 .. p.used

Holds(scr, p) ==
  /\ HeapHolds(p) \/ (err # "ok" /\ heap.made = {} /\ OnlyFrees(scr, fn))
  /\ err = "ok" => MessageHolds(p)
  /\ err # "ok" /\ fn <= Len(scr) => AtExit(scr[fn])
  /\ err # "ok" /\ Text \in heap.live => Excused

Noted(scr, kind) ==
  \E b : /\ ScriptGood(scr, b, kind) /\ fn \in 1 .. Len(scr) + 1
         /\ fn = Len(scr) + 1 => pc = 1 /\ Holds(scr, b[fn])
         /\ fn <= Len(scr) =>
              \E n, a : /\ FunctionNoted(scr, b, fn, n, kind, a)
                        /\ pc \in 1 .. Len(scr[fn]) /\ Holds(scr, a[pc])

CallInv == ~Idle => Noted(Script(api), Kind(cloud, api, valid))

\* The engine may call back only when there is a handler to be called.
InitInv == api = "init" /\ fn = 1 /\ pc <= 4 => ~callbacks

=============================================================================
