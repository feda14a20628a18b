------------------------------ MODULE CodecSteps ------------------------------
(***************************************************************************)
(* How a codec works through a call, statement by statement: what can fail *)
(* at each, and what is undone then.  The C of all the codecs is the same  *)
(* pattern: take a sample if it is queued, convert its time stamp, create  *)
(* cJSON objects, fill them, hang them into the tree, clear the queued     *)
(* flag; on an error delete what is not yet in the tree and leave.  A      *)
(* function is therefore a sequence of steps, a call of the codec (a       *)
(* script) a sequence of such functions, and this module says what a step  *)
(* does; JsonCommon and CloudCodecs say which steps a function has.        *)
(*                                                                         *)
(* The cJSON library is modelled by the objects that are allocated, which  *)
(* of them is part of which, and its ways to fail: no memory for an object *)
(* (NULL), no memory for the copy of a key (the item is not added).        *)
(* Numbers and strings are created and added, or deleted, by the same      *)
(* helper: only the outcome of such a helper is modelled.                  *)
(***************************************************************************)
EXTENDS Naturals, Sequences, SequencesExt, FiniteSetsExt

CONSTANTS
  PathListSize,   \* CONFIG_CLOUD_CODEC_LWM2M_PATH_LIST_ENTRIES_MAX
  MaybeEmpty,     \* types of samples that may arrive with nothing to encode
  MaxUnadded      \* bound: items a call could not add to their parent

ASSUME StepsAssumption == MaybeEmpty \subseteq STRING /\ PathListSize \in Nat /\ MaxUnadded \in Nat

VARIABLES
  fn,          \* the function the call is in, 0 outside of a call
  pc,          \* the step that function is at
  err,         \* the error it will return
  heap,        \* [live, made, in, fault]: cJSON objects; see Alloc and Delete
  queued,      \* the samples whose queued flag is set
  converted,   \* the samples whose time stamp is UNIX time already
  paths,       \* LwM2M: entries used in the path list of the message
  unadded,     \* how often an item could not be added, in this call
  object_added,\* object_added, objects_written: some sample was taken
  doc          \* the samples in the message: in the text, or with the LwM2M engine

stepVars == <<fn, pc, err, heap, queued, converted, paths, unadded, object_added, doc>>

\* A sample is named by its type and its index in the buffer; an object by what
\* it is for and the sample it belongs to.
NoSample == <<"none", 0>>
Object(role, d) == <<role, d>>

---------------------------------------------------------------------------
(* The heap *)

EmptyHeap == [live |-> {}, made |-> {}, in |-> {}, fault |-> FALSE]

Alloc(h, objects) == [h EXCEPT !.live = @ \cup objects, !.made = @ \cup objects]

Put(h, parent, o) == [h EXCEPT !.in = @ \cup {<<o, parent>>}]

\* An object and all that is in it: no tree of the codecs has more than six levels.
WithItems(h, S) == S \cup {e[1] : e \in {x \in h.in : x[2] \in S}}
Tree(h, o) ==
  WithItems(h, WithItems(h, WithItems(h, WithItems(h, WithItems(h, {o})))))

\* cJSON_Delete() of some objects, one after the other.  Of one that was not created
\* it deletes NULL, which does nothing.  Of one that was deleted before, by itself or
\* with another one, or that is still in the tree of another one, it corrupts the heap.
DeleteAll(h, objects) ==
  LET made == {i \in DOMAIN objects : objects[i] \in h.made}
      gone == UNION {Tree(h, objects[i]) : i \in made}
  IN  [h EXCEPT !.live = @ \ gone,
                !.in = {e \in @ : e[1] \notin gone},
                !.fault = @ \/ \E i \in made :
                                 \/ objects[i] \notin h.live
                                 \/ \E e \in h.in : e[1] = objects[i]
                                 \/ \E j \in made : j < i /\ objects[i] \in Tree(h, objects[j])]
Delete(h, o) == DeleteAll(h, <<o>>)

Samples(h, root) == {d \in {o[2] : o \in Tree(h, root)} : d[2] > 0}

---------------------------------------------------------------------------
(* Steps.  d is the sample the step is for, os the objects it is about, undo *)
(* what an error deletes.  A step with always = TRUE stands behind the label *)
(* "exit": it is executed after an error too.  leaves = TRUE returns from    *)
(* the error without passing that label.                                     *)

Step(op, d, os, undo) ==
  [op |-> op, d |-> d, os |-> os, undo |-> undo, always |-> FALSE, leaves |-> FALSE]
Always(s) == [s EXCEPT !.always = TRUE]
Leaving(s) == [s EXCEPT !.leaves = TRUE]

IfQueued(d) == Step("if_queued", d, << >>, << >>)
NeedQueued(d, undo) == Step("need_queued", d, << >>, undo)
Convert(d, undo) == Step("convert", d, << >>, undo)
TryConvert(d) == Step("try_convert", d, << >>, << >>)
Create(d, os, undo) == Step("create", d, os, undo)
CreateOrLeaveOut(d, o, undo) == Step("create_or_leave_out", d, <<o>>, undo)
Values(d, undo) == Step("values", d, << >>, undo)
Element(d, undo) == Step("element", d, << >>, undo)
Check(d, undo) == Step("check", d, << >>, undo)
CheckData(d, undo) == Step("check_data", d, << >>, undo)
Attach(d, parent, o) == Step("attach", d, <<parent, o>>, << >>)
AttachIfFilled(parent, o) == Step("attach_if_filled", NoSample, <<parent, o>>, << >>)
NoteAdded(d) == Step("note_added", d, << >>, << >>)
NeedAdded == Step("need_added", NoSample, << >>, << >>)
NeedElements(root) == Step("need_elements", NoSample, <<root>>, << >>)
Clear(d) == Step("clear", d, << >>, << >>)
PrintTree(root) == Step("print", NoSample, <<root>>, << >>)
Free(o) == Always(Step("free", NoSample, <<o>>, << >>))
PresetError == Step("preset_error", NoSample, << >>, << >>)
NotSupported == Step("not_supported", NoSample, << >>, << >>)
Write(d) == Step("write", d, << >>, << >>)
AddPaths(d, n) == [Step("add_paths", d, << >>, << >>) EXCEPT !.os = [i \in 1 .. n |-> NoSample]]

---------------------------------------------------------------------------
(* What a step of the script scr does. *)

\* return: to the caller, who goes on with the next function, after an error with
\* what stands behind the label.
AtExit(f) == f[1].always
Leave(scr, e) ==
  \E n \in fn + 1 .. Len(scr) + 1 :
    /\ n <= Len(scr) /\ e # "ok" => AtExit(scr[n])
    /\ \A m \in fn + 1 .. n - 1 : e # "ok" /\ ~AtExit(scr[m])
    /\ fn' = n /\ pc' = 1

Go(scr) ==
  /\ err' = err
  /\ IF pc < Len(scr[fn]) THEN fn' = fn /\ pc' = pc + 1 ELSE Leave(scr, err)

Error(scr, s, e) ==
  /\ err' = e
  /\ IF s.leaves THEN fn' = Len(scr) + 1 /\ pc' = 1 ELSE Leave(scr, e)
Abort(scr, s, e) == heap' = DeleteAll(heap, s.undo) /\ Error(scr, s, e)

\* if (!data->queued): return 0.
SkipSample(scr) == err' = err /\ Leave(scr, err)

TakeSample(scr, s) ==
  /\ s.op \in {"if_queued", "need_queued"}
  /\ \/ s.d \in queued /\ Go(scr) /\ UNCHANGED heap
     \/ s.d \notin queued /\ s.op = "if_queued" /\ SkipSample(scr) /\ UNCHANGED heap
     \/ s.d \notin queued /\ s.op = "need_queued" /\ Abort(scr, s, "ENODATA")
  /\ UNCHANGED <<queued, converted, paths, unadded, object_added, doc>>

\* date_time_uptime_to_unix_time_ms() converts in place; it refuses a time
\* stamp that it has converted before, which would lie in the future.
ConvertTime(scr, s) ==
  /\ s.op \in {"convert", "try_convert"}
  /\ converted' = converted \cup {s.d}
  /\ IF s.op = "convert" /\ s.d \in converted THEN Abort(scr, s, "EINVAL")
                                              ELSE Go(scr) /\ UNCHANGED heap
  /\ UNCHANGED <<queued, paths, unadded, object_added, doc>>

\* Objects that are created together are all tried before the first is looked at.
CreateObjects(scr, s) ==
  /\ s.op \in {"create", "create_or_leave_out"}
  /\ \E made \in SUBSET Range(s.os) :
       LET h == Alloc(heap, made) IN
       \/ made = Range(s.os) /\ Go(scr) /\ heap' = h
       \/ /\ made # Range(s.os) /\ s.op = "create"
          /\ Error(scr, s, "ENOMEM") /\ heap' = DeleteAll(h, s.undo)
       \/ /\ made # Range(s.os) /\ s.op = "create_or_leave_out"
          /\ SkipSample(scr) /\ heap' = DeleteAll(h, s.undo)
  /\ UNCHANGED <<queued, converted, paths, unadded, object_added, doc>>

\* json_add_number(), json_add_str(), json_add_bool(): fail without memory for
\* the value, but succeed when the value could not be added to its parent.
AddValues(scr, s) ==
  /\ s.op = "values"
  /\ \/ Go(scr) /\ UNCHANGED <<heap, unadded>>
     \/ unadded < MaxUnadded /\ unadded' = unadded + 1 /\ Go(scr) /\ UNCHANGED heap
     \/ Abort(scr, s, "ENOMEM") /\ UNCHANGED unadded
  /\ UNCHANGED <<queued, converted, paths, object_added, doc>>

\* Steps that succeed, or fail for a reason of their own.
Fails(s) ==
  CASE s.op = "element"     -> "ENOMEM"     \* no memory for an element of an array
    [] s.op = "check"       -> "EINVAL"     \* a value that has no encoding
    [] s.op = "check_data"  -> "ENODATA"    \* nothing in the sample to encode
    [] s.op = "write"       -> "ENOENT"     \* the LwM2M engine refuses a write
    [] OTHER                -> "ok"
TryStep(scr, s) ==
  /\ Fails(s) # "ok"
  /\ \/ Go(scr) /\ UNCHANGED heap
     \/ (s.op = "check_data" => s.d[1] \in MaybeEmpty) /\ Abort(scr, s, Fails(s))
  /\ doc' = IF s.op = "write" THEN doc \cup ({s.d} \ {NoSample}) ELSE doc
  /\ UNCHANGED <<queued, converted, paths, unadded, object_added>>

\* json_add_obj(), json_add_obj_array(): an item that cannot be added is deleted.
json_add_obj(h, parent, o) == {Put(h, parent, o), Delete(h, o)}
AttachObject(scr, s) ==
  /\ s.op = "attach"
  /\ LET parent == s.os[1]  o == s.os[2] IN
     \E h \in json_add_obj(heap, parent, o) :
       /\ heap' = [h EXCEPT !.fault = @ \/ {parent, o} \ heap.live # {}]
       /\ unadded' = unadded + IF h = Put(heap, parent, o) THEN 0 ELSE 1
       /\ unadded' <= MaxUnadded
  /\ Go(scr)
  /\ UNCHANGED <<queued, converted, paths, object_added, doc>>

\* The end of json_common_batch_data_add(): an array without elements is left out.
AttachArray(scr, s) ==
  /\ s.op = "attach_if_filled"
  /\ LET parent == s.os[1]  o == s.os[2]  empty == Tree(heap, o) = {o} IN
     \/ empty /\ heap' = Delete(heap, o) /\ UNCHANGED <<unadded, object_added>>
     \/ /\ ~empty /\ object_added' = TRUE
        /\ \/ heap' = Put(heap, parent, o) /\ UNCHANGED unadded
           \/ unadded < MaxUnadded /\ heap' = Delete(heap, o) /\ unadded' = unadded + 1
  /\ Go(scr)
  /\ UNCHANGED <<queued, converted, paths, doc>>

ClearQueued(scr, s) ==
  /\ s.op = "clear"
  /\ queued' = queued \ {s.d}
  /\ Go(scr)
  /\ UNCHANGED <<heap, converted, paths, unadded, object_added, doc>>

FreeObject(scr, s) ==
  /\ s.op = "free"
  /\ heap' = Delete(heap, s.os[1])
  /\ Go(scr)
  /\ UNCHANGED <<queued, converted, paths, unadded, object_added, doc>>

\* lwm2m_codec_helpers_object_path_list_add(): fills what is left of the list.
AddPathsToList(scr, s) ==
  /\ s.op = "add_paths"
  /\ paths' = Min({paths + Len(s.os), PathListSize})
  /\ IF paths + Len(s.os) <= PathListSize THEN Go(scr) /\ UNCHANGED heap
                                            ELSE Abort(scr, s, "EPATHS")
  /\ UNCHANGED <<queued, converted, unadded, object_added, doc>>

NoteObjectAdded(scr, s) ==
  /\ s.op = "note_added"
  /\ object_added' = TRUE
  /\ Go(scr)
  /\ UNCHANGED <<heap, queued, converted, paths, unadded, doc>>

\* A message without samples is not sent.
CheckContent(scr, s) ==
  /\ s.op \in {"need_added", "need_elements"}
  /\ IF (s.op = "need_added" /\ ~object_added)
       \/ (s.op = "need_elements" /\ Tree(heap, s.os[1]) = {s.os[1]})
       THEN Abort(scr, s, "ENODATA") ELSE Go(scr) /\ UNCHANGED heap
  /\ UNCHANGED <<queued, converted, paths, unadded, object_added, doc>>

\* cJSON_PrintUnformatted(): allocates the text for the caller, who takes it and
\* frees it if the call succeeds.
Text == Object("text", NoSample)
PrintText(scr, s) ==
  /\ s.op = "print"
  /\ \/ Go(scr) /\ doc' = Samples(heap, s.os[1]) /\ heap' = Alloc(heap, {Text})
     \/ Abort(scr, s, "ENOMEM") /\ UNCHANGED doc
  /\ UNCHANGED <<queued, converted, paths, unadded, object_added>>

SetError(scr, s) ==
  /\ s.op = "preset_error"
  /\ Error(scr, s, "ENODATA")
  /\ UNCHANGED <<heap, queued, converted, paths, unadded, object_added, doc>>

Refuse(scr, s) ==
  /\ s.op = "not_supported"
  /\ Abort(scr, s, "ENOTSUP")
  /\ UNCHANGED <<queued, converted, paths, unadded, object_added, doc>>

Perform(scr) ==
  LET s == scr[fn][pc] IN
  \/ TakeSample(scr, s)    \/ ConvertTime(scr, s)     \/ CreateObjects(scr, s)
  \/ AddValues(scr, s)     \/ TryStep(scr, s)         \/ AttachObject(scr, s)
  \/ AttachArray(scr, s)   \/ ClearQueued(scr, s)     \/ NoteObjectAdded(scr, s)
  \/ CheckContent(scr, s)  \/ PrintText(scr, s)       \/ FreeObject(scr, s)
  \/ AddPathsToList(scr, s) \/ SetError(scr, s)     \/ Refuse(scr, s)
===============================================================================
