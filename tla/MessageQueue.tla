----------------------------- MODULE MessageQueue -----------------------------
(***************************************************************************)
(* The message queue every threaded module reads (modules_common.c).       *)
(* Messages are put without waiting; a put that meets a full queue throws  *)
(* the whole content away and reports an error to the caller, which sends  *)
(* its <MODULE>_EVT_ERROR event.                                           *)
(***************************************************************************)
EXTENDS Naturals, Sequences

\* module_enqueue_msg() returns an error.
Overflows(q, size) == Len(q) = size

\* The queue after module_enqueue_msg(): appended to, or purged.
Enqueue(q, msg, size) == IF Overflows(q, size) THEN << >> ELSE Append(q, msg)

=============================================================================
