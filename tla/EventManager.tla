----------------------------- MODULE EventManager -----------------------------
(***************************************************************************)
(* The Application Event Manager (a library outside this repository) as    *)
(* the modules use it: APP_EVENT_SUBMIT appends to one FIFO, and the       *)
(* processor, a work item on the system workqueue, later hands the oldest  *)
(* event to every subscriber.                                              *)
(***************************************************************************)
EXTENDS Naturals, Sequences

VARIABLE events   \* submitted and not yet processed, oldest first

Submit(e) == events' = Append(events, e)

InFlight(type) == \E i \in 1..Len(events) : events[i].type = type
=============================================================================
