---------------------------- MODULE LocationService ----------------------------
(***************************************************************************)
(* What the location module promises the rest of the application: a search *)
(* that has been announced does not end in silence.  It ends, or is given  *)
(* up for a new one, only after the data module got something for it:      *)
(* coordinates, cells and access points, a timeout or an error.            *)
(***************************************************************************)
VARIABLE phase   \* idle; open: searching, nothing reported; answered

Init == phase = "idle"

Start == phase = "idle" /\ phase' = "open"
Answer == phase = "open" /\ phase' = "answered"
Finish == phase = "answered" /\ phase' = "idle"
Restart == phase = "answered" /\ phase' = "open"

Next == Start \/ Answer \/ Finish \/ Restart

\* A search ends at some time unless it is restarted again and again.
Spec == Init /\ [][Next]_phase /\ WF_phase(Finish \/ Answer)
=============================================================================
