------------------------------- MODULE MCLocation -------------------------------
(* Both kinds of method, the cloud's tried first.                             *)
EXTENDS Location

MCMethods == {"GNSS", "CLOUD"}

\* Some method is left / all of them may be listed in No Data List.
MCSettings == {{"GNSS", "CLOUD"}, {"CLOUD"}}
MCAnySettings == {{"GNSS", "CLOUD"}, {}}
=============================================================================
