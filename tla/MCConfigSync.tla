---------------------------- MODULE MCConfigSync ----------------------------
(* Instance: one setting of which any value is taken and one with a range.   *)
EXTENDS ConfigSync

MCSettings == {"active_mode", "location_timeout"}
MCPositive == {"location_timeout"}
MCDefault == [s \in MCSettings |-> 1]
=============================================================================
