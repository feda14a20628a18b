----------------------------- MODULE MCCloudCodecs -----------------------------
(***************************************************************************)
(* Instance: every cloud, two entries per ring buffer, two calls so that a *)
(* call meets the samples that another one has left behind.                *)
(***************************************************************************)
EXTENDS CloudCodecs
===============================================================================
