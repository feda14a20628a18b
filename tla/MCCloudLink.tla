----------------------------- MODULE MCCloudLink -----------------------------
(* Instances of CloudLink; the bounds are in the .cfg files.                    *)
EXTENDS CloudLink
=============================================================================
