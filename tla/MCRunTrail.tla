----------------------------- MODULE MCRunTrail -----------------------------
(* One card and the runs started from it. *)
EXTENDS RunTrail
=============================================================================
