---------------------------- MODULE MCLifecycle ----------------------------
(***************************************************************************)
(* Model checking of Lifecycle: two open files, any number of probes and   *)
(* removals, every step of the probe failing or not.                       *)
(***************************************************************************)
EXTENDS Lifecycle
=============================================================================
