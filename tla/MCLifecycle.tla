---------------------------- MODULE MCLifecycle ----------------------------
(***************************************************************************)
(* Instances of Lifecycle for TLC: it has no constants.                    *)
(***************************************************************************)
EXTENDS Lifecycle
=============================================================================
