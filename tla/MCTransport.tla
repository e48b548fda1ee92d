---------------------------- MODULE MCTransport ----------------------------
(***************************************************************************)
(* Instances of Transport for TLC.                                         *)
(***************************************************************************)
EXTENDS Transport, TLC

\* Requests, callbacks and owners are interchangeable; safety runs only.
Symmetric == Permutations(Calls) \cup Permutations(Callbacks) \cup Permutations(Owners)
=============================================================================
