-------------------------- MODULE MCLegacySessions --------------------------
(***************************************************************************)
(* Instances of LegacySessions for TLC.                                    *)
(***************************************************************************)
EXTENDS LegacySessions, TLC

\* Requests, sessions and models are interchangeable.
Symmetric ==
    Permutations(Requests) \cup Permutations(SessionIds) \cup Permutations(Models)
=============================================================================
