-------------------------- MODULE MCSessionBinding --------------------------
(***************************************************************************)
(* Instances of SessionBinding for TLC.                                    *)
(***************************************************************************)
EXTENDS SessionBinding, TLC

\* Tasks of a kind, identities and models are interchangeable.
Symmetric ==
    Permutations(Probes) \cup Permutations(Creators) \cup Permutations(SessionIds)
        \cup Permutations(Models)
=============================================================================
