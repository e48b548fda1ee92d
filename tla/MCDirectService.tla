-------------------------- MODULE MCDirectService --------------------------
(***************************************************************************)
(* Instances of DirectService and of its refinement for TLC.               *)
(***************************************************************************)
EXTENDS DirectServiceRefinement, TLC

\* Identities of one kind are interchangeable; safety runs only.
Symmetric == Permutations(Sessions) \cup Permutations(CreateOps)
    \cup Permutations(PromptOps) \cup Permutations(CancelOps)
    \cup Permutations(RetireOps) \cup Permutations(Invocations)
=============================================================================
