---------------------------- MODULE DirectState ----------------------------
(***************************************************************************)
(* The vocabulary of src/src/acp_proxy/direct_state.py: the states of an   *)
(* operation record, the states of a logical session, the absorbing        *)
(* settlement of a record, and the room left in the bounded ledger.        *)
(***************************************************************************)
EXTENDS Integers, FiniteSets

\* OperationState, split by its property "terminal".  "unknown" is an
\* operation identity the ledger has no record of.
PendingStates  == {"accepted", "queued", "running", "cancelling"}
TerminalStates == {"completed", "failed", "cancelled", "timed_out", "in_doubt"}
OperationStates == {"unknown"} \cup PendingStates \cup TerminalStates

\* SessionState; "absent" is a logical session the generation has no entry for.
SessionStates ==
    {"absent", "creating", "ready", "busy", "non_reusable", "lost", "retired"}

\* PromptPhase of a prompt request; "delta" stands for correction and
\* continuation, which are handled alike.
Phases == {"initial", "invocation", "delta"}

\* OperationRecord.set_terminal: the first terminal state wins.
SetTerminal(current, state) == IF current \in TerminalStates THEN current ELSE state

\* DirectLedger.admit: an identity it has never seen needs a free slot, and no
\* slot is ever given back.
LedgerAccepts(states, o, capacity) ==
    /\ states[o] = "unknown"
    /\ Cardinality({k \in DOMAIN states : states[k] # "unknown"}) < capacity
=============================================================================
