-------------------------- MODULE OperationLedger --------------------------
(***************************************************************************)
(* What the direct protocol promises about operations (ADR-012, "Every     *)
(* mutation ... carries a caller-minted operation ID", "Serialization,     *)
(* settlement, and continuity"): an operation is admitted once and, if it  *)
(* is a prompt, written to the child at most once, alone and unsettled; a  *)
(* prompt caught on its way by the loss of its generation is the exception *)
(* and may still be written; while the generation is open nothing is       *)
(* settled over work the child still holds; and                            *)
(* what is settled after the loss is settled in the step that quarantines  *)
(* the generation or once the child holds nothing any more.                *)
(***************************************************************************)
CONSTANTS
    Ops,          \* operation identities
    Prompts       \* those of prompts, the operations with effects in the child

VARIABLES
    status,       \* unknown, pending or settled
    open,         \* the generation still admits work
    outstanding,  \* prompts the child may still be working on
    written       \* prompts ever written to the child

vars == <<status, open, outstanding, written>>

TypeOK ==
    /\ status \in [Ops -> {"unknown", "pending", "settled"}]
    /\ open \in BOOLEAN
    /\ outstanding \in SUBSET Prompts /\ written \in SUBSET Prompts

Init ==
    /\ status = [o \in Ops |-> "unknown"]
    /\ open = TRUE /\ outstanding = {} /\ written = {}

SettleAll(S, from) ==
    /\ \A o \in S : from[o] = "pending"
    /\ status' = [o \in Ops |-> IF o \in S THEN "settled" ELSE from[o]]

\* An admission may settle at once, itself and another operation with it.
Admit(o) ==
    /\ open /\ status[o] = "unknown"
    /\ \E S \in SUBSET (Ops \ outstanding) :
         SettleAll(S, [status EXCEPT ![o] = "pending"])
    /\ UNCHANGED <<open, outstanding, written>>

Write(p) ==
    /\ status[p] = "pending" \/ (~open /\ status[p] = "settled")
    /\ outstanding = {} /\ p \notin written
    /\ outstanding' = {p} /\ written' = written \cup {p}
    /\ UNCHANGED <<status, open>>

Answer(p) ==
    /\ outstanding' = outstanding \ {p}
    /\ UNCHANGED <<status, open, written>>

Settle ==
    /\ open
    /\ \E S \in SUBSET (Ops \ outstanding) : SettleAll(S, status)
    /\ UNCHANGED <<open, outstanding, written>>

Lose ==
    /\ open /\ open' = FALSE
    /\ \E S \in SUBSET Ops : SettleAll(S, status)
    /\ UNCHANGED <<outstanding, written>>

Kill ==
    /\ ~open /\ outstanding' = {}
    /\ \E S \in SUBSET Ops : SettleAll(S, status)
    /\ UNCHANGED <<open, written>>

Next ==
    \/ \E o \in Ops : Admit(o)
    \/ \E p \in Prompts : Write(p) \/ Answer(p)
    \/ Settle \/ Lose \/ Kill

Spec == Init /\ [][Next]_vars
=============================================================================
