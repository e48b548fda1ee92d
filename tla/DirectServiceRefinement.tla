---------------------- MODULE DirectServiceRefinement ----------------------
(***************************************************************************)
(* DirectService implements OperationLedger: the caller of the direct      *)
(* protocol sees the states of its operations, the generation and the work *)
(* of the child, and none of the tasks, locks and sessions behind them.    *)
(***************************************************************************)
EXTENDS DirectService

statusView == [o \in Ops |->
    CASE Pending(o)  -> "pending"
      [] Terminal(o) -> "settled"
      [] OTHER       -> "unknown"]

Ledger == INSTANCE OperationLedger WITH
    Prompts <- PromptOps, status <- statusView, open <- available,
    outstanding <- atAgent, written <- dispatched

\* Every behaviour of the orchestrator is one the abstract ledger allows.
LedgerImplemented == Ledger!Spec
=============================================================================
