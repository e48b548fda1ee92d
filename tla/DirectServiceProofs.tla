------------------------ MODULE DirectServiceProofs ------------------------
(***************************************************************************)
(* Machine-checked proofs about DirectService, for every set of identities *)
(* and every limit.  IInv, what the tasks are doing and which prompt is     *)
(* about to be written, is inductive; SessionInv is inductive over it.      *)
(***************************************************************************)
EXTENDS DirectServiceRefinement, SequenceTheorems, FiniteSetTheorems, TLAPS

LEMMA InitEstablishesTaskInv == Init => TaskInv
  BY NoneIsNoValue
  DEF Init, TaskInv, TypeOK, RecordsAreComplete, TasksFollowGeneration, WorkIsUnsettled,
      PromptsWaitOrHold, OutstandingIsUnanswered, ActiveIsThePendingPrompt,
      DispatchedHaveHeld, Pending, OperationStates, PendingStates, SessionStates, PCs,
      Suspended, Quarantining, Holding, CollectorStates, Ops

LEMMA InitEstablishesIInv == Init => IInv
  BY InitEstablishesTaskInv DEF Init, IInv, UnwrittenPromptsWait

-----------------------------------------------------------------------------
\* A step that admits nothing and starts no task of an unknown operation keeps
\* the records complete.
LEMMA RecordsKept ==
  ASSUME RecordsAreComplete, UNCHANGED identity,
         \A k \in Ops : opState'[k] = "unknown" <=> opState[k] = "unknown",
         \A k \in Ops : opState[k] = "unknown" => pc'[k] = "none"
  PROVE  RecordsAreComplete'
  BY DEF RecordsAreComplete, identity, Ops

\* The loss of the generation, whoever starts it.
LEMMA LossPreservesTaskInv ==
  ASSUME TaskInv, available,
         NEW defer, NEW self, NEW next, NEW tainted,
         self \in Ops => pc[self] \in Suspended,
         next \in Quarantining \cup {"unwinding", "finished"},
         MarkGenerationLost(defer, self, next, tainted),
         lockQueue' \in Seq(PromptOps), lockHolder' \in PromptOps \cup {None}
  PROVE  TaskInv'
  <1> USE DEF MarkGenerationLost, CancelledTask, KilledCollector, identity, memory, quota,
              effects
  <1>1. TypeOK'
    <2>1. pc' \in [Ops -> PCs]
      BY DEF TaskInv, TypeOK, PCs, Suspended, Quarantining
    <2>2. opState' \in [Ops -> OperationStates]
      BY DEF TaskInv, TypeOK, SetTerminal, OperationStates, TerminalStates
    <2>3. sessState' \in [Sessions -> SessionStates]
      BY DEF TaskInv, TypeOK, SessionStates
    <2>4. collector' \in [PromptOps -> CollectorStates]
      BY DEF TaskInv, TypeOK, CollectorStates
    <2> QED
      BY <2>1, <2>2, <2>3, <2>4 DEF TaskInv, TypeOK
  <1>2. RecordsAreComplete'
    <2>1. \A k \in Ops : opState'[k] = "unknown" <=> opState[k] = "unknown"
      BY DEF TaskInv, TypeOK, SetTerminal, Pending, PendingStates, TerminalStates
    <2>2. \A k \in Ops : opState[k] = "unknown" => pc'[k] = "none"
      BY DEF TaskInv, TypeOK, RecordsAreComplete, Suspended
    <2> QED
      BY <2>1, <2>2, RecordsKept DEF TaskInv
  <1>3. TasksFollowGeneration' /\ WorkIsUnsettled'
    <2>1. \A o \in Ops : pc'[o] \notin Suspended \cup {"scheduled"}
      BY DEF TaskInv, TypeOK, TasksFollowGeneration, Suspended, Quarantining, PCs
    <2> QED
      BY <2>1 DEF TasksFollowGeneration, WorkIsUnsettled
  <1>4. DispatchedHaveHeld'
    BY DEF TaskInv, TypeOK, DispatchedHaveHeld, Ops, Suspended, Quarantining
  <1> QED
    BY <1>1, <1>2, <1>3, <1>4
    DEF TaskInv, PromptsWaitOrHold, OutstandingIsUnanswered, ActiveIsThePendingPrompt

\* A suspended task that loses the generation itself.
LEMMA TaskLossPreservesTaskInv ==
  ASSUME TaskInv, NEW o \in Ops, pc[o] \in Suspended,
         NEW defer, NEW next \in Quarantining \cup {"unwinding", "finished"}, NEW tainted,
         MarkGenerationLost(defer, o, next, tainted),
         lockQueue' = lockQueue, lockHolder' \in {lockHolder, None}
  PROVE  TaskInv'
  <1>1. available
    BY DEF TaskInv, TasksFollowGeneration
  <1>2. lockQueue' \in Seq(PromptOps) /\ lockHolder' \in PromptOps \cup {None}
    BY DEF TaskInv, TypeOK
  <1> QED
    BY <1>1, <1>2, LossPreservesTaskInv

-----------------------------------------------------------------------------
\* The "finally" of a prompt task keeps the types.
LEMMA FinallyKeepsTypes ==
  ASSUME TypeOK, NEW p \in PromptOps, NEW rec, NEW body,
         sessionOf[p] \in Sessions => body \in SessionStates,
         Finally(p, rec, body)
  PROVE  /\ sessState' \in [Sessions -> SessionStates]
         /\ active' \in [Sessions -> PromptOps \cup {None}]
         /\ released' \in SUBSET PromptOps /\ reservations' \in Int
         /\ pc' \in [Ops -> PCs] /\ lockHolder' \in PromptOps \cup {None}
  <1> USE DEF Finally, Release, TypeOK
  <1>1. sessState' \in [Sessions -> SessionStates]
    BY DEF FinallySession, SessionStates
  <1>2. active' \in [Sessions -> PromptOps \cup {None}]
    OBVIOUS
  <1>3. released' \in SUBSET PromptOps /\ reservations' \in Int
    OBVIOUS
  <1>4. pc' \in [Ops -> PCs] /\ lockHolder' \in PromptOps \cup {None}
    BY DEF PCs
  <1> QED
    BY <1>1, <1>2, <1>3, <1>4

-----------------------------------------------------------------------------
\* A dispatched prompt that settles while the generation is available: the
\* child has answered it, and the lock and the session are free again.
LEMMA SettlePreservesTaskInv ==
  ASSUME TaskInv, NEW p \in PromptOps, NEW state \in TerminalStates,
         NEW body \in SessionStates,
         pc[p] \in Holding,
         collector[p] \in {"end", "cancelled", "overflow_cancelled"},
         Settle(p, state, body),
         stable' \in SUBSET Sessions, contracts' \in [Sessions -> SUBSET Invocations],
         activeInv' \in [Sessions -> Invocations \cup {None}]
  PROVE  TaskInv'
  <1> USE DEF Settle, Finally, Release, generation, identity, effects
  <1>1. available /\ Pending(p) /\ lockHolder = p
    BY KindsDisjoint
    DEF TaskInv, TypeOK, TasksFollowGeneration, WorkIsUnsettled, PromptsWaitOrHold,
        Holding, Suspended, Ops
  <1>2. opState'[p] = state /\ pc'[p] = "finished" /\ lockHolder' = None
    BY <1>1 DEF TaskInv, TypeOK, SetTerminal, Pending, PendingStates, TerminalStates, Ops
  <1>3. TypeOK'
    <2>1. opState' \in [Ops -> OperationStates]
      BY DEF TaskInv, TypeOK, SetTerminal, OperationStates
    <2> QED
      BY <2>1, FinallyKeepsTypes DEF TaskInv, TypeOK
  <1>4. RecordsAreComplete' /\ TasksFollowGeneration'
    BY <1>1, <1>2
    DEF TaskInv, TypeOK, RecordsAreComplete, TasksFollowGeneration, Quarantining, Ops,
        Pending, PendingStates, TerminalStates
  <1>5. WorkIsUnsettled' /\ DispatchedHaveHeld'
    BY <1>2 DEF TaskInv, TypeOK, WorkIsUnsettled, DispatchedHaveHeld, Pending, Suspended,
                Ops
  <1>6. PromptsWaitOrHold'
    BY <1>1, <1>2, NoneIsNoValue
    DEF TaskInv, TypeOK, PromptsWaitOrHold, Holding, TerminalStates, Ops
  <1>7. OutstandingIsUnanswered'
    BY <1>1 DEF TaskInv, TypeOK, OutstandingIsUnanswered, PromptsWaitOrHold, Ops
  <1>8. ActiveIsThePendingPrompt'
    BY <1>1, <1>2, NoneIsNoValue
    DEF TaskInv, TypeOK, ActiveIsThePendingPrompt, RecordsAreComplete, Pending,
        PendingStates, TerminalStates, Ops
  <1> QED
    BY <1>3, <1>4, <1>5, <1>6, <1>7, <1>8 DEF TaskInv

-----------------------------------------------------------------------------
\* Session creation.
LEMMA CreateStepPreservesTaskInv ==
  ASSUME TaskInv, NEW c \in CreateOps, CreateStep(c)
  PROVE  TaskInv'
  <1> USE DEF generation, identity, memory, lockVars, quota, collectorVars, effects
  <1>1. CASE StartCreate(c)
    BY <1>1, KindsDisjoint
    DEF StartCreate, TaskInv, TypeOK, RecordsAreComplete, TasksFollowGeneration,
        WorkIsUnsettled, PromptsWaitOrHold, OutstandingIsUnanswered,
        ActiveIsThePendingPrompt, DispatchedHaveHeld, Pending, PendingStates,
        OperationStates, PCs, Suspended, Quarantining, Ops
  <1>2. ASSUME NEW state \in {"completed", "failed"}, NEW session \in SessionStates,
               CreateSettles(c, state, session)
        PROVE  TaskInv'
    BY <1>2, KindsDisjoint
    DEF CreateSettles, TaskInv, TypeOK, RecordsAreComplete, TasksFollowGeneration,
        WorkIsUnsettled, PromptsWaitOrHold, OutstandingIsUnanswered,
        ActiveIsThePendingPrompt, DispatchedHaveHeld, Pending, PendingStates,
        OperationStates, TerminalStates, SetTerminal, PCs, Suspended, Quarantining, Ops
  <1>3. CASE CreateTimesOut(c) \/ CreateRaises(c)
    BY <1>3, TaskLossPreservesTaskInv
    DEF CreateTimesOut, CreateRaises, Quarantine, QuarantineUnlessDead, Quarantining,
        Suspended, Ops, TaskInv, TypeOK
  <1> QED
    BY <1>1, <1>2, <1>3 DEF CreateStep, CreateCompletes, CreateRefused, SessionStates

-----------------------------------------------------------------------------
\* Prompts.
LEMMA RaiseVerdictPreservesTaskInv ==
  ASSUME TaskInv, NEW p \in PromptOps, pc[p] \in Holding, RaiseVerdict(p)
  PROVE  TaskInv'
  <1>1. CASE /\ collector[p] = "overflow_cancelled"
             /\ Settle(p, "failed", "non_reusable") /\ UNCHANGED memory
    BY <1>1, SettlePreservesTaskInv DEF memory, TerminalStates, SessionStates, TaskInv,
                                        TypeOK
  <1>2. CASE PromptOverflows(p) \/ PromptRaises(p)
    BY <1>2, TaskLossPreservesTaskInv
    DEF PromptOverflows, PromptRaises, Quarantine, QuarantineUnlessDead, Quarantining,
        Holding, Suspended, Ops
  <1> QED
    BY <1>1, <1>2 DEF RaiseVerdict

\* A prompt settled while it waited leaves with nothing but its "finally".
LEMMA SkipPreservesTaskInv ==
  ASSUME TaskInv, NEW p \in PromptOps, SkipSettledPrompt(p)
  PROVE  TaskInv'
  <1> USE DEF SkipSettledPrompt, Acquires, generation, identity, memory,
              collectorVars, effects
  <1>1. available /\ pc[p] = "waiting" /\ Terminal(p) /\ lockHolder = None
    BY DEF TaskInv, TasksFollowGeneration, Suspended, Ops
  <1>2. TypeOK'
    <2>1. sessionOf[p] \in Sessions => sessState[sessionOf[p]] \in SessionStates
      BY DEF TaskInv, TypeOK
    <2>2. lockQueue' \in Seq(PromptOps)
      BY HeadTailProperties DEF TaskInv, TypeOK
    <2>3. /\ sessState' \in [Sessions -> SessionStates]
          /\ active' \in [Sessions -> PromptOps \cup {None}]
          /\ released' \in SUBSET PromptOps /\ reservations' \in Int
          /\ pc' \in [Ops -> PCs] /\ lockHolder' \in PromptOps \cup {None}
      BY <2>1, FinallyKeepsTypes DEF TaskInv
    <2> QED
      BY <2>2, <2>3 DEF TaskInv, TypeOK
  <1>3. pc' = [pc EXCEPT ![p] = "finished"] /\ lockHolder' = None
    BY <1>1, NoneIsNoValue DEF Finally, Ops
  <1>4. RecordsAreComplete' /\ TasksFollowGeneration' /\ WorkIsUnsettled'
    BY <1>1, <1>3
    DEF TaskInv, TypeOK, RecordsAreComplete, TasksFollowGeneration, WorkIsUnsettled,
        Terminal, TerminalStates, Pending, Suspended, Quarantining, Ops
  <1>5. PromptsWaitOrHold' /\ OutstandingIsUnanswered' /\ DispatchedHaveHeld'
    BY <1>1, <1>3, NoneIsNoValue
    DEF TaskInv, TypeOK, PromptsWaitOrHold, OutstandingIsUnanswered, DispatchedHaveHeld,
        Terminal, TerminalStates, Holding, Ops
  <1>6. active' = active
    <2>1. \A s \in Sessions : active[s] # p
      BY <1>1 DEF TaskInv, ActiveIsThePendingPrompt, Terminal, TerminalStates, Pending,
                  PendingStates
    <2> QED
      BY <2>1 DEF Finally, TaskInv, TypeOK
  <1>7. ActiveIsThePendingPrompt'
    BY <1>6 DEF TaskInv, ActiveIsThePendingPrompt, Pending
  <1> QED
    BY <1>2, <1>4, <1>5, <1>7 DEF TaskInv

LEMMA DispatchPreservesTaskInv ==
  ASSUME TaskInv, NEW p \in PromptOps, Dispatch(p)
  PROVE  TaskInv'
  <1> USE DEF Dispatch, Acquires, generation, identity, memory, quota, effects
  <1>1. /\ available /\ pc[p] = "waiting" /\ lockHolder = None /\ ~Terminal(p)
        /\ opState[p] \in PendingStates
    BY DEF TaskInv, TypeOK, TasksFollowGeneration, RecordsAreComplete, Suspended, Ops,
           Terminal, OperationStates
  <1>2. /\ opState' = [opState EXCEPT ![p] = opState'[p]]
        /\ opState'[p] \in {"running", "cancelling"}
    BY <1>1 DEF TaskInv, TypeOK, Ops
  <1>3. TypeOK'
    <2>1. opState' \in [Ops -> OperationStates]
      BY DEF TaskInv, TypeOK, OperationStates, PendingStates
    <2>2. pc' \in [Ops -> PCs] /\ lockQueue' \in Seq(PromptOps)
      BY HeadTailProperties DEF TaskInv, TypeOK, PCs, Suspended
    <2>3. collector' \in [PromptOps -> CollectorStates]
      BY DEF TaskInv, TypeOK, CollectorStates, Collecting, Verdicts
    <2> QED
      BY <2>1, <2>2, <2>3 DEF TaskInv, TypeOK
  <1>4. RecordsAreComplete' /\ TasksFollowGeneration' /\ WorkIsUnsettled'
    BY <1>1, <1>2
    DEF TaskInv, TypeOK, RecordsAreComplete, TasksFollowGeneration, WorkIsUnsettled,
        PendingStates, Pending, Suspended, Quarantining, Ops
  <1>5. PromptsWaitOrHold'
    BY <1>1, <1>2, NoneIsNoValue DEF TaskInv, TypeOK, PromptsWaitOrHold, Holding, Ops
  <1>6. OutstandingIsUnanswered' /\ DispatchedHaveHeld'
    BY <1>1
    DEF TaskInv, TypeOK, OutstandingIsUnanswered, DispatchedHaveHeld, Holding, Ops
  <1>7. ActiveIsThePendingPrompt'
    BY <1>1, <1>2
    DEF TaskInv, TypeOK, ActiveIsThePendingPrompt, Pending, PendingStates, Ops
  <1> QED
    BY <1>3, <1>4, <1>5, <1>6, <1>7 DEF TaskInv

LEMMA PromptStepPreservesTaskInv ==
  ASSUME TaskInv, UnwrittenPromptsWait, NEW p \in PromptOps, PromptStep(p)
  PROVE  TaskInv'
  <1> USE DEF generation, identity, memory, lockVars, quota, collectorVars, effects
  <1>1. CASE SkipSettledPrompt(p)
    BY <1>1, SkipPreservesTaskInv
  <1>2. CASE Dispatch(p)
    BY <1>2, DispatchPreservesTaskInv
  <1>3. CASE PromptReturns(p)
    <2> DEFINE s == sessionOf[p]
    <2>1. pc[p] \in Holding /\ s \in Sessions /\ invOf[p] \in Invocations
      <3>1. pc[p] = "collecting"
        BY <1>3 DEF PromptReturns
      <3>2. p \in Ops
        BY DEF Ops
      <3>3. s \in Sessions /\ invOf[p] \in Invocations
        BY <3>1, <3>2 DEF TaskInv, RecordsAreComplete
      <3> QED
        BY <3>1, <3>3 DEF Holding
    <2>2. /\ stable' \in SUBSET Sessions /\ contracts' \in [Sessions -> SUBSET Invocations]
          /\ activeInv' \in [Sessions -> Invocations \cup {None}]
      <3>1. /\ stable \in SUBSET Sessions /\ contracts \in [Sessions -> SUBSET Invocations]
            /\ activeInv \in [Sessions -> Invocations \cup {None}]
        BY DEF TaskInv, TypeOK
      <3>2. stable' = stable \/ stable' = stable \cup {s}
        BY <1>3 DEF PromptReturns
      <3>3. \/ contracts' = contracts
            \/ contracts' = [contracts EXCEPT ![s] = @ \cup {invOf[p]}]
        BY <1>3 DEF PromptReturns
      <3>4. activeInv' = activeInv \/ activeInv' = [activeInv EXCEPT ![s] = invOf[p]]
        BY <1>3 DEF PromptReturns
      <3>5. stable' \in SUBSET Sessions
        BY <2>1, <3>1, <3>2
      <3>6. contracts' \in [Sessions -> SUBSET Invocations]
        BY <2>1, <3>1, <3>3
      <3>7. activeInv' \in [Sessions -> Invocations \cup {None}]
        BY <2>1, <3>1, <3>4
      <3> QED
        BY <3>5, <3>6, <3>7
    <2>3. PICK state \in {"completed", "cancelled", "in_doubt"},
               body \in {"ready", "non_reusable"} : Settle(p, state, body)
      BY <1>3 DEF PromptReturns
    <2> QED
      BY <1>3, <2>1, <2>2, <2>3, SettlePreservesTaskInv
      DEF PromptReturns, TerminalStates, SessionStates
  <1>4. CASE PromptFails(p)
    BY <1>4, RaiseVerdictPreservesTaskInv DEF PromptFails, Holding
  <1>5. CASE DeadlineExpires(p)
    BY <1>5, KindsDisjoint
    DEF DeadlineExpires, TaskInv, TypeOK, RecordsAreComplete, TasksFollowGeneration,
        WorkIsUnsettled, PromptsWaitOrHold, OutstandingIsUnanswered,
        ActiveIsThePendingPrompt, DispatchedHaveHeld, Pending, PendingStates,
        OperationStates, PCs, Suspended, Quarantining, Holding, Ops
  <1>6. CASE DeadlineCancelSent(p)
    BY <1>6
    DEF DeadlineCancelSent, TaskInv, TypeOK, RecordsAreComplete, TasksFollowGeneration,
        WorkIsUnsettled, PromptsWaitOrHold, OutstandingIsUnanswered,
        ActiveIsThePendingPrompt, DispatchedHaveHeld, Pending, PendingStates,
        OperationStates, PCs, Suspended, Quarantining, Holding, Ops
  <1>7. CASE DeadlineCancelFails(p)
    BY <1>7, TaskLossPreservesTaskInv
    DEF DeadlineCancelFails, PromptRaises, Quarantine, QuarantineUnlessDead, Quarantining,
        Suspended, Ops
  <1>8. CASE GraceSettles(p)
    <2>1. CASE /\ collector[p] = "cancelled"
               /\ Settle(p, "timed_out", "non_reusable") /\ UNCHANGED memory
      BY <1>8, <2>1, SettlePreservesTaskInv
      DEF GraceSettles, TerminalStates, SessionStates, Holding, TaskInv, TypeOK
    <2>2. CASE Quarantine(p, "quarantining") /\ UNCHANGED lockVars
      BY <1>8, <2>2, TaskLossPreservesTaskInv
      DEF GraceSettles, Quarantine, Quarantining, Suspended, Ops
    <2>3. CASE RaiseVerdict(p)
      BY <1>8, <2>3, RaiseVerdictPreservesTaskInv DEF GraceSettles, Holding
    <2> QED
      BY <1>8, <2>1, <2>2, <2>3 DEF GraceSettles
  <1>9. CASE GraceExpires(p)
    <2>1. collector' \in [PromptOps -> CollectorStates]
      BY <1>9 DEF GraceExpires, TaskInv, TypeOK, CollectorStates
    <2> QED
      BY <1>9, <2>1
      DEF GraceExpires, TaskInv, TypeOK, RecordsAreComplete, TasksFollowGeneration,
          WorkIsUnsettled, PromptsWaitOrHold, OutstandingIsUnanswered,
          ActiveIsThePendingPrompt, DispatchedHaveHeld, Pending, PendingStates,
          OperationStates, PCs, Suspended, Quarantining, Holding, Ops
  <1>10. CASE PromptReaps(p)
    BY <1>10, TaskLossPreservesTaskInv
    DEF PromptReaps, Quarantine, Quarantining, Suspended, Ops
  <1>11. CASE WritePrompt(p) \/ LateWrite(p)
    <2>1. /\ collector' \in [PromptOps -> CollectorStates]
          /\ atAgent' \in SUBSET PromptOps /\ dispatched' \in SUBSET PromptOps
          /\ atAgent' \subseteq atAgent \cup {p} /\ dispatched' \subseteq dispatched \cup {p}
          /\ collector[p] \in {"starting", "doomed"}
          /\ collector'[p] \in {"open", "error", "killed"}
          /\ \A q \in PromptOps \ {p} : collector'[q] = collector[q]
      BY <1>11
      DEF WritePrompt, LateWrite, Written, TaskInv, TypeOK, CollectorStates, Collecting,
          Verdicts
    <2>2. UNCHANGED <<generation, opState, identity, sessState, active, memory, pc,
                      lockVars, quota, registered>>
      BY <1>11 DEF WritePrompt, LateWrite
    <2>3. TypeOK'
      BY <2>1, <2>2 DEF TaskInv, TypeOK
    <2>4. OutstandingIsUnanswered'
      <3>1. available => collector[p] = "starting"
        BY <2>1 DEF UnwrittenPromptsWait
      <3> QED
        BY <2>1, <2>2, <3>1 DEF TaskInv, OutstandingIsUnanswered
    <2>5. DispatchedHaveHeld'
      BY <2>1, <2>2 DEF TaskInv, DispatchedHaveHeld
    <2> QED
      BY <2>2, <2>3, <2>4, <2>5
      DEF TaskInv, RecordsAreComplete, TasksFollowGeneration, WorkIsUnsettled,
          PromptsWaitOrHold, ActiveIsThePendingPrompt, Pending
  <1> QED
    BY <1>1, <1>2, <1>3, <1>4, <1>5, <1>6, <1>7, <1>8, <1>9, <1>10, <1>11 DEF PromptStep

\* The child and the collectors.
LEMMA AgentStepPreservesTaskInv ==
  ASSUME TaskInv, AgentStep
  PROVE  TaskInv'
  <1> USE DEF generation, identity, memory, lockVars, quota, effects
  <1>1. PICK p \in PromptOps :
          \/ \E stop \in {"end", "cancelled"} : AgentAnswers(p, stop)
          \/ \E answered \in BOOLEAN : CollectorFails(p, answered)
          \/ CollectorOverflows(p)
    BY DEF AgentStep
  <1>2. /\ collector' \in [PromptOps -> CollectorStates] /\ atAgent' \subseteq atAgent
        /\ UNCHANGED <<available, alive, opState, identity, sessState, active, memory, pc,
                       lockVars, quota, registered, dispatched>>
    BY <1>1
    DEF AgentAnswers, CollectorFails, CollectorOverflows, Verdict, TaskInv, TypeOK,
        CollectorStates, Collecting, Verdicts
  <1>3. \A q \in PromptOps :
          \/ collector'[q] = collector[q]
          \/ collector'[q] \in {"draining", "overflow_other", "error"}
          \/ q \notin atAgent' /\ collector'[q] \in Verdicts
    BY <1>1
    DEF AgentAnswers, CollectorFails, CollectorOverflows, Verdict, Collecting, Verdicts,
        TaskInv, TypeOK
  <1>4. TypeOK'
    BY <1>1, <1>2 DEF TaskInv, TypeOK, AgentAnswers, CollectorFails, CollectorOverflows
  <1>5. OutstandingIsUnanswered'
    BY <1>2, <1>3 DEF TaskInv, OutstandingIsUnanswered, Verdicts
  <1>6. DispatchedHaveHeld'
    BY <1>2, <1>3 DEF TaskInv, DispatchedHaveHeld, Verdicts
  <1> QED
    BY <1>2, <1>4, <1>5, <1>6
    DEF TaskInv, RecordsAreComplete, TasksFollowGeneration, WorkIsUnsettled,
        PromptsWaitOrHold, ActiveIsThePendingPrompt, Pending

-----------------------------------------------------------------------------
\* Cancellation tasks.
LEMMA CancelStepPreservesTaskInv ==
  ASSUME TaskInv, NEW x \in CancelOps, CancelStep(x)
  PROVE  TaskInv'
  <1> USE DEF generation, identity, memory, lockVars, quota, collectorVars, effects
  <1>1. CASE StartCancel(x)
    BY <1>1, KindsDisjoint
    DEF StartCancel, TaskInv, TypeOK, RecordsAreComplete, TasksFollowGeneration,
        WorkIsUnsettled, PromptsWaitOrHold, OutstandingIsUnanswered,
        ActiveIsThePendingPrompt, DispatchedHaveHeld, Pending, PendingStates,
        OperationStates, PCs, Suspended, Quarantining, Holding, Ops
  <1>2. CASE CancelSent(x)
    BY <1>2, KindsDisjoint
    DEF CancelSent, TaskInv, TypeOK, RecordsAreComplete, TasksFollowGeneration,
        WorkIsUnsettled, PromptsWaitOrHold, OutstandingIsUnanswered,
        ActiveIsThePendingPrompt, DispatchedHaveHeld, Pending, PendingStates,
        OperationStates, PCs, Suspended, Quarantining, Holding, Ops
  <1>3. CASE CancelObservesTarget(x)
    BY <1>3, KindsDisjoint
    DEF CancelObservesTarget, SetTerminal, TerminalStates, TaskInv, TypeOK,
        RecordsAreComplete, TasksFollowGeneration, WorkIsUnsettled, PromptsWaitOrHold,
        OutstandingIsUnanswered, ActiveIsThePendingPrompt, DispatchedHaveHeld, Pending,
        PendingStates, OperationStates, PCs, Suspended, Quarantining, Holding, Ops
  <1>4. CASE CancelTakesCollector(x)
    <2>1. /\ collector' \in [PromptOps -> CollectorStates]
          /\ \A q \in PromptOps : collector'[q] = collector[q] \/ collector'[q] = "reaping"
      BY <1>4 DEF CancelTakesCollector, TaskInv, TypeOK, CollectorStates
    <2> QED
      BY <1>4, <2>1, KindsDisjoint
      DEF CancelTakesCollector, TaskInv, TypeOK, RecordsAreComplete,
          TasksFollowGeneration, WorkIsUnsettled, PromptsWaitOrHold,
          OutstandingIsUnanswered, ActiveIsThePendingPrompt, DispatchedHaveHeld, Pending,
          PendingStates, OperationStates, PCs, Suspended, Quarantining, Holding, Ops
  <1>5. CASE CancelSendFails(x) \/ CancelGivesUp(x)
    BY <1>5, TaskLossPreservesTaskInv
    DEF CancelSendFails, CancelGivesUp, Quarantine, Quarantining, Suspended, Ops
  <1> QED
    BY <1>1, <1>2, <1>3, <1>4, <1>5 DEF CancelStep

-----------------------------------------------------------------------------
\* After the loss, and the lifecycle owner.
LEMMA UnwindPreservesTaskInv ==
  ASSUME TaskInv, NEW o \in Ops, UnwindPrompt(o) \/ UnwindWithoutCleanup(o)
  PROVE  TaskInv'
  <1> USE DEF generation, identity, memory, lockVars, collectorVars, effects
  <1>1. ~available /\ pc[o] = "unwinding"
    BY DEF TaskInv, TasksFollowGeneration, UnwindPrompt, UnwindWithoutCleanup
  <1>2. pc' = [pc EXCEPT ![o] = "finished"] /\ UNCHANGED <<available, opState, identity>>
    BY DEF UnwindPrompt, UnwindWithoutCleanup, Finally
  <1>3. TypeOK'
    <2>1. CASE UnwindPrompt(o)
      <3>1. o \in PromptOps /\ Finally(o, opState[o], sessState[sessionOf[o]])
        BY <2>1 DEF UnwindPrompt
      <3>2. sessionOf[o] \in Sessions => sessState[sessionOf[o]] \in SessionStates
        BY DEF TaskInv, TypeOK
      <3> QED
        BY <2>1, <3>1, <3>2, FinallyKeepsTypes DEF UnwindPrompt, TaskInv, TypeOK
    <2>2. CASE UnwindWithoutCleanup(o)
      BY <2>2 DEF UnwindWithoutCleanup, quota, TaskInv, TypeOK, PCs
    <2> QED
      BY <2>1, <2>2
  <1>4. DispatchedHaveHeld'
    BY <1>2 DEF UnwindPrompt, UnwindWithoutCleanup, TaskInv, TypeOK, DispatchedHaveHeld,
                Ops
  <1> QED
    BY <1>1, <1>2, <1>3, <1>4
    DEF TaskInv, TypeOK, RecordsAreComplete, TasksFollowGeneration, WorkIsUnsettled,
        PromptsWaitOrHold, OutstandingIsUnanswered, ActiveIsThePendingPrompt, Pending,
        Suspended, Quarantining

LEMMA AbortPreservesTaskInv ==
  ASSUME TaskInv, NEW o \in Ops, AbortAndPublish(o)
  PROVE  TaskInv'
  <1> USE DEF identity, memory, collectorVars
  <1>1. ~available /\ ~available' /\ pc[o] \in Quarantining
    BY DEF TaskInv, TasksFollowGeneration, Suspended, Quarantining, AbortAndPublish
  <1>2. opState' \in [Ops -> OperationStates]
        /\ \A k \in Ops : opState[k] = "unknown" <=> opState'[k] = "unknown"
    <2>1. \A k \in Deferred(o) : k \in Ops => opState[k] # "unknown"
      BY <1>1, KindsDisjoint
      DEF Deferred, TaskInv, TypeOK, RecordsAreComplete, Quarantining, Ops
    <2>2. \A k : DeferredResult(o, k) \in TerminalStates
      BY DEF DeferredResult, TerminalStates
    <2>3. opState' = [k \in Ops |->
            IF k \in Deferred(o) THEN SetTerminal(opState[k], DeferredResult(o, k))
            ELSE opState[k]]
      BY DEF AbortAndPublish
    <2> QED
      BY <2>1, <2>2, <2>3
      DEF TaskInv, TypeOK, SetTerminal, OperationStates, TerminalStates
  <1>3. pc' = [pc EXCEPT ![o] = "finished"]
    BY DEF AbortAndPublish, Finally
  <1>4. TypeOK'
    <2>1. CASE o \in PromptOps
      <3>1. Finally(o, SetTerminal(opState[o], "in_doubt"), sessState[sessionOf[o]])
        BY <2>1 DEF AbortAndPublish
      <3>2. sessionOf[o] \in Sessions => sessState[sessionOf[o]] \in SessionStates
        BY DEF TaskInv, TypeOK
      <3> QED
        BY <1>2, <2>1, <3>1, <3>2, FinallyKeepsTypes DEF AbortAndPublish, TaskInv, TypeOK
    <2>2. CASE o \notin PromptOps
      BY <1>2, <2>2 DEF AbortAndPublish, quota, TaskInv, TypeOK, PCs
    <2> QED
      BY <2>1, <2>2
  <1>5. RecordsAreComplete'
    <2>1. \A k \in Ops : opState[k] = "unknown" => pc'[k] = "none"
      BY <1>1, <1>3 DEF TaskInv, TypeOK, RecordsAreComplete, Quarantining
    <2>2. UNCHANGED identity /\ RecordsAreComplete
      BY DEF AbortAndPublish, TaskInv
    <2> HIDE DEF identity
    <2> QED
      BY <1>2, <2>1, <2>2, RecordsKept
  <1>6. TasksFollowGeneration' /\ WorkIsUnsettled'
    BY <1>1, <1>3 DEF TaskInv, TypeOK, TasksFollowGeneration, WorkIsUnsettled, Suspended,
                      Quarantining
  <1>7. DispatchedHaveHeld'
    BY <1>3 DEF AbortAndPublish, TaskInv, TypeOK, DispatchedHaveHeld, Ops
  <1> QED
    BY <1>1, <1>4, <1>5, <1>6, <1>7
    DEF TaskInv, PromptsWaitOrHold, OutstandingIsUnanswered, ActiveIsThePendingPrompt

LEMMA OwnerPreservesTaskInv ==
  ASSUME TaskInv, LossTask \/ OwnerShutdown \/ OwnerStopsChild \/ TransportFails
  PROVE  TaskInv'
  <1>1. CASE LossTask \/ OwnerShutdown
    <2>1. None \notin Ops /\ available /\ lockVars' = lockVars
      BY <1>1, NoneIsNoValue DEF LossTask, OwnerShutdown
    <2>2. MarkGenerationLost({}, None, "none", None)
      BY <1>1 DEF LossTask, OwnerShutdown
    <2>3. MarkGenerationLost({}, None, "finished", None)
      BY <2>1, <2>2 DEF MarkGenerationLost
    <2> QED
      BY <2>1, <2>3, LossPreservesTaskInv DEF lockVars, TaskInv, TypeOK
  <1>2. CASE OwnerStopsChild \/ TransportFails
    <2> USE <1>2 DEF OwnerStopsChild, TransportFails, memory, lockVars, quota,
                     collectorVars, effects
    <2>1. /\ UNCHANGED <<available, opState, identity, sessState, active, pc, lockVars,
                          collector, dispatched>>
          /\ atAgent' \subseteq atAgent
      OBVIOUS
    <2>2. TypeOK'
      BY DEF TaskInv, TypeOK, identity
    <2>3. RecordsAreComplete'
      BY <2>1 DEF TaskInv, RecordsAreComplete, identity
    <2>4. PromptsWaitOrHold' /\ OutstandingIsUnanswered'
      BY <2>1 DEF TaskInv, PromptsWaitOrHold, OutstandingIsUnanswered
    <2>5. ActiveIsThePendingPrompt' /\ WorkIsUnsettled'
      BY <2>1 DEF TaskInv, ActiveIsThePendingPrompt, WorkIsUnsettled, Pending, identity
    <2>6. TasksFollowGeneration' /\ DispatchedHaveHeld'
      BY <2>1 DEF TaskInv, TasksFollowGeneration, DispatchedHaveHeld
    <2> QED
      BY <2>2, <2>3, <2>4, <2>5, <2>6 DEF TaskInv
  <1> QED
    BY <1>1, <1>2

-----------------------------------------------------------------------------
\* Admissions.
LEMMA AdmitCreatePreservesTaskInv ==
  ASSUME TaskInv, NEW c \in CreateOps, NEW s \in Sessions, AdmitCreate(c, s)
  PROVE  TaskInv'
  <1> USE DEF AdmitCreate, LedgerAccepts, generation, memory, lockVars, quota,
              collectorVars, effects
  <1>1. c \in Ops /\ c \notin PromptOps /\ c \notin CancelOps
    BY KindsDisjoint DEF Ops
  <1>2. opState[c] = "unknown" /\ pc[c] = "none" /\ available
    BY <1>1 DEF TaskInv, RecordsAreComplete
  <1>3. TypeOK'
    BY <1>1 DEF TaskInv, TypeOK, OperationStates, PendingStates, SessionStates, PCs
  <1>4. RecordsAreComplete'
    BY <1>1, <1>2 DEF TaskInv, TypeOK, RecordsAreComplete, Ops
  <1>5. TasksFollowGeneration' /\ WorkIsUnsettled' /\ DispatchedHaveHeld'
    BY <1>1, <1>2
    DEF TaskInv, TypeOK, TasksFollowGeneration, WorkIsUnsettled, DispatchedHaveHeld,
        Pending, PendingStates, Suspended, Quarantining, Ops
  <1>6. PromptsWaitOrHold' /\ OutstandingIsUnanswered'
    BY <1>1 DEF TaskInv, TypeOK, PromptsWaitOrHold, OutstandingIsUnanswered, Ops
  <1>7. ActiveIsThePendingPrompt'
    BY <1>1 DEF TaskInv, TypeOK, ActiveIsThePendingPrompt, Pending, Ops
  <1> QED
    BY <1>3, <1>4, <1>5, <1>6, <1>7 DEF TaskInv

LEMMA AdmitPromptPreservesTaskInv ==
  ASSUME TaskInv, NEW p \in PromptOps, NEW s \in Sessions, NEW phase \in Phases,
         NEW i \in Invocations, AdmitPrompt(p, s, phase, i)
  PROVE  TaskInv'
  <1> USE DEF AdmitPrompt, LedgerAccepts, generation, memory, collectorVars, effects
  <1>1. p \in Ops /\ p \notin CancelOps /\ p # None
    BY KindsDisjoint, NoneIsNoValue DEF Ops
  <1>2. opState[p] = "unknown" /\ pc[p] = "none" /\ available /\ lockHolder # p
    BY <1>1 DEF TaskInv, RecordsAreComplete, PromptsWaitOrHold, Holding
  <1>3. /\ opState' = [opState EXCEPT ![p] = opState'[p]]
        /\ opState'[p] \in {"accepted", "queued"}
    BY <1>1 DEF TaskInv, TypeOK
  <1>4. TypeOK'
    <2>1. lockQueue' \in Seq(PromptOps)
      BY AppendProperties DEF TaskInv, TypeOK
    <2>2. reservations' \in Int /\ opState' \in [Ops -> OperationStates]
      BY <1>3 DEF TaskInv, TypeOK, OperationStates, PendingStates
    <2> QED
      BY <1>1, <2>1, <2>2 DEF TaskInv, TypeOK, SessionStates, PCs, Suspended
  <1>5. RecordsAreComplete'
    BY <1>1, <1>2, <1>3 DEF TaskInv, TypeOK, RecordsAreComplete, Ops
  <1>6. TasksFollowGeneration' /\ WorkIsUnsettled'
    BY <1>1, <1>2, <1>3
    DEF TaskInv, TypeOK, TasksFollowGeneration, WorkIsUnsettled, Pending, PendingStates,
        Suspended, Quarantining, Ops
  <1>7. PromptsWaitOrHold'
    BY <1>1, <1>2, <1>3 DEF TaskInv, TypeOK, PromptsWaitOrHold, Holding, Ops
  <1>8. OutstandingIsUnanswered' /\ DispatchedHaveHeld'
    BY <1>1, <1>2
    DEF TaskInv, TypeOK, OutstandingIsUnanswered, DispatchedHaveHeld, Holding, Ops
  <1>9. ActiveIsThePendingPrompt'
    <2>1. \A q \in PromptOps : Pending(q) => sessionOf[q] # s \/ q = p
      BY <1>2, NoneIsNoValue DEF TaskInv, ActiveIsThePendingPrompt, Ops
    <2>2. \A q \in PromptOps \ {p} :
            sessionOf'[q] = sessionOf[q] /\ (Pending(q)' <=> Pending(q))
      BY <1>3 DEF TaskInv, TypeOK, Pending, Ops
    <2>3. Pending(p)' /\ sessionOf'[p] = s /\ active' = [active EXCEPT ![s] = p]
      BY <1>1, <1>3 DEF TaskInv, TypeOK, Pending, PendingStates
    <2>4. ~Pending(p)
      BY <1>2 DEF Pending, PendingStates
    <2> QED
      BY <1>1, <1>2, <2>1, <2>2, <2>3, <2>4 DEF TaskInv, TypeOK, ActiveIsThePendingPrompt
  <1> QED
    BY <1>4, <1>5, <1>6, <1>7, <1>8, <1>9 DEF TaskInv

\* The three admissions of a cancellation differ in what they do to its target.
LEMMA AdmitCancelPreservesTaskInv ==
  ASSUME TaskInv, NEW x \in CancelOps, NEW p \in PromptOps,
         \/ AdmitCancelBeforeDispatch(x, p)
         \/ AdmitCancelOfSettled(x, p)
         \/ AdmitCancelOfRunning(x, p)
  PROVE  TaskInv'
  <1> USE DEF AdmitsCancel, LedgerAccepts, generation, memory, lockVars, quota,
              collectorVars, effects
  <1>1. x \in Ops /\ p \in Ops /\ x \notin PromptOps /\ x # p
    BY KindsDisjoint DEF Ops
  <1>2. AdmitsCancel(x, p)
    BY DEF AdmitCancelBeforeDispatch, AdmitCancelOfSettled, AdmitCancelOfRunning
  <1>3. /\ opState[x] = "unknown" /\ pc[x] = "none" /\ available
        /\ opState[p] # "unknown" /\ sessionOf[p] \in Sessions
    BY <1>1, <1>2 DEF TaskInv, RecordsAreComplete
  <1>4. CASE AdmitCancelBeforeDispatch(x, p)
    <2> USE <1>4 DEF AdmitCancelBeforeDispatch
    <2>1. TypeOK'
      <3>1. opState' \in [Ops -> OperationStates]
        BY DEF TaskInv, TypeOK, OperationStates, TerminalStates
      <3>2. /\ sessState' \in [Sessions -> SessionStates]
            /\ active' \in [Sessions -> PromptOps \cup {None}]
        BY DEF TaskInv, TypeOK, SessionStates
      <3>3. reservations' \in Int /\ released' \in SUBSET PromptOps
        BY DEF TaskInv, TypeOK, Release
      <3> QED
        BY <1>2, <1>3, <3>1, <3>2, <3>3 DEF TaskInv, TypeOK
    <2>2. RecordsAreComplete'
      BY <1>1, <1>2, <1>3 DEF TaskInv, TypeOK, RecordsAreComplete, Ops
    <2>3. pc[p] = "waiting"
      BY <1>3 DEF TaskInv, PromptsWaitOrHold
    <2>4. TasksFollowGeneration' /\ WorkIsUnsettled' /\ DispatchedHaveHeld'
      BY <1>1, <1>3, <2>3
      DEF TaskInv, TypeOK, TasksFollowGeneration, WorkIsUnsettled, DispatchedHaveHeld,
          Pending, Suspended
    <2>5. PromptsWaitOrHold' /\ OutstandingIsUnanswered'
      BY <1>1 DEF TaskInv, TypeOK, PromptsWaitOrHold, OutstandingIsUnanswered, Ops
    <2>6. ActiveIsThePendingPrompt'
      <3>1. Pending(p) /\ active[sessionOf[p]] = p
        BY <1>3 DEF TaskInv, ActiveIsThePendingPrompt, Pending, PendingStates
      <3>2. ~Pending(p)'
        BY <1>1 DEF TaskInv, TypeOK, Pending, PendingStates
      <3>3. \A q \in PromptOps \ {p} :
              sessionOf'[q] = sessionOf[q] /\ (Pending(q)' <=> Pending(q))
        BY <1>1, <1>2 DEF TaskInv, TypeOK, Pending, Ops
      <3>4. active' = [active EXCEPT ![sessionOf[p]] = None]
        OBVIOUS
      <3> QED
        BY <1>3, <3>1, <3>2, <3>3, <3>4, NoneIsNoValue
        DEF TaskInv, TypeOK, ActiveIsThePendingPrompt, Ops
    <2> QED
      BY <2>1, <2>2, <2>4, <2>5, <2>6 DEF TaskInv
  <1>5. CASE AdmitCancelOfSettled(x, p)
    <2> USE <1>5 DEF AdmitCancelOfSettled
    <2>1. TypeOK'
      BY <1>2, <1>3 DEF TaskInv, TypeOK, OperationStates, TerminalStates
    <2>2. RecordsAreComplete'
      BY <1>1, <1>2, <1>3 DEF TaskInv, TypeOK, RecordsAreComplete, Ops
    <2>3. TasksFollowGeneration' /\ WorkIsUnsettled' /\ DispatchedHaveHeld'
      BY <1>1, <1>3
      DEF TaskInv, TypeOK, TasksFollowGeneration, WorkIsUnsettled, DispatchedHaveHeld,
          Pending, Suspended
    <2>4. PromptsWaitOrHold' /\ OutstandingIsUnanswered' /\ ActiveIsThePendingPrompt'
      BY <1>1, <1>2
      DEF TaskInv, TypeOK, PromptsWaitOrHold, OutstandingIsUnanswered,
          ActiveIsThePendingPrompt, Pending, Ops
    <2> QED
      BY <2>1, <2>2, <2>3, <2>4 DEF TaskInv
  <1>6. CASE AdmitCancelOfRunning(x, p)
    <2> USE <1>6 DEF AdmitCancelOfRunning
    <2>1. TypeOK'
      <3>1. opState' \in [Ops -> OperationStates] /\ pc' \in [Ops -> PCs]
        BY DEF TaskInv, TypeOK, OperationStates, PendingStates, PCs
      <3> QED
        BY <1>2, <1>3, <3>1 DEF TaskInv, TypeOK
    <2>2. RecordsAreComplete'
      BY <1>1, <1>2, <1>3 DEF TaskInv, TypeOK, RecordsAreComplete, Ops
    <2>3. TasksFollowGeneration' /\ WorkIsUnsettled' /\ DispatchedHaveHeld'
      BY <1>1, <1>3
      DEF TaskInv, TypeOK, TasksFollowGeneration, WorkIsUnsettled, DispatchedHaveHeld,
          Pending, PendingStates, Suspended, Quarantining, Ops
    <2>4. PromptsWaitOrHold' /\ OutstandingIsUnanswered'
      BY <1>1 DEF TaskInv, TypeOK, PromptsWaitOrHold, OutstandingIsUnanswered, Ops
    <2>5. ActiveIsThePendingPrompt'
      <3>1. \A q \in PromptOps :
              sessionOf'[q] = sessionOf[q] /\ (Pending(q)' <=> Pending(q))
        BY <1>1, <1>2 DEF TaskInv, TypeOK, Pending, PendingStates, Ops
      <3>2. available' = available /\ active' = active
        BY <1>2
      <3> QED
        BY <3>1, <3>2 DEF TaskInv, ActiveIsThePendingPrompt
    <2> QED
      BY <2>1, <2>2, <2>3, <2>4, <2>5 DEF TaskInv
  <1> QED
    BY <1>4, <1>5, <1>6

LEMMA AdmitRetirePreservesTaskInv ==
  ASSUME TaskInv, NEW r \in RetireOps, NEW s \in Sessions, AdmitRetire(r, s)
  PROVE  TaskInv'
  <1> USE DEF AdmitRetire, LedgerAccepts, generation, memory, lockVars, quota,
              collectorVars, effects
  <1>1. r \in Ops /\ r \notin PromptOps /\ r \notin CancelOps
    BY KindsDisjoint DEF Ops
  <1>2. opState[r] = "unknown" /\ pc[r] = "none"
    BY <1>1 DEF TaskInv, RecordsAreComplete
  <1>3. TypeOK'
    BY <1>1 DEF TaskInv, TypeOK, OperationStates, TerminalStates, SessionStates
  <1>4. RecordsAreComplete'
    BY <1>1, <1>2 DEF TaskInv, TypeOK, RecordsAreComplete, Ops
  <1>5. TasksFollowGeneration' /\ WorkIsUnsettled' /\ DispatchedHaveHeld'
    BY <1>1, <1>2
    DEF TaskInv, TypeOK, TasksFollowGeneration, WorkIsUnsettled, DispatchedHaveHeld,
        Pending, Suspended
  <1>6. PromptsWaitOrHold' /\ OutstandingIsUnanswered' /\ ActiveIsThePendingPrompt'
    BY <1>1
    DEF TaskInv, TypeOK, PromptsWaitOrHold, OutstandingIsUnanswered,
        ActiveIsThePendingPrompt, Pending, Ops
  <1> QED
    BY <1>3, <1>4, <1>5, <1>6 DEF TaskInv

-----------------------------------------------------------------------------
LEMMA NextPreservesTaskInv == IInv /\ [Next]_vars => TaskInv'
  <1> SUFFICES ASSUME TaskInv, UnwrittenPromptsWait, [Next]_vars PROVE TaskInv'
    BY DEF IInv
  <1>1. CASE Admission
    BY <1>1, AdmitCreatePreservesTaskInv, AdmitPromptPreservesTaskInv,
       AdmitCancelPreservesTaskInv, AdmitRetirePreservesTaskInv
    DEF Admission
  <1>2. ASSUME NEW o \in Ops, TaskStep(o) PROVE TaskInv'
    BY <1>2, CreateStepPreservesTaskInv, PromptStepPreservesTaskInv,
       CancelStepPreservesTaskInv, UnwindPreservesTaskInv, AbortPreservesTaskInv
    DEF TaskStep
  <1>3. CASE AgentStep
    BY <1>3, AgentStepPreservesTaskInv
  <1>4. CASE TransportFails \/ LossTask \/ OwnerShutdown \/ OwnerStopsChild
    BY <1>4, OwnerPreservesTaskInv
  <1>5. CASE UNCHANGED vars
    BY <1>5
    DEF vars, generation, identity, memory, lockVars, quota, collectorVars, effects,
        TaskInv, TypeOK, RecordsAreComplete, TasksFollowGeneration, WorkIsUnsettled,
        PromptsWaitOrHold, OutstandingIsUnanswered, ActiveIsThePendingPrompt,
        DispatchedHaveHeld, Pending
  <1> QED
    BY <1>1, <1>2, <1>3, <1>4, <1>5 DEF Next

-----------------------------------------------------------------------------
\* The shapes of a step.  Everything below is proved over these.

\* How a prompt written to the child settles while the generation lives:
\* completed, and then remembered by its session, or at the session's cost.
Completes(p) ==
    /\ opState[p] # "cancelling" /\ collector[p] = "end"
    /\ Settle(p, "completed", "ready")
    /\ stable' = IF phaseOf[p] = "initial" THEN stable \cup {sessionOf[p]} ELSE stable
    /\ activeInv' = [activeInv EXCEPT ![sessionOf[p]] = invOf[p]]

SpoilsAs(p, state) ==
    /\ state = "completed" => FALSE
    /\ state = "timed_out" \/ state = "cancelled" => collector[p] = "cancelled"
    /\ state = "failed" => collector[p] = "overflow_cancelled"
    /\ state = "in_doubt" => collector[p] = "end"
    /\ Settle(p, state, "non_reusable") /\ UNCHANGED memory

PromptSettles(p) ==
    /\ p \in PromptOps /\ pc[p] \in Holding
    /\ Completes(p) \/ \E state \in TerminalStates : SpoilsAs(p, state)

\* Steps of create and cancel tasks short of losing the generation.
CreateWorks(c) == StartCreate(c) \/ CreateCompletes(c) \/ CreateRefused(c)
CancelWorks(x) ==
    StartCancel(x) \/ CancelSent(x) \/ CancelObservesTarget(x) \/ CancelTakesCollector(x)
PromptWorks(p) == DeadlineExpires(p) \/ DeadlineCancelSent(p) \/ GraceExpires(p)

LiveStep ==
    \/ Admission \/ AgentStep \/ TransportFails
    \/ \E c \in CreateOps : CreateWorks(c)
    \/ \E x \in CancelOps : CancelWorks(x)
    \/ \E p \in PromptOps :
         \/ SkipSettledPrompt(p) \/ Dispatch(p) \/ WritePrompt(p)
         \/ PromptWorks(p) \/ PromptSettles(p)

\* With every record settled, or with those of one task that now quarantines.
LosingStep ==
    \/ \E self, next, tainted : MarkGenerationLost({}, self, next, tainted)
    \/ \E o \in Ops, next \in Quarantining : \E tainted :
         pc[o] \in Suspended /\ MarkGenerationLost(Deferred(o), o, next, tainted)

LostStep ==
    \/ AgentStep \/ TransportFails \/ OwnerStopsChild
    \/ \E p \in PromptOps : LateWrite(p)
    \/ \E o \in Ops : UnwindPrompt(o) \/ UnwindWithoutCleanup(o) \/ AbortAndPublish(o)

LEMMA QuarantineLoses ==
  ASSUME NEW o \in Ops, pc[o] \in Suspended,
         \/ Quarantine(o, "quarantining") \/ Quarantine(o, "quarantining_failed")
         \/ \E afterLoss : QuarantineUnlessDead(o, afterLoss)
  PROVE  LosingStep
  BY DEF Quarantine, QuarantineUnlessDead, LosingStep, Quarantining

LEMMA VerdictShape ==
  ASSUME NEW p \in PromptOps, pc[p] \in Holding, RaiseVerdict(p)
  PROVE  PromptSettles(p) \/ LosingStep
  <1>1. p \in Ops /\ pc[p] \in Suspended
    BY DEF Ops, Holding, Suspended
  <1>2. CASE PromptOverflows(p) \/ PromptRaises(p)
    BY <1>1, <1>2, QuarantineLoses DEF PromptOverflows, PromptRaises
  <1>3. CASE /\ collector[p] = "overflow_cancelled"
             /\ Settle(p, "failed", "non_reusable") /\ UNCHANGED memory
    BY <1>3 DEF PromptSettles, SpoilsAs, TerminalStates
  <1> QED
    BY <1>2, <1>3 DEF RaiseVerdict

LEMMA PromptShape ==
  ASSUME NEW p \in PromptOps, PromptStep(p)
  PROVE  \/ SkipSettledPrompt(p) \/ Dispatch(p) \/ WritePrompt(p) \/ LateWrite(p)
         \/ PromptWorks(p) \/ PromptSettles(p) \/ LosingStep
  <1>1. p \in Ops
    BY DEF Ops
  <1>2. CASE PromptReturns(p)
    <2>1. CASE opState[p] # "cancelling" /\ collector[p] = "end"
      BY <1>2, <2>1 DEF PromptReturns, PromptSettles, Completes, Holding
    <2>2. CASE ~(opState[p] # "cancelling" /\ collector[p] = "end")
      <3> DEFINE state == IF collector[p] = "cancelled" THEN "cancelled" ELSE "in_doubt"
      <3>1. SpoilsAs(p, state)
        BY <1>2, <2>2 DEF PromptReturns, SpoilsAs
      <3> QED
        BY <1>2, <3>1 DEF PromptReturns, PromptSettles, TerminalStates, Holding
    <2> QED
      BY <2>1, <2>2
  <1>3. CASE GraceSettles(p)
    <2>1. CASE collector[p] = "cancelled" /\ Settle(p, "timed_out", "non_reusable")
               /\ UNCHANGED memory
      BY <1>3, <2>1 DEF GraceSettles, PromptSettles, SpoilsAs, TerminalStates, Holding
    <2> QED
      BY <1>1, <1>3, <2>1, QuarantineLoses, VerdictShape
      DEF GraceSettles, Holding, Suspended
  <1>4. CASE PromptFails(p)
    BY <1>4, VerdictShape DEF PromptFails, Holding
  <1>5. CASE DeadlineCancelFails(p) \/ PromptReaps(p)
    BY <1>1, <1>5, QuarantineLoses
    DEF DeadlineCancelFails, PromptReaps, PromptRaises, Suspended
  <1> QED
    BY <1>2, <1>3, <1>4, <1>5 DEF PromptStep, PromptWorks

\* Every step of a live generation is one of its work or loses it; a lost one
\* only unwinds.
LEMMA StepShapes ==
  ASSUME IInv, Next
  PROVE  \/ available /\ available' /\ LiveStep
         \/ available /\ ~available' /\ LosingStep
         \/ ~available /\ ~available' /\ LostStep
  <1> DEFINE Goal == \/ available /\ available' /\ LiveStep
                     \/ available /\ ~available' /\ LosingStep
                     \/ ~available /\ ~available' /\ LostStep
  <1>1. \A o \in Ops : pc[o] \in Suspended \cup {"scheduled"} => available
    BY DEF IInv, TaskInv, TasksFollowGeneration
  <1>2. \A o \in Ops : pc[o] \in Quarantining \cup {"unwinding"} => ~available
    BY DEF IInv, TaskInv, TasksFollowGeneration
  <1>3. LosingStep => ~available'
    BY DEF LosingStep, MarkGenerationLost
  <1>4. available \in BOOLEAN
    BY DEF IInv, TaskInv, TypeOK
  <1>5. CASE Admission
    <2>1. available /\ available' = available
      BY <1>5
      DEF Admission, AdmitCreate, AdmitPrompt, AdmitCancelBeforeDispatch,
          AdmitCancelOfSettled, AdmitCancelOfRunning, AdmitsCancel, AdmitRetire,
          generation
    <2> QED
      BY <1>5, <2>1 DEF LiveStep
  <1>6. ASSUME NEW c \in CreateOps, CreateStep(c) PROVE Goal
    <2>1. c \in Ops
      BY DEF Ops
    <2>2. CASE CreateTimesOut(c) \/ CreateRaises(c)
      BY <1>1, <1>3, <2>1, <2>2, QuarantineLoses
      DEF CreateTimesOut, CreateRaises, Suspended
    <2>3. CASE CreateWorks(c)
      <3>1. available /\ available' = available
        BY <1>1, <2>1, <2>3
        DEF CreateWorks, StartCreate, CreateCompletes, CreateRefused, CreateSettles,
            generation, Suspended
      <3> QED
        BY <2>3, <3>1 DEF LiveStep
    <2> QED
      BY <1>6, <2>2, <2>3 DEF CreateStep, CreateWorks
  <1>7. ASSUME NEW p \in PromptOps, PromptStep(p) PROVE Goal
    <2>1. p \in Ops
      BY DEF Ops
    <2>2. LateWrite(p) \/ available
      <3>1. WritePrompt(p) => available
        BY DEF WritePrompt, IInv, UnwrittenPromptsWait
      <3> QED
        BY <1>1, <1>7, <2>1, <3>1
        DEF PromptStep, SkipSettledPrompt, Dispatch, Acquires, PromptReturns, PromptFails,
            DeadlineExpires, DeadlineCancelSent, DeadlineCancelFails, GraceSettles,
            GraceExpires, PromptReaps, Suspended
    <2>3. CASE LateWrite(p)
      BY <2>3 DEF LateWrite, generation, IInv, UnwrittenPromptsWait, LostStep
    <2>4. CASE available /\ LosingStep
      BY <1>3, <2>4
    <2>5. CASE available /\ PromptSettles(p)
      <3>1. available' = available
        BY <2>5 DEF PromptSettles, Completes, SpoilsAs, Settle, generation
      <3> QED
        BY <2>5, <3>1 DEF LiveStep
    <2>6. CASE available /\ (\/ SkipSettledPrompt(p) \/ Dispatch(p) \/ WritePrompt(p)
                             \/ PromptWorks(p))
      <3>1. available' = available
        BY <2>6
        DEF SkipSettledPrompt, Dispatch, WritePrompt, PromptWorks, DeadlineExpires,
            DeadlineCancelSent, GraceExpires, generation
      <3> QED
        BY <2>6, <3>1 DEF LiveStep
    <2> QED
      BY <1>7, <2>2, <2>3, <2>4, <2>5, <2>6, PromptShape
  <1>8. ASSUME NEW x \in CancelOps, CancelStep(x) PROVE Goal
    <2>1. x \in Ops
      BY DEF Ops
    <2>2. available
      BY <1>1, <1>8, <2>1
      DEF CancelStep, StartCancel, CancelSent, CancelSendFails, CancelObservesTarget,
          CancelTakesCollector, CancelGivesUp, Suspended
    <2>3. CASE CancelSendFails(x) \/ CancelGivesUp(x)
      BY <1>3, <2>1, <2>2, <2>3, QuarantineLoses
      DEF CancelSendFails, CancelGivesUp, Suspended
    <2>4. CASE CancelWorks(x)
      <3>1. available' = available
        BY <2>4
        DEF CancelWorks, StartCancel, CancelSent, CancelObservesTarget,
            CancelTakesCollector, generation
      <3> QED
        BY <2>2, <2>4, <3>1 DEF LiveStep
    <2> QED
      BY <1>8, <2>3, <2>4 DEF CancelStep, CancelWorks
  <1>9. ASSUME NEW o \in Ops,
               UnwindPrompt(o) \/ UnwindWithoutCleanup(o) \/ AbortAndPublish(o)
        PROVE  Goal
    <2>1. ~available
      BY <1>2, <1>9 DEF UnwindPrompt, UnwindWithoutCleanup, AbortAndPublish
    <2>2. available' = available
      BY <1>9 DEF UnwindPrompt, UnwindWithoutCleanup, AbortAndPublish, generation
    <2> QED
      BY <1>9, <2>1, <2>2 DEF LostStep
  <1>10. CASE AgentStep \/ TransportFails
    <2>1. available' = available
      BY <1>10
      DEF AgentStep, AgentAnswers, CollectorFails, CollectorOverflows, TransportFails,
          generation
    <2> QED
      BY <1>4, <1>10, <2>1 DEF LiveStep, LostStep
  <1>11. CASE LossTask \/ OwnerShutdown
    BY <1>3, <1>11 DEF LossTask, OwnerShutdown, LosingStep
  <1>12. CASE OwnerStopsChild
    BY <1>12 DEF OwnerStopsChild, LostStep
  <1> QED
    BY <1>5, <1>6, <1>7, <1>8, <1>9, <1>10, <1>11, <1>12 DEF Next, TaskStep

-----------------------------------------------------------------------------
\* Which prompt is about to be written.
About(p) == collector[p] \in {"starting", "doomed"}

\* Whoever is about to be written is unsettled while the generation is available.
LEMMA AboutIsUnsettled ==
  ASSUME IInv, available, NEW p \in PromptOps, About(p)
  PROVE  collector[p] = "starting" /\ pc[p] \in Holding /\ Pending(p)
  <1>1. collector[p] = "starting" /\ pc[p] \in Holding
    BY DEF About, IInv, TaskInv, UnwrittenPromptsWait, OutstandingIsUnanswered
  <1> QED
    BY <1>1 DEF IInv, TaskInv, WorkIsUnsettled, Holding, Suspended, Ops

\* Nobody else is, and the child is idle, when a prompt gets the lock.
LEMMA DispatchIsAlone ==
  ASSUME IInv, NEW p \in PromptOps, Dispatch(p)
  PROVE  /\ available /\ p \notin dispatched /\ atAgent = {}
         /\ \A q \in PromptOps : ~About(q)
         /\ Pending(p) /\ Pending(p)'
  <1>1. TypeOK /\ p \in Ops
    BY DEF IInv, TaskInv, Ops
  <1>2. pc[p] = "waiting" /\ lockHolder = None /\ ~Terminal(p)
    BY DEF Dispatch, Acquires
  <1>3. available
    BY <1>1, <1>2 DEF IInv, TaskInv, TasksFollowGeneration, Suspended
  <1>4. \A q \in PromptOps : pc[q] \notin Holding
    BY <1>2, <1>3, NoneIsNoValue DEF IInv, TaskInv, PromptsWaitOrHold, Ops
  <1>5. atAgent = {} /\ \A q \in PromptOps : ~About(q)
    BY <1>1, <1>3, <1>4, AboutIsUnsettled
    DEF IInv, TaskInv, TypeOK, OutstandingIsUnanswered
  <1>6. p \notin dispatched
    BY <1>2 DEF IInv, TaskInv, DispatchedHaveHeld
  <1>7. opState[p] \in OperationStates /\ opState[p] # "unknown"
    BY <1>1, <1>2 DEF IInv, TaskInv, TypeOK, RecordsAreComplete
  <1>8. Pending(p)
    BY <1>2, <1>7 DEF Pending, Terminal, OperationStates
  <1>9. opState'[p] \in {"running", "cancelling"}
    BY <1>1 DEF Dispatch, TypeOK
  <1> QED
    BY <1>3, <1>5, <1>6, <1>8, <1>9 DEF Pending, PendingStates

\* Only Dispatch brings a prompt on its way, only the two writes write.
LEMMA LiveWrites ==
  ASSUME IInv, LiveStep
  PROVE  \/ \E p \in PromptOps : Dispatch(p)
         \/ \E p \in PromptOps : WritePrompt(p)
         \/ /\ \A p \in PromptOps : About(p)' => collector'[p] = collector[p]
            /\ dispatched' = dispatched /\ atAgent' \subseteq atAgent
  <1> DEFINE Quiet == /\ \A p \in PromptOps : About(p)' => collector'[p] = collector[p]
                      /\ dispatched' = dispatched /\ atAgent' \subseteq atAgent
  <1> USE DEF effects, collectorVars
  <1>1. TypeOK
    BY DEF IInv, TaskInv
  <1>2. CASE collector' = collector /\ dispatched' = dispatched /\ atAgent' \subseteq atAgent
    BY <1>2
  <1>3. CASE Admission
    BY <1>2, <1>3
    DEF Admission, AdmitCreate, AdmitPrompt, AdmitsCancel, AdmitCancelBeforeDispatch,
        AdmitCancelOfSettled, AdmitCancelOfRunning, AdmitRetire
  <1>4. CASE AgentStep
    BY <1>1, <1>4
    DEF AgentStep, AgentAnswers, CollectorFails, CollectorOverflows, Verdict, About,
        TypeOK
  <1>5. CASE TransportFails
    BY <1>2, <1>5 DEF TransportFails
  <1>6. ASSUME NEW c \in CreateOps, CreateWorks(c) PROVE Quiet
    BY <1>6 DEF CreateWorks, StartCreate, CreateCompletes, CreateRefused, CreateSettles
  <1>7. ASSUME NEW x \in CancelOps, CancelWorks(x) PROVE Quiet
    BY <1>1, <1>7
    DEF CancelWorks, StartCancel, CancelSent, CancelObservesTarget,
        CancelTakesCollector, About, TypeOK
  <1>8. ASSUME NEW p \in PromptOps,
               SkipSettledPrompt(p) \/ PromptWorks(p) \/ PromptSettles(p)
        PROVE  Quiet
    BY <1>1, <1>8
    DEF SkipSettledPrompt, PromptWorks, DeadlineExpires, DeadlineCancelSent, GraceExpires,
        PromptSettles, Completes, SpoilsAs, Settle, About, TypeOK
  <1> QED
    BY <1>3, <1>4, <1>5, <1>6, <1>7, <1>8 DEF LiveStep

LEMMA LostWrites ==
  ASSUME IInv, ~available, LostStep
  PROVE  \/ \E p \in PromptOps : LateWrite(p)
         \/ /\ \A p \in PromptOps : About(p)' =>
                 collector'[p] = collector[p] /\ opState'[p] = opState[p]
            /\ dispatched' = dispatched /\ atAgent' \subseteq atAgent
  <1> USE DEF effects, collectorVars
  <1>1. TypeOK /\ PromptOps \subseteq Ops
    BY DEF IInv, TaskInv, Ops
  <1>2. \A p \in PromptOps : collector[p] # "starting"
    BY DEF IInv, UnwrittenPromptsWait
  <1>3. CASE AgentStep \/ TransportFails \/ OwnerStopsChild
    BY <1>1, <1>3
    DEF AgentStep, AgentAnswers, CollectorFails, CollectorOverflows, Verdict,
        TransportFails, OwnerStopsChild, About, TypeOK
  <1>4. ASSUME NEW o \in Ops, UnwindPrompt(o) \/ UnwindWithoutCleanup(o)
        PROVE  /\ collector' = collector /\ opState' = opState
               /\ dispatched' = dispatched /\ atAgent' = atAgent
    BY <1>4 DEF UnwindPrompt, UnwindWithoutCleanup
  <1>5. ASSUME NEW o \in Ops, AbortAndPublish(o)
        PROVE  /\ \A p \in PromptOps : ~About(p)'
               /\ dispatched' = dispatched /\ atAgent' = {}
    BY <1>2, <1>5 DEF AbortAndPublish, About
  <1> QED
    BY <1>3, <1>4, <1>5 DEF LostStep

LEMMA NextPreservesUnwritten ==
  ASSUME IInv, Next
  PROVE  UnwrittenPromptsWait'
  <1>1. TypeOK /\ TypeOK'
    BY NextPreservesTaskInv DEF IInv, TaskInv
  <1>2. CASE available /\ available' /\ LiveStep
    <2>1. CASE \E p \in PromptOps : Dispatch(p)
      <3>1. PICK p \in PromptOps : Dispatch(p)
        BY <2>1
      <3>2. /\ collector' = [collector EXCEPT ![p] = "starting"]
            /\ dispatched' = dispatched /\ atAgent' = atAgent
        BY <3>1 DEF Dispatch, effects
      <3> QED
        BY <1>1, <1>2, <3>1, <3>2, DispatchIsAlone DEF About, TypeOK, UnwrittenPromptsWait
    <2>2. CASE \E p \in PromptOps : WritePrompt(p)
      <3>1. PICK p \in PromptOps : WritePrompt(p)
        BY <2>2
      <3>2. /\ collector[p] = "starting" /\ collector'[p] \in {"open", "error"}
            /\ \A q \in PromptOps \ {p} : collector'[q] = collector[q]
        BY <1>1, <3>1 DEF WritePrompt, TypeOK
      <3>3. \A q \in PromptOps : ~About(q)'
        BY <3>2 DEF About, IInv, UnwrittenPromptsWait
      <3> QED
        BY <3>3 DEF About, UnwrittenPromptsWait
    <2>3. CASE /\ \A p \in PromptOps : About(p)' => collector'[p] = collector[p]
               /\ dispatched' = dispatched /\ atAgent' \subseteq atAgent
      BY <1>2, <2>3 DEF About, IInv, UnwrittenPromptsWait
    <2> QED
      BY <1>2, <2>1, <2>2, <2>3, LiveWrites
  <1>3. CASE available /\ ~available' /\ LosingStep
    <2>1. /\ collector' = [p \in PromptOps |-> KilledCollector(collector[p])]
          /\ dispatched' = dispatched /\ atAgent' = atAgent
      BY <1>3 DEF LosingStep, MarkGenerationLost, effects
    <2>2. PICK defer :
            opState' = [o \in Ops |->
              IF Pending(o) /\ o \notin defer THEN SetTerminal(opState[o], "in_doubt")
              ELSE opState[o]]
      BY <1>3 DEF LosingStep, MarkGenerationLost
    <2>3. \A o \in Ops : Pending(o) => Pending(o)' \/ opState'[o] = "in_doubt"
      BY <2>2 DEF Pending, SetTerminal
    <2>4. \A p \in PromptOps : About(p)' => collector'[p] = "doomed" /\ About(p)
      BY <2>1 DEF About, KilledCollector, Collecting
    <2>5. \A p \in PromptOps : About(p)' => Pending(p)' \/ opState'[p] = "in_doubt"
      BY <1>3, <2>3, <2>4, AboutIsUnsettled DEF Ops
    <2> QED
      BY <1>3, <2>1, <2>4, <2>5 DEF About, IInv, UnwrittenPromptsWait
  <1>4. CASE ~available /\ ~available' /\ LostStep
    <2>1. CASE \E p \in PromptOps : LateWrite(p)
      <3>1. PICK p \in PromptOps : LateWrite(p)
        BY <2>1
      <3>2. /\ collector[p] = "doomed" /\ collector'[p] = "killed"
            /\ \A q \in PromptOps \ {p} : collector'[q] = collector[q]
        BY <1>1, <3>1 DEF LateWrite, TypeOK
      <3>3. \A q \in PromptOps : ~About(q)'
        BY <3>2 DEF About, IInv, UnwrittenPromptsWait
      <3> QED
        BY <3>3 DEF About, UnwrittenPromptsWait
    <2>2. CASE /\ \A p \in PromptOps : About(p)' =>
                    collector'[p] = collector[p] /\ opState'[p] = opState[p]
               /\ dispatched' = dispatched /\ atAgent' \subseteq atAgent
      BY <1>4, <2>2 DEF About, Pending, IInv, UnwrittenPromptsWait
    <2> QED
      BY <1>4, <2>1, <2>2, LostWrites
  <1> QED
    BY <1>2, <1>3, <1>4, StepShapes

LEMMA NextPreservesIInv == IInv /\ [Next]_vars => IInv'
  <1>1. IInv /\ UNCHANGED vars => UnwrittenPromptsWait'
    BY DEF IInv, UnwrittenPromptsWait, Pending, vars, generation, collectorVars, effects
  <1> QED
    BY <1>1, NextPreservesTaskInv, NextPreservesUnwritten DEF IInv

\* The invariant of the orchestrator: who may be doing what, whatever the number
\* of sessions, operations and queued prompts.
THEOREM InvariantHolds == Spec => []IInv
  <1> QED
    BY InitEstablishesIInv, NextPreservesIInv, PTL DEF Spec

\* The variables keep their types (direct_service.py, direct_state.py).
THEOREM TypesHold == Spec => []TypeOK
  <1>1. IInv => TypeOK
    BY DEF IInv, TaskInv
  <1> QED
    BY <1>1, InvariantHolds, PTL

\* One unsettled prompt per session, and it is the session's active operation,
\* through every admission, cancellation, settlement and retirement.
THEOREM OnePromptPerSession == Spec => []ActiveIsThePendingPrompt
  <1>1. IInv => ActiveIsThePendingPrompt
    BY DEF IInv, TaskInv
  <1> QED
    BY <1>1, InvariantHolds, PTL

\* While the generation is available, work the child may still be doing belongs
\* to the unsettled prompt that owns prompt_lock; so at most one such prompt
\* exists, and it can be neither settled nor overtaken.
THEOREM OutstandingWorkIsOwned == Spec => []OutstandingIsOwned
  <1>1. IInv => OutstandingIsOwned
    BY KindsDisjoint
    DEF IInv, TaskInv, TypeOK, OutstandingIsUnanswered, PromptsWaitOrHold,
        WorkIsUnsettled, ActiveIsThePendingPrompt, RecordsAreComplete, OutstandingIsOwned,
        Holding, Suspended, Pending, PendingStates, Ops
  <1> QED
    BY <1>1, InvariantHolds, PTL

-----------------------------------------------------------------------------
\* What settles a record goes through set_terminal or meets an unsettled record.
LEMMA LossKeepsSettled ==
  ASSUME NEW defer, NEW self, NEW next, NEW tainted,
         MarkGenerationLost(defer, self, next, tainted), NEW k \in Ops, Terminal(k)
  PROVE  opState'[k] = opState[k]
  BY DEF MarkGenerationLost, SetTerminal, Terminal

LEMMA SettleKeepsSettled ==
  ASSUME TypeOK, NEW p \in PromptOps, NEW state, NEW body, Settle(p, state, body),
         NEW k \in Ops, Terminal(k)
  PROVE  opState'[k] = opState[k]
  BY DEF Settle, SetTerminal, Terminal, TypeOK

LEMMA VerdictKeepsSettled ==
  ASSUME TypeOK, NEW p \in PromptOps, RaiseVerdict(p), NEW k \in Ops, Terminal(k)
  PROVE  opState'[k] = opState[k]
  BY LossKeepsSettled, SettleKeepsSettled
  DEF RaiseVerdict, PromptOverflows, PromptRaises, Quarantine, QuarantineUnlessDead

LEMMA NextKeepsSettled ==
  ASSUME IInv, Next, NEW k \in Ops, Terminal(k)
  PROVE  opState'[k] = opState[k]
  <1> DEFINE Kept == opState'[k] = opState[k]
  <1> USE DEF IInv, TaskInv, TypeOK
  <1>1. CASE Admission
    <2>1. ASSUME NEW c \in CreateOps, NEW s \in Sessions, AdmitCreate(c, s) PROVE Kept
      BY <2>1 DEF AdmitCreate, LedgerAccepts, Terminal, TerminalStates, Ops
    <2>2. ASSUME NEW p \in PromptOps, NEW s \in Sessions, NEW phase \in Phases,
                 NEW i \in Invocations, AdmitPrompt(p, s, phase, i)
          PROVE  Kept
      BY <2>2 DEF AdmitPrompt, LedgerAccepts, Terminal, TerminalStates, Ops
    <2>3. ASSUME NEW x \in CancelOps, NEW p \in PromptOps, AdmitsCancel(x, p) PROVE x # k
      BY <2>3 DEF AdmitsCancel, LedgerAccepts, Terminal, TerminalStates
    <2>4. ASSUME NEW x \in CancelOps, NEW p \in PromptOps,
                 \/ AdmitCancelBeforeDispatch(x, p)
                 \/ AdmitCancelOfSettled(x, p)
                 \/ AdmitCancelOfRunning(x, p)
          PROVE  Kept
      BY <2>4, <2>3
      DEF AdmitCancelBeforeDispatch, AdmitCancelOfSettled, AdmitCancelOfRunning, Terminal,
          TerminalStates
    <2>5. ASSUME NEW r \in RetireOps, NEW s \in Sessions, AdmitRetire(r, s) PROVE Kept
      BY <2>5 DEF AdmitRetire, LedgerAccepts, Terminal, TerminalStates, Ops
    <2> QED
      BY <1>1, <2>1, <2>2, <2>4, <2>5 DEF Admission
  <1>2. \A j \in Ops : pc[j] \in (Suspended \ {"waiting"}) \cup {"scheduled"} => j # k
    BY DEF WorkIsUnsettled, Pending, PendingStates, Terminal, TerminalStates
  <1>3. ASSUME NEW c \in CreateOps, CreateStep(c) PROVE Kept
    <2>1. CASE StartCreate(c) \/ CreateCompletes(c) \/ CreateRefused(c)
      BY <1>2, <2>1
      DEF StartCreate, CreateCompletes, CreateRefused, CreateSettles, Suspended, Ops
    <2>2. CASE CreateTimesOut(c) \/ CreateRaises(c)
      BY <2>2, LossKeepsSettled
      DEF CreateTimesOut, CreateRaises, Quarantine, QuarantineUnlessDead
    <2> QED
      BY <1>3, <2>1, <2>2 DEF CreateStep
  <1>4. ASSUME NEW p \in PromptOps, PromptStep(p) PROVE Kept
    <2>1. CASE \/ SkipSettledPrompt(p) \/ Dispatch(p) \/ WritePrompt(p) \/ LateWrite(p)
               \/ DeadlineExpires(p) \/ DeadlineCancelSent(p) \/ GraceExpires(p)
      BY <1>2, <2>1
      DEF SkipSettledPrompt, Dispatch, WritePrompt, LateWrite, DeadlineExpires,
          DeadlineCancelSent, GraceExpires, Suspended, Ops
    <2>2. CASE PromptReturns(p) \/ GraceSettles(p)
      BY <2>2, SettleKeepsSettled, LossKeepsSettled, VerdictKeepsSettled
      DEF PromptReturns, GraceSettles, Quarantine
    <2>3. CASE PromptFails(p) \/ DeadlineCancelFails(p) \/ PromptReaps(p)
      BY <2>3, LossKeepsSettled, VerdictKeepsSettled
      DEF PromptFails, DeadlineCancelFails, PromptReaps, PromptRaises, Quarantine,
          QuarantineUnlessDead
    <2> QED
      BY <1>4, <2>1, <2>2, <2>3 DEF PromptStep
  <1>5. ASSUME NEW x \in CancelOps, CancelStep(x) PROVE Kept
    <2>1. CASE \/ StartCancel(x) \/ CancelSent(x) \/ CancelObservesTarget(x)
               \/ CancelTakesCollector(x)
      BY <1>2, <2>1
      DEF StartCancel, CancelSent, CancelObservesTarget, CancelTakesCollector, Suspended,
          Ops
    <2>2. CASE CancelSendFails(x) \/ CancelGivesUp(x)
      BY <2>2, LossKeepsSettled DEF CancelSendFails, CancelGivesUp, Quarantine
    <2> QED
      BY <1>5, <2>1, <2>2 DEF CancelStep
  <1>6. ASSUME NEW o \in Ops, UnwindPrompt(o) \/ UnwindWithoutCleanup(o) PROVE Kept
    BY <1>6 DEF UnwindPrompt, UnwindWithoutCleanup
  <1>7. ASSUME NEW o \in Ops, AbortAndPublish(o) PROVE Kept
    <2>1. opState' = [j \in Ops |->
            IF j \in Deferred(o) THEN SetTerminal(opState[j], DeferredResult(o, j))
            ELSE opState[j]]
      BY <1>7 DEF AbortAndPublish
    <2> QED
      BY <2>1 DEF SetTerminal, Terminal
  <1>8. CASE AgentStep
    BY <1>8 DEF AgentStep, AgentAnswers, CollectorFails, CollectorOverflows
  <1>9. CASE TransportFails \/ LossTask \/ OwnerShutdown \/ OwnerStopsChild
    BY <1>9, LossKeepsSettled DEF TransportFails, LossTask, OwnerShutdown, OwnerStopsChild
  <1> QED
    BY <1>1, <1>3, <1>4, <1>5, <1>6, <1>7, <1>8, <1>9 DEF Next, TaskStep

\* A settled operation never changes its state again, although the assignments of
\* RUNNING and CANCELLING do not go through set_terminal.
THEOREM SettlementIsFinal == Spec => SettledForever
  <1>1. IInv /\ [Next]_vars => [\A o \in Ops : Terminal(o) => opState'[o] = opState[o]]_vars
    BY NextKeepsSettled
  <1> QED
    BY <1>1, InvariantHolds, PTL DEF Spec, SettledForever

-----------------------------------------------------------------------------
\* A prompt is written to the child at most once, onto an idle child and never
\* after its settlement, however long it waited for the lock and whatever cancels
\* it or loses its generation between the dispatch and the write.
THEOREM DispatchedOnce == Spec => DispatchIsFresh
  <1>1. IInv /\ [Next]_vars =>
          [\A p \in atAgent' \ atAgent :
             /\ p \notin dispatched /\ atAgent = {}
             /\ Pending(p) \/ (~available /\ opState[p] = "in_doubt")]_vars
    <2> SUFFICES ASSUME IInv, Next, NEW p \in atAgent' \ atAgent
                 PROVE  /\ p \notin dispatched /\ atAgent = {}
                        /\ Pending(p) \/ (~available /\ opState[p] = "in_doubt")
      OBVIOUS
    <2>1. LosingStep => atAgent' = atAgent
      BY DEF LosingStep, MarkGenerationLost, effects
    <2>2. ASSUME NEW q \in PromptOps, Dispatch(q) PROVE atAgent' = atAgent
      BY <2>2 DEF Dispatch, effects
    <2>3. ASSUME NEW q \in PromptOps, WritePrompt(q) \/ LateWrite(q)
          PROVE  p = q /\ About(p)
      BY <2>3 DEF WritePrompt, LateWrite, Written, About, effects
    <2>4. p \in PromptOps /\ About(p)
      BY <2>1, <2>2, <2>3, StepShapes, LiveWrites, LostWrites
    <2> QED
      BY <2>4, AboutIsUnsettled DEF About, IInv, UnwrittenPromptsWait
  <1> QED
    BY <1>1, InvariantHolds, PTL DEF Spec, DispatchIsFresh

-----------------------------------------------------------------------------
\* Nothing but the loss leaves a record unsettled, and what it defers is
\* published by the step that ends the quarantine.
LEMMA LossSettles ==
  ASSUME IInv, LosingStep
  PROVE  LossSettlesEverything'
  <1>1. CASE \E self, next, tainted : MarkGenerationLost({}, self, next, tainted)
    <2>1. \A o \in Ops : ~Pending(o)'
      BY <1>1
      DEF MarkGenerationLost, SetTerminal, Pending, PendingStates, TerminalStates
    <2> QED
      BY <2>1 DEF LossSettlesEverything
  <1>2. ASSUME NEW o \in Ops, NEW next \in Quarantining, NEW tainted,
               MarkGenerationLost(Deferred(o), o, next, tainted)
        PROVE  LossSettlesEverything'
    <2>1. \A k \in Ops : Pending(k)' => k \in Deferred(o)
      BY <1>2
      DEF MarkGenerationLost, SetTerminal, Pending, PendingStates, TerminalStates
    <2>2. pc'[o] \in Quarantining /\ Deferred(o)' = Deferred(o)
      BY <1>2 DEF MarkGenerationLost, Deferred, identity
    <2> QED
      BY <2>1, <2>2 DEF LossSettlesEverything
  <1> QED
    BY <1>1, <1>2 DEF LosingStep

LEMMA LostKeepsSettling ==
  ASSUME IInv, LossSettlesEverything, ~available, LostStep
  PROVE  LossSettlesEverything'
  <1> SUFFICES ASSUME NEW k \in Ops, Pending(k)'
               PROVE  \E j \in Ops : pc'[j] \in Quarantining /\ k \in Deferred(j)'
    BY DEF LossSettlesEverything
  <1>1. targetOf' = targetOf /\ \A j : Deferred(j)' = Deferred(j)
    BY DEF LostStep, AgentStep, AgentAnswers, CollectorFails, CollectorOverflows,
           TransportFails, OwnerStopsChild, LateWrite, UnwindPrompt,
           UnwindWithoutCleanup, AbortAndPublish, Deferred, identity
  <1>2. CASE \/ AgentStep \/ TransportFails \/ OwnerStopsChild
             \/ \E p \in PromptOps : LateWrite(p)
    BY <1>1, <1>2
    DEF AgentStep, AgentAnswers, CollectorFails, CollectorOverflows, TransportFails,
        OwnerStopsChild, LateWrite, Pending, LossSettlesEverything
  <1>3. ASSUME NEW o \in Ops, UnwindPrompt(o) \/ UnwindWithoutCleanup(o)
        PROVE  \E j \in Ops : pc'[j] \in Quarantining /\ k \in Deferred(j)'
    <2>1. Pending(k) /\ pc[o] = "unwinding" /\ pc' = [pc EXCEPT ![o] = "finished"]
      BY <1>3 DEF UnwindPrompt, UnwindWithoutCleanup, Finally, Pending
    <2>2. PICK j \in Ops : pc[j] \in Quarantining /\ k \in Deferred(j)
      BY <2>1 DEF LossSettlesEverything
    <2> QED
      BY <1>1, <2>1, <2>2 DEF IInv, TaskInv, TypeOK, Quarantining
  <1>4. ASSUME NEW o \in Ops, AbortAndPublish(o)
        PROVE  \E j \in Ops : pc'[j] \in Quarantining /\ k \in Deferred(j)'
    <2>1. opState' = [j \in Ops |->
            IF j \in Deferred(o) THEN SetTerminal(opState[j], DeferredResult(o, j))
            ELSE opState[j]]
      BY <1>4 DEF AbortAndPublish
    <2>2. Pending(k) /\ k \notin Deferred(o)
      BY <2>1
      DEF SetTerminal, DeferredResult, Pending, PendingStates, TerminalStates
    <2>3. PICK j \in Ops : pc[j] \in Quarantining /\ k \in Deferred(j)
      BY <2>2 DEF LossSettlesEverything
    <2>4. j # o /\ pc' = [pc EXCEPT ![o] = "finished"]
      BY <1>4, <2>2, <2>3 DEF AbortAndPublish, Finally
    <2> QED
      BY <1>1, <2>3, <2>4 DEF IInv, TaskInv, TypeOK
  <1> QED
    BY <1>2, <1>3, <1>4 DEF LostStep

\* Every admitted operation of a lost generation that no task still has to
\* publish is settled: mark_generation_lost with the deferrals of
\* _quarantine_uncertain, through every unwinding, late answer and owner's stop.
THEOREM LossLeavesNothingPending == Spec => []LossSettlesEverything
  <1>1. Init => LossSettlesEverything
    BY DEF Init, LossSettlesEverything
  <1>2. IInv /\ LossSettlesEverything /\ [Next]_vars => LossSettlesEverything'
    <2> SUFFICES ASSUME IInv, LossSettlesEverything, [Next]_vars
                 PROVE  LossSettlesEverything'
      OBVIOUS
    <2>1. CASE UNCHANGED vars
      BY <2>1 DEF vars, generation, identity, LossSettlesEverything, Pending, Deferred
    <2>2. CASE Next
      <3>1. available' => LossSettlesEverything'
        BY DEF LossSettlesEverything
      <3> QED
        BY <2>2, <3>1, StepShapes, LossSettles, LostKeepsSettling
    <2> QED
      BY <2>1, <2>2
  <1> QED
    BY <1>1, <1>2, InvariantHolds, PTL DEF Spec

-----------------------------------------------------------------------------
\* DirectService implements OperationLedger: what statusView makes of a record.
ViewOf(state) == CASE state \in PendingStates  -> "pending"
                   [] state \in TerminalStates -> "settled"
                   [] OTHER                    -> "unknown"

LEMMA ViewTells ==
  ASSUME NEW state \in OperationStates
  PROVE  \/ state \in PendingStates /\ state \notin TerminalStates /\ state # "unknown"
              /\ ViewOf(state) = "pending"
         \/ state \notin PendingStates /\ state \in TerminalStates /\ state # "unknown"
              /\ ViewOf(state) = "settled"
         \/ state \notin PendingStates /\ state \notin TerminalStates /\ state = "unknown"
              /\ ViewOf(state) = "unknown"
  <1> USE DEF PendingStates, TerminalStates
  <1>1. CASE state \in PendingStates
    BY <1>1 DEF ViewOf
  <1>2. CASE state \in TerminalStates
    BY <1>2 DEF ViewOf
  <1>3. CASE state = "unknown"
    BY <1>3 DEF ViewOf
  <1> QED
    BY <1>1, <1>2, <1>3 DEF OperationStates

LEMMA ViewsOfRecords ==
  /\ statusView = [o \in Ops |-> ViewOf(opState[o])]
  /\ statusView' = [o \in Ops |-> ViewOf(opState'[o])]
  BY DEF statusView, ViewOf, Pending, Terminal

\* A step that settles the pending records of S and changes no other status.
LEMMA SettleStep ==
  ASSUME TypeOK, TypeOK', NEW S \in SUBSET Ops,
         \A k \in S : Pending(k) /\ Terminal(k)',
         \A k \in Ops \ S : ViewOf(opState'[k]) = ViewOf(opState[k])
  PROVE  Ledger!SettleAll(S, statusView)
  <1>1. \A k \in S : ViewOf(opState[k]) = "pending" /\ ViewOf(opState'[k]) = "settled"
    BY ViewTells DEF TypeOK, Pending, Terminal
  <1> QED
    BY <1>1, ViewsOfRecords DEF Ledger!SettleAll

\* The same behind the admission of n, which may be settled at once.
LEMMA AdmitStep ==
  ASSUME TypeOK, TypeOK', NEW n \in Ops, opState[n] = "unknown", available, available',
         atAgent' = atAgent, dispatched' = dispatched,
         NEW S \in SUBSET (Ops \ atAgent),
         \A k \in S : (k = n \/ Pending(k)) /\ Terminal(k)',
         n \notin S => Pending(n)',
         \A k \in Ops \ (S \cup {n}) : ViewOf(opState'[k]) = ViewOf(opState[k])
  PROVE  Ledger!Admit(n)
  <1> DEFINE from == [statusView EXCEPT ![n] = "pending"]
  <1>1. \A k \in S : ViewOf(opState'[k]) = "settled"
    BY ViewTells DEF TypeOK, Terminal
  <1>2. \A k \in S : from[k] = "pending"
    BY ViewsOfRecords, ViewTells DEF TypeOK, Pending
  <1>3. n \notin S => ViewOf(opState'[n]) = "pending"
    BY ViewTells DEF TypeOK, Pending
  <1>4. statusView[n] = "unknown"
    BY ViewsOfRecords, ViewTells DEF TypeOK
  <1>5. Ledger!SettleAll(S, from)
    BY <1>1, <1>2, <1>3, ViewsOfRecords DEF Ledger!SettleAll
  <1> QED
    BY <1>4, <1>5 DEF Ledger!Admit

LEMMA AdmitPendingStep ==
  ASSUME TypeOK, TypeOK', NEW n \in Ops, opState[n] = "unknown", available, available',
         atAgent' = atAgent, dispatched' = dispatched, Pending(n)',
         \A k \in Ops \ {n} : ViewOf(opState'[k]) = ViewOf(opState[k])
  PROVE  Ledger!Admit(n)
  <1>1. {} \in SUBSET (Ops \ atAgent)
    OBVIOUS
  <1>2. \A k \in {} : (k = n \/ Pending(k)) /\ Terminal(k)'
    OBVIOUS
  <1>3. \A k \in Ops \ ({} \cup {n}) : ViewOf(opState'[k]) = ViewOf(opState[k])
    OBVIOUS
  <1> QED
    BY <1>1, <1>2, <1>3, AdmitStep, Zenon

LEMMA StutterStep ==
  ASSUME UNCHANGED <<available, atAgent, dispatched>>,
         \A k \in Ops : ViewOf(opState'[k]) = ViewOf(opState[k])
  PROVE  UNCHANGED Ledger!vars
  BY ViewsOfRecords DEF Ledger!vars

\* A prompt is written, by its collector in time or after the loss.
LEMMA WriteStep ==
  ASSUME TypeOK, NEW p \in PromptOps, Written(p), atAgent = {}, p \notin dispatched,
         UNCHANGED <<opState, available>>,
         Pending(p) \/ (~available /\ Terminal(p))
  PROVE  Ledger!Next
  <1>1. p \in Ops /\ statusView' = statusView
    BY ViewsOfRecords DEF Ops
  <1>2. statusView[p] = "pending" \/ (~available /\ statusView[p] = "settled")
    BY <1>1, ViewsOfRecords, ViewTells DEF TypeOK, Pending, Terminal
  <1> QED
    BY <1>1, <1>2 DEF Written, Ledger!Next, Ledger!Write

LEMMA AdmissionRefines ==
  ASSUME IInv, IInv', Admission
  PROVE  Ledger!Next
  <1> USE DEF generation, effects, LedgerAccepts
  <1>1. TypeOK /\ TypeOK' /\ atAgent \in SUBSET PromptOps
    BY DEF IInv, TaskInv, TypeOK
  <1>2. ASSUME NEW c \in CreateOps, NEW s \in Sessions, AdmitCreate(c, s)
        PROVE  \E n \in Ops : Ledger!Admit(n)
    <2>1. c \in Ops /\ Pending(c)'
      BY <1>1, <1>2 DEF AdmitCreate, TypeOK, Ops, Pending, PendingStates
    <2>2. /\ opState[c] = "unknown" /\ available /\ available'
          /\ atAgent' = atAgent /\ dispatched' = dispatched
          /\ \A k \in Ops \ {c} : opState'[k] = opState[k]
      BY <1>1, <1>2 DEF AdmitCreate, TypeOK
    <2> QED
      BY <1>1, <2>1, <2>2, AdmitPendingStep
  <1>3. ASSUME NEW p \in PromptOps, NEW s \in Sessions, NEW phase \in Phases,
               NEW i \in Invocations, AdmitPrompt(p, s, phase, i)
        PROVE  \E n \in Ops : Ledger!Admit(n)
    <2>1. p \in Ops /\ Pending(p)'
      BY <1>1, <1>3 DEF AdmitPrompt, TypeOK, Ops, Pending, PendingStates
    <2>2. /\ opState[p] = "unknown" /\ available /\ available'
          /\ atAgent' = atAgent /\ dispatched' = dispatched
          /\ \A k \in Ops \ {p} : opState'[k] = opState[k]
      BY <1>1, <1>3 DEF AdmitPrompt, TypeOK
    <2> QED
      BY <1>1, <2>1, <2>2, AdmitPendingStep
  <1>4. ASSUME NEW x \in CancelOps, NEW p \in PromptOps,
               \/ AdmitCancelBeforeDispatch(x, p)
               \/ AdmitCancelOfSettled(x, p)
               \/ AdmitCancelOfRunning(x, p)
        PROVE  \E n \in Ops : Ledger!Admit(n)
    <2>1. x \in Ops /\ p \in Ops /\ x # p /\ x \notin atAgent
      BY <1>1, KindsDisjoint DEF Ops
    <2>2. AdmitsCancel(x, p)
      BY <1>4 DEF AdmitCancelBeforeDispatch, AdmitCancelOfSettled, AdmitCancelOfRunning
    <2>3. /\ opState[x] = "unknown" /\ available /\ available'
          /\ atAgent' = atAgent /\ dispatched' = dispatched
      BY <2>2 DEF AdmitsCancel
    <2>4. CASE AdmitCancelBeforeDispatch(x, p)
      <3>1. p \notin atAgent /\ Pending(p)
        BY <1>1, <2>3, <2>4
        DEF AdmitCancelBeforeDispatch, IInv, TaskInv, PromptsWaitOrHold,
            OutstandingIsUnanswered, Holding, Pending, PendingStates
      <3>2. /\ Terminal(p)' /\ Terminal(x)'
            /\ \A k \in Ops \ {p, x} : opState'[k] = opState[k]
        BY <1>1, <2>1, <2>4
        DEF AdmitCancelBeforeDispatch, TypeOK, Terminal, TerminalStates
      <3>3. {p, x} \in SUBSET (Ops \ atAgent)
        BY <2>1, <3>1
      <3>4. Ledger!Admit(x)
        BY <1>1, <2>1, <2>3, <3>1, <3>2, <3>3, AdmitStep
      <3> QED
        BY <2>1, <3>4
    <2>5. CASE AdmitCancelOfSettled(x, p)
      <3>1. /\ Terminal(x)' /\ {x} \in SUBSET (Ops \ atAgent)
            /\ \A k \in Ops \ {x} : opState'[k] = opState[k]
        BY <1>1, <2>1, <2>5 DEF AdmitCancelOfSettled, TypeOK, Terminal, TerminalStates
      <3>2. Ledger!Admit(x)
        BY <1>1, <2>1, <2>3, <3>1, AdmitStep
      <3> QED
        BY <2>1, <3>2
    <2>6. CASE AdmitCancelOfRunning(x, p)
      <3>1. /\ Pending(x)' /\ ViewOf(opState'[p]) = ViewOf(opState[p])
            /\ \A k \in Ops \ {x, p} : opState'[k] = opState[k]
        BY <1>1, <2>1, <2>6, ViewTells
        DEF AdmitCancelOfRunning, TypeOK, Pending, PendingStates, TerminalStates
      <3>2. Ledger!Admit(x)
        BY <1>1, <2>1, <2>3, <3>1, AdmitPendingStep
      <3> QED
        BY <2>1, <3>2
    <2> QED
      BY <1>4, <2>4, <2>5, <2>6
  <1>5. ASSUME NEW r \in RetireOps, NEW s \in Sessions, AdmitRetire(r, s)
        PROVE  \E n \in Ops : Ledger!Admit(n)
    <2>1. r \in Ops /\ r \notin atAgent /\ Terminal(r)'
      BY <1>1, <1>5, KindsDisjoint DEF AdmitRetire, TypeOK, Ops, Terminal, TerminalStates
    <2>2. /\ opState[r] = "unknown" /\ available /\ available'
          /\ atAgent' = atAgent /\ dispatched' = dispatched
          /\ \A k \in Ops \ {r} : opState'[k] = opState[k]
      BY <1>1, <1>5 DEF AdmitRetire, TypeOK
    <2>3. {r} \in SUBSET (Ops \ atAgent)
      BY <2>1
    <2>4. Ledger!Admit(r)
      BY <1>1, <2>1, <2>2, <2>3, AdmitStep
    <2> QED
      BY <2>1, <2>4
  <1> QED
    BY <1>2, <1>3, <1>4, <1>5 DEF Admission, Ledger!Next

LEMMA AgentStepRefines ==
  ASSUME AgentStep
  PROVE  Ledger!Next \/ UNCHANGED Ledger!vars
  <1>1. PICK p \in PromptOps : \/ \E stop \in {"end", "cancelled"} : AgentAnswers(p, stop)
                               \/ \E answered \in BOOLEAN : CollectorFails(p, answered)
                               \/ CollectorOverflows(p)
    BY DEF AgentStep
  <1>2. opState' = opState /\ dispatched' = dispatched /\ available' = available
    BY <1>1 DEF AgentAnswers, CollectorFails, CollectorOverflows, generation, effects
  <1>3. CASE atAgent' = atAgent \ {p}
    BY <1>2, <1>3, ViewsOfRecords DEF Ledger!Next, Ledger!Answer
  <1>4. CASE atAgent' = atAgent
    BY <1>2, <1>4, StutterStep
  <1> QED
    BY <1>1, <1>3, <1>4 DEF AgentAnswers, CollectorFails, CollectorOverflows, effects

LEMMA LiveStepRefines ==
  ASSUME IInv, IInv', available, available', LiveStep
  PROVE  Ledger!Next \/ UNCHANGED Ledger!vars
  <1> USE DEF generation, effects
  <1>1. TypeOK /\ TypeOK' /\ atAgent \in SUBSET PromptOps
    BY DEF IInv, TaskInv, TypeOK
  <1>2. \A k \in Ops : pc[k] \in (Suspended \ {"waiting"}) \cup {"scheduled"} => Pending(k)
    BY DEF IInv, TaskInv, WorkIsUnsettled
  <1>3. ASSUME NEW o \in Ops \ atAgent, Pending(o), Terminal(o)',
               UNCHANGED <<atAgent, dispatched>>,
               \A k \in Ops \ {o} : opState'[k] = opState[k]
        PROVE  Ledger!Next
    <2>1. {o} \in SUBSET (Ops \ atAgent)
      OBVIOUS
    <2>2. Ledger!SettleAll({o}, statusView)
      BY <1>1, <1>3, SettleStep
    <2> QED
      BY <1>3, <2>1, <2>2 DEF Ledger!Next, Ledger!Settle
  <1>4. ASSUME NEW o \in Ops, Pending(o), Pending(o)', UNCHANGED <<atAgent, dispatched>>,
               \A k \in Ops \ {o} : opState'[k] = opState[k]
        PROVE  UNCHANGED Ledger!vars
    <2>1. ViewOf(opState'[o]) = ViewOf(opState[o])
      BY <1>1, <1>4, ViewTells DEF TypeOK, Pending
    <2> QED
      BY <1>4, <2>1, StutterStep
  <1>5. CASE Admission
    BY <1>5, AdmissionRefines
  <1>6. CASE AgentStep
    BY <1>6, AgentStepRefines
  <1>7. CASE TransportFails
    BY <1>7, StutterStep DEF TransportFails
  <1>8. ASSUME NEW c \in CreateOps, CreateWorks(c)
        PROVE  Ledger!Next \/ UNCHANGED Ledger!vars
    <2>1. c \in Ops \ atAgent /\ Pending(c)
      BY <1>1, <1>2, <1>8, KindsDisjoint
      DEF CreateWorks, StartCreate, CreateCompletes, CreateRefused, CreateSettles,
          Suspended, Ops
    <2>2. /\ UNCHANGED <<atAgent, dispatched>>
          /\ \A k \in Ops \ {c} : opState'[k] = opState[k]
      BY <1>1, <1>8
      DEF CreateWorks, StartCreate, CreateCompletes, CreateRefused, CreateSettles, TypeOK
    <2>3. Pending(c)' \/ Terminal(c)'
      BY <1>1, <1>8, <2>1
      DEF CreateWorks, StartCreate, CreateCompletes, CreateRefused, CreateSettles, TypeOK,
          SetTerminal, Pending, PendingStates, Terminal, TerminalStates
    <2> QED
      BY <1>3, <1>4, <2>1, <2>2, <2>3
  <1>9. ASSUME NEW x \in CancelOps, CancelWorks(x)
        PROVE  Ledger!Next \/ UNCHANGED Ledger!vars
    <2>1. x \in Ops \ atAgent /\ Pending(x)
      BY <1>1, <1>2, <1>9, KindsDisjoint
      DEF CancelWorks, StartCancel, CancelSent, CancelObservesTarget,
          CancelTakesCollector, Suspended, Ops
    <2>2. /\ UNCHANGED <<atAgent, dispatched>>
          /\ \A k \in Ops \ {x} : opState'[k] = opState[k]
      BY <1>1, <1>9
      DEF CancelWorks, StartCancel, CancelSent, CancelObservesTarget,
          CancelTakesCollector, TypeOK
    <2>3. Pending(x)' \/ Terminal(x)'
      BY <1>1, <1>9, <2>1
      DEF CancelWorks, StartCancel, CancelSent, CancelObservesTarget,
          CancelTakesCollector, TypeOK, SetTerminal, Pending, PendingStates, Terminal,
          TerminalStates
    <2> QED
      BY <1>3, <1>4, <2>1, <2>2, <2>3
  <1>10. ASSUME NEW p \in PromptOps,
                SkipSettledPrompt(p) \/ PromptWorks(p) \/ PromptSettles(p)
         PROVE  Ledger!Next \/ UNCHANGED Ledger!vars
    <2>1. p \in Ops
      BY DEF Ops
    <2>2. CASE SkipSettledPrompt(p)
      BY <2>2, StutterStep DEF SkipSettledPrompt
    <2>3. CASE PromptWorks(p)
      <3>1. Pending(p) /\ Pending(p)' /\ UNCHANGED <<atAgent, dispatched>>
        BY <1>1, <1>2, <2>1, <2>3
        DEF PromptWorks, DeadlineExpires, DeadlineCancelSent, GraceExpires, TypeOK,
            Suspended, Pending, PendingStates
      <3>2. \A k \in Ops \ {p} : opState'[k] = opState[k]
        BY <1>1, <2>3
        DEF PromptWorks, DeadlineExpires, DeadlineCancelSent, GraceExpires, TypeOK
      <3> QED
        BY <1>4, <2>1, <3>1, <3>2
    <2>4. CASE PromptSettles(p)
      <3>1. PICK state \in TerminalStates, body \in {"ready", "non_reusable"} :
              /\ Settle(p, state, body)
              /\ collector[p] \in {"end", "cancelled", "overflow_cancelled"}
        BY <2>4 DEF PromptSettles, Completes, SpoilsAs, TerminalStates
      <3>2. p \notin atAgent /\ Pending(p)
        BY <1>2, <2>1, <2>4, <3>1
        DEF PromptSettles, IInv, TaskInv, OutstandingIsUnanswered, Holding, Suspended
      <3>3. /\ Terminal(p)' /\ UNCHANGED <<atAgent, dispatched>>
            /\ \A k \in Ops \ {p} : opState'[k] = opState[k]
        BY <1>1, <2>1, <3>1 DEF Settle, SetTerminal, TypeOK, Terminal
      <3> QED
        BY <1>3, <2>1, <3>2, <3>3
    <2> QED
      BY <1>10, <2>2, <2>3, <2>4
  <1>11. ASSUME NEW p \in PromptOps, Dispatch(p)
         PROVE  UNCHANGED Ledger!vars
    <2>1. p \in Ops /\ Pending(p) /\ Pending(p)'
      BY <1>11, DispatchIsAlone DEF Ops
    <2>2. /\ UNCHANGED <<atAgent, dispatched>>
          /\ \A k \in Ops \ {p} : opState'[k] = opState[k]
      BY <1>1, <1>11 DEF Dispatch, TypeOK
    <2> QED
      BY <1>4, <2>1, <2>2
  <1>12. ASSUME NEW p \in PromptOps, WritePrompt(p)
         PROVE  Ledger!Next \/ UNCHANGED Ledger!vars
    <2>1. p \in Ops /\ Pending(p) /\ atAgent = {} /\ p \notin dispatched
      BY <1>12, AboutIsUnsettled
      DEF WritePrompt, About, IInv, UnwrittenPromptsWait, Ops
    <2>2. opState' = opState /\ available' = available
      BY <1>12 DEF WritePrompt, generation
    <2>3. CASE Written(p)
      <3>1. TypeOK
        BY DEF IInv, TaskInv
      <3> QED
        BY <2>1, <2>2, <2>3, <3>1, WriteStep
    <2>4. CASE UNCHANGED effects
      BY <2>2, <2>4, StutterStep DEF effects
    <2> QED
      BY <1>12, <2>3, <2>4 DEF WritePrompt
  <1> QED
    BY <1>5, <1>6, <1>7, <1>8, <1>9, <1>10, <1>11, <1>12 DEF LiveStep

LEMMA LosingStepRefines ==
  ASSUME IInv, IInv', available, ~available', LosingStep
  PROVE  Ledger!Next
  <1> DEFINE S == {k \in Ops : Pending(k) /\ Terminal(k)'}
  <1>1. TypeOK /\ TypeOK'
    BY DEF IInv, TaskInv
  <1>2. /\ \A k \in Ops : opState'[k] = opState[k] \/ (Pending(k) /\ Terminal(k)')
        /\ atAgent' = atAgent /\ dispatched' = dispatched
    BY <1>1
    DEF LosingStep, MarkGenerationLost, SetTerminal, TypeOK, effects, Pending, Terminal,
        PendingStates, TerminalStates
  <1>3. Ledger!SettleAll(S, statusView)
    BY <1>1, <1>2, SettleStep
  <1>4. available' = FALSE
    BY <1>1 DEF TypeOK
  <1> HIDE DEF S
  <1>5. S \in SUBSET Ops
    BY DEF S
  <1> QED
    BY <1>2, <1>3, <1>4, <1>5 DEF Ledger!Next, Ledger!Lose

LEMMA LostStepRefines ==
  ASSUME IInv, IInv', ~available, ~available', LostStep
  PROVE  Ledger!Next \/ UNCHANGED Ledger!vars
  <1>1. TypeOK /\ TypeOK' /\ available' = available
    BY DEF IInv, TaskInv, TypeOK
  <1>2. CASE AgentStep
    BY <1>2, AgentStepRefines
  <1>3. CASE TransportFails
    BY <1>1, <1>3, StutterStep DEF TransportFails, effects
  <1>4. ASSUME NEW S \in SUBSET Ops, Ledger!SettleAll(S, statusView),
               atAgent' = {}, dispatched' = dispatched
        PROVE  Ledger!Next
    BY <1>1, <1>4 DEF Ledger!Next, Ledger!Kill
  <1>5. CASE OwnerStopsChild
    <2>1. opState' = opState /\ atAgent' = {} /\ dispatched' = dispatched
      BY <1>5 DEF OwnerStopsChild
    <2>2. {} \in SUBSET Ops /\ \A k \in Ops \ {} : ViewOf(opState'[k]) = ViewOf(opState[k])
      BY <2>1
    <2>3. Ledger!SettleAll({}, statusView)
      BY <1>1, <2>2, SettleStep
    <2> QED
      BY <1>4, <2>1, <2>2, <2>3
  <1>6. ASSUME NEW o \in Ops, UnwindPrompt(o) \/ UnwindWithoutCleanup(o)
        PROVE  UNCHANGED Ledger!vars
    BY <1>1, <1>6, StutterStep DEF UnwindPrompt, UnwindWithoutCleanup, effects
  <1>7. ASSUME NEW o \in Ops, AbortAndPublish(o)
        PROVE  Ledger!Next
    <2> DEFINE S == {k \in Ops : Pending(k) /\ Terminal(k)'}
    <2>1. opState' = [k \in Ops |->
            IF k \in Deferred(o) THEN SetTerminal(opState[k], DeferredResult(o, k))
            ELSE opState[k]]
      BY <1>7 DEF AbortAndPublish
    <2>2. \A k \in Deferred(o) : k \in Ops => opState[k] # "unknown"
      BY <1>7, KindsDisjoint
      DEF AbortAndPublish, Deferred, IInv, TaskInv, TypeOK, RecordsAreComplete,
          Quarantining, Ops
    <2>3. \A k \in Ops : opState'[k] = opState[k] \/ (Pending(k) /\ Terminal(k)')
      BY <1>1, <2>1, <2>2
      DEF TypeOK, OperationStates, SetTerminal, DeferredResult, Pending, Terminal,
          TerminalStates
    <2>4. atAgent' = {} /\ dispatched' = dispatched
      BY <1>7 DEF AbortAndPublish
    <2>5. Ledger!SettleAll(S, statusView)
      BY <1>1, <2>3, SettleStep
    <2> HIDE DEF S
    <2>6. S \in SUBSET Ops
      BY DEF S
    <2> QED
      BY <1>4, <2>4, <2>5, <2>6
  <1>8. ASSUME NEW p \in PromptOps, LateWrite(p)
        PROVE  Ledger!Next \/ UNCHANGED Ledger!vars
    <2>1. /\ atAgent = {} /\ p \notin dispatched /\ p \in Ops
          /\ Pending(p) \/ Terminal(p)
      BY <1>8 DEF LateWrite, IInv, UnwrittenPromptsWait, Terminal, TerminalStates, Ops
    <2>2. opState' = opState /\ available' = available
      BY <1>8 DEF LateWrite, generation
    <2> QED
      BY <1>1, <1>8, <2>1, <2>2, WriteStep, StutterStep DEF LateWrite, effects
  <1> QED
    BY <1>2, <1>3, <1>5, <1>6, <1>7, <1>8 DEF LostStep

LEMMA StepRefines == IInv /\ IInv' /\ [Next]_vars => [Ledger!Next]_Ledger!vars
  <1> SUFFICES ASSUME IInv, IInv', [Next]_vars
               PROVE  Ledger!Next \/ UNCHANGED Ledger!vars
    OBVIOUS
  <1>1. CASE UNCHANGED vars
    BY <1>1, StutterStep DEF vars, generation, effects
  <1>2. CASE Next
    BY <1>2, StepShapes, LiveStepRefines, LosingStepRefines, LostStepRefines
  <1> QED
    BY <1>1, <1>2

\* Every behaviour of the orchestrator is one the abstract ledger allows: what
\* the caller of the direct protocol sees of its operations is admitted once,
\* written alone and at most once, and settled only as OperationLedger says.
THEOREM OrchestratorImplementsLedger == Spec => LedgerImplemented
  <1>1. Init => Ledger!Init
    <2> SUFFICES ASSUME Init PROVE Ledger!Init
      OBVIOUS
    <2>1. \A o \in Ops : ViewOf(opState[o]) = "unknown"
      BY ViewTells DEF Init, OperationStates, PendingStates, TerminalStates
    <2> QED
      BY <2>1, ViewsOfRecords DEF Init, Ledger!Init
  <1>2. IInv /\ [Next]_vars => [Ledger!Next]_Ledger!vars
    BY StepRefines, NextPreservesIInv
  <1> QED
    BY <1>1, <1>2, InvariantHolds, PTL DEF Spec, LedgerImplemented, Ledger!Spec

-----------------------------------------------------------------------------
\* The verdict of a settled prompt's collector is not touched again, and a
\* prompt cancelled unwritten stays so.
LEMMA VerdictsStay ==
  ASSUME IInv, Next, NEW p \in PromptOps, Terminal(p)
  PROVE  /\ collector[p] \in Verdicts => collector'[p] = collector[p]
         /\ opState[p] = "cancelled" /\ p \notin dispatched => p \notin dispatched'
  <1> USE DEF Verdicts, Collecting, effects, collectorVars
  <1>1. TypeOK
    BY DEF IInv, TaskInv
  <1>2. CASE LiveStep
    <2>1. CASE Admission
      BY <2>1
      DEF Admission, AdmitCreate, AdmitPrompt, AdmitsCancel, AdmitCancelBeforeDispatch,
          AdmitCancelOfSettled, AdmitCancelOfRunning, AdmitRetire
    <2>2. CASE AgentStep \/ TransportFails
      BY <1>1, <2>2
      DEF AgentStep, AgentAnswers, CollectorFails, CollectorOverflows, TransportFails,
          TypeOK
    <2>3. ASSUME NEW c \in CreateOps, CreateWorks(c)
          PROVE  UNCHANGED <<collector, dispatched>>
      BY <2>3
      DEF CreateWorks, StartCreate, CreateCompletes, CreateRefused, CreateSettles
    <2>4. ASSUME NEW x \in CancelOps, CancelWorks(x)
          PROVE  /\ collector[p] \in Verdicts => collector'[p] = collector[p]
                 /\ dispatched' = dispatched
      BY <1>1, <2>4
      DEF CancelWorks, StartCancel, CancelSent, CancelObservesTarget,
          CancelTakesCollector, TypeOK
    <2>5. ASSUME NEW q \in PromptOps,
                 SkipSettledPrompt(q) \/ PromptWorks(q) \/ PromptSettles(q)
          PROVE  /\ collector[p] \in Verdicts => collector'[p] = collector[p]
                 /\ dispatched' = dispatched
      BY <1>1, <2>5
      DEF SkipSettledPrompt, PromptWorks, DeadlineExpires, DeadlineCancelSent,
          GraceExpires, PromptSettles, Completes, SpoilsAs, Settle, TypeOK
    <2>6. ASSUME NEW q \in PromptOps, Dispatch(q)
          PROVE  collector'[p] = collector[p] /\ dispatched' = dispatched
      BY <1>1, <2>6 DEF Dispatch, TypeOK
    <2>7. ASSUME NEW q \in PromptOps, WritePrompt(q)
          PROVE  /\ collector[p] \in Verdicts => collector'[p] = collector[p]
                 /\ opState[p] = "cancelled" /\ p \notin dispatched => p \notin dispatched'
      <3>1. p # q
        BY <2>7, AboutIsUnsettled
        DEF WritePrompt, About, IInv, UnwrittenPromptsWait, Terminal, TerminalStates,
            Pending, PendingStates
      <3> QED
        BY <1>1, <2>7, <3>1 DEF WritePrompt, Written, TypeOK
    <2> QED
      BY <1>2, <2>1, <2>2, <2>3, <2>4, <2>5, <2>6, <2>7 DEF LiveStep
  <1>3. CASE LosingStep
    BY <1>1, <1>3 DEF LosingStep, MarkGenerationLost, KilledCollector, TypeOK
  <1>4. CASE LostStep
    <2>1. CASE AgentStep \/ TransportFails \/ OwnerStopsChild
      BY <1>1, <2>1
      DEF AgentStep, AgentAnswers, CollectorFails, CollectorOverflows, TransportFails,
          OwnerStopsChild, TypeOK
    <2>2. ASSUME NEW q \in PromptOps, LateWrite(q)
          PROVE  /\ collector[p] \in Verdicts => collector'[p] = collector[p]
                 /\ opState[p] = "cancelled" /\ p \notin dispatched => p \notin dispatched'
      <3>1. opState[p] = "cancelled" => p # q
        BY <2>2
        DEF LateWrite, IInv, UnwrittenPromptsWait, Pending, PendingStates
      <3> QED
        BY <1>1, <2>2, <3>1 DEF LateWrite, Written, TypeOK
    <2> QED
      BY <1>4, <2>1, <2>2 DEF LostStep, UnwindPrompt, UnwindWithoutCleanup,
                              AbortAndPublish
  <1> QED
    BY <1>2, <1>3, <1>4, StepShapes

\* How a prompt can come to be settled while the generation lives.
LEMMA LiveSettlementHasReason ==
  ASSUME IInv, LiveStep, NEW p \in PromptOps, ~Terminal(p), Terminal(p)'
  PROVE  PromptSettles(p) \/ \E x \in CancelOps : AdmitCancelBeforeDispatch(x, p)
  <1>1. TypeOK /\ p \in Ops /\ opState[p] \notin TerminalStates
          /\ opState'[p] \in TerminalStates
    BY DEF IInv, TaskInv, Terminal, Ops
  <1>2. CASE Admission
    <2>1. ASSUME NEW c \in CreateOps, NEW s \in Sessions, AdmitCreate(c, s) PROVE FALSE
      BY <1>1, <2>1, KindsDisjoint DEF AdmitCreate, TypeOK, TerminalStates
    <2>2. ASSUME NEW q \in PromptOps, NEW s \in Sessions, NEW phase \in Phases,
                 NEW i \in Invocations, AdmitPrompt(q, s, phase, i)
          PROVE  FALSE
      BY <1>1, <2>2 DEF AdmitPrompt, TypeOK, TerminalStates
    <2>3. ASSUME NEW x \in CancelOps, NEW q \in PromptOps,
                 AdmitCancelOfSettled(x, q) \/ AdmitCancelOfRunning(x, q)
          PROVE  FALSE
      BY <1>1, <2>3, KindsDisjoint
      DEF AdmitCancelOfSettled, AdmitCancelOfRunning, TypeOK, TerminalStates
    <2>4. ASSUME NEW x \in CancelOps, NEW q \in PromptOps,
                 AdmitCancelBeforeDispatch(x, q)
          PROVE  p = q
      BY <1>1, <2>4, KindsDisjoint DEF AdmitCancelBeforeDispatch, TypeOK
    <2>5. ASSUME NEW r \in RetireOps, NEW s \in Sessions, AdmitRetire(r, s) PROVE FALSE
      BY <1>1, <2>5, KindsDisjoint DEF AdmitRetire, TypeOK
    <2> QED
      BY <1>2, <2>1, <2>2, <2>3, <2>4, <2>5 DEF Admission
  <1>3. CASE AgentStep \/ TransportFails
    BY <1>1, <1>3
    DEF AgentStep, AgentAnswers, CollectorFails, CollectorOverflows, TransportFails
  <1>4. ASSUME NEW c \in CreateOps, CreateWorks(c) PROVE FALSE
    BY <1>1, <1>4, KindsDisjoint
    DEF CreateWorks, StartCreate, CreateCompletes, CreateRefused, CreateSettles, TypeOK
  <1>5. ASSUME NEW x \in CancelOps, CancelWorks(x) PROVE FALSE
    BY <1>1, <1>5, KindsDisjoint
    DEF CancelWorks, StartCancel, CancelSent, CancelObservesTarget,
        CancelTakesCollector, TypeOK
  <1>6. ASSUME NEW q \in PromptOps,
               SkipSettledPrompt(q) \/ Dispatch(q) \/ WritePrompt(q) \/ PromptWorks(q)
        PROVE  FALSE
    BY <1>1, <1>6
    DEF SkipSettledPrompt, Dispatch, WritePrompt, PromptWorks, DeadlineExpires,
        DeadlineCancelSent, GraceExpires, TypeOK, TerminalStates
  <1>7. ASSUME NEW q \in PromptOps, PromptSettles(q) PROVE p = q
    BY <1>1, <1>7 DEF PromptSettles, Completes, SpoilsAs, Settle, TypeOK
  <1> QED
    BY <1>2, <1>3, <1>4, <1>5, <1>6, <1>7 DEF LiveStep

\* And at all, but in doubt.
LEMMA SettlementHasReason ==
  ASSUME IInv, Next, NEW p \in PromptOps, ~Terminal(p),
         opState'[p] \in TerminalStates \ {"in_doubt"}
  PROVE  PromptSettles(p) \/ \E x \in CancelOps : AdmitCancelBeforeDispatch(x, p)
  <1>1. TypeOK /\ p \in Ops /\ opState[p] \notin TerminalStates
    BY DEF IInv, TaskInv, Terminal, Ops
  <1>2. CASE LiveStep
    BY <1>2, LiveSettlementHasReason DEF Terminal
  <1>3. CASE LosingStep
    BY <1>1, <1>3 DEF LosingStep, MarkGenerationLost, SetTerminal, TypeOK
  <1>4. CASE LostStep
    <2>1. ASSUME NEW o \in Ops, AbortAndPublish(o) PROVE FALSE
      <3>1. opState'[p] \in {opState[p], DeferredResult(o, p)}
        BY <1>1, <2>1 DEF AbortAndPublish, SetTerminal
      <3>2. DeferredResult(o, p) = "in_doubt"
        BY KindsDisjoint DEF DeferredResult
      <3> QED
        BY <1>1, <3>1, <3>2
    <2> QED
      BY <1>1, <1>4, <2>1
      DEF LostStep, AgentStep, AgentAnswers, CollectorFails, CollectorOverflows,
          TransportFails, OwnerStopsChild, LateWrite, UnwindPrompt, UnwindWithoutCleanup
  <1> QED
    BY <1>2, <1>3, <1>4, StepShapes

\* A prompt is reported as what the child said of it, whoever settled it: the
\* prompt task, the cancellation before its dispatch, the deadline or the loss.
THEOREM SettlementsAreTruthful == Spec => []SettledTruthfully
  <1>1. Init => SettledTruthfully
    BY DEF Init, SettledTruthfully, Ops
  <1>2. IInv /\ SettledTruthfully /\ [Next]_vars => SettledTruthfully'
    <2> SUFFICES ASSUME IInv, SettledTruthfully, Next, NEW p \in PromptOps
                 PROVE  /\ opState'[p] = "completed" => collector'[p] = "end"
                        /\ opState'[p] = "timed_out" => collector'[p] = "cancelled"
                        /\ opState'[p] = "failed"    => collector'[p] = "overflow_cancelled"
                        /\ opState'[p] = "cancelled" =>
                             collector'[p] = "cancelled" \/ p \notin dispatched'
      BY DEF SettledTruthfully, vars, collectorVars, effects
    <2>1. CASE Terminal(p)
      BY <2>1, NextKeepsSettled, VerdictsStay DEF SettledTruthfully, Verdicts, Ops
    <2>2. CASE ~Terminal(p) /\ PromptSettles(p)
      <3>1. TypeOK /\ p \in Ops /\ opState[p] \notin TerminalStates
        BY <2>2 DEF IInv, TaskInv, Terminal, Ops
      <3>2. CASE Completes(p)
        BY <3>1, <3>2 DEF Completes, Settle, SetTerminal, TypeOK
      <3>3. ASSUME NEW state \in TerminalStates, SpoilsAs(p, state)
            PROVE  collector' = collector /\ opState'[p] = state
        BY <3>1, <3>3 DEF SpoilsAs, Settle, SetTerminal, TypeOK
      <3> QED
        BY <2>2, <3>2, <3>3 DEF PromptSettles, SpoilsAs
    <2>3. ASSUME NEW x \in CancelOps, AdmitCancelBeforeDispatch(x, p)
          PROVE  opState'[p] = "cancelled" /\ p \notin dispatched'
      BY <2>3, KindsDisjoint
      DEF AdmitCancelBeforeDispatch, AdmitsCancel, IInv, TaskInv, TypeOK,
          PromptsWaitOrHold, DispatchedHaveHeld, effects, Ops
    <2>4. CASE ~Terminal(p)
      BY <2>2, <2>3, <2>4, SettlementHasReason DEF TerminalStates
    <2> QED
      BY <2>1, <2>4
  <1> QED
    BY <1>1, <1>2, InvariantHolds, PTL DEF Spec

-----------------------------------------------------------------------------
\* What a step of a live generation does to its records, sessions and memory.
LEMMA IdentityStays ==
  ASSUME IInv, LiveStep, NEW o \in Ops, opState[o] # "unknown"
  PROVE  /\ sessionOf'[o] = sessionOf[o] /\ opState'[o] # "unknown"
         /\ o \in PromptOps => phaseOf'[o] = phaseOf[o] /\ invOf'[o] = invOf[o]
         /\ o \in CancelOps => targetOf'[o] = targetOf[o]
  <1> USE DEF identity, LedgerAccepts
  <1>1. TypeOK
    BY DEF IInv, TaskInv
  <1>2. CASE Admission
    <2>1. ASSUME NEW c \in CreateOps, NEW s \in Sessions, AdmitCreate(c, s)
          PROVE  /\ sessionOf'[o] = sessionOf[o] /\ UNCHANGED <<phaseOf, invOf, targetOf>>
                 /\ opState'[o] # "unknown"
      BY <1>1, <2>1 DEF AdmitCreate, TypeOK
    <2>2. ASSUME NEW p \in PromptOps, NEW s \in Sessions, NEW phase \in Phases,
                 NEW i \in Invocations, AdmitPrompt(p, s, phase, i)
          PROVE  /\ sessionOf'[o] = sessionOf[o] /\ opState'[o] # "unknown"
                 /\ o \in PromptOps => phaseOf'[o] = phaseOf[o] /\ invOf'[o] = invOf[o]
                 /\ targetOf' = targetOf
      BY <1>1, <2>2 DEF AdmitPrompt, TypeOK
    <2>3. ASSUME NEW x \in CancelOps, NEW p \in PromptOps, AdmitsCancel(x, p)
          PROVE  /\ sessionOf'[o] = sessionOf[o] /\ UNCHANGED <<phaseOf, invOf>>
                 /\ o \in CancelOps => targetOf'[o] = targetOf[o]
      BY <1>1, <2>3 DEF AdmitsCancel, TypeOK
    <2>4. ASSUME NEW x \in CancelOps, NEW p \in PromptOps,
                 \/ AdmitCancelBeforeDispatch(x, p)
                 \/ AdmitCancelOfSettled(x, p)
                 \/ AdmitCancelOfRunning(x, p)
          PROVE  opState'[o] # "unknown" /\ AdmitsCancel(x, p)
      BY <1>1, <2>4
      DEF AdmitCancelBeforeDispatch, AdmitCancelOfSettled, AdmitCancelOfRunning, TypeOK
    <2>5. ASSUME NEW r \in RetireOps, NEW s \in Sessions, AdmitRetire(r, s)
          PROVE  /\ sessionOf'[o] = sessionOf[o] /\ UNCHANGED <<phaseOf, invOf, targetOf>>
                 /\ opState'[o] # "unknown"
      BY <1>1, <2>5 DEF AdmitRetire, TypeOK
    <2> QED
      BY <1>2, <2>1, <2>2, <2>3, <2>4, <2>5 DEF Admission
  <1>3. CASE AgentStep \/ TransportFails
    BY <1>3
    DEF AgentStep, AgentAnswers, CollectorFails, CollectorOverflows, TransportFails
  <1>4. ASSUME NEW c \in CreateOps, CreateWorks(c)
        PROVE  UNCHANGED identity /\ opState'[o] # "unknown"
    BY <1>1, <1>4
    DEF CreateWorks, StartCreate, CreateCompletes, CreateRefused, CreateSettles,
        SetTerminal, TypeOK
  <1>5. ASSUME NEW x \in CancelOps, CancelWorks(x)
        PROVE  UNCHANGED identity /\ opState'[o] # "unknown"
    BY <1>1, <1>5
    DEF CancelWorks, StartCancel, CancelSent, CancelObservesTarget,
        CancelTakesCollector, SetTerminal, TypeOK
  <1>6. ASSUME NEW q \in PromptOps,
               \/ SkipSettledPrompt(q) \/ Dispatch(q) \/ WritePrompt(q)
               \/ PromptWorks(q) \/ PromptSettles(q)
        PROVE  UNCHANGED identity /\ opState'[o] # "unknown"
    BY <1>1, <1>6
    DEF SkipSettledPrompt, Dispatch, WritePrompt, PromptWorks, DeadlineExpires,
        DeadlineCancelSent, GraceExpires, PromptSettles, Completes, SpoilsAs, Settle,
        SetTerminal, TerminalStates, TypeOK
  <1> QED
    BY <1>2, <1>3, <1>4, <1>5, <1>6 DEF LiveStep

\* Who a new record is, and where the tasks of creations and cancellations begin.
LEMMA RecordsBegin ==
  ASSUME IInv, LiveStep
  PROVE  /\ \A c \in CreateOps : opState[c] = "unknown" /\ opState'[c] # "unknown"
                                 => \E s \in Sessions : AdmitCreate(c, s)
         /\ \A c \in CreateOps : pc'[c] \in {"scheduled", "creating"}
              => pc[c] \in {"scheduled", "creating"} \/ opState[c] = "unknown"
         /\ \A p \in PromptOps : opState[p] = "unknown" /\ opState'[p] # "unknown"
              => \E s \in Sessions, phase \in Phases, i \in Invocations :
                   AdmitPrompt(p, s, phase, i)
         /\ \A x \in CancelOps :
              pc'[x] \in Suspended \cup {"scheduled"} /\ pc[x] \notin Suspended \cup {"scheduled"}
              => \E p \in PromptOps : AdmitCancelOfRunning(x, p)
  <1> DEFINE Goal ==
         /\ \A c \in CreateOps : opState[c] = "unknown" /\ opState'[c] # "unknown"
                                 => \E s \in Sessions : AdmitCreate(c, s)
         /\ \A c \in CreateOps : pc'[c] \in {"scheduled", "creating"}
              => pc[c] \in {"scheduled", "creating"} \/ opState[c] = "unknown"
         /\ \A p \in PromptOps : opState[p] = "unknown" /\ opState'[p] # "unknown"
              => \E s \in Sessions, phase \in Phases, i \in Invocations :
                   AdmitPrompt(p, s, phase, i)
         /\ \A x \in CancelOps :
              pc'[x] \in Suspended \cup {"scheduled"} /\ pc[x] \notin Suspended \cup {"scheduled"}
              => \E p \in PromptOps : AdmitCancelOfRunning(x, p)
  <1>1. TypeOK /\ \A o \in Ops : opState[o] = "unknown" => pc[o] = "none"
    BY DEF IInv, TaskInv, RecordsAreComplete
  <1>2. CreateOps \subseteq Ops /\ PromptOps \subseteq Ops /\ CancelOps \subseteq Ops
    BY DEF Ops
  <1>3. ASSUME NEW c \in CreateOps, NEW s \in Sessions, AdmitCreate(c, s) PROVE Goal
    <2>1. /\ opState[c] = "unknown"
          /\ \A o \in Ops \ {c} : opState'[o] = opState[o] /\ pc'[o] = pc[o]
      BY <1>1, <1>3 DEF AdmitCreate, LedgerAccepts, TypeOK
    <2> QED
      BY <1>2, <1>3, <2>1, KindsDisjoint
  <1>4. ASSUME NEW p \in PromptOps, NEW s \in Sessions, NEW phase \in Phases,
               NEW i \in Invocations, AdmitPrompt(p, s, phase, i)
        PROVE  Goal
    BY <1>1, <1>2, <1>4, KindsDisjoint DEF AdmitPrompt, TypeOK
  <1>5. ASSUME NEW x \in CancelOps, NEW p \in PromptOps,
               \/ AdmitCancelBeforeDispatch(x, p)
               \/ AdmitCancelOfSettled(x, p)
               \/ AdmitCancelOfRunning(x, p)
        PROVE  Goal
    <2>1. opState[p] # "unknown" /\ \A o \in Ops \ {x, p} : opState'[o] = opState[o]
      BY <1>1, <1>5
      DEF AdmitCancelBeforeDispatch, AdmitCancelOfSettled, AdmitCancelOfRunning,
          AdmitsCancel, TypeOK
    <2>2. AdmitCancelOfRunning(x, p) \/ pc' = pc
      BY <1>5 DEF AdmitCancelBeforeDispatch, AdmitCancelOfSettled
    <2>3. AdmitCancelOfRunning(x, p) => \A o \in Ops \ {x} : pc'[o] = pc[o]
      BY <1>1 DEF AdmitCancelOfRunning, TypeOK
    <2> QED
      BY <1>2, <2>1, <2>2, <2>3, KindsDisjoint
  <1>6. ASSUME NEW r \in RetireOps, NEW s \in Sessions, AdmitRetire(r, s) PROVE Goal
    BY <1>1, <1>2, <1>6, KindsDisjoint DEF AdmitRetire, TypeOK
  <1>7. CASE AgentStep \/ TransportFails
    BY <1>7
    DEF AgentStep, AgentAnswers, CollectorFails, CollectorOverflows, TransportFails
  <1>8. ASSUME NEW c \in CreateOps, CreateWorks(c) PROVE Goal
    BY <1>1, <1>2, <1>8, KindsDisjoint
    DEF CreateWorks, StartCreate, CreateCompletes, CreateRefused, CreateSettles, TypeOK
  <1>9. ASSUME NEW x \in CancelOps, CancelWorks(x) PROVE Goal
    BY <1>1, <1>2, <1>9, KindsDisjoint
    DEF CancelWorks, StartCancel, CancelSent, CancelObservesTarget,
        CancelTakesCollector, TypeOK, Suspended
  <1>10. ASSUME NEW q \in PromptOps,
                \/ SkipSettledPrompt(q) \/ Dispatch(q)
                \/ PromptWorks(q) \/ PromptSettles(q)
         PROVE  Goal
    <2>1. pc[q] # "none" /\ \A o \in Ops \ {q} : opState'[o] = opState[o] /\ pc'[o] = pc[o]
      BY <1>1, <1>2, <1>10
      DEF SkipSettledPrompt, Dispatch, Acquires, Finally, PromptWorks, DeadlineExpires,
          DeadlineCancelSent, GraceExpires, PromptSettles, Completes, SpoilsAs, Settle,
          TypeOK, Holding
    <2> QED
      BY <1>1, <1>2, <2>1, KindsDisjoint
  <1>11. ASSUME NEW q \in PromptOps, WritePrompt(q) PROVE Goal
    BY <1>11 DEF WritePrompt
  <1> QED
    BY <1>3, <1>4, <1>5, <1>6, <1>7, <1>8, <1>9, <1>10, <1>11 DEF LiveStep, Admission

\* The ways in which the state of session s, or its active operation, changes.
SessionMoves(s) ==
    \/ sessState'[s] = sessState[s] /\ active'[s] = active[s]
    \/ sessState[s] = "absent" /\ sessState'[s] = "creating" /\ active'[s] = active[s]
         /\ \E c \in CreateOps : AdmitCreate(c, s)
    \/ sessState[s] = "ready" /\ active[s] = None /\ sessState'[s] = "busy"
    \/ sessState[s] # "absent" /\ sessState'[s] = "retired" /\ active'[s] = active[s]
    \/ sessState'[s] \in {"ready", "non_reusable"} /\ active'[s] = active[s]
         /\ \E c \in CreateOps :
              pc[c] = "creating" /\ pc'[c] = "finished" /\ sessionOf[c] = s
    \/ sessState'[s] \in {"ready", "non_reusable"} /\ active'[s] = None
         /\ \E p \in PromptOps : active[s] = p /\ sessionOf[p] = s /\ Pending(p)
    \/ sessState'[s] \in {sessState[s], "non_reusable"} /\ active'[s] = active[s]
         /\ \E p \in PromptOps : sessionOf[p] = s /\ Terminal(p)

LEMMA SessionStep ==
  ASSUME IInv, available, available', LiveStep, NEW s \in Sessions
  PROVE  SessionMoves(s)
  <1>1. TypeOK
    BY DEF IInv, TaskInv
  <1>2. ASSUME NEW p \in PromptOps, Pending(p)
        PROVE  sessionOf[p] \in Sessions /\ active[sessionOf[p]] = p
    BY <1>2
    DEF IInv, TaskInv, RecordsAreComplete, ActiveIsThePendingPrompt, Ops, Pending,
        PendingStates
  <1>3. ASSUME NEW c \in CreateOps, NEW t \in Sessions, AdmitCreate(c, t)
        PROVE  SessionMoves(s)
    <2>1. active' = active /\ sessState' = [sessState EXCEPT ![t] = "creating"]
          /\ sessState[t] = "absent"
      BY <1>3 DEF AdmitCreate
    <2> QED
      BY <1>1, <1>3, <2>1 DEF SessionMoves, TypeOK
  <1>4. ASSUME NEW p \in PromptOps, NEW t \in Sessions, NEW phase \in Phases,
               NEW i \in Invocations, AdmitPrompt(p, t, phase, i)
        PROVE  SessionMoves(s)
    BY <1>1, <1>4 DEF AdmitPrompt, SessionMoves, TypeOK
  <1>5. ASSUME NEW x \in CancelOps, NEW p \in PromptOps, AdmitCancelBeforeDispatch(x, p)
        PROVE  SessionMoves(s)
    <2>1. Pending(p)
      BY <1>5 DEF AdmitCancelBeforeDispatch, Pending, PendingStates
    <2> QED
      BY <1>1, <1>2, <1>5, <2>1 DEF AdmitCancelBeforeDispatch, SessionMoves, TypeOK
  <1>6. ASSUME NEW r \in RetireOps, NEW t \in Sessions, AdmitRetire(r, t)
        PROVE  SessionMoves(s)
    BY <1>1, <1>6 DEF AdmitRetire, SessionMoves, TypeOK
  <1>7. ASSUME NEW c \in CreateOps, CreateWorks(c) PROVE SessionMoves(s)
    <2>1. CASE StartCreate(c)
      BY <2>1 DEF StartCreate, SessionMoves
    <2>2. CASE CreateCompletes(c) \/ CreateRefused(c)
      <3>1. /\ pc[c] = "creating" /\ pc' = [pc EXCEPT ![c] = "finished"]
            /\ \E session \in {"ready", "non_reusable"} :
                 sessState' = [sessState EXCEPT ![sessionOf[c]] = session]
            /\ active' = active
        BY <2>2 DEF CreateCompletes, CreateRefused, CreateSettles
      <3>2. c \in Ops
        BY DEF Ops
      <3> QED
        BY <1>1, <3>1, <3>2 DEF SessionMoves, TypeOK
    <2> QED
      BY <1>7, <2>1, <2>2 DEF CreateWorks
  <1>8. ASSUME NEW p \in PromptOps, PromptSettles(p) PROVE SessionMoves(s)
    <2>1. Pending(p)
      BY <1>8 DEF PromptSettles, IInv, TaskInv, WorkIsUnsettled, Holding, Suspended, Ops
    <2>2. PICK state \in TerminalStates, body \in {"ready", "non_reusable"} :
            Settle(p, state, body)
      BY <1>8 DEF PromptSettles, Completes, SpoilsAs, TerminalStates
    <2>3. /\ \E session \in {"ready", "non_reusable"} :
               sessState' = [sessState EXCEPT ![sessionOf[p]] = session]
          /\ active' = [active EXCEPT ![sessionOf[p]] = IF @ = p THEN None ELSE @]
      <3>1. \A rec : FinallySession(rec, body) \in {"ready", "non_reusable"}
        BY DEF FinallySession
      <3> QED
        BY <2>2, <3>1 DEF Settle, Finally
    <2> QED
      BY <1>1, <1>2, <2>1, <2>3 DEF SessionMoves, TypeOK
  <1>9. ASSUME NEW p \in PromptOps, SkipSettledPrompt(p) PROVE SessionMoves(s)
    <2> DEFINE t == sessionOf[p]
    <2>1. Terminal(p) /\ Finally(p, opState[p], sessState[t])
      BY <1>9 DEF SkipSettledPrompt
    <2>2. sessState' = [sessState EXCEPT ![t] = FinallySession(opState[p], sessState[t])]
          /\ FinallySession(opState[p], sessState[t]) \in {sessState[t], "non_reusable"}
      BY <2>1 DEF Finally, FinallySession
    <2>3. \A u \in Sessions : active[u] # p
      BY <2>1
      DEF IInv, TaskInv, ActiveIsThePendingPrompt, Terminal, TerminalStates, Pending,
          PendingStates
    <2>4. active' = active
      BY <1>1, <2>1, <2>3 DEF Finally, TypeOK
    <2> QED
      BY <1>1, <2>1, <2>2, <2>4 DEF SessionMoves, TypeOK
  <1>10. CASE sessState' = sessState /\ active' = active
    BY <1>10 DEF SessionMoves
  <1> QED
    BY <1>3, <1>4, <1>5, <1>6, <1>7, <1>8, <1>9, <1>10
    DEF LiveStep, Admission, AdmitCancelOfSettled, AdmitCancelOfRunning, AgentStep,
        AgentAnswers, CollectorFails, CollectorOverflows, TransportFails, CancelWorks,
        StartCancel, CancelSent, CancelObservesTarget, CancelTakesCollector, Dispatch,
        WritePrompt, PromptWorks, DeadlineExpires, DeadlineCancelSent, GraceExpires

\* Only a completed prompt is remembered by its session.
LEMMA MemoryStep ==
  ASSUME IInv, LiveStep
  PROVE  \/ UNCHANGED <<stable, activeInv>>
         \/ \E p \in PromptOps : PromptSettles(p) /\ Completes(p)
  BY DEF LiveStep, Admission, AdmitCreate, AdmitPrompt, AdmitCancelBeforeDispatch,
         AdmitCancelOfSettled, AdmitCancelOfRunning, AdmitsCancel, AdmitRetire, AgentStep,
         AgentAnswers, CollectorFails, CollectorOverflows, TransportFails, CreateWorks,
         StartCreate, CreateCompletes, CreateRefused, CreateSettles, CancelWorks,
         StartCancel, CancelSent, CancelObservesTarget, CancelTakesCollector,
         SkipSettledPrompt, Dispatch, WritePrompt, PromptWorks, DeadlineExpires,
         DeadlineCancelSent, GraceExpires, PromptSettles, SpoilsAs, memory

\* Only WritePrompt adds to what was ever written, and nothing is taken from it.
LEMMA DispatchedStep ==
  ASSUME IInv, LiveStep
  PROVE  \/ dispatched' = dispatched
         \/ \E p \in PromptOps : WritePrompt(p) /\ dispatched' = dispatched \cup {p}
  BY DEF LiveStep, Admission, AdmitCreate, AdmitPrompt, AdmitCancelBeforeDispatch,
         AdmitCancelOfSettled, AdmitCancelOfRunning, AdmitsCancel, AdmitRetire, AgentStep,
         AgentAnswers, CollectorFails, CollectorOverflows, TransportFails, CreateWorks,
         StartCreate, CreateCompletes, CreateRefused, CreateSettles, CancelWorks,
         StartCancel, CancelSent, CancelObservesTarget, CancelTakesCollector,
         SkipSettledPrompt, Dispatch, WritePrompt, PromptWorks, DeadlineExpires,
         DeadlineCancelSent, GraceExpires, PromptSettles, Completes, SpoilsAs, Settle,
         Written, effects

-----------------------------------------------------------------------------
\* The second layer of the invariant: what a live generation remembers.
LEMMA UnsettledIsActive ==
  ASSUME IInv, available, NEW p \in PromptOps, Pending(p)
  PROVE  sessionOf[p] \in Sessions /\ active[sessionOf[p]] = p /\ opState[p] # "unknown"
  BY DEF IInv, TaskInv, RecordsAreComplete, ActiveIsThePendingPrompt, Ops, Pending,
         PendingStates

\* A spent session that has had a prompt stays spent: its creation is over.
LEMMA SpentStays ==
  ASSUME IInv, CreationComesFirst, available, available', LiveStep,
         NEW p \in PromptOps, opState[p] # "unknown", Spent(sessionOf[p])
  PROVE  Spent(sessionOf[p])'
  <1> DEFINE s == sessionOf[p]
  <1>1. s \in Sessions /\ sessionOf'[p] = s
    BY IdentityStays DEF IInv, TaskInv, RecordsAreComplete, Ops
  <1>2. \A c \in CreateOps : pc[c] = "creating" => sessionOf[c] # s
    BY DEF CreationComesFirst
  <1>3. active[s] = None /\ sessState[s] \in {"non_reusable", "retired"}
    BY DEF Spent
  <1>4. active'[s] = None /\ sessState'[s] \in {"non_reusable", "retired"}
    BY <1>1, <1>2, <1>3, SessionStep, NoneIsNoValue DEF SessionMoves, Ops
  <1> QED
    BY <1>1, <1>4 DEF Spent

LEMMA CreationsKept ==
  ASSUME IInv, IInv', CreationComesFirst, available, available', LiveStep
  PROVE  CreationComesFirst'
  <1> USE DEF Ops
  <1>1. \A o \in CreateOps \cup PromptOps : opState[o] # "unknown" =>
          /\ sessionOf[o] \in Sessions /\ sessionOf'[o] = sessionOf[o]
          /\ sessState[sessionOf[o]] # "absent" /\ sessState'[sessionOf[o]] # "absent"
    BY IdentityStays, SessionStep
    DEF IInv, TaskInv, RecordsAreComplete, CreationComesFirst, SessionMoves
  <1>2. ASSUME NEW c \in CreateOps, opState[c] = "unknown", opState'[c] # "unknown"
        PROVE  /\ sessState[sessionOf'[c]] = "absent" /\ sessState'[sessionOf'[c]] = "creating"
               /\ \A o \in Ops \ {c} : opState'[o] = opState[o]
    <2>1. PICK s \in Sessions : AdmitCreate(c, s)
      BY <1>2, RecordsBegin
    <2> QED
      BY <2>1 DEF AdmitCreate, IInv, TaskInv, TypeOK
  <1>3. ASSUME NEW p \in PromptOps, opState[p] = "unknown", opState'[p] # "unknown"
        PROVE  /\ sessState[sessionOf'[p]] = "ready" /\ sessState'[sessionOf'[p]] = "busy"
               /\ \A o \in Ops \ {p} : opState'[o] = opState[o]
    <2>1. PICK s \in Sessions, phase \in Phases, i \in Invocations : AdmitPrompt(p, s, phase, i)
      BY <1>3, RecordsBegin
    <2> QED
      BY <2>1 DEF AdmitPrompt, IInv, TaskInv, TypeOK
  <1>4. \A o \in CreateOps \cup PromptOps :
          opState'[o] # "unknown" => sessState'[sessionOf'[o]] # "absent"
    BY <1>1, <1>2, <1>3
  <1>5. ASSUME NEW c \in CreateOps, NEW d \in CreateOps, opState'[c] # "unknown",
               opState'[d] # "unknown", sessionOf'[c] = sessionOf'[d]
        PROVE  c = d
    BY <1>1, <1>2, <1>5 DEF CreationComesFirst
  <1>6. ASSUME NEW c \in CreateOps, pc'[c] \in {"scheduled", "creating"}
        PROVE  /\ sessState'[sessionOf'[c]] \in {"creating", "retired"}
               /\ \A p \in PromptOps :
                    opState'[p] # "unknown" => sessionOf'[p] # sessionOf'[c]
    <2>1. CASE opState[c] = "unknown"
      <3>1. opState'[c] # "unknown"
        BY <1>6 DEF IInv, TaskInv, RecordsAreComplete
      <3> QED
        BY <1>1, <1>2, <1>3, <2>1, <3>1, KindsDisjoint
    <2>2. CASE opState[c] # "unknown"
      <3>1. pc[c] \in {"scheduled", "creating"}
        BY <1>6, <2>2, RecordsBegin
      <3>2. /\ sessState[sessionOf[c]] \in {"creating", "retired"}
            /\ \A p \in PromptOps : opState[p] # "unknown" => sessionOf[p] # sessionOf[c]
        BY <3>1 DEF CreationComesFirst
      <3>3. \A d \in CreateOps : pc[d] = "creating" /\ sessionOf[d] = sessionOf[c] => d = c
        BY <2>2 DEF IInv, TaskInv, RecordsAreComplete, CreationComesFirst
      <3>4. sessState'[sessionOf[c]] \in {"creating", "retired"}
        BY <1>1, <1>6, <2>2, <3>2, <3>3, SessionStep, UnsettledIsActive
        DEF SessionMoves, Terminal, TerminalStates
      <3> QED
        BY <1>1, <1>3, <2>2, <3>2, <3>4
    <2> QED
      BY <2>1, <2>2
  <1> QED
    BY <1>4, <1>5, <1>6 DEF CreationComesFirst

\* A prompt that settles otherwise than by completing spends its session.
LEMMA SpoiledIsSpent ==
  ASSUME IInv, available, LiveStep, NEW p \in PromptOps, NEW state \in TerminalStates,
         Pending(p), SpoilsAs(p, state)
  PROVE  Spent(sessionOf[p])'
  <1>1. sessionOf[p] \in Sessions /\ active[sessionOf[p]] = p
        /\ sessionOf'[p] = sessionOf[p]
    BY UnsettledIsActive, IdentityStays DEF Ops
  <1>2. \A rec : FinallySession(rec, "non_reusable") = "non_reusable"
    BY DEF FinallySession
  <1>3. sessState'[sessionOf[p]] = "non_reusable" /\ active'[sessionOf[p]] = None
    BY <1>1, <1>2 DEF SpoilsAs, Settle, Finally, IInv, TaskInv, TypeOK
  <1> QED
    BY <1>1, <1>3 DEF Spent

\* An unsettled prompt stays so, is cancelled unwritten, completes, or spends its
\* session; one being cancelled does not complete.
LEMMA UnsettledStep ==
  ASSUME IInv, IInv', available, LiveStep, NEW p \in PromptOps, Pending(p)
  PROVE  \/ Pending(p)' /\ (opState[p] = "cancelling" => opState'[p] = "cancelling")
         \/ Terminal(p)' /\ p \notin dispatched /\ opState[p] # "cancelling"
         \/ Terminal(p)' /\ Completes(p) /\ opState[p] # "cancelling"
         \/ Terminal(p)' /\ Spent(sessionOf[p])'
  <1>1. p \in Ops /\ TypeOK /\ opState'[p] \in OperationStates
    BY DEF Ops, IInv, TaskInv, TypeOK
  <1>2. opState'[p] # "unknown"
    BY <1>1, IdentityStays DEF Pending, PendingStates
  <1>3. ~Terminal(p)
    BY DEF Pending, PendingStates, Terminal, TerminalStates
  <1>4. CASE Terminal(p)'
    <2>1. CASE PromptSettles(p)
      <3>1. CASE Completes(p)
        BY <1>4, <3>1 DEF Completes
      <3> QED
        BY <1>4, <2>1, <3>1, SpoiledIsSpent DEF PromptSettles
    <2>2. ASSUME NEW x \in CancelOps, AdmitCancelBeforeDispatch(x, p)
          PROVE  p \notin dispatched /\ opState[p] # "cancelling"
      BY <2>2
      DEF AdmitCancelBeforeDispatch, AdmitsCancel, IInv, TaskInv, PromptsWaitOrHold,
          DispatchedHaveHeld
    <2> QED
      BY <1>3, <1>4, <2>1, <2>2, LiveSettlementHasReason
  <1>5. CASE ~Terminal(p)'
    <2>1. Pending(p)'
      BY <1>1, <1>2, <1>5 DEF Pending, Terminal, OperationStates
    <2>2. ASSUME opState[p] = "cancelling" PROVE opState'[p] = "cancelling"
      <3>1. CASE Admission
        BY <1>1, <2>2, <3>1, KindsDisjoint
        DEF Admission, AdmitCreate, AdmitPrompt, AdmitCancelBeforeDispatch, AdmitsCancel,
            AdmitCancelOfSettled, AdmitCancelOfRunning, AdmitRetire, LedgerAccepts, TypeOK
      <3>2. CASE AgentStep \/ TransportFails
        BY <2>2, <3>2
        DEF AgentStep, AgentAnswers, CollectorFails, CollectorOverflows, TransportFails
      <3>3. ASSUME NEW c \in CreateOps, CreateWorks(c) PROVE opState'[p] = opState[p]
        BY <1>1, <3>3, KindsDisjoint
        DEF CreateWorks, StartCreate, CreateCompletes, CreateRefused, CreateSettles,
            TypeOK
      <3>4. ASSUME NEW x \in CancelOps, CancelWorks(x) PROVE opState'[p] = opState[p]
        BY <1>1, <3>4, KindsDisjoint
        DEF CancelWorks, StartCancel, CancelSent, CancelObservesTarget,
            CancelTakesCollector, TypeOK
      <3>5. ASSUME NEW q \in PromptOps,
                   SkipSettledPrompt(q) \/ Dispatch(q) \/ WritePrompt(q) \/ PromptWorks(q)
            PROVE  opState'[p] = "cancelling"
        BY <1>1, <2>2, <3>5
        DEF SkipSettledPrompt, Dispatch, WritePrompt, PromptWorks, DeadlineExpires,
            DeadlineCancelSent, GraceExpires, TypeOK
      <3>6. ASSUME NEW q \in PromptOps, PromptSettles(q)
            PROVE  p # q /\ opState'[p] = opState[p]
        <4>1. PICK state \in TerminalStates, body \in {"ready", "non_reusable"} :
                Settle(q, state, body)
          BY <3>6 DEF PromptSettles, Completes, SpoilsAs, TerminalStates
        <4> QED
          BY <1>1, <1>5, <4>1 DEF Settle, SetTerminal, Terminal, TypeOK
      <3> QED
        BY <2>2, <3>1, <3>2, <3>3, <3>4, <3>5, <3>6 DEF LiveStep
    <2> QED
      BY <2>1, <2>2
  <1> QED
    BY <1>4, <1>5

LEMMA CancellationsKept ==
  ASSUME IInv, IInv', CreationComesFirst, CancelledTargetsSpend, available, available',
         Next, LiveStep
  PROVE  CancelledTargetsSpend'
  <1> SUFFICES ASSUME NEW x \in CancelOps, pc'[x] \in Suspended \cup {"scheduled"}
               PROVE  /\ sessionOf'[x] = sessionOf'[targetOf'[x]]
                      /\ \/ opState'[targetOf'[x]] = "cancelling"
                         \/ /\ opState'[targetOf'[x]] \in TerminalStates
                            /\ active'[sessionOf'[x]] = None
                            /\ sessState'[sessionOf'[x]] \in {"non_reusable", "retired"}
    BY DEF CancelledTargetsSpend, Terminal, Spent
  <1>1. CASE pc[x] \in Suspended \cup {"scheduled"}
    <2>0. PICK t : t = targetOf[x]
      OBVIOUS
    <2>1. x \in Ops /\ opState[x] # "unknown" /\ t \in PromptOps /\ opState[t] # "unknown"
          /\ t \in Ops
      <3>1. x \in Ops /\ pc[x] # "none"
        BY <1>1 DEF Ops, Suspended
      <3>2. opState[x] # "unknown"
        BY <3>1 DEF IInv, TaskInv, RecordsAreComplete
      <3>3. t \in PromptOps /\ opState[t] # "unknown"
        BY <2>0, <3>1, <3>2 DEF IInv, TaskInv, RecordsAreComplete
      <3> QED
        BY <3>1, <3>2, <3>3 DEF Ops
    <2>2. targetOf'[x] = t /\ sessionOf'[x] = sessionOf[x] /\ sessionOf'[t] = sessionOf[t]
      BY <2>0, <2>1, IdentityStays DEF Ops
    <2>3. /\ sessionOf[x] = sessionOf[t]
          /\ opState[t] = "cancelling" \/ (Terminal(t) /\ Spent(sessionOf[t]))
      BY <1>1, <2>0 DEF CancelledTargetsSpend
    <2>4. CASE opState[t] = "cancelling"
      <3>1. \/ opState'[t] = "cancelling"
            \/ Terminal(t)' /\ Spent(sessionOf[t])'
        BY <2>1, <2>4, UnsettledStep DEF Pending, PendingStates
      <3> QED
        BY <2>2, <2>3, <3>1 DEF Spent, Terminal
    <2>5. CASE Terminal(t) /\ Spent(sessionOf[t])
      <3>1. opState'[t] = opState[t]
        BY <2>1, <2>5, NextKeepsSettled DEF Ops
      <3>2. Spent(sessionOf[t])'
        BY <2>1, <2>5, SpentStays
      <3> QED
        BY <2>2, <2>3, <2>5, <3>1, <3>2 DEF Spent, Terminal
    <2> QED
      BY <2>3, <2>4, <2>5
  <1>2. CASE pc[x] \notin Suspended \cup {"scheduled"}
    <2>1. PICK p \in PromptOps : AdmitCancelOfRunning(x, p)
      BY <1>2, RecordsBegin
    <2>2. x # p
      BY <2>1, KindsDisjoint
    <2>3. targetOf'[x] = p /\ sessionOf'[x] = sessionOf[p] /\ sessionOf'[p] = sessionOf[p]
          /\ opState'[p] = "cancelling"
      BY <2>1, <2>2 DEF AdmitCancelOfRunning, AdmitsCancel, IInv, TaskInv, TypeOK, Ops
    <2> QED
      BY <2>3
  <1> QED
    BY <1>1, <1>2

\* Whoever was written was admitted, and is unsettled when it is.
LEMMA DispatchedWork ==
  ASSUME IInv
  PROVE  /\ \A p \in dispatched : p \in PromptOps /\ opState[p] # "unknown"
         /\ \A p \in PromptOps : WritePrompt(p) => Pending(p) /\ Pending(p)'
  <1>1. TypeOK /\ PromptOps \subseteq Ops
    BY DEF IInv, TaskInv, Ops
  <1>2. ASSUME NEW p \in dispatched PROVE p \in PromptOps /\ opState[p] # "unknown"
    BY <1>1, <1>2 DEF IInv, TaskInv, TypeOK, DispatchedHaveHeld, RecordsAreComplete
  <1>3. ASSUME NEW p \in PromptOps, WritePrompt(p) PROVE Pending(p) /\ Pending(p)'
    <2>1. collector[p] = "starting" /\ opState' = opState
      BY <1>3 DEF WritePrompt
    <2>2. available
      BY <2>1 DEF IInv, UnwrittenPromptsWait
    <2>3. Pending(p)
      BY <2>1, <2>2, AboutIsUnsettled DEF About
    <2> QED
      BY <2>1, <2>3 DEF Pending
  <1> QED
    BY <1>2, <1>3

LEMMA MarksKept ==
  ASSUME IInv, IInv', CreationComesFirst, InitialLeavesItsMark, available, available',
         LiveStep
  PROVE  InitialLeavesItsMark'
  <1> SUFFICES ASSUME NEW p \in PromptOps, p \in dispatched', phaseOf'[p] = "initial"
               PROVE  \/ Pending(p)' \/ sessionOf'[p] \in stable' \/ Spent(sessionOf[p])'
    BY DEF InitialLeavesItsMark, IInv, TaskInv, TypeOK
  <1>1. CASE p \notin dispatched
    BY <1>1, DispatchedStep, DispatchedWork
  <1>2. CASE p \in dispatched
    <2>1. p \in Ops /\ opState[p] # "unknown"
      BY <1>2, DispatchedWork DEF Ops
    <2>2. sessionOf'[p] = sessionOf[p] /\ phaseOf[p] = "initial"
      BY <2>1, IdentityStays
    <2>3. CASE Spent(sessionOf[p])
      BY <2>1, <2>3, SpentStays
    <2>4. CASE sessionOf[p] \in stable
      <3>1. stable \subseteq stable'
        BY MemoryStep DEF Completes
      <3> QED
        BY <2>2, <2>4, <3>1
    <2>5. CASE Pending(p)
      <3>1. Completes(p) => sessionOf'[p] \in stable'
        BY <2>2 DEF Completes
      <3> QED
        BY <1>2, <2>5, <3>1, UnsettledStep
    <2> QED
      BY <1>2, <2>2, <2>3, <2>4, <2>5 DEF InitialLeavesItsMark
  <1> QED
    BY <1>1, <1>2

\* The session of an unsettled prompt learns nothing from other prompts.
LEMMA MemoryOfUnsettled ==
  ASSUME IInv, available, LiveStep, NEW q \in PromptOps, Pending(q), Pending(q)'
  PROVE  /\ sessionOf[q] \in stable' <=> sessionOf[q] \in stable
         /\ activeInv'[sessionOf[q]] = activeInv[sessionOf[q]]
  <1>1. CASE UNCHANGED <<stable, activeInv>>
    BY <1>1
  <1>2. ASSUME NEW p \in PromptOps, PromptSettles(p), Completes(p)
        PROVE  /\ sessionOf[q] \in stable' <=> sessionOf[q] \in stable
               /\ activeInv'[sessionOf[q]] = activeInv[sessionOf[q]]
    <2>1. Pending(p)
      BY <1>2 DEF PromptSettles, IInv, TaskInv, WorkIsUnsettled, Holding, Suspended, Ops
    <2>2. opState'[p] = "completed"
      BY <1>2, <2>1
      DEF Completes, Settle, SetTerminal, IInv, TaskInv, TypeOK, Ops, Pending,
          PendingStates, TerminalStates
    <2>3. p # q
      BY <2>2 DEF Pending, PendingStates
    <2>4. sessionOf[p] # sessionOf[q]
      BY <2>1, <2>3, UnsettledIsActive
    <2> QED
      BY <1>2, <2>4, UnsettledIsActive DEF Completes, IInv, TaskInv, TypeOK
  <1> QED
    BY <1>1, <1>2, MemoryStep

LEMMA LifetimesKept ==
  ASSUME IInv, IInv', InitialLeavesItsMark, LifetimeStillAllows, available, available',
         Next, LiveStep
  PROVE  LifetimeStillAllows'
  <1> SUFFICES ASSUME NEW q \in PromptOps, Pending(q)'
               PROVE  /\ phaseOf'[q] = "initial" =>
                           /\ sessionOf'[q] \notin stable'
                           /\ \A p \in dispatched' :
                                phaseOf'[p] = "initial" /\ sessionOf'[p] = sessionOf'[q]
                                => p = q
                      /\ phaseOf'[q] = "delta" =>
                           sessionOf'[q] \in stable' /\ invOf'[q] = activeInv'[sessionOf'[q]]
    BY DEF LifetimeStillAllows
  <1>1. q \in Ops /\ opState'[q] # "unknown"
    BY DEF Pending, PendingStates, Ops
  <1>2. ASSUME NEW p \in dispatched
        PROVE  sessionOf'[p] = sessionOf[p] /\ phaseOf'[p] = phaseOf[p]
    BY <1>2, DispatchedWork, IdentityStays DEF Ops
  <1>3. CASE opState[q] = "unknown"
    <2>1. PICK s \in Sessions, phase \in Phases, i \in Invocations : AdmitPrompt(q, s, phase, i)
      BY <1>1, <1>3, RecordsBegin
    <2>2. /\ sessionOf'[q] = s /\ phaseOf'[q] = phase /\ invOf'[q] = i
          /\ stable' = stable /\ activeInv' = activeInv /\ dispatched' = dispatched
          /\ active[s] = None /\ sessState[s] = "ready" /\ LifetimeAllows(s, phase, i)
      BY <1>1, <2>1 DEF AdmitPrompt, IInv, TaskInv, TypeOK, memory, effects
    <2>3. ASSUME NEW p \in dispatched, phaseOf[p] = "initial", sessionOf[p] = s
          PROVE  s \in stable
      <3>1. ~Spent(s)
        BY <2>2 DEF Spent
      <3>2. ~Pending(p)
        BY <2>2, <2>3, DispatchedWork, UnsettledIsActive, NoneIsNoValue DEF Ops
      <3> QED
        BY <2>3, <3>1, <3>2 DEF InitialLeavesItsMark
    <2> QED
      BY <1>2, <2>2, <2>3 DEF LifetimeAllows
  <1>4. CASE opState[q] # "unknown"
    <2>1. Pending(q)
      <3>1. ~Terminal(q)
        BY <1>1, NextKeepsSettled
        DEF Terminal, TerminalStates, Pending, PendingStates
      <3> QED
        BY <1>1, <1>4, <3>1 DEF IInv, TaskInv, TypeOK, OperationStates, Terminal, Pending
    <2>2. sessionOf'[q] = sessionOf[q] /\ phaseOf'[q] = phaseOf[q] /\ invOf'[q] = invOf[q]
      BY <1>1, <1>4, IdentityStays
    <2>3. ASSUME NEW p \in PromptOps, WritePrompt(p), sessionOf'[p] = sessionOf[q]
          PROVE  p = q
      <3>1. Pending(p) /\ sessionOf'[p] = sessionOf[p]
        BY <2>3, DispatchedWork, UnsettledIsActive, IdentityStays DEF Ops
      <3> QED
        BY <2>1, <2>3, <3>1, UnsettledIsActive
    <2>4. ASSUME NEW p \in dispatched', phaseOf[q] = "initial", phaseOf'[p] = "initial",
                 sessionOf'[p] = sessionOf[q]
          PROVE  p = q
      <3>1. CASE p \in dispatched
        BY <1>2, <2>1, <2>4, <3>1 DEF LifetimeStillAllows
      <3> QED
        BY <2>3, <2>4, <3>1, DispatchedStep
    <2> QED
      BY <2>1, <2>2, <2>4, MemoryOfUnsettled DEF LifetimeStillAllows
  <1> QED
    BY <1>3, <1>4

LEMMA StableOnceKept ==
  ASSUME IInv, LifetimeStillAllows, StableSubmittedOnce, available, LiveStep
  PROVE  StableSubmittedOnce'
  <1>1. ASSUME NEW p \in dispatched
        PROVE  sessionOf'[p] = sessionOf[p] /\ phaseOf'[p] = phaseOf[p]
    BY <1>1, DispatchedWork, IdentityStays DEF Ops
  <1>2. CASE dispatched' = dispatched
    BY <1>1, <1>2 DEF StableSubmittedOnce
  <1>3. ASSUME NEW q \in PromptOps, WritePrompt(q), dispatched' = dispatched \cup {q}
        PROVE  StableSubmittedOnce'
    <2>1. Pending(q) /\ sessionOf'[q] = sessionOf[q] /\ phaseOf'[q] = phaseOf[q]
      BY <1>3, DispatchedWork, UnsettledIsActive, IdentityStays DEF Ops
    <2>2. ASSUME NEW p \in dispatched, phaseOf[p] = "initial", phaseOf[q] = "initial",
                 sessionOf[p] = sessionOf[q]
          PROVE  p = q
      BY <2>1, <2>2 DEF LifetimeStillAllows
    <2> QED
      BY <1>1, <1>3, <2>1, <2>2 DEF StableSubmittedOnce
  <1> QED
    BY <1>2, <1>3, DispatchedStep


-----------------------------------------------------------------------------
\* The reservations.  One is taken with each admission of a prompt and given back
\* with its settlement, by whoever settles it; the "finally" of a prompt settled
\* behind its back finds it given back already.
TerminalPrompts == {p \in PromptOps : Terminal(p)}

LEMMA QuotaStep ==
  ASSUME IInv, available, LiveStep
  PROVE  \/ /\ UNCHANGED quota /\ PendingPrompts' = PendingPrompts
            /\ TerminalPrompts' = TerminalPrompts
         \/ \E p \in PromptOps :
              /\ Terminal(p) /\ Release(p) /\ PendingPrompts' = PendingPrompts
              /\ TerminalPrompts' = TerminalPrompts
         \/ \E p \in PromptOps :
              /\ opState[p] = "unknown" /\ QueueAccepts
              /\ reservations' = reservations + 1 /\ released' = released
              /\ PendingPrompts' = PendingPrompts \cup {p}
              /\ TerminalPrompts' = TerminalPrompts
         \/ \E p \in PromptOps :
              /\ Pending(p) /\ Release(p) /\ PendingPrompts' = PendingPrompts \ {p}
              /\ TerminalPrompts' = TerminalPrompts \cup {p}
  <1> DEFINE Same == PendingPrompts' = PendingPrompts /\ TerminalPrompts' = TerminalPrompts
             Goal ==
               \/ UNCHANGED quota /\ Same
               \/ \E p \in PromptOps : Terminal(p) /\ Release(p) /\ Same
               \/ \E p \in PromptOps :
                    /\ opState[p] = "unknown" /\ QueueAccepts
                    /\ reservations' = reservations + 1 /\ released' = released
                    /\ PendingPrompts' = PendingPrompts \cup {p}
                    /\ TerminalPrompts' = TerminalPrompts
               \/ \E p \in PromptOps :
                    /\ Pending(p) /\ Release(p) /\ PendingPrompts' = PendingPrompts \ {p}
                    /\ TerminalPrompts' = TerminalPrompts \cup {p}
  <1>1. TypeOK /\ PromptOps \subseteq Ops
    BY DEF IInv, TaskInv, Ops
  <1>2. (\A p \in PromptOps : opState'[p] = opState[p]) => Same
    BY DEF PendingPrompts, TerminalPrompts, Pending, Terminal
  <1>3. ASSUME NEW p \in PromptOps, Pending(p), opState'[p] \in PendingStates,
               \A q \in PromptOps \ {p} : opState'[q] = opState[q]
        PROVE  Same
    BY <1>3 DEF PendingPrompts, TerminalPrompts, Pending, Terminal, PendingStates,
                TerminalStates
  <1>4. ASSUME NEW p \in PromptOps, Pending(p), opState'[p] \in TerminalStates,
               \A q \in PromptOps \ {p} : opState'[q] = opState[q]
        PROVE  PendingPrompts' = PendingPrompts \ {p}
               /\ TerminalPrompts' = TerminalPrompts \cup {p}
    BY <1>4 DEF PendingPrompts, TerminalPrompts, Pending, Terminal, PendingStates,
                TerminalStates
  <1>5. ASSUME NEW p \in PromptOps, pc[p] \in Holding PROVE Pending(p)
    BY <1>1, <1>5 DEF IInv, TaskInv, WorkIsUnsettled, Holding, Suspended
  <1>6. CASE Admission
    <2>1. ASSUME NEW c \in CreateOps, NEW s \in Sessions, AdmitCreate(c, s) PROVE Goal
      <3>1. UNCHANGED quota /\ opState' = [opState EXCEPT ![c] = "accepted"]
        BY <2>1 DEF AdmitCreate
      <3> QED
        BY <1>1, <1>2, <3>1, KindsDisjoint DEF TypeOK
    <2>2. ASSUME NEW p \in PromptOps, NEW s \in Sessions, NEW phase \in Phases,
                 NEW i \in Invocations, AdmitPrompt(p, s, phase, i)
          PROVE  Goal
      <3>1. /\ opState[p] = "unknown" /\ QueueAccepts
            /\ reservations' = reservations + 1 /\ released' = released
            /\ opState'[p] \in {"queued", "accepted"}
            /\ \A q \in PromptOps \ {p} : opState'[q] = opState[q]
        BY <1>1, <2>2 DEF AdmitPrompt, LedgerAccepts, TypeOK
      <3>2. PendingPrompts' = PendingPrompts \cup {p} /\ TerminalPrompts' = TerminalPrompts
        BY <3>1 DEF PendingPrompts, TerminalPrompts, Pending, Terminal, PendingStates,
                    TerminalStates
      <3> QED
        BY <3>1, <3>2
    <2>3. ASSUME NEW x \in CancelOps, NEW p \in PromptOps, AdmitCancelBeforeDispatch(x, p)
          PROVE  Goal
      <3>1. /\ Pending(p) /\ Release(p) /\ opState'[p] = "cancelled"
            /\ \A q \in PromptOps \ {p} : opState'[q] = opState[q]
        BY <1>1, <2>3, KindsDisjoint
        DEF AdmitCancelBeforeDispatch, TypeOK, Pending, PendingStates
      <3> QED
        BY <1>4, <3>1 DEF TerminalStates
    <2>4. ASSUME NEW x \in CancelOps, NEW p \in PromptOps, AdmitCancelOfSettled(x, p)
          PROVE  Goal
      <3>1. UNCHANGED quota /\ opState' = [opState EXCEPT ![x] = "completed"]
        BY <2>4 DEF AdmitCancelOfSettled
      <3> QED
        BY <1>1, <1>2, <3>1, KindsDisjoint DEF TypeOK
    <2>5. ASSUME NEW x \in CancelOps, NEW p \in PromptOps, AdmitCancelOfRunning(x, p)
          PROVE  Goal
      <3>1. /\ Pending(p) /\ UNCHANGED quota /\ opState'[p] = "cancelling"
            /\ \A q \in PromptOps \ {p} : opState'[q] = opState[q]
        BY <1>1, <2>5, KindsDisjoint
        DEF AdmitCancelOfRunning, TypeOK, Pending, PendingStates
      <3> QED
        BY <1>3, <3>1 DEF PendingStates
    <2>6. ASSUME NEW r \in RetireOps, NEW s \in Sessions, AdmitRetire(r, s) PROVE Goal
      <3>1. UNCHANGED quota /\ opState' = [opState EXCEPT ![r] = "completed"]
        BY <2>6 DEF AdmitRetire
      <3> QED
        BY <1>1, <1>2, <3>1, KindsDisjoint DEF TypeOK
    <2> QED
      BY <1>6, <2>1, <2>2, <2>3, <2>4, <2>5, <2>6 DEF Admission
  <1>7. CASE AgentStep \/ TransportFails
    BY <1>2, <1>7
    DEF AgentStep, AgentAnswers, CollectorFails, CollectorOverflows, TransportFails
  <1>8. ASSUME NEW c \in CreateOps, CreateWorks(c) PROVE Goal
    <2>1. UNCHANGED quota /\ \A p \in PromptOps : opState'[p] = opState[p]
      BY <1>1, <1>8, KindsDisjoint
      DEF CreateWorks, StartCreate, CreateCompletes, CreateRefused, CreateSettles, TypeOK
    <2> QED
      BY <1>2, <2>1
  <1>9. ASSUME NEW x \in CancelOps, CancelWorks(x) PROVE Goal
    <2>1. UNCHANGED quota /\ \A p \in PromptOps : opState'[p] = opState[p]
      BY <1>1, <1>9, KindsDisjoint
      DEF CancelWorks, StartCancel, CancelSent, CancelObservesTarget,
          CancelTakesCollector, TypeOK
    <2> QED
      BY <1>2, <2>1
  <1>10. ASSUME NEW p \in PromptOps, SkipSettledPrompt(p) PROVE Goal
    BY <1>2, <1>10 DEF SkipSettledPrompt, Finally
  <1>11. ASSUME NEW p \in PromptOps, Dispatch(p) \/ WritePrompt(p) \/ PromptWorks(p)
         PROVE  Goal
    <2>1. Pending(p)
      BY <1>5, <1>11, DispatchIsAlone, DispatchedWork
      DEF PromptWorks, DeadlineExpires, DeadlineCancelSent, GraceExpires, Holding
    <2>2. UNCHANGED quota /\ opState'[p] \in {opState[p], "running", "cancelling"}
          /\ \A q \in PromptOps \ {p} : opState'[q] = opState[q]
      BY <1>1, <1>11
      DEF Dispatch, WritePrompt, PromptWorks, DeadlineExpires, DeadlineCancelSent,
          GraceExpires, TypeOK
    <2> QED
      BY <1>3, <2>1, <2>2 DEF Pending, PendingStates
  <1>12. ASSUME NEW p \in PromptOps, PromptSettles(p) PROVE Goal
    <2>1. Pending(p)
      BY <1>5, <1>12 DEF PromptSettles
    <2>2. PICK state \in TerminalStates, body \in {"ready", "non_reusable"} :
            Settle(p, state, body)
      BY <1>12 DEF PromptSettles, Completes, SpoilsAs, TerminalStates
    <2>3. Release(p) /\ opState' = [opState EXCEPT ![p] = SetTerminal(opState[p], state)]
      BY <2>2 DEF Settle, Finally
    <2>4. SetTerminal(opState[p], state) = state
      BY <2>1 DEF SetTerminal, Pending, PendingStates, TerminalStates
    <2>5. opState'[p] = state /\ \A q \in PromptOps \ {p} : opState'[q] = opState[q]
      BY <1>1, <2>3, <2>4 DEF TypeOK
    <2> QED
      BY <1>4, <2>1, <2>3, <2>5
  <1> QED
    BY <1>6, <1>7, <1>8, <1>9, <1>10, <1>11, <1>12 DEF LiveStep

LEMMA ReleasesKept ==
  ASSUME IInv, ReleasedAreSettled, available, LiveStep
  PROVE  ReleasedAreSettled'
  <1>1. released = TerminalPrompts
    BY DEF ReleasedAreSettled, TerminalPrompts
  <1>2. released' = TerminalPrompts'
    BY <1>1, QuotaStep DEF Release, quota, TerminalPrompts
  <1> QED
    BY <1>2 DEF ReleasedAreSettled, TerminalPrompts

\* What was validated still holds of a prompt that the loss of its generation
\* leaves to be written.
LEMMA LossAllowsLateWrites ==
  ASSUME IInv, LifetimeStillAllows, LateWritesAreAllowed, LosingStep, available
  PROVE  LateWritesAreAllowed'
  <1>1. /\ UNCHANGED <<sessionOf, phaseOf, invOf, stable, activeInv, dispatched>>
        /\ collector' = [p \in PromptOps |-> KilledCollector(collector[p])]
    BY DEF LosingStep, MarkGenerationLost, identity, memory, effects
  <1>2. ASSUME NEW q \in PromptOps, collector'[q] = "doomed"
        PROVE  Pending(q) /\ q \notin dispatched
    <2>1. About(q)
      BY <1>1, <1>2 DEF KilledCollector, Collecting, About
    <2> QED
      BY <2>1, AboutIsUnsettled DEF About, IInv, UnwrittenPromptsWait
  <1> QED
    BY <1>1, <1>2 DEF LifetimeStillAllows, LateWritesAreAllowed

\* After the loss only a late write adds to what was written, and it is the last.
LEMMA LateWriteStep ==
  ASSUME IInv, ~available, LostStep
  PROVE  /\ UNCHANGED <<sessionOf, phaseOf, invOf, stable, activeInv>>
         /\ \/ /\ dispatched' = dispatched
               /\ \A q \in PromptOps : collector'[q] = "doomed" => collector[q] = "doomed"
            \/ \E q \in PromptOps :
                 /\ collector[q] = "doomed" /\ dispatched' = dispatched \cup {q}
                 /\ \A p \in PromptOps : collector'[p] # "doomed"
  <1>1. UNCHANGED <<sessionOf, phaseOf, invOf, stable, activeInv>>
    BY DEF LostStep, AgentStep, AgentAnswers, CollectorFails, CollectorOverflows,
           TransportFails, OwnerStopsChild, LateWrite, UnwindPrompt, UnwindWithoutCleanup,
           AbortAndPublish, identity, memory
  <1>2. ASSUME NEW q \in PromptOps, LateWrite(q)
        PROVE  /\ collector[q] = "doomed"
               /\ dispatched' \in {dispatched, dispatched \cup {q}}
               /\ \A p \in PromptOps : collector'[p] # "doomed"
    <2>1. \A p \in PromptOps \ {q} : collector[p] # "doomed"
      BY <1>2 DEF LateWrite, IInv, UnwrittenPromptsWait
    <2> QED
      BY <1>2, <2>1 DEF LateWrite, Written, effects, IInv, TaskInv, TypeOK
  <1> QED
    BY <1>1, <1>2, LostWrites DEF About

LEMMA LostStepKeepsWrites ==
  ASSUME IInv, ~available, LateWritesAreAllowed, StableSubmittedOnce, LostStep
  PROVE  LateWritesAreAllowed' /\ StableSubmittedOnce'
  <1>1. UNCHANGED <<sessionOf, phaseOf, invOf, stable, activeInv>>
    BY LateWriteStep
  <1>2. CASE dispatched' = dispatched
    <2>1. StableSubmittedOnce'
      BY <1>1, <1>2 DEF StableSubmittedOnce
    <2> QED
      BY <1>1, <1>2, <2>1, LateWriteStep DEF LateWritesAreAllowed
  <1>3. ASSUME NEW q \in PromptOps, collector[q] = "doomed",
               dispatched' = dispatched \cup {q},
               \A p \in PromptOps : collector'[p] # "doomed"
        PROVE  LateWritesAreAllowed' /\ StableSubmittedOnce'
    BY <1>1, <1>3 DEF LateWritesAreAllowed, StableSubmittedOnce
  <1> QED
    BY <1>2, <1>3, LateWriteStep

\* The second layer holds of every reachable state.
THEOREM SessionsHold == Spec => []SessionInv
  <1>1. Init => SessionInv
    BY DEF Init, SessionInv, CreationComesFirst, CancelledTargetsSpend, Suspended,
           InitialLeavesItsMark, LifetimeStillAllows, LateWritesAreAllowed, Pending,
           PendingStates, StableSubmittedOnce, ReleasedAreSettled, Terminal,
           TerminalStates, Ops
  <1>2. IInv /\ IInv' /\ SessionInv /\ Next => SessionInv'
    <2> SUFFICES ASSUME IInv, IInv', SessionInv, Next PROVE SessionInv'
      OBVIOUS
    <2>1. CASE available /\ available' /\ LiveStep
      <3>1. LateWritesAreAllowed'
        BY <2>1 DEF IInv, UnwrittenPromptsWait, LateWritesAreAllowed
      <3> QED
        BY <2>1, <3>1, CreationsKept, CancellationsKept, MarksKept, LifetimesKept,
           StableOnceKept, ReleasesKept
        DEF SessionInv
    <2>2. CASE available /\ ~available' /\ LosingStep
      <3>1. UNCHANGED <<sessionOf, phaseOf, dispatched>>
        BY <2>2 DEF LosingStep, MarkGenerationLost, identity, effects
      <3>2. StableSubmittedOnce'
        BY <3>1 DEF SessionInv, StableSubmittedOnce
      <3> QED
        BY <2>2, <3>2, LossAllowsLateWrites
        DEF SessionInv, CreationComesFirst, CancelledTargetsSpend, InitialLeavesItsMark,
            LifetimeStillAllows, ReleasedAreSettled
    <2>3. CASE ~available /\ ~available' /\ LostStep
      BY <2>3, LostStepKeepsWrites
      DEF SessionInv, CreationComesFirst, CancelledTargetsSpend, InitialLeavesItsMark,
          LifetimeStillAllows, ReleasedAreSettled
    <2> QED
      BY <2>1, <2>2, <2>3, StepShapes
  <1>3. SessionInv /\ UNCHANGED vars => SessionInv'
    BY DEF vars, generation, identity, memory, quota, collectorVars, effects, SessionInv,
           CreationComesFirst, CancelledTargetsSpend, InitialLeavesItsMark,
           LifetimeStillAllows, LateWritesAreAllowed, StableSubmittedOnce,
           ReleasedAreSettled, Spent, Pending, Terminal
  <1>4. IInv /\ IInv' /\ SessionInv /\ [Next]_vars => SessionInv'
    BY <1>2, <1>3
  <1> QED
    BY <1>1, <1>4, InvariantHolds, PTL DEF Spec


\* session/cancel names a session and not a prompt, and still it reaches no prompt
\* but its target: a target that ended has spent its session, so no other prompt
\* has been written to it since.
THEOREM CancellationsHit == Spec => []CancelHitsItsTarget
  <1>1. IInv /\ SessionInv => CancelHitsItsTarget
    <2> SUFFICES ASSUME IInv, SessionInv, NEW x \in CancelOps, available, alive,
                        pc[x] \in {"scheduled", "sending"}, NEW p \in PromptOps,
                        p \in atAgent \/ collector[p] = "starting",
                        sessionOf[p] = sessionOf[x]
                 PROVE  p = targetOf[x]
      BY DEF CancelHitsItsTarget
    <2> DEFINE t == targetOf[x]
    <2>1. /\ sessionOf[x] = sessionOf[t]
          /\ opState[t] = "cancelling" \/ (Terminal(t) /\ Spent(sessionOf[x]))
      BY DEF SessionInv, CancelledTargetsSpend, Suspended
    <2>2. t \in PromptOps
      <3>1. x \in Ops /\ opState[x] # "unknown"
        BY DEF IInv, TaskInv, RecordsAreComplete, Ops
      <3> QED
        BY <3>1 DEF IInv, TaskInv, RecordsAreComplete
    <2>3. Pending(p) /\ active[sessionOf[p]] = p
      <3>1. pc[p] \in Holding
        BY DEF IInv, TaskInv, OutstandingIsUnanswered
      <3> QED
        BY <3>1, UnsettledIsActive
        DEF IInv, TaskInv, WorkIsUnsettled, Holding, Suspended, Ops
    <2>4. CASE opState[t] = "cancelling"
      <3>1. active[sessionOf[t]] = t
        BY <2>2, <2>4, UnsettledIsActive DEF Pending, PendingStates
      <3> QED
        BY <2>1, <2>3, <3>1
    <2>5. CASE Spent(sessionOf[x])
      BY <2>3, <2>5, NoneIsNoValue DEF Spent, Ops
    <2> QED
      BY <2>1, <2>4, <2>5
  <1> QED
    BY <1>1, InvariantHolds, SessionsHold, PTL

\* The stable instructions of a session are written at most once, in whatever order
\* its prompts are admitted, cancelled, written and settled.
THEOREM StableInstructionsOnce == Spec => []StableSubmittedOnce
  <1>1. SessionInv => StableSubmittedOnce
    BY DEF SessionInv
  <1> QED
    BY <1>1, SessionsHold, PTL

\* A continuation validated at its admission is still the right one when the lock
\* lets it through, however many prompts of other sessions ran in between.
THEOREM ContinuationsStayValid == Spec => DeltaContinuesActiveInvocation
  <1>1. IInv /\ SessionInv /\ [Next]_vars =>
          [\A p \in dispatched' \ dispatched : phaseOf[p] = "delta" =>
             /\ invOf[p] = activeInv[sessionOf[p]]
             /\ sessionOf[p] \in stable]_vars
    <2> SUFFICES ASSUME IInv, SessionInv, Next, NEW p \in dispatched' \ dispatched,
                        phaseOf[p] = "delta"
                 PROVE  invOf[p] = activeInv[sessionOf[p]] /\ sessionOf[p] \in stable
      OBVIOUS
    <2>1. CASE available /\ LiveStep
      <3>1. p \in PromptOps /\ Pending(p)
        BY <2>1, DispatchedStep, DispatchedWork
      <3> QED
        BY <2>1, <3>1 DEF SessionInv, LifetimeStillAllows
    <2>2. CASE LosingStep
      BY <2>2 DEF LosingStep, MarkGenerationLost, effects
    <2>3. CASE ~available /\ LostStep
      <3>1. p \in PromptOps /\ collector[p] = "doomed"
        BY <2>3, LateWriteStep
      <3> QED
        BY <3>1 DEF SessionInv, LateWritesAreAllowed
    <2> QED
      BY <2>1, <2>2, <2>3, StepShapes
  <1> QED
    BY <1>1, InvariantHolds, SessionsHold, PTL DEF Spec, DeltaContinuesActiveInvocation

QuotaInv ==
    available => /\ IsFiniteSet(PendingPrompts)
                 /\ reservations = Cardinality(PendingPrompts)
                 /\ reservations <= MaxQueued + 1

\* The reservations count the unsettled prompts exactly, and never more than one
\* running and MaxQueued waiting ones.
THEOREM ReservationsCountWork == Spec => []ReservationsAreExact
  <1>1. Init => QuotaInv
    <2> SUFFICES ASSUME Init PROVE QuotaInv
      OBVIOUS
    <2>1. PendingPrompts = {}
      BY DEF Init, PendingPrompts, Pending, PendingStates, Ops
    <2> QED
      BY <2>1, FS_EmptySet, LimitsAreNaturals DEF Init, QuotaInv
  <1>2. IInv /\ SessionInv /\ QuotaInv /\ Next => QuotaInv'
    <2> SUFFICES ASSUME IInv, SessionInv, QuotaInv, Next, available'
                 PROVE  /\ IsFiniteSet(PendingPrompts')
                        /\ reservations' = Cardinality(PendingPrompts')
                        /\ reservations' <= MaxQueued + 1
      BY DEF QuotaInv
    <2>1. available /\ LiveStep
      BY StepShapes
    <2>2. /\ IsFiniteSet(PendingPrompts) /\ reservations = Cardinality(PendingPrompts)
          /\ reservations <= MaxQueued + 1 /\ reservations \in Nat /\ MaxQueued \in Nat
      BY <2>1, FS_CardinalityType, LimitsAreNaturals DEF QuotaInv
    <2>3. released = TerminalPrompts
      BY <2>1 DEF SessionInv, ReleasedAreSettled, TerminalPrompts
    <2>4. CASE UNCHANGED quota /\ PendingPrompts' = PendingPrompts
      BY <2>2, <2>4 DEF quota
    <2>5. ASSUME NEW p \in PromptOps, Terminal(p), Release(p),
                 PendingPrompts' = PendingPrompts
          PROVE  reservations' = reservations
      BY <2>3, <2>5 DEF Release, TerminalPrompts
    <2>6. ASSUME NEW p \in PromptOps, opState[p] = "unknown", QueueAccepts,
                 reservations' = reservations + 1,
                 PendingPrompts' = PendingPrompts \cup {p}
          PROVE  /\ IsFiniteSet(PendingPrompts')
                 /\ reservations' = Cardinality(PendingPrompts')
                 /\ reservations' <= MaxQueued + 1
      <3>1. p \notin PendingPrompts
        BY <2>6 DEF PendingPrompts, Pending, PendingStates
      <3>2. reservations + 1 <= MaxQueued + 1
        BY <2>2, <2>6 DEF QueueAccepts
      <3> QED
        BY <2>2, <2>6, <3>1, <3>2, FS_AddElement
    <2>7. ASSUME NEW p \in PromptOps, Pending(p), Release(p),
                 PendingPrompts' = PendingPrompts \ {p}
          PROVE  /\ IsFiniteSet(PendingPrompts')
                 /\ reservations' = Cardinality(PendingPrompts')
                 /\ reservations' <= MaxQueued + 1
      <3>1. p \in PendingPrompts
        BY <2>7 DEF PendingPrompts
      <3>2. reservations' = reservations - 1
        BY <2>3, <2>7
        DEF Release, TerminalPrompts, Terminal, TerminalStates, Pending, PendingStates
      <3> QED
        BY <2>2, <2>7, <3>1, <3>2, FS_RemoveElement
    <2> QED
      BY <2>1, <2>2, <2>4, <2>5, <2>6, <2>7, QuotaStep
  <1>3. QuotaInv /\ UNCHANGED vars => QuotaInv'
    BY DEF QuotaInv, vars, generation, quota, PendingPrompts, Pending
  <1>4. QuotaInv => ReservationsAreExact
    BY DEF QuotaInv, ReservationsAreExact
  <1>5. IInv /\ SessionInv /\ QuotaInv /\ [Next]_vars => QuotaInv'
    BY <1>2, <1>3
  <1> QED
    BY <1>1, <1>4, <1>5, InvariantHolds, SessionsHold, PTL DEF Spec

=============================================================================
