--------------------------- MODULE DirectService ---------------------------
(***************************************************************************)
(* The direct-mode orchestrator, src/src/acp_proxy/direct_service.py: one  *)
(* continuity generation with its operation ledger, logical sessions,      *)
(* prompt lock, reservations, collectors and execution tasks, over one ACP *)
(* child.                                                                  *)
(*                                                                         *)
(* An action is one segment of a coroutine between two suspension points:  *)
(* asyncio runs it without interleaving, and _state_lock is never held     *)
(* across a suspension.  Timers may fire at any moment; the child may      *)
(* answer a prompt at any moment, with any stop reason, or never.  A       *)
(* request the code rejects changes no state and is not an action.         *)
(*                                                                         *)
(* pc[o] is where the execution task of operation o is suspended:          *)
(*   scheduled    create/cancel: task created, first step not yet run      *)
(*   creating     create: awaiting create_session_exact                    *)
(*   waiting      prompt: awaiting prompt_lock                             *)
(*   collecting   prompt: awaiting the collector or the execution deadline *)
(*   sending      awaiting the bounded session/cancel write                *)
(*   grace        prompt: awaiting the collector after its deadline        *)
(*   awaiting     cancel: awaiting the settlement of its target            *)
(*   reaping      awaiting a collector it has just cancelled               *)
(*   quarantining, quarantining_failed                                     *)
(*                in _quarantine_uncertain, the deferred result unpublished *)
(*   unwinding    cancelled by mark_generation_lost, cleanup still to run  *)
(***************************************************************************)
EXTENDS DirectState, Sequences

CONSTANTS
    Sessions,       \* logical session identities
    Invocations,    \* invocation identities of prompts
    CreateOps, PromptOps, CancelOps, RetireOps,  \* operation identities by kind
    MaxSessions, MaxOperations, MaxQueued,       \* DirectLimits
    None            \* Python's None

Ops == CreateOps \cup PromptOps \cup CancelOps \cup RetireOps

\* An identity is bound to one request content by its digest, hence to one kind.
ASSUME KindsDisjoint ==
    /\ CreateOps \cap PromptOps = {} /\ CreateOps \cap CancelOps = {}
    /\ CreateOps \cap RetireOps = {} /\ PromptOps \cap CancelOps = {}
    /\ PromptOps \cap RetireOps = {} /\ CancelOps \cap RetireOps = {}
ASSUME NoneIsNoValue == None \notin Ops \cup Sessions \cup Invocations \cup Phases
\* DirectLimits requires positive limits except the queue bound.
ASSUME LimitsAreNaturals ==
    /\ MaxSessions \in Nat \ {0} /\ MaxOperations \in Nat \ {0} /\ MaxQueued \in Nat

VARIABLES
    available,      \* _available; a generation is quarantined exactly when it is not
    alive,          \* acp_client.is_alive
    opState,        \* OperationRecord.state, "unknown" when not in the ledger
    sessionOf, targetOf, phaseOf, invOf,  \* content bound to the identity
    sessState, active,                    \* DirectSession.state, .active_operation_id
    stable,         \* sessions with stable_submitted
    contracts,      \* keys of invocation_contract_digests
    activeInv,      \* active_invocation_id
    pc,             \* suspension point of each execution task
    lockQueue, lockHolder,    \* prompt_lock: FIFO of scheduled prompts, owner
    reservations, released,   \* prompt_reservations, released_reservations
    collector,      \* each collector task, its verdict once it is done
    registered,     \* keys of collector_tasks
    \* Observability, never read by the actions:
    atAgent,        \* prompts the child may still be working on
    dispatched      \* prompts ever written to the child

generation    == <<available, alive>>
identity      == <<sessionOf, targetOf, phaseOf, invOf>>
memory        == <<stable, contracts, activeInv>>
lockVars      == <<lockQueue, lockHolder>>
quota         == <<reservations, released>>
collectorVars == <<collector, registered>>
effects       == <<atAgent, dispatched>>
vars == <<generation, opState, identity, sessState, active, memory, pc, lockVars,
          quota, collectorVars, effects>>

Verdicts == {"end", "cancelled", "overflow_cancelled", "overflow_other", "error"}
Collecting == {"open", "draining"}   \* draining: overflowed, cancellation sent
\* starting: created, session/prompt not yet written; doomed: cancelled in that state
CollectorStates ==
    {"none", "starting", "doomed", "reaping", "killed"} \cup Collecting \cup Verdicts
Suspended ==
    {"creating", "waiting", "collecting", "sending", "grace", "awaiting", "reaping"}
Quarantining == {"quarantining", "quarantining_failed"}
PCs == {"none", "scheduled", "unwinding", "finished"} \cup Suspended \cup Quarantining

Pending(o)  == opState[o] \in PendingStates
Terminal(o) == opState[o] \in TerminalStates

TypeOK ==
    /\ available \in BOOLEAN /\ alive \in BOOLEAN
    /\ opState \in [Ops -> OperationStates]
    /\ sessionOf \in [Ops -> Sessions \cup {None}]
    /\ targetOf \in [CancelOps -> PromptOps \cup {None}]
    /\ phaseOf \in [PromptOps -> Phases \cup {None}]
    /\ invOf \in [PromptOps -> Invocations \cup {None}]
    /\ sessState \in [Sessions -> SessionStates]
    /\ active \in [Sessions -> PromptOps \cup {None}]
    /\ stable \in SUBSET Sessions
    /\ contracts \in [Sessions -> SUBSET Invocations]
    /\ activeInv \in [Sessions -> Invocations \cup {None}]
    /\ pc \in [Ops -> PCs]
    /\ lockQueue \in Seq(PromptOps) /\ lockHolder \in PromptOps \cup {None}
    /\ reservations \in Int /\ released \in SUBSET PromptOps
    /\ collector \in [PromptOps -> CollectorStates]
    /\ registered \in SUBSET PromptOps
    /\ atAgent \in SUBSET PromptOps /\ dispatched \in SUBSET PromptOps

Init ==
    /\ available = TRUE /\ alive = TRUE
    /\ opState = [o \in Ops |-> "unknown"]
    /\ sessionOf = [o \in Ops |-> None]
    /\ targetOf = [x \in CancelOps |-> None]
    /\ phaseOf = [p \in PromptOps |-> None]
    /\ invOf = [p \in PromptOps |-> None]
    /\ sessState = [s \in Sessions |-> "absent"]
    /\ active = [s \in Sessions |-> None]
    /\ stable = {}
    /\ contracts = [s \in Sessions |-> {}]
    /\ activeInv = [s \in Sessions |-> None]
    /\ pc = [o \in Ops |-> "none"]
    /\ lockQueue = <<>> /\ lockHolder = None
    /\ reservations = 0 /\ released = {}
    /\ collector = [p \in PromptOps |-> "none"] /\ registered = {}
    /\ atAgent = {} /\ dispatched = {}

-----------------------------------------------------------------------------
(* Loss of the generation                                                  *)

\* Slip: a task that has not started is left to start after the loss.
CancelledTask_MissesNewTasks(at) == IF at \in Suspended THEN "unwinding" ELSE at

\* What task.cancel() makes of an execution task: one that has not taken its
\* first step never runs at all, a suspended one unwinds.
CancelledTask(at) ==
    IF at = "scheduled" THEN "finished"
    ELSE IF at \in Suspended THEN "unwinding" ELSE at

\* What it makes of a collector.  The task that writes session/prompt for it may
\* already be on its way, and the loop runs that one first (LateWrite).
KilledCollector(state) ==
    IF state = "starting" THEN "doomed"
    ELSE IF state \in Collecting \cup {"reaping"} THEN "killed" ELSE state

\* Slip: only work already running is settled, queued work is forgotten.
MarkGenerationLost_OnlyRunning(defer, self, next, tainted) ==
    /\ available' = FALSE
    /\ sessState' = [s \in Sessions |->
         IF sessState[s] \in {"absent", "retired"} THEN sessState[s] ELSE "lost"]
    /\ opState' = [o \in Ops |->
         IF opState[o] \in {"running", "cancelling"} /\ o \notin defer THEN "in_doubt"
         ELSE opState[o]]
    /\ pc' = [o \in Ops |-> IF o = self THEN next ELSE CancelledTask(pc[o])]
    /\ collector' = [p \in PromptOps |-> KilledCollector(collector[p])]
    /\ registered' = {}
    /\ UNCHANGED <<alive, identity, active, memory, quota, effects>>

\* mark_generation_lost, up to its gather: quarantine, lose every session but
\* the retired ones, settle every record that is not deferred, cancel every
\* other execution task and every collector.  `self` is the current task (None
\* for the lifecycle owner) and continues at `next`.  `tainted` is the session
\* whose state the caller has just overwritten with NON_REUSABLE.
MarkGenerationLost(defer, self, next, tainted) ==
    /\ available' = FALSE
    /\ sessState' = [s \in Sessions |->
         IF sessState[s] = "absent" \/ (sessState[s] = "retired" /\ s # tainted)
         THEN sessState[s] ELSE "lost"]
    /\ opState' = [o \in Ops |->
         IF Pending(o) /\ o \notin defer THEN SetTerminal(opState[o], "in_doubt")
         ELSE opState[o]]
    /\ pc' = [o \in Ops |-> IF o = self THEN next ELSE CancelledTask(pc[o])]
    /\ collector' = [p \in PromptOps |-> KilledCollector(collector[p])]
    /\ registered' = {}
    /\ UNCHANGED <<alive, identity, active, memory, quota, effects>>

\* _quarantine_uncertain up to its gather: the record of the task, and of the
\* target when the task is a cancellation, stay unpublished.
Deferred(o) == IF o \in CancelOps THEN {o, targetOf[o]} ELSE {o}
Quarantine(o, next) == MarkGenerationLost(Deferred(o), o, next, sessionOf[o])

\* The "except Exception" clause of _execute_create and _execute_prompt: a dead
\* transport loses the generation without an abort.
QuarantineUnlessDead(o, afterLoss) ==
    IF alive THEN Quarantine(o, "quarantining")
    ELSE MarkGenerationLost({}, o, afterLoss, None)

\* The results published in the "finally" of _quarantine_uncertain.
DeferredResult(o, k) ==
    IF k # o \/ o \notin CancelOps THEN "in_doubt"
    ELSE IF pc[o] = "quarantining" THEN "completed" ELSE "failed"

\* The two callers outside the execution tasks: the close handler's task after
\* the child is gone, and run()'s shutdown.
LossTask == available /\ ~alive /\ MarkGenerationLost({}, None, "none", None)
                      /\ UNCHANGED lockVars
OwnerShutdown == available /\ MarkGenerationLost({}, None, "none", None)
                           /\ UNCHANGED lockVars


\* run()'s last step kills the child.
OwnerStopsChild ==
    /\ ~available /\ (alive \/ atAgent # {})
    /\ alive' = FALSE /\ atAgent' = {}
    /\ UNCHANGED <<available, opState, identity, sessState, active, memory, pc,
                   lockVars, quota, collectorVars, dispatched>>

\* The transport fails closed: stdout ended or a protocol failure.  The child
\* may still be working.
TransportFails ==
    /\ alive /\ alive' = FALSE
    /\ UNCHANGED <<available, opState, identity, sessState, active, memory, pc,
                   lockVars, quota, collectorVars, effects>>

-----------------------------------------------------------------------------
(* How a prompt task ends                                                  *)

\* The "finally" of _execute_prompt, for a record in state `rec` and a session
\* the body left in `body`.
FinallySession(rec, body) ==
    IF ~available THEN "lost"
    ELSE IF rec \in {"cancelled", "timed_out", "in_doubt"} THEN "non_reusable"
    ELSE body

\* Slip: a reservation is given back by the cancellation and by the task.
Release_Twice(p) ==
    /\ released' = released \cup {p}
    /\ reservations' = reservations - 1

Release(p) ==
    /\ released' = released \cup {p}
    /\ reservations' = IF p \in released THEN reservations ELSE reservations - 1

Finally(p, rec, body) ==
    /\ sessState' = [sessState EXCEPT ![sessionOf[p]] = FinallySession(rec, body)]
    /\ active' = [active EXCEPT ![sessionOf[p]] = IF @ = p THEN None ELSE @]
    /\ Release(p)
    /\ pc' = [pc EXCEPT ![p] = "finished"]
    /\ lockHolder' = IF lockHolder = p THEN None ELSE lockHolder

\* A prompt that settles while the generation is available.
Settle(p, state, body) ==
    LET rec == SetTerminal(opState[p], state) IN
    /\ opState' = [opState EXCEPT ![p] = rec]
    /\ Finally(p, rec, body)
    /\ registered' = registered \ {p}
    /\ UNCHANGED <<generation, identity, lockQueue, collector, effects>>

\* An exception leaves the body: prompt_lock is released first, and the handler
\* reaches mark_generation_lost before any other task runs.
PromptRaises(p) ==
    /\ QuarantineUnlessDead(p, "unwinding")
    /\ lockHolder' = None /\ UNCHANGED lockQueue

\* EvidenceLimitExceeded with an unsettled cancellation never asks whether the
\* transport is alive.
PromptOverflows(p) ==
    /\ Quarantine(p, "quarantining")
    /\ lockHolder' = None /\ UNCHANGED lockQueue

\* The verdicts handled alike before and after the deadline.
RaiseVerdict(p) ==
    \/ /\ collector[p] = "overflow_cancelled"
       /\ Settle(p, "failed", "non_reusable") /\ UNCHANGED memory
    \/ collector[p] = "overflow_other" /\ PromptOverflows(p)
    \/ collector[p] = "error" /\ PromptRaises(p)

-----------------------------------------------------------------------------
(* Session creation                                                        *)

AdmitCreate(c, s) ==
    /\ available /\ alive
    /\ LedgerAccepts(opState, c, MaxOperations)
    /\ sessState[s] = "absent"
    /\ Cardinality({t \in Sessions : sessState[t] # "absent"}) < MaxSessions
    /\ opState' = [opState EXCEPT ![c] = "accepted"]
    /\ sessionOf' = [sessionOf EXCEPT ![c] = s]
    /\ sessState' = [sessState EXCEPT ![s] = "creating"]
    /\ pc' = [pc EXCEPT ![c] = "scheduled"]
    /\ UNCHANGED <<generation, targetOf, phaseOf, invOf, active, memory, lockVars,
                   quota, collectorVars, effects>>

StartCreate(c) ==
    /\ pc[c] = "scheduled"
    /\ pc' = [pc EXCEPT ![c] = "creating"]
    /\ opState' = [opState EXCEPT ![c] = "running"]
    /\ UNCHANGED <<generation, identity, sessState, active, memory, lockVars, quota,
                   collectorVars, effects>>

\* create_session_exact returned with the requested model, or was refused
\* (DirectConflict, ModelAcknowledgementError).  The answer may have arrived
\* before the transport failed, hence no guard on alive.
CreateSettles(c, state, session) ==
    /\ pc[c] = "creating"
    /\ pc' = [pc EXCEPT ![c] = "finished"]
    /\ opState' = [opState EXCEPT ![c] = SetTerminal(@, state)]
    /\ sessState' = [sessState EXCEPT ![sessionOf[c]] = session]
    /\ UNCHANGED <<generation, identity, active, memory, lockVars, quota,
                   collectorVars, effects>>
CreateCompletes(c) == CreateSettles(c, "completed", "ready")
CreateRefused(c)   == CreateSettles(c, "failed", "non_reusable")

CreateTimesOut(c) ==
    pc[c] = "creating" /\ Quarantine(c, "quarantining") /\ UNCHANGED lockVars
CreateRaises(c) ==
    pc[c] = "creating" /\ QuarantineUnlessDead(c, "finished") /\ UNCHANGED lockVars

-----------------------------------------------------------------------------
(* Prompts                                                                 *)

\* Slip: a continuation may name any invocation the session ever settled.
LifetimeAllows_AnyKnownInvocation(s, phase, i) ==
    \/ phase = "initial" /\ s \notin stable /\ activeInv[s] = None
    \/ phase = "invocation" /\ s \in stable /\ i \notin contracts[s]
    \/ phase = "delta" /\ s \in stable /\ i \in contracts[s]

\* Slip: an initial request is taken at its word.
LifetimeAllows_AnyInitial(s, phase, i) ==
    \/ phase = "initial"
    \/ phase = "invocation" /\ s \in stable /\ i \notin contracts[s]
    \/ phase = "delta" /\ s \in stable /\ i \in contracts[s] /\ i = activeInv[s]

\* _validate_prompt_lifetime, the digests abstracted to the identities they bind.
LifetimeAllows(s, phase, i) ==
    \/ phase = "initial" /\ s \notin stable /\ activeInv[s] = None
    \/ phase = "invocation" /\ s \in stable /\ i \notin contracts[s]
    \/ phase = "delta" /\ s \in stable /\ i \in contracts[s] /\ i = activeInv[s]

QueueAccepts ==
    reservations > 0 =>
        (IF reservations - 1 > 0 THEN reservations - 1 ELSE 0) < MaxQueued

AdmitPrompt(p, s, phase, i) ==
    /\ available /\ alive
    /\ LedgerAccepts(opState, p, MaxOperations)
    /\ active[s] = None /\ sessState[s] = "ready"
    /\ LifetimeAllows(s, phase, i)
    /\ QueueAccepts
    /\ opState' = [opState EXCEPT ![p] = IF reservations > 0 THEN "queued" ELSE "accepted"]
    /\ sessionOf' = [sessionOf EXCEPT ![p] = s]
    /\ phaseOf' = [phaseOf EXCEPT ![p] = phase]
    /\ invOf' = [invOf EXCEPT ![p] = i]
    /\ reservations' = reservations + 1
    /\ active' = [active EXCEPT ![s] = p]
    /\ sessState' = [sessState EXCEPT ![s] = "busy"]
    /\ pc' = [pc EXCEPT ![p] = "waiting"]
    /\ lockQueue' = Append(lockQueue, p)
    /\ UNCHANGED <<generation, targetOf, memory, lockHolder, released, collectorVars,
                   effects>>

Acquires(p) ==
    /\ pc[p] = "waiting" /\ lockHolder = None
    /\ lockQueue # <<>> /\ Head(lockQueue) = p
    /\ lockQueue' = Tail(lockQueue)

\* Slip: the early return forgets to release the lock.
SkipSettledPrompt_KeepsLock(p) ==
    /\ Acquires(p) /\ Terminal(p)
    /\ lockHolder' = p
    /\ pc' = [pc EXCEPT ![p] = "finished"]
    /\ UNCHANGED <<generation, opState, identity, sessState, active, memory, quota,
                   collectorVars, effects>>

\* The prompt was settled while it waited: only the "finally" runs.
SkipSettledPrompt(p) ==
    /\ Acquires(p) /\ Terminal(p)
    /\ Finally(p, opState[p], sessState[sessionOf[p]])
    /\ UNCHANGED <<generation, opState, identity, memory, collectorVars, effects>>

\* Slip: a record settled during the wait is left alone, but its prompt goes on.
Dispatch_IgnoresCancellation(p) ==
    /\ Acquires(p)
    /\ lockHolder' = p
    /\ opState' = [opState EXCEPT ![p] =
         IF @ \in {"accepted", "queued"} THEN "running" ELSE @]
    /\ pc' = [pc EXCEPT ![p] = "collecting"]
    /\ registered' = registered \cup {p}
    /\ collector' = [collector EXCEPT ![p] = "starting"]
    /\ UNCHANGED <<generation, identity, sessState, active, memory, quota, effects>>

\* The lock is acquired, the record is running and the collector is created; the
\* prompt itself is written in a later turn of the loop.
Dispatch(p) ==
    /\ Acquires(p) /\ ~Terminal(p)
    /\ lockHolder' = p
    /\ opState' = [opState EXCEPT ![p] = IF @ = "cancelling" THEN @ ELSE "running"]
    /\ pc' = [pc EXCEPT ![p] = "collecting"]
    /\ registered' = registered \cup {p}
    /\ collector' = [collector EXCEPT ![p] = "starting"]
    /\ UNCHANGED <<generation, identity, sessState, active, memory, quota, effects>>

\* session/prompt reaches the child: from here on it may work on the prompt.
Written(p) == atAgent' = atAgent \cup {p} /\ dispatched' = dispatched \cup {p}

\* The collector's first turn creates the task that writes session/prompt, the
\* next one runs it; a dead transport refuses the write.
WritePrompt(p) ==
    /\ collector[p] = "starting"
    /\ IF alive
       THEN collector' = [collector EXCEPT ![p] = "open"] /\ Written(p)
       ELSE collector' = [collector EXCEPT ![p] = "error"] /\ UNCHANGED effects
    /\ UNCHANGED <<generation, opState, identity, sessState, active, memory, pc,
                   lockVars, quota, registered>>

\* The generation was lost in those turns.  A collector that never ran writes
\* nothing; one that did has a writing task ahead of its own cancellation, and
\* a transport still open takes the prompt.
LateWrite(p) ==
    /\ collector[p] = "doomed"
    /\ collector' = [collector EXCEPT ![p] = "killed"]
    /\ UNCHANGED effects \/ (alive /\ Written(p))
    /\ UNCHANGED <<generation, opState, identity, sessState, active, memory, pc,
                   lockVars, quota, registered>>

\* What the collector makes of a known stop reason.
Verdict(state, stop) ==
    IF state = "open" THEN stop
    ELSE IF stop = "cancelled" THEN "overflow_cancelled" ELSE "overflow_other"

\* The child settles the prompt with a known stop reason.
AgentAnswers(p, stop) ==
    /\ alive /\ p \in atAgent
    /\ atAgent' = atAgent \ {p}
    /\ collector' = [collector EXCEPT ![p] =
         IF @ \in Collecting THEN Verdict(@, stop) ELSE @]
    /\ UNCHANGED <<generation, opState, identity, sessState, active, memory, pc,
                   lockVars, quota, registered, dispatched>>

\* The collector raises: an answer without a known stop reason, the transport's
\* failure, its own timeout, or a check that comes before the write.
CollectorFails(p, answered) ==
    /\ collector[p] \in Collecting \cup {"starting"}
    /\ collector' = [collector EXCEPT ![p] = "error"]
    /\ atAgent' = IF answered THEN atAgent \ {p} ELSE atAgent
    /\ UNCHANGED <<generation, opState, identity, sessState, active, memory, pc,
                   lockVars, quota, registered, dispatched>>

\* The evidence outgrows a limit: the collector cancels the prompt and goes on
\* reading, or gives up when the cancellation cannot be sent.
CollectorOverflows(p) ==
    /\ collector[p] = "open"
    /\ \E next \in {"draining", "overflow_other"} :
         collector' = [collector EXCEPT ![p] = next]
    /\ UNCHANGED <<generation, opState, identity, sessState, active, memory, pc,
                   lockVars, quota, registered, effects>>

\* Slip: a normal stop settles the prompt although it is being cancelled.
PromptReturns_ForgetsCancelling(p) ==
    /\ pc[p] = "collecting" /\ collector[p] \in {"end", "cancelled"}
    /\ LET s == sessionOf[p] IN
       /\ Settle(p, "completed", "ready")
       /\ stable' = stable \cup {s}
       /\ contracts' = [contracts EXCEPT ![s] = @ \cup {invOf[p]}]
       /\ activeInv' = [activeInv EXCEPT ![s] = invOf[p]]

\* The collector returned in time.
PromptReturns(p) ==
    /\ pc[p] = "collecting" /\ collector[p] \in {"end", "cancelled"}
    /\ IF opState[p] # "cancelling" /\ collector[p] = "end"
       THEN LET s == sessionOf[p] IN
            /\ Settle(p, "completed", "ready")
            /\ stable' = IF phaseOf[p] = "initial" THEN stable \cup {s} ELSE stable
            /\ contracts' = IF phaseOf[p] = "delta" THEN contracts
                            ELSE [contracts EXCEPT ![s] = @ \cup {invOf[p]}]
            /\ activeInv' = [activeInv EXCEPT ![s] = invOf[p]]
       ELSE /\ Settle(p, IF collector[p] = "cancelled" THEN "cancelled" ELSE "in_doubt",
                      "non_reusable")
            /\ UNCHANGED memory
PromptFails(p) == pc[p] = "collecting" /\ RaiseVerdict(p)

\* _settle_deadline: the deadline may be noticed in the very iteration in which
\* the collector finished.  No timer comes between the creation of the collector
\* and the write of its prompt: the loop runs both first.
DeadlineExpires(p) ==
    /\ pc[p] = "collecting" /\ collector[p] # "starting"
    /\ pc' = [pc EXCEPT ![p] = "sending"]
    /\ opState' = [opState EXCEPT ![p] = "cancelling"]
    /\ UNCHANGED <<generation, identity, sessState, active, memory, lockVars, quota,
                   collectorVars, effects>>

DeadlineCancelSent(p) ==
    /\ pc[p] = "sending"
    /\ pc' = [pc EXCEPT ![p] = "grace"]
    /\ UNCHANGED <<generation, opState, identity, sessState, active, memory, lockVars,
                   quota, collectorVars, effects>>

DeadlineCancelFails(p) == pc[p] = "sending" /\ PromptRaises(p)

\* Slip: any stop reason after the deadline counts as its settlement.
GraceSettles_AnyStop(p) ==
    /\ pc[p] = "grace"
    /\ \/ /\ collector[p] \in {"cancelled", "end"}
          /\ Settle(p, "timed_out", "non_reusable") /\ UNCHANGED memory
       \/ RaiseVerdict(p)

GraceSettles(p) ==
    /\ pc[p] = "grace"
    /\ \/ /\ collector[p] = "cancelled"
          /\ Settle(p, "timed_out", "non_reusable") /\ UNCHANGED memory
       \/ /\ collector[p] = "end"
          /\ Quarantine(p, "quarantining") /\ UNCHANGED lockVars
       \/ RaiseVerdict(p)

\* The grace is over: the collector is cancelled and awaited, the lock kept.
GraceExpires(p) ==
    /\ pc[p] = "grace"
    /\ pc' = [pc EXCEPT ![p] = "reaping"]
    /\ collector' = [collector EXCEPT ![p] = IF @ \in Collecting THEN "reaping" ELSE @]
    /\ UNCHANGED <<generation, opState, identity, sessState, active, memory, lockVars,
                   quota, registered, effects>>

\* Slip: the unknown settlement is reported without losing the generation.
PromptReaps_SettlesInPlace(p) ==
    /\ pc[p] = "reaping"
    /\ Settle(p, "in_doubt", "non_reusable") /\ UNCHANGED memory

PromptReaps(p) ==
    pc[p] = "reaping" /\ Quarantine(p, "quarantining") /\ UNCHANGED lockVars

-----------------------------------------------------------------------------
(* Cancellation and retirement                                             *)

AdmitsCancel(x, p) ==
    /\ available /\ alive
    /\ opState[p] # "unknown"
    /\ LedgerAccepts(opState, x, MaxOperations)
    /\ sessionOf' = [sessionOf EXCEPT ![x] = sessionOf[p]]
    /\ targetOf' = [targetOf EXCEPT ![x] = p]
    /\ UNCHANGED <<generation, phaseOf, invOf, memory, lockVars, collectorVars, effects>>

\* The target never reached the child: it is settled here, its task is left to
\* find out when it gets the lock.
AdmitCancelBeforeDispatch(x, p) ==
    /\ AdmitsCancel(x, p)
    /\ opState[p] \in {"accepted", "queued"}
    /\ opState' = [opState EXCEPT ![p] = "cancelled", ![x] = "completed"]
    /\ active' = [active EXCEPT ![sessionOf[p]] = None]
    /\ sessState' = [sessState EXCEPT ![sessionOf[p]] = "ready"]
    /\ Release(p)
    /\ UNCHANGED pc

AdmitCancelOfSettled(x, p) ==
    /\ AdmitsCancel(x, p)
    /\ Terminal(p)
    /\ opState' = [opState EXCEPT ![x] = "completed"]
    /\ UNCHANGED <<sessState, active, pc, quota>>

AdmitCancelOfRunning(x, p) ==
    /\ AdmitsCancel(x, p)
    /\ opState[p] \in {"running", "cancelling"}
    /\ opState' = [opState EXCEPT ![p] = "cancelling", ![x] = "accepted"]
    /\ pc' = [pc EXCEPT ![x] = "scheduled"]
    /\ UNCHANGED <<sessState, active, quota>>

\* session/cancel may be written before the prompt it is meant for (Python 3.12
\* and later, where wait_for starts no task of its own); the child then has
\* nothing to cancel and the target ends by its answer or by the grace.
StartCancel(x) ==
    /\ pc[x] = "scheduled"
    /\ pc' = [pc EXCEPT ![x] = "sending"]
    /\ opState' = [opState EXCEPT ![x] = "running"]
    /\ UNCHANGED <<generation, identity, sessState, active, memory, lockVars, quota,
                   collectorVars, effects>>

CancelSent(x) ==
    /\ pc[x] = "sending"
    /\ pc' = [pc EXCEPT ![x] = "awaiting"]
    /\ UNCHANGED <<generation, opState, identity, sessState, active, memory, lockVars,
                   quota, collectorVars, effects>>

\* The write failed or outlived its bound.
CancelSendFails(x) ==
    pc[x] = "sending" /\ Quarantine(x, "quarantining_failed") /\ UNCHANGED lockVars

CancelObservesTarget(x) ==
    /\ pc[x] = "awaiting" /\ Terminal(targetOf[x])
    /\ pc' = [pc EXCEPT ![x] = "finished"]
    /\ opState' = [opState EXCEPT ![x] = SetTerminal(@, "completed")]
    /\ UNCHANGED <<generation, identity, sessState, active, memory, lockVars, quota,
                   collectorVars, effects>>

\* The grace is over.  A collector still registered is cancelled and awaited;
\* one already taken by another task is not.
CancelTakesCollector(x) ==
    /\ pc[x] = "awaiting" /\ ~Terminal(targetOf[x]) /\ targetOf[x] \in registered
    /\ collector[targetOf[x]] # "starting"
    /\ pc' = [pc EXCEPT ![x] = "reaping"]
    /\ registered' = registered \ {targetOf[x]}
    /\ collector' = [collector EXCEPT ![targetOf[x]] =
         IF @ \in Collecting THEN "reaping" ELSE @]
    /\ UNCHANGED <<generation, opState, identity, sessState, active, memory, lockVars,
                   quota, effects>>

\* The collector ended; the task that cancelled it runs before the prompt task
\* it unwinds, so the generation is quarantined before the lock is released.
CancelGivesUp(x) ==
    /\ \/ pc[x] = "reaping"
       \/ pc[x] = "awaiting" /\ ~Terminal(targetOf[x]) /\ targetOf[x] \notin registered
    /\ Quarantine(x, "quarantining") /\ UNCHANGED lockVars

AdmitRetire(r, s) ==
    /\ available /\ alive
    /\ LedgerAccepts(opState, r, MaxOperations)
    /\ sessState[s] \notin {"absent", "retired"} /\ active[s] = None
    /\ sessState' = [sessState EXCEPT ![s] = "retired"]
    /\ opState' = [opState EXCEPT ![r] = "completed"]
    /\ sessionOf' = [sessionOf EXCEPT ![r] = s]
    /\ UNCHANGED <<generation, targetOf, phaseOf, invOf, active, memory, pc, lockVars,
                   quota, collectorVars, effects>>

-----------------------------------------------------------------------------
(* After the loss                                                          *)

\* A cancelled task unwinds: the prompt task through its "finally", the others
\* with nothing to clean up.  lockQueue is read by nobody any more and is left
\* as it was.
UnwindPrompt(p) ==
    /\ p \in PromptOps /\ pc[p] = "unwinding"
    /\ Finally(p, opState[p], sessState[sessionOf[p]])
    /\ UNCHANGED <<generation, opState, identity, memory, lockQueue, collectorVars,
                   effects>>

\* A create or cancel task, or a prompt task that had not taken its first step.
UnwindWithoutCleanup(o) ==
    /\ pc[o] = "unwinding"
    /\ o \in PromptOps => \E k \in DOMAIN lockQueue : lockQueue[k] = o
    /\ pc' = [pc EXCEPT ![o] = "finished"]
    /\ UNCHANGED <<generation, opState, identity, sessState, active, memory, lockVars,
                   quota, collectorVars, effects>>

\* Slip: the deferred results are published before the child is killed.
AbortAndPublish_BeforeKill(o) ==
    /\ pc[o] \in Quarantining
    /\ opState' = [k \in Ops |->
         IF k \in Deferred(o) THEN SetTerminal(opState[k], DeferredResult(o, k))
         ELSE opState[k]]
    /\ pc' = [pc EXCEPT ![o] = "finished"]
    /\ UNCHANGED <<generation, identity, sessState, active, memory, lockVars, quota,
                   collectorVars, effects>>

\* The gather of _quarantine_uncertain is over, the child is killed, and only
\* then are the deferred results published; a prompt task goes on to its
\* "finally".
AbortAndPublish(o) ==
    /\ pc[o] \in Quarantining
    /\ \A k \in Ops : pc[k] # "unwinding"
    /\ \A p \in PromptOps : collector[p] # "doomed"
    /\ alive' = FALSE /\ atAgent' = {}
    /\ opState' = [k \in Ops |->
         IF k \in Deferred(o) THEN SetTerminal(opState[k], DeferredResult(o, k))
         ELSE opState[k]]
    /\ IF o \in PromptOps
       THEN Finally(o, SetTerminal(opState[o], "in_doubt"), sessState[sessionOf[o]])
       ELSE /\ pc' = [pc EXCEPT ![o] = "finished"]
            /\ UNCHANGED <<sessState, active, quota, lockHolder>>
    /\ UNCHANGED <<available, identity, memory, lockQueue, collectorVars, dispatched>>

-----------------------------------------------------------------------------
Admission ==
    \/ \E c \in CreateOps, s \in Sessions : AdmitCreate(c, s)
    \/ \E p \in PromptOps, s \in Sessions, phase \in Phases, i \in Invocations :
         AdmitPrompt(p, s, phase, i)
    \/ \E x \in CancelOps, p \in PromptOps :
         \/ AdmitCancelBeforeDispatch(x, p)
         \/ AdmitCancelOfSettled(x, p)
         \/ AdmitCancelOfRunning(x, p)
    \/ \E r \in RetireOps, s \in Sessions : AdmitRetire(r, s)

CreateStep(c) ==
    \/ StartCreate(c) \/ CreateCompletes(c) \/ CreateRefused(c)
    \/ CreateTimesOut(c) \/ CreateRaises(c)

PromptStep(p) ==
    \/ SkipSettledPrompt(p) \/ Dispatch(p) \/ WritePrompt(p) \/ LateWrite(p)
    \/ PromptReturns(p) \/ PromptFails(p)
    \/ DeadlineExpires(p) \/ DeadlineCancelSent(p) \/ DeadlineCancelFails(p)
    \/ GraceSettles(p) \/ GraceExpires(p) \/ PromptReaps(p)

CancelStep(x) ==
    \/ StartCancel(x) \/ CancelSent(x) \/ CancelSendFails(x)
    \/ CancelObservesTarget(x) \/ CancelTakesCollector(x) \/ CancelGivesUp(x)

\* Steps of the execution task of o.
TaskStep(o) ==
    \/ o \in CreateOps /\ CreateStep(o)
    \/ o \in PromptOps /\ PromptStep(o)
    \/ o \in CancelOps /\ CancelStep(o)
    \/ UnwindPrompt(o) \/ UnwindWithoutCleanup(o) \/ AbortAndPublish(o)

AgentStep ==
    \E p \in PromptOps :
        \/ \E stop \in {"end", "cancelled"} : AgentAnswers(p, stop)
        \/ \E answered \in BOOLEAN : CollectorFails(p, answered)
        \/ CollectorOverflows(p)

Next ==
    \/ Admission
    \/ \E o \in Ops : TaskStep(o)
    \/ AgentStep
    \/ TransportFails \/ LossTask \/ OwnerShutdown \/ OwnerStopsChild

Spec == Init /\ [][Next]_vars

\* The event loop runs every ready task, its timers bound every wait of a task,
\* a failed transport calls its close handler, and an owner that has lost its
\* generation stops its child.  Nothing is assumed of the child or of callers.
Fairness ==
    /\ \A o \in Ops : WF_vars(TaskStep(o))
    /\ WF_vars(LossTask) /\ WF_vars(OwnerStopsChild)

FairSpec == Spec /\ Fairness

-----------------------------------------------------------------------------
(* Properties                                                              *)

PendingPrompts == {p \in PromptOps : Pending(p)}

\* While the generation is available the child works on at most one prompt, and
\* that prompt is unsettled, owns the prompt lock and is the active operation
\* of its busy session: nothing can be settled, admitted or dispatched over
\* work that may still have effects (prompt_lock, _settle_deadline, _execute_cancel).
OutstandingIsOwned ==
    available => \A p \in atAgent :
        /\ lockHolder = p /\ Pending(p)
        /\ active[sessionOf[p]] = p

\* One unsettled prompt per session, and it is the session's active operation
\* (admit_prompt, admit_cancel and the "finally" of _execute_prompt agree).
ActiveIsThePendingPrompt ==
    available => \A s \in Sessions, p \in PromptOps :
        active[s] = p <=> (Pending(p) /\ sessionOf[p] = s)

\* A reservation is held by exactly the unsettled prompts, so the queue bound
\* counts real work: released once, whether by a cancellation or by the task.
ReservationsAreExact ==
    available => /\ reservations = Cardinality(PendingPrompts)
                 /\ reservations <= MaxQueued + 1

\* A prompt is reported as what the child said: completed after a normal stop,
\* timed_out only after stopReason=cancelled, failed only after an overflow that
\* settled, cancelled without that answer only if it was never dispatched.
SettledTruthfully ==
    \A p \in PromptOps :
        /\ opState[p] = "completed" => collector[p] = "end"
        /\ opState[p] = "timed_out" => collector[p] = "cancelled"
        /\ opState[p] = "failed"    => collector[p] = "overflow_cancelled"
        /\ opState[p] = "cancelled" => collector[p] = "cancelled" \/ p \notin dispatched

\* session/cancel names a session, not a prompt: whenever a cancellation is being
\* written, the only prompt of that session the child holds, or is about to be
\* given, is the target; a cancellation that comes before its target's prompt,
\* or after its end, hits nothing (admit_cancel, _execute_cancel).
CancelHitsItsTarget ==
    \A x \in CancelOps : (available /\ alive /\ pc[x] \in {"scheduled", "sending"}) =>
        \A p \in PromptOps :
            (p \in atAgent \/ collector[p] = "starting") /\ sessionOf[p] = sessionOf[x]
            => p = targetOf[x]

\* The stable instructions reach the child at most once per session.
StableSubmittedOnce ==
    \A p, q \in dispatched :
        phaseOf[p] = "initial" /\ phaseOf[q] = "initial" /\ sessionOf[p] = sessionOf[q]
        => p = q

\* Every admitted operation of a lost generation that no task still has to
\* publish is settled (mark_generation_lost with its deferrals).
LossSettlesEverything ==
    ~available => \A o \in Ops : Pending(o) =>
        \E k \in Ops : pc[k] \in Quarantining /\ o \in Deferred(k)

\* A settled operation never changes its state again (set_terminal, and the
\* unguarded assignments of RUNNING and CANCELLING).
SettledForever ==
    [][\A o \in Ops : Terminal(o) => opState'[o] = opState[o]]_vars

\* A prompt is written to the child at most once, onto an idle child, and never
\* after its settlement; a prompt under way when its generation is lost may still
\* be written, and is then unsettled or in doubt.
DispatchIsFresh ==
    [][\A p \in atAgent' \ atAgent :
         /\ p \notin dispatched /\ atAgent = {}
         /\ Pending(p) \/ (~available /\ opState[p] = "in_doubt")]_vars

\* When a continuation is written to the child it still names the invocation its
\* session settled last, although it was validated when it was admitted.
DeltaContinuesActiveInvocation ==
    [][\A p \in dispatched' \ dispatched : phaseOf[p] = "delta" =>
         /\ invOf[p] = activeInv[sessionOf[p]]
         /\ sessionOf[p] \in stable]_vars

\* A retired session admits no further work and is not retired twice: ADR-012,
\* "Retirement rejects active, unknown, already-retired, and later work".
RetirementRejectsLaterWork ==
    [][\A r \in RetireOps, o \in Ops :
         (Terminal(r) /\ o \notin CancelOps /\ opState[o] = "unknown" /\ opState'[o] # "unknown")
         => sessionOf'[o] # sessionOf[r]]_vars

\* The tombstone of a session whose creation had settled stays while its
\* generation lives: ADR-012, "retired session tombstones are never evicted".
TombstonesStay ==
    [][\A s \in Sessions :
         (/\ sessState[s] = "retired" /\ available'
          /\ \A c \in CreateOps : sessionOf[c] = s => Terminal(c))
         => sessState'[s] = "retired"]_vars

\* Every admitted operation is eventually settled, whatever the child does: again
\* and again no record is open, and a settled one stays so (SettledForever).
EveryOperationSettles == []<>(\A o \in Ops : ~Pending(o))


-----------------------------------------------------------------------------
(* The inductive invariant                                                 *)

Holding == {"collecting", "sending", "grace", "reaping"}

\* The record of an admitted operation is complete, a cancellation's target is
\* admitted, and only admitted operations have a task.
RecordsAreComplete ==
    \A o \in Ops :
        IF opState[o] = "unknown" THEN pc[o] = "none"
        ELSE /\ sessionOf[o] \in Sessions
             /\ o \in PromptOps => invOf[o] \in Invocations
             /\ o \in CancelOps =>
                  targetOf[o] \in PromptOps /\ opState[targetOf[o]] # "unknown"

\* A lost generation has no task at work, an available one none in its throes.
TasksFollowGeneration ==
    \A o \in Ops : IF available THEN pc[o] \notin Quarantining \cup {"unwinding"}
                   ELSE pc[o] \notin Suspended \cup {"scheduled"}

\* A task at work has an unsettled record; only a prompt waiting for the lock
\* may have been settled behind its back.
WorkIsUnsettled ==
    \A o \in Ops : pc[o] \in (Suspended \ {"waiting"}) \cup {"scheduled"} => Pending(o)

\* An unsettled prompt waits for the lock or holds it.
PromptsWaitOrHold ==
    available => \A p \in PromptOps :
        /\ opState[p] \in {"accepted", "queued"} => pc[p] = "waiting"
        /\ opState[p] \in {"running", "cancelling"} => pc[p] \in Holding
        /\ pc[p] \in Holding <=> lockHolder = p

\* What the child may still be working on, or is about to be given, has a task
\* that holds the lock and has not been told of an answer.
OutstandingIsUnanswered ==
    available => \A p \in PromptOps : p \in atAgent \/ collector[p] = "starting" =>
        pc[p] \in Holding /\ collector[p] \notin {"end", "cancelled", "overflow_cancelled"}

\* A prompt that has been written, or is about to be, has had the lock.
DispatchedHaveHeld ==
    \A p \in PromptOps : p \in dispatched \/ collector[p] \in {"starting", "doomed"}
        => pc[p] \notin {"none", "waiting"}

TaskInv ==
    /\ TypeOK /\ RecordsAreComplete /\ TasksFollowGeneration /\ WorkIsUnsettled
    /\ PromptsWaitOrHold /\ OutstandingIsUnanswered /\ ActiveIsThePendingPrompt
    /\ DispatchedHaveHeld

\* One prompt at most is about to be written, over an idle child and for the first
\* time; the loss of the generation leaves it unsettled or in doubt.
UnwrittenPromptsWait ==
    \A p \in PromptOps :
        /\ collector[p] = "starting" => available
        /\ collector[p] = "doomed" =>
             ~available /\ (Pending(p) \/ opState[p] = "in_doubt")
        /\ collector[p] \in {"starting", "doomed"} =>
             /\ p \notin dispatched /\ atAgent = {}
             /\ \A q \in PromptOps : collector[q] \in {"starting", "doomed"} => q = p

IInv == TaskInv /\ UnwrittenPromptsWait

\* The second layer, inductive over the first: what a live generation remembers
\* of its sessions.

\* No prompt is admitted to the session any more.
Spent(s) == active[s] = None /\ sessState[s] \in {"non_reusable", "retired"}

\* A session has one creation, and no prompt before that has settled.
CreationComesFirst ==
    available =>
        /\ \A o \in CreateOps \cup PromptOps :
             opState[o] # "unknown" => sessState[sessionOf[o]] # "absent"
        /\ \A c, d \in CreateOps :
             opState[c] # "unknown" /\ opState[d] # "unknown" /\ sessionOf[c] = sessionOf[d]
             => c = d
        /\ \A c \in CreateOps : pc[c] \in {"scheduled", "creating"} =>
             /\ sessState[sessionOf[c]] \in {"creating", "retired"}
             /\ \A p \in PromptOps :
                  opState[p] # "unknown" => sessionOf[p] # sessionOf[c]

\* A cancellation at work names the session of its target, which is being
\* cancelled, or has ended and spent that session.
CancelledTargetsSpend ==
    available => \A x \in CancelOps : pc[x] \in Suspended \cup {"scheduled"} =>
        /\ sessionOf[x] = sessionOf[targetOf[x]]
        /\ \/ opState[targetOf[x]] = "cancelling"
           \/ Terminal(targetOf[x]) /\ Spent(sessionOf[x])

\* An initial prompt once written is on its way, is remembered, or has spent the
\* session.
InitialLeavesItsMark ==
    available => \A p \in dispatched : phaseOf[p] = "initial" =>
        Pending(p) \/ sessionOf[p] \in stable \/ Spent(sessionOf[p])

\* What _validate_prompt_lifetime saw at the admission of a prompt still holds
\* for as long as the prompt is unsettled.
LifetimeStillAllows ==
    available => \A q \in PromptOps : Pending(q) =>
        /\ phaseOf[q] = "initial" =>
             /\ sessionOf[q] \notin stable
             /\ \A p \in dispatched :
                  phaseOf[p] = "initial" /\ sessionOf[p] = sessionOf[q] => p = q
        /\ phaseOf[q] = "delta" =>
             sessionOf[q] \in stable /\ invOf[q] = activeInv[sessionOf[q]]

\* A reservation is given back when its prompt settles, never before or again.
ReleasedAreSettled == available => released = {p \in PromptOps : Terminal(p)}

\* What was validated still holds for a prompt written after the loss.
LateWritesAreAllowed ==
    \A q \in PromptOps : collector[q] = "doomed" =>
        /\ phaseOf[q] = "initial" =>
             \A p \in dispatched :
                 ~(phaseOf[p] = "initial" /\ sessionOf[p] = sessionOf[q])
        /\ phaseOf[q] = "delta" =>
             sessionOf[q] \in stable /\ invOf[q] = activeInv[sessionOf[q]]

SessionInv ==
    /\ CreationComesFirst /\ CancelledTargetsSpend /\ InitialLeavesItsMark
    /\ LifetimeStillAllows /\ LateWritesAreAllowed /\ StableSubmittedOnce
    /\ ReleasedAreSettled
=============================================================================
