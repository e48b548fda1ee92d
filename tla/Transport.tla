----------------------------- MODULE Transport -----------------------------
(***************************************************************************)
(* The JSON-RPC transport over the child's pipes,                          *)
(* src/src/acp_proxy/transport.py: outbound requests and the futures their *)
(* callers await, the reader loop, the tasks that answer the agent's own   *)
(* requests, the one-way loss of continuity and the orderly stop.          *)
(*                                                                         *)
(* An action is one segment of a coroutine between two suspension points.  *)
(* The wire is not a variable: the reader may read, at any moment, any     *)
(* line the child may have sent by then.  A request is answered only after *)
(* its drain returned: StreamWriter.drain resumes before the last bytes of *)
(* the line leave the process, and the event loop runs the resumed caller  *)
(* before it polls the child's output again.  What the observers of the    *)
(* client do with a message is either nothing or a call of fail_closed.    *)
(***************************************************************************)
EXTENDS Naturals, FiniteSets

CONSTANTS
    Calls,       \* outbound requests, one JSON-RPC identifier each
    Callbacks,   \* requests the agent sends
    Owners,      \* coroutines that stop or abort the transport
    MaxTasks     \* MAX_INCOMING_REQUEST_TASKS

ASSUME MaxTasksIsPositive == MaxTasks \in Nat \ {0}

VARIABLES
    strict,     \* _strict_response_correlation: direct mode, or the legacy one
    child,      \* _process: "none", "running" or "exited"
    closed, failed,
    notified,   \* how often the close handler was called
    caller,     \* where the coroutine of send_request is suspended
    future,     \* the future it awaits; stranded when nothing can settle it
    pending,    \* keys of _pending and of _pending_requests
    reader,     \* _reader_task
    task,       \* the coroutine of each _handle_incoming_request
    held,       \* keys of _incoming_request_tasks
    answered,   \* answers to each callback put into a live pipe
    owner       \* where each stop is suspended

callVars == <<caller, future, pending>>
taskVars == <<task, held, answered>>
lossVars == <<failed, notified>>
vars == <<strict, child, closed, lossVars, callVars, reader, taskVars, owner>>

Outcomes  == {"result", "error", "lost", "cancelled"}
Running   == {"scheduled", "handling", "writing"}
Reaping   == {"process", "terminating", "stderr", "done"}

TypeOK ==
    /\ strict \in BOOLEAN
    /\ child \in {"none", "running", "exited"}
    /\ closed \in BOOLEAN /\ failed \in BOOLEAN /\ notified \in Nat
    /\ caller \in [Calls -> {"idle", "draining", "waiting", "ended", "cancelled"}]
    /\ future \in [Calls -> {"none", "open", "stranded"} \cup Outcomes]
    /\ pending \in SUBSET Calls
    /\ reader \in {"none", "reading", "ended"}
    /\ task \in [Callbacks -> {"none", "done"} \cup Running]
    /\ held \in SUBSET Callbacks
    /\ answered \in [Callbacks -> Nat]
    /\ owner \in [Owners -> {"idle", "callbacks"} \cup Reaping]

Init ==
    /\ strict \in BOOLEAN
    /\ child = "none" /\ closed = FALSE /\ failed = FALSE /\ notified = 0
    /\ caller = [c \in Calls |-> "idle"] /\ future = [c \in Calls |-> "none"]
    /\ pending = {} /\ reader = "none"
    /\ task = [k \in Callbacks |-> "none"] /\ held = {}
    /\ answered = [k \in Callbacks |-> 0]
    /\ owner = [o \in Owners |-> "idle"]

IsOpen == child # "none" /\ ~closed /\ ~failed

Start ==
    /\ child = "none" /\ \A o \in Owners : owner[o] = "idle"
    /\ child' = "running" /\ closed' = FALSE /\ failed' = FALSE
    /\ reader' = "reading"
    /\ UNCHANGED <<notified, callVars, taskVars, owner>>

-----------------------------------------------------------------------------
(* Loss of continuity                                                      *)

\* What _fail_pending makes of the futures f; it then clears both maps.
Rejected(f) == [c \in Calls |-> IF c \in pending /\ f[c] = "open" THEN "lost" ELSE f[c]]

FailClosed ==
    IF closed \/ failed THEN UNCHANGED <<lossVars, future, pending>>
    ELSE /\ failed' = TRUE /\ notified' = notified + 1
         /\ future' = Rejected(future) /\ pending' = {}

\* An observer of the client leaves the transport alone or fails it; those of
\* the legacy policy never fail it.
Observed == UNCHANGED <<lossVars, future, pending>> \/ (strict /\ FailClosed)

-----------------------------------------------------------------------------
(* Outbound requests                                                       *)

\* Slip: the write does not look at the state of the transport.
SendRequest_Unchecked(c) ==
    /\ caller[c] = "idle"
    /\ caller' = [caller EXCEPT ![c] = "draining"]
    /\ future' = [future EXCEPT ![c] = "open"]
    /\ pending' = pending \cup {c}
    /\ UNCHANGED <<child, closed, lossVars, reader, taskVars, owner>>

\* The request is registered, then written; a refused write takes it back.
SendRequest(c) ==
    /\ caller[c] = "idle"
    /\ IF IsOpen
       THEN /\ caller' = [caller EXCEPT ![c] = "draining"]
            /\ future' = [future EXCEPT ![c] = "open"]
            /\ pending' = pending \cup {c}
       ELSE /\ caller' = [caller EXCEPT ![c] = "ended"]
            /\ future' = [future EXCEPT ![c] = "cancelled"]
            /\ UNCHANGED pending
    /\ UNCHANGED <<child, closed, lossVars, reader, taskVars, owner>>

\* The drain returns and the sent observer runs, whatever was lost meanwhile.
Drained(c) ==
    /\ caller[c] = "draining"
    /\ caller' = [caller EXCEPT ![c] = "waiting"]
    /\ Observed
    /\ UNCHANGED <<child, closed, reader, taskVars, owner>>

\* The pipe is broken: `except Exception` takes the request back.
DrainFails(c) ==
    /\ caller[c] = "draining" /\ child = "exited"
    /\ caller' = [caller EXCEPT ![c] = "ended"]
    /\ future' = [future EXCEPT ![c] = IF @ = "open" THEN "cancelled" ELSE @]
    /\ pending' = pending \ {c}
    /\ UNCHANGED <<child, closed, lossVars, reader, taskVars, owner>>

\* The caller resumes with the outcome of its future.
CallEnds(c) ==
    /\ caller[c] = "waiting" /\ future[c] \in Outcomes
    /\ caller' = [caller EXCEPT ![c] = "ended"]
    /\ UNCHANGED <<child, closed, lossVars, future, pending, reader, taskVars, owner>>

\* The caller is cancelled.  CancelledError is no Exception: the request stays
\* registered, with a cancelled future if the caller awaited it.
CallerCancelled(c) ==
    /\ caller[c] \in {"draining", "waiting"}
    /\ caller' = [caller EXCEPT ![c] = "cancelled"]
    /\ future' = [future EXCEPT ![c] =
         IF caller[c] = "waiting" /\ @ \notin Outcomes THEN "cancelled" ELSE @]
    /\ UNCHANGED <<child, closed, lossVars, pending, reader, taskVars, owner>>

-----------------------------------------------------------------------------
(* The reader                                                              *)

\* The loop looks at its flags only between two lines.
NextLine == reader' = IF closed \/ failed' THEN "ended" ELSE "reading"

\* Slip: the response of a cancelled request only clears its entry.
Uncorrelated_OnlyForgets(c) == pending' = pending \ {c} /\ UNCHANGED <<lossVars, future>>

\* A response nobody waits for: late, repeated or never asked.
Uncorrelated(c) ==
    IF strict THEN FailClosed ELSE UNCHANGED <<lossVars, future, pending>>

\* The legacy mode takes the request out of both maps, raises at an error that is
\* no object, and the loop fails the transport, which finds the others only.
Strand(c) ==
    /\ ~strict
    /\ future' = [Rejected(future) EXCEPT ![c] = "stranded"]
    /\ pending' = {} /\ failed' = TRUE /\ notified' = notified + 1

\* A response that carries the identifier c.  Identifiers not yet issued stand
\* for those the transport never issues.
ReadResponse(c) ==
    /\ reader = "reading" /\ caller[c] # "draining"
    /\ IF c \in pending /\ future[c] = "open"
       THEN \/ /\ \E outcome \in {"result", "error"} :
                    future' = [future EXCEPT ![c] = outcome]
               /\ pending' = pending \ {c}
               /\ UNCHANGED lossVars
            \/ strict /\ FailClosed     \* the response observer objects
            \/ Strand(c)
       ELSE Uncorrelated(c)
    /\ NextLine
    /\ UNCHANGED <<child, closed, caller, taskVars, owner>>

ReadNotification ==
    /\ reader = "reading"
    /\ Observed
    /\ NextLine
    /\ UNCHANGED <<child, closed, caller, taskVars, owner>>

\* Malformed or oversized output, an invalid strict envelope, a defect of a
\* handler; the end of the stream.  The exceptions leave the loop as well.
ReadFailure ==
    /\ reader = "reading"
    /\ FailClosed
    /\ reader' = "ended"
    /\ UNCHANGED <<child, closed, caller, taskVars, owner>>

\* A request of the agent: observed, then given to a task of its own.
ReadCallback(k) ==
    /\ reader = "reading" /\ task[k] = "none"
    /\ IF failed \/ Cardinality(held) >= MaxTasks
       THEN FailClosed /\ UNCHANGED <<task, held>>
       ELSE \/ /\ task' = [task EXCEPT ![k] = "scheduled"]
               /\ held' = held \cup {k}
               /\ UNCHANGED <<lossVars, future, pending>>
            \/ strict /\ FailClosed /\ UNCHANGED <<task, held>>
    /\ NextLine
    /\ UNCHANGED <<child, closed, caller, answered, owner>>

-----------------------------------------------------------------------------
(* Tasks of incoming requests                                              *)

\* The answer is written if the transport is open, else both attempts raise.
Answer(k) ==
    IF IsOpen
    THEN /\ task' = [task EXCEPT ![k] = "writing"]
         /\ answered' = [answered EXCEPT ![k] = IF child = "running" THEN @ + 1 ELSE @]
    ELSE task' = [task EXCEPT ![k] = "done"] /\ UNCHANGED answered

\* The handlers of the legacy policy may suspend, those of direct mode do not.
CallbackRuns(k) ==
    /\ task[k] = "scheduled"
    /\ \/ Answer(k)
       \/ ~strict /\ task' = [task EXCEPT ![k] = "handling"] /\ UNCHANGED answered
    /\ UNCHANGED <<child, closed, lossVars, callVars, reader, held, owner>>

CallbackHandled(k) ==
    /\ task[k] = "handling"
    /\ Answer(k)
    /\ UNCHANGED <<child, closed, lossVars, callVars, reader, held, owner>>

\* The drain returns, or raises over a broken pipe, where the error answer
\* that follows is lost like the answer.
CallbackDrained(k) ==
    /\ task[k] = "writing"
    /\ task' = [task EXCEPT ![k] = "done"]
    /\ UNCHANGED <<child, closed, lossVars, callVars, reader, held, answered, owner>>

\* The done callback runs one turn of the loop later: until then the finished
\* task still counts against the bound.
CallbackForgotten(k) ==
    /\ k \in held /\ task[k] = "done"
    /\ held' = held \ {k}
    /\ UNCHANGED <<child, closed, lossVars, callVars, reader, task, answered, owner>>

-----------------------------------------------------------------------------
(* The end                                                                 *)

ChildExits ==
    /\ child = "running" /\ child' = "exited"
    /\ UNCHANGED <<closed, lossVars, callVars, reader, taskVars, owner>>

\* stop, or abort, which fails the transport first.  Cancelled, the reader
\* does nothing more.
StopBegins(o) ==
    /\ owner[o] = "idle"
    /\ UNCHANGED <<lossVars, future, pending>> \/ FailClosed
    /\ closed' = TRUE
    /\ reader' = IF reader = "reading" THEN "ended" ELSE reader
    /\ owner' = [owner EXCEPT ![o] = "callbacks"]
    /\ UNCHANGED <<child, caller, taskVars>>

\* Slip: only the tasks that have started are cancelled.
StopCallbacks_Started(o) ==
    /\ owner[o] = "callbacks"
    /\ task' = [k \in Callbacks |->
         IF k \in held /\ task[k] \in {"handling", "writing"} THEN "done" ELSE task[k]]
    /\ held' = {}
    /\ owner' = [owner EXCEPT ![o] = "process"]
    /\ UNCHANGED <<child, closed, lossVars, callVars, reader, answered>>

\* _cancel_incoming_request_tasks: cancelled tasks only unwind.
StopCallbacks(o) ==
    /\ owner[o] = "callbacks"
    /\ task' = [k \in Callbacks |->
         IF k \in held /\ task[k] \in Running THEN "done" ELSE task[k]]
    /\ held' = {}
    /\ owner' = [owner EXCEPT ![o] = "process"]
    /\ UNCHANGED <<child, closed, lossVars, callVars, reader, answered>>

StopTerminates(o) ==
    /\ owner[o] = "process"
    /\ owner' = [owner EXCEPT ![o] = IF child = "none" THEN "stderr" ELSE "terminating"]
    /\ UNCHANGED <<child, closed, lossVars, callVars, reader, taskVars>>

StopReaps(o) ==
    /\ owner[o] = "terminating" /\ child = "exited"
    /\ owner' = [owner EXCEPT ![o] = "stderr"]
    /\ UNCHANGED <<child, closed, lossVars, callVars, reader, taskVars>>

\* The five seconds are over: the child is killed.
StopKills(o) ==
    /\ owner[o] = "terminating" /\ child' = "exited"
    /\ owner' = [owner EXCEPT ![o] = "stderr"]
    /\ UNCHANGED <<closed, lossVars, callVars, reader, taskVars>>

\* Slip: a stop after a loss trusts that the loss rejected what was pending.
StopEnds_TrustsLoss(o) ==
    /\ owner[o] = "stderr"
    /\ UNCHANGED <<future, pending>>
    /\ owner' = [owner EXCEPT ![o] = "done"]
    /\ UNCHANGED <<child, closed, lossVars, caller, reader, taskVars>>

\* The stderr task is settled and what is still pending is rejected.
StopEnds(o) ==
    /\ owner[o] = "stderr"
    /\ future' = Rejected(future) /\ pending' = {}
    /\ owner' = [owner EXCEPT ![o] = "done"]
    /\ UNCHANGED <<child, closed, lossVars, caller, reader, taskVars>>

-----------------------------------------------------------------------------
CallStep(c) ==
    \/ SendRequest(c) \/ Drained(c) \/ DrainFails(c) \/ CallEnds(c)
    \/ CallerCancelled(c) \/ ReadResponse(c)
TaskStep(k) ==
    \/ ReadCallback(k) \/ CallbackRuns(k) \/ CallbackHandled(k)
    \/ CallbackDrained(k) \/ CallbackForgotten(k)
OwnerStep(o) ==
    \/ StopBegins(o) \/ StopCallbacks(o) \/ StopTerminates(o) \/ StopReaps(o)
    \/ StopKills(o) \/ StopEnds(o)

Step ==
    \/ Start \/ ReadNotification \/ ReadFailure \/ ChildExits
    \/ \E c \in Calls : CallStep(c)
    \/ \E k \in Callbacks : TaskStep(k)
    \/ \E o \in Owners : OwnerStep(o)

\* The mode is chosen before the transport starts.
Next == Step /\ UNCHANGED strict

Spec == Init /\ [][Next]_vars

\* The event loop runs what is ready, a drain over a broken pipe raises and the
\* stop's own timer fires; neither the child, nor a caller, nor an owner has to
\* do anything.
Fairness ==
    /\ \A c \in Calls :
         /\ WF_vars(DrainFails(c) /\ UNCHANGED strict)
         /\ WF_vars(CallEnds(c) /\ UNCHANGED strict)
    /\ \A o \in Owners :
         /\ WF_vars(StopCallbacks(o) /\ UNCHANGED strict)
         /\ WF_vars(StopTerminates(o) /\ UNCHANGED strict)
         /\ WF_vars(StopKills(o) /\ UNCHANGED strict)
         /\ WF_vars(StopEnds(o) /\ UNCHANGED strict)
FairSpec == Spec /\ Fairness

-----------------------------------------------------------------------------
(* Properties                                                              *)

\* Once the transport has failed, or a stop of it has ended, no request waits
\* for an answer any more: requests register, drain and give up while the loss
\* and the stops sweep the maps (_fail_pending, send_request).  Direct mode has no
\* exception; in legacy mode only the request whose own answer was malformed, and
\* lost the transport, can stay behind.
NoRequestOutlivesTransport ==
    /\ (failed \/ \E o \in Owners : owner[o] = "done") =>
         pending = {} /\ \A c \in Calls : future[c] # "open"
    /\ \A c \in Calls : future[c] = "stranded" => failed /\ ~strict

\* The owner hears of a loss exactly once, and never of a stop it asked for
\* (fail_closed, called by the reader, by observers and by several aborts).
OwnerNotifiedOnce == notified = IF failed THEN 1 ELSE 0

\* The agent gets at most one answer to a request of its own, though every
\* failure of a handler or of a write is answered with an error.
CallbackAnsweredOnce == \A k \in Callbacks : answered[k] <= 1

\* When a stop has ended, its own or that of another owner overlapping it, the
\* child is reaped, the reader gone and no task is left to write or to handle.
StopLeavesNothingRunning ==
    (\E o \in Owners : owner[o] = "done") =>
        /\ child # "running" /\ reader # "reading"
        /\ held = {} /\ \A k \in Callbacks : task[k] \notin Running

\* The strengthening that makes the invariants above inductive.
BeforeStart ==
    child = "none" =>
        /\ reader = "none" /\ \A c \in Calls : caller[c] # "draining"
        /\ (\A o \in Owners : owner[o] = "idle") => ~failed
RequestsAreRegistered ==
    \A c \in Calls :
        /\ caller[c] = "idle" => future[c] = "none"
        /\ future[c] = "open" => c \in pending
        /\ future[c] = "stranded" => failed /\ ~strict
LossAndStopSweep ==
    /\ failed => pending = {}
    /\ closed => reader # "reading"
    /\ \A o \in Owners :
         /\ owner[o] # "idle" => closed
         /\ owner[o] \in Reaping => held = {}
         /\ owner[o] \in {"stderr", "done"} => child # "running"
         /\ owner[o] = "done" => pending = {}
TasksAreHeld ==
    \A k \in Callbacks :
        /\ task[k] \in Running => k \in held
        /\ task[k] \in {"none", "scheduled", "handling"} => answered[k] = 0

\* The inductive invariant of the proofs: registration, the sweeps of a loss
\* and of a stop, and the tasks a stop has to find (transport.py:116-174).
IInv ==
    /\ TypeOK /\ BeforeStart /\ RequestsAreRegistered /\ LossAndStopSweep
    /\ TasksAreHeld /\ OwnerNotifiedOnce /\ CallbackAnsweredOnce

\* The outcome of a request is final: no response, loss, stop or cancellation
\* replaces the outcome an earlier one gave it.
OutcomeIsFinal ==
    [][\A c \in Calls : future[c] \in Outcomes => future'[c] = future[c]]_vars

\* In strict mode no response is dropped: one that does not give a waiting
\* request its outcome costs the child its continuity.
NoResponseIsDropped ==
    [][\A c \in Calls : ReadResponse(c) /\ strict =>
         closed \/ failed' \/ future'[c] # future[c]]_vars

\* A stop that has begun ends, though the child ignores SIGTERM, and with it
\* every request: no caller hangs behind a transport that is gone, but for the
\* stranded ones of the legacy mode.
StopEndsEveryCall ==
    \A c \in Calls :
        (\E o \in Owners : owner[o] # "idle")
            ~> (caller[c] \in {"idle", "ended", "cancelled"} \/ future[c] = "stranded")
=============================================================================
