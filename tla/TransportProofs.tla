-------------------------- MODULE TransportProofs --------------------------
(***************************************************************************)
(* Proofs about Transport, for any number of requests, callbacks and       *)
(* owners and any bound on the tasks: IInv is inductive, and with it no    *)
(* request outlives the transport, its owner is told of a loss once, a     *)
(* stop leaves nothing running and outcomes are final.                     *)
(***************************************************************************)
EXTENDS Transport, TLAPS

\* What a failure does to the variables it touches.
LEMMA FailClosedKeeps ==
  ASSUME IInv, FailClosed
  PROVE  /\ failed' \in BOOLEAN /\ notified' \in Nat
         /\ notified' = IF failed' THEN 1 ELSE 0
         /\ future' \in [Calls -> {"none", "open", "stranded"} \cup Outcomes]
         /\ pending' \subseteq pending
         /\ failed' => pending' = {}
         /\ ~closed => failed'
         /\ closed \/ failed => UNCHANGED <<lossVars, future, pending>>
         /\ \A c \in Calls : future'[c] = "open" => future[c] = "open" /\ c \in pending'
         /\ \A c \in Calls : future[c] # "open" => future'[c] = future[c]
         /\ \A c \in Calls : future'[c] = "stranded" => failed' /\ ~strict
  <1> USE DEF IInv, TypeOK, LossAndStopSweep, RequestsAreRegistered, OwnerNotifiedOnce,
         lossVars
  <1>1. CASE closed \/ failed
    BY <1>1 DEF FailClosed
  <1>2. CASE ~closed /\ ~failed
    <2>1. failed' = TRUE /\ notified' = 1 /\ future' = Rejected(future) /\ pending' = {}
      BY <1>2 DEF FailClosed
    <2>2. \A c \in Calls : future'[c] = IF future[c] = "open" THEN "lost" ELSE future[c]
      BY <2>1 DEF Rejected
    <2>3. future' \in [Calls -> {"none", "open", "stranded"} \cup Outcomes]
      BY <2>1 DEF Rejected, Outcomes
    <2> QED
      BY <1>2, <2>1, <2>2, <2>3
  <1> QED
    BY <1>1, <1>2

THEOREM InitEstablishes == Init => IInv
  <1> SUFFICES ASSUME Init PROVE IInv
    OBVIOUS
  <1>1. TypeOK
    BY DEF Init, TypeOK
  <1>2. BeforeStart /\ RequestsAreRegistered /\ LossAndStopSweep
    BY DEF Init, BeforeStart, RequestsAreRegistered, LossAndStopSweep, Reaping
  <1>3. TasksAreHeld /\ OwnerNotifiedOnce /\ CallbackAnsweredOnce
    BY DEF Init, TasksAreHeld, OwnerNotifiedOnce, CallbackAnsweredOnce, Running
  <1> QED
    BY <1>1, <1>2, <1>3 DEF IInv

\* Sending, draining, waiting and giving up.
LEMMA CallStepPreserves ==
  ASSUME IInv, NEW c \in Calls, CallStep(c), UNCHANGED strict
  PROVE  IInv'
  <1> USE DEF IInv, TypeOK, BeforeStart, RequestsAreRegistered, LossAndStopSweep,
         TasksAreHeld, OwnerNotifiedOnce, CallbackAnsweredOnce, callVars, taskVars, lossVars
  <1>1. CASE SendRequest(c)
    BY <1>1 DEF SendRequest, IsOpen, Outcomes, Reaping
  <1>2. CASE Drained(c)
    <2>1. CASE UNCHANGED <<lossVars, future, pending>>
      BY <1>2, <2>1 DEF Drained
    <2>2. CASE FailClosed
      <3>1. child # "none" => BeforeStart'
        BY <1>2 DEF Drained
      <3>2. child # "none"
        BY <1>2 DEF Drained
      <3> QED
        BY <1>2, <2>2, <3>1, <3>2, FailClosedKeeps DEF Drained
    <2> QED
      BY <1>2, <2>1, <2>2 DEF Drained, Observed
  <1>3. CASE DrainFails(c)
    BY <1>3 DEF DrainFails, Outcomes
  <1>4. CASE CallEnds(c)
    BY <1>4 DEF CallEnds
  <1>5. CASE CallerCancelled(c)
    BY <1>5 DEF CallerCancelled, Outcomes
  <1>6. CASE ReadResponse(c)
    <2>1. reader' \in {"reading", "ended"} /\ (closed => reader' = "ended") /\ ~closed
          /\ child # "none"
      BY <1>6 DEF ReadResponse, NextLine
    <2>2. CASE UNCHANGED <<lossVars, future, pending>>
      BY <1>6, <2>1, <2>2 DEF ReadResponse
    <2>3. CASE FailClosed
      BY <1>6, <2>1, <2>3, FailClosedKeeps DEF ReadResponse
    <2>4. CASE /\ \E outcome \in {"result", "error"} :
                    future' = [future EXCEPT ![c] = outcome]
               /\ pending' = pending \ {c}
               /\ UNCHANGED lossVars
               /\ future[c] = "open"
      BY <1>6, <2>1, <2>4 DEF ReadResponse, Outcomes
    <2>5. CASE Strand(c) /\ c \in pending /\ future[c] = "open"
      <3>1. ~failed /\ ~closed /\ notified' = 1 /\ ~strict'
        BY <1>6, <2>1, <2>5 DEF Strand
      <3>2. future' \in [Calls -> {"none", "open", "stranded"} \cup Outcomes]
        BY <2>5 DEF Strand, Rejected, Outcomes
      <3>3. \A d \in Calls : future'[d] # "open"
        BY <2>5 DEF Strand, Rejected
      <3>4. \A d \in Calls : caller[d] = "idle" => future'[d] = "none"
        BY <1>6, <2>5 DEF Strand, Rejected
      <3> QED
        BY <1>6, <2>1, <2>5, <3>1, <3>2, <3>3, <3>4 DEF ReadResponse, NextLine, Strand
    <2> QED
      BY <1>6, <2>2, <2>3, <2>4, <2>5 DEF ReadResponse, Uncorrelated
  <1> QED
    BY <1>1, <1>2, <1>3, <1>4, <1>5, <1>6 DEF CallStep

\* Requests of the agent and the tasks that answer them.
LEMMA TaskStepPreserves ==
  ASSUME IInv, NEW k \in Callbacks, TaskStep(k), UNCHANGED strict
  PROVE  IInv'
  <1> USE DEF IInv, TypeOK, BeforeStart, RequestsAreRegistered, LossAndStopSweep,
         TasksAreHeld, OwnerNotifiedOnce, CallbackAnsweredOnce, callVars, taskVars, lossVars
  <1>1. CASE ReadCallback(k)
    <2>1. reader' \in {"reading", "ended"} /\ ~closed /\ child # "none"
          /\ \A o \in Owners : owner[o] = "idle"
      BY <1>1 DEF ReadCallback, NextLine
    <2>2. CASE FailClosed /\ UNCHANGED <<task, held>>
      BY <1>1, <2>1, <2>2, FailClosedKeeps DEF ReadCallback
    <2>3. CASE /\ task' = [task EXCEPT ![k] = "scheduled"]
               /\ held' = held \cup {k}
               /\ UNCHANGED <<lossVars, future, pending>>
      BY <1>1, <2>1, <2>3 DEF ReadCallback, Running, Reaping
    <2> QED
      BY <1>1, <2>2, <2>3 DEF ReadCallback
  <1>2. ASSUME Answer(k), task[k] \in {"scheduled", "handling"},
               UNCHANGED <<child, closed, lossVars, callVars, reader, held, owner>>
        PROVE  IInv'
    BY <1>2 DEF Answer, Running
  <1>3. CASE CallbackRuns(k)
    <2>1. CASE task' = [task EXCEPT ![k] = "handling"] /\ UNCHANGED answered
      BY <1>3, <2>1 DEF CallbackRuns, Running
    <2> QED
      BY <1>2, <1>3, <2>1 DEF CallbackRuns
  <1>4. CASE CallbackHandled(k)
    BY <1>2, <1>4 DEF CallbackHandled
  <1>5. CASE CallbackDrained(k)
    BY <1>5 DEF CallbackDrained, Running
  <1>6. CASE CallbackForgotten(k)
    BY <1>6 DEF CallbackForgotten, Running
  <1> QED
    BY <1>1, <1>3, <1>4, <1>5, <1>6 DEF TaskStep

\* A stop, from its first step to the rejection of what is still pending.
LEMMA OwnerStepPreserves ==
  ASSUME IInv, NEW o \in Owners, OwnerStep(o), UNCHANGED strict
  PROVE  IInv'
  <1> USE DEF IInv, TypeOK, BeforeStart, RequestsAreRegistered, LossAndStopSweep,
         TasksAreHeld, OwnerNotifiedOnce, CallbackAnsweredOnce, callVars, taskVars, lossVars
  <1>1. CASE StopBegins(o)
    <2>1. CASE UNCHANGED <<lossVars, future, pending>>
      BY <1>1, <2>1 DEF StopBegins, Reaping
    <2>2. CASE FailClosed
      BY <1>1, <2>2, FailClosedKeeps DEF StopBegins, Reaping
    <2> QED
      BY <1>1, <2>1, <2>2 DEF StopBegins
  <1>2. CASE StopCallbacks(o)
    BY <1>2 DEF StopCallbacks, Running, Reaping
  <1>3. CASE StopTerminates(o)
    BY <1>3 DEF StopTerminates, Reaping
  <1>4. CASE StopReaps(o)
    BY <1>4 DEF StopReaps, Reaping
  <1>5. CASE StopKills(o)
    BY <1>5 DEF StopKills, Reaping
  <1>6. CASE StopEnds(o)
    BY <1>6 DEF StopEnds, Rejected, Reaping, Outcomes
  <1> QED
    BY <1>1, <1>2, <1>3, <1>4, <1>5, <1>6 DEF OwnerStep

THEOREM StepPreserves == IInv /\ [Next]_vars => IInv'
  <1> SUFFICES ASSUME IInv, [Next]_vars PROVE IInv'
    OBVIOUS
  <1>0. strict' = strict
    BY DEF Next, vars
  <1> USE DEF IInv, TypeOK, BeforeStart, RequestsAreRegistered, LossAndStopSweep,
         TasksAreHeld, OwnerNotifiedOnce, CallbackAnsweredOnce, callVars, taskVars, lossVars
  <1>1. CASE Start
    BY <1>0, <1>1 DEF Start, Reaping
  <1>2. ASSUME reader = "reading", FailClosed, reader' \in {"reading", "ended"},
               UNCHANGED <<child, closed, caller, taskVars, owner>>
        PROVE  IInv'
    BY <1>0, <1>2, FailClosedKeeps
  <1>3. CASE ReadNotification
    <2>1. CASE UNCHANGED <<lossVars, future, pending>>
      BY <1>0, <1>3, <2>1 DEF ReadNotification, NextLine
    <2> QED
      BY <1>2, <1>3, <2>1 DEF ReadNotification, NextLine, Observed
  <1>4. CASE ReadFailure
    BY <1>0, <1>2, <1>4 DEF ReadFailure
  <1>5. CASE ChildExits
    BY <1>0, <1>5 DEF ChildExits
  <1>6. CASE UNCHANGED vars
    BY <1>6 DEF vars
  <1> QED
    BY <1>0, <1>1, <1>3, <1>4, <1>5, <1>6, CallStepPreserves, TaskStepPreserves, OwnerStepPreserves
    DEF Next, Step

-----------------------------------------------------------------------------
\* The inductive invariant holds of every behaviour of the transport.
THEOREM InvariantHolds == Spec => []IInv
  BY InitEstablishes, StepPreserves, PTL DEF Spec

\* No request waits behind a transport that has failed or was stopped, but the
\* one of the legacy mode whose malformed answer failed it (_dispatch).
THEOREM NoRequestOutlives == Spec => []NoRequestOutlivesTransport
  <1>1. IInv => NoRequestOutlivesTransport
    BY DEF IInv, RequestsAreRegistered, LossAndStopSweep, NoRequestOutlivesTransport
  <1> QED
    BY <1>1, InvariantHolds, PTL

\* The owner is told of a loss once, and never of a stop.
THEOREM NotifiedOnce == Spec => []OwnerNotifiedOnce
  <1>1. IInv => OwnerNotifiedOnce
    BY DEF IInv
  <1> QED
    BY <1>1, InvariantHolds, PTL

\* A stop that has ended, overlapped by others or not, leaves nothing running.
THEOREM StoppedIsQuiet == Spec => []StopLeavesNothingRunning
  <1>1. IInv => StopLeavesNothingRunning
    BY DEF IInv, LossAndStopSweep, TasksAreHeld, StopLeavesNothingRunning, Reaping
  <1> QED
    BY <1>1, InvariantHolds, PTL

\* A callback is answered at most once.
THEOREM AnsweredOnce == Spec => []CallbackAnsweredOnce
  <1>1. IInv => CallbackAnsweredOnce
    BY DEF IInv
  <1> QED
    BY <1>1, InvariantHolds, PTL

\* The outcome a request was given is never replaced.
THEOREM OutcomesAreFinal == Spec => OutcomeIsFinal
  <1>1. ASSUME IInv, [Next]_vars, NEW c \in Calls, future[c] \in Outcomes
        PROVE  future'[c] = future[c]
    <2>1. CASE UNCHANGED future
      BY <2>1
    <2>2. CASE FailClosed
      BY <1>1, <2>2, FailClosedKeeps DEF Outcomes
    <2>3. ASSUME NEW d \in Calls, CallStep(d) PROVE future'[c] = future[c]
      BY <1>1, <2>1, <2>2, <2>3
      DEF IInv, TypeOK, RequestsAreRegistered, CallStep, SendRequest, Drained, Observed,
          DrainFails, CallEnds, CallerCancelled, ReadResponse, Uncorrelated, Strand,
          Rejected, Outcomes
    <2>4. ASSUME NEW o \in Owners, OwnerStep(o) PROVE future'[c] = future[c]
      BY <1>1, <2>1, <2>2, <2>4
      DEF IInv, TypeOK, OwnerStep, StopBegins, StopCallbacks, StopTerminates, StopReaps,
          StopKills, StopEnds, Rejected, Outcomes, callVars
    <2>5. ASSUME NEW k \in Callbacks, TaskStep(k) PROVE future'[c] = future[c]
      BY <2>1, <2>2, <2>5
      DEF TaskStep, ReadCallback, CallbackRuns, CallbackHandled, CallbackDrained,
          CallbackForgotten, callVars
    <2> QED
      BY <1>1, <2>1, <2>2, <2>3, <2>4, <2>5
      DEF Next, Step, vars, callVars, Start, ReadNotification, ReadFailure, ChildExits, Observed
  <1>2. IInv /\ [Next]_vars
          => [\A c \in Calls : future[c] \in Outcomes => future'[c] = future[c]]_vars
    BY <1>1
  <1> QED
    BY <1>2, InvariantHolds, PTL DEF Spec, OutcomeIsFinal

\* A response read in strict mode settles a waiting request or costs the child
\* its continuity (_handle_message, _observe_response).
THEOREM ResponsesCount == Spec => NoResponseIsDropped
  <1>1. ASSUME IInv, NEW c \in Calls, ReadResponse(c), strict
        PROVE  closed \/ failed' \/ future'[c] # future[c]
    <2>1. CASE FailClosed
      BY <1>1, <2>1, FailClosedKeeps DEF lossVars
    <2>2. CASE /\ future[c] = "open"
               /\ \E outcome \in {"result", "error"} :
                    future' = [future EXCEPT ![c] = outcome]
      BY <1>1, <2>2 DEF IInv, TypeOK
    <2> QED
      BY <1>1, <2>1, <2>2 DEF ReadResponse, Uncorrelated, Strand
  <1>2. IInv /\ [Next]_vars
          => [\A c \in Calls : ReadResponse(c) /\ strict =>
                closed \/ failed' \/ future'[c] # future[c]]_vars
    BY <1>1
  <1> QED
    BY <1>2, InvariantHolds, PTL DEF Spec, NoResponseIsDropped
=============================================================================
