---------------------------- MODULE PromptStream ----------------------------
(***************************************************************************)
(* The evidence stream of direct prompts, src/src/acp_proxy/client.py: the *)
(* prompt phases of a session, the bounded queue from the reader to the    *)
(* generator of _prompt_content, its terminal marker, the callbacks that   *)
(* precede the response, deadlines, cancellation and teardown.             *)
(*                                                                         *)
(* The wire is a sequence: the order in which the child writes is what the *)
(* phases are about.  Every line of it names a session only; the prompt a  *)
(* line was written for is kept beside it and is read by no action.        *)
(*                                                                         *)
(* consumer[p] is where the generator is suspended:                        *)
(*   loop      at the top of the poll loop    polling   in wait_for(get)   *)
(*   expiring  its poll timer fired, the getter is being cancelled         *)
(*   yielded   at a yield, the collector runs                              *)
(*   draining  emptying the queue behind a finished prompt task            *)
(*   awaiting  awaiting the prompt task                                    *)
(*   closing   abandoned or leaving, finally clause still to run           *)
(*   unwinding in the finally clause, awaiting the cancelled prompt task   *)
(* DirectService starts a prompt of a session only when the one before has *)
(* settled; its generator is then closed: the finalizer is two turns of    *)
(* the event loop, the settlement and an admission are more.               *)
(***************************************************************************)
EXTENDS Naturals, Sequences, FiniteSets

CONSTANTS
    Sessions, Callbacks,
    Prompts,      \* numbers
    CountLimit,   \* event_count_limit
    MaxEmitted,   \* bound: lines of evidence the child writes for one prompt
    MaxWire,      \* bound: lines on the wire
    None

ASSUME PromptsAreNumbers == Prompts \subseteq Nat
ASSUME CountLimitIsPositive == CountLimit \in Nat \ {0}
ASSUME BoundsAreNatural == MaxEmitted \in Nat /\ MaxWire \in Nat \ {0}
ASSUME NoneIsNoPrompt == None \notin Sessions \cup Nat
ASSUME SessionsAreApart == {"none", "answered"} \cap Sessions = {}

VARIABLES
    failed, torn,    \* the transport failed; client state was cleared
    phase,           \* _direct_prompt_phases
    queueOf,         \* _update_queues: the prompt whose queue is registered
    count,           \* _direct_update_budgets, the event count
    sessionOf,       \* the session a prompt was started on
    buffer,          \* the queue object of each prompt
    task, future,    \* prompt_task and the future it awaits
    consumer, outcome, late, cancelled,
    callback,        \* each callback's task: its session while it is unsettled
    wire,
    emitted, answering,   \* the child: lines written, prompts it works on
    admitted, delivered   \* history: evidence enqueued, evidence yielded

clientVars == <<phase, queueOf, count>>
taskVars   == <<task, future>>
genVars    == <<consumer, outcome, late, cancelled>>
childVars  == <<emitted, answering>>
vars == <<failed, torn, clientVars, sessionOf, buffer, taskVars, genVars, callback,
          wire, childVars, admitted, delivered>>

\* Queued beside the evidence: the terminal marker and the None of a teardown.
Marker == [prompt |-> None, line |-> 1]
Wake   == [prompt |-> None, line |-> 0]
PhaseNames == {"none", "preparing", "active", "terminal"}
Items == [prompt : Prompts \cup {None}, line : 0..MaxEmitted] \cup {Marker}
Messages ==
    [kind : {"update", "state"}, prompt : Prompts, line : 1..MaxEmitted]
    \cup [kind : {"callback"}, prompt : Prompts, line : 1..MaxEmitted, id : Callbacks]
    \cup [kind : {"response"}, prompt : Prompts, result : {"end", "error"}]
Suspended == {"loop", "polling", "expiring", "yielded", "draining", "awaiting"}

TypeOK ==
    /\ failed \in BOOLEAN /\ torn \in BOOLEAN
    /\ phase \in [Sessions -> PhaseNames]
    /\ queueOf \in [Sessions -> Prompts \cup {None}]
    /\ count \in [Sessions -> Nat \cup {None}]
    /\ sessionOf \in [Prompts -> Sessions \cup {None}]
    /\ buffer \in [Prompts -> Seq(Items)]
    /\ task \in [Prompts -> {"none", "created", "draining", "waiting", "done"}]
    /\ future \in [Prompts -> {"none", "open", "end", "error", "lost", "cancelled"}]
    /\ consumer \in [Prompts -> {"idle", "closing", "unwinding", "ended"} \cup Suspended]
    /\ outcome \in [Prompts -> {"none", "done", "error", "timeout", "cancelled"}]
    /\ late \in SUBSET Prompts /\ cancelled \in SUBSET Prompts
    /\ callback \in [Callbacks -> {"none", "answered"} \cup Sessions]
    /\ wire \in Seq(Messages)
    /\ emitted \in [Prompts -> 0..MaxEmitted]
    /\ answering \in SUBSET Prompts
    /\ admitted \in [Prompts -> Seq(Items)] /\ delivered \in [Prompts -> Seq(Items)]

Init ==
    /\ failed = FALSE /\ torn = FALSE
    /\ phase = [s \in Sessions |-> "none"]
    /\ queueOf = [s \in Sessions |-> None]
    /\ count = [s \in Sessions |-> None]
    /\ sessionOf = [p \in Prompts |-> None]
    /\ buffer = [p \in Prompts |-> <<>>]
    /\ task = [p \in Prompts |-> "none"] /\ future = [p \in Prompts |-> "none"]
    /\ consumer = [p \in Prompts |-> "idle"] /\ outcome = [p \in Prompts |-> "none"]
    /\ late = {} /\ cancelled = {}
    /\ callback = [k \in Callbacks |-> "none"]
    /\ wire = <<>>
    /\ emitted = [p \in Prompts |-> 0] /\ answering = {}
    /\ admitted = [p \in Prompts |-> <<>>] /\ delivered = [p \in Prompts |-> <<>>]

-----------------------------------------------------------------------------
(* The prompt task                                                         *)

\* fail_closed: the futures still open are rejected, nothing else changes.
Failed == [p \in Prompts |-> IF future[p] = "open" THEN "lost" ELSE future[p]]
FailClosed ==
    IF failed \/ torn THEN UNCHANGED <<failed, future>>
    ELSE failed' = TRUE /\ future' = Failed

\* Slip: only a prompt still being prepared blocks the next one.
MayStart_OverActive(s) == phase[s] # "preparing"

\* A prompt left behind unanswered blocks its session.
MayStart(s) == phase[s] \in {"none", "terminal"}

\* _prompt_content up to its first suspension: queue, phase, budget, task.
StartPrompt(p, s) ==
    /\ consumer[p] = "idle" /\ ~torn
    /\ \A q \in Prompts : q < p => consumer[q] # "idle"   \* numbered as they start
    /\ \A q \in Prompts : sessionOf[q] = s => consumer[q] = "ended"
    /\ sessionOf' = [sessionOf EXCEPT ![p] = s]
    /\ queueOf' = [queueOf EXCEPT ![s] = p]
    /\ IF MayStart(s)
       THEN /\ phase' = [phase EXCEPT ![s] = "preparing"]
            /\ count' = [count EXCEPT ![s] = 0]
            /\ task' = [task EXCEPT ![p] = "created"]
            /\ consumer' = [consumer EXCEPT ![p] = "loop"]
            /\ UNCHANGED <<failed, future, outcome>>
       ELSE /\ FailClosed
            /\ consumer' = [consumer EXCEPT ![p] = "ended"]
            /\ outcome' = [outcome EXCEPT ![p] = "error"]
            /\ UNCHANGED <<phase, count, task>>
    /\ UNCHANGED <<torn, buffer, late, cancelled, callback, wire, childVars, admitted,
                   delivered>>

\* send_request registers the prompt and writes it, or raises.
TaskWrites(p) ==
    /\ task[p] = "created"
    /\ IF failed \/ torn
       THEN /\ task' = [task EXCEPT ![p] = "done"]
            /\ future' = [future EXCEPT ![p] = "lost"]
       ELSE /\ task' = [task EXCEPT ![p] = "draining"]
            /\ future' = [future EXCEPT ![p] = "open"]
    /\ UNCHANGED <<failed, torn, clientVars, sessionOf, buffer, genVars, callback, wire,
                   childVars, admitted, delivered>>

\* The bytes are out: _observe_request_sent opens the epoch of the prompt.
TaskDrained(p) ==
    /\ task[p] = "draining"
    /\ task' = [task EXCEPT ![p] = "waiting"]
    /\ answering' = answering \cup {p}
    /\ IF phase[sessionOf[p]] = "preparing"
       THEN /\ phase' = [phase EXCEPT ![sessionOf[p]] = "active"]
            /\ UNCHANGED <<failed, future>>
       ELSE FailClosed /\ UNCHANGED phase
    /\ UNCHANGED <<torn, queueOf, count, sessionOf, buffer, genVars, callback, wire,
                   emitted, admitted, delivered>>

\* The pipe is broken, the request is taken back.
TaskBreaks(p) ==
    /\ task[p] = "draining"
    /\ task' = [task EXCEPT ![p] = "done"]
    /\ future' = [future EXCEPT ![p] = IF @ = "open" THEN "cancelled" ELSE @]
    /\ UNCHANGED <<failed, torn, clientVars, sessionOf, buffer, genVars, callback, wire,
                   childVars, admitted, delivered>>

TaskWakes(p) ==
    /\ task[p] = "waiting" /\ future[p] # "open"
    /\ task' = [task EXCEPT ![p] = "done"]
    /\ UNCHANGED <<failed, torn, clientVars, sessionOf, buffer, future, genVars, callback,
                   wire, childVars, admitted, delivered>>

-----------------------------------------------------------------------------
(* The child                                                               *)

Write(m) ==
    /\ Len(wire) < MaxWire /\ wire' = Append(wire, m)
    /\ UNCHANGED <<failed, torn, clientVars, sessionOf, buffer, taskVars, genVars, callback,
                   admitted, delivered>>

ChildWrites(p) ==
    /\ p \in answering /\ emitted[p] < MaxEmitted
    /\ emitted' = [emitted EXCEPT ![p] = @ + 1]
    /\ \/ \E kind \in {"update", "state"} :
            Write([kind |-> kind, prompt |-> p, line |-> emitted'[p]])
       \/ \E k \in Callbacks :
            /\ callback[k] = "none"
            /\ \A i \in DOMAIN wire : wire[i].kind = "callback" => wire[i].id # k
            /\ Write([kind |-> "callback", prompt |-> p, line |-> emitted'[p], id |-> k])
    /\ UNCHANGED answering

ChildAnswers(p) ==
    /\ p \in answering
    /\ answering' = answering \ {p}
    /\ \E result \in {"end", "error"} :
         Write([kind |-> "response", prompt |-> p, result |-> result])
    /\ UNCHANGED emitted

-----------------------------------------------------------------------------
(* The reader                                                              *)

\* Slip: the queue has no room beyond the evidence it may hold.
QueueSize_NoMarker == CountLimit

QueueSize == CountLimit + 1

\* _enqueue_direct_update.  The byte budget may be used up at any line.
Enqueue(s, item) ==
    LET p == queueOf[s] IN
    \/ /\ count[s] # None /\ count[s] < CountLimit /\ Len(buffer[p]) < QueueSize
       /\ count' = [count EXCEPT ![s] = @ + 1]
       /\ buffer' = [buffer EXCEPT ![p] = Append(@, item)]
       /\ admitted' = [admitted EXCEPT ![p] = Append(@, item)]
       /\ UNCHANGED <<failed, future>>
    \/ FailClosed /\ UNCHANGED <<count, buffer, admitted>>

Receiving(s) == phase[s] = "active" /\ queueOf[s] # None

ItemOf(m) == [prompt |-> m.prompt, line |-> m.line]

\* A notification: evidence of the active prompt; outside of one, session state
\* is validated and discarded and anything else costs the child its continuity.
ReadUpdate(m, s) ==
    /\ m.kind \in {"update", "state"}
    /\ IF Receiving(s) THEN Enqueue(s, ItemOf(m))
       ELSE /\ IF m.kind = "state" /\ phase[s] # "active" THEN UNCHANGED <<failed, future>>
               ELSE FailClosed
            /\ UNCHANGED <<count, buffer, admitted>>
    /\ UNCHANGED <<phase, callback>>

\* A request of the agent is queued as evidence where it was read, then
\* answered by a task of its own.
ReadCallback(m, s) ==
    /\ m.kind = "callback"
    /\ IF Receiving(s) THEN Enqueue(s, ItemOf(m))
       ELSE FailClosed /\ UNCHANGED <<count, buffer, admitted>>
    /\ callback' = [callback EXCEPT ![m.id] = IF failed' THEN @ ELSE s]
    /\ UNCHANGED phase

\* Slip: nobody asks whether the callbacks of the session are answered.
Unanswered_Never(s) == FALSE

\* has_pending_incoming_requests.
Unanswered(s) == \E k \in Callbacks : callback[k] = s

\* The response of a prompt, observed in read order: the terminal marker.
ReadResponse(m, s) ==
    /\ m.kind = "response"
    /\ IF future[m.prompt] # "open" \/ Unanswered(s) \/ ~Receiving(s)
       THEN FailClosed /\ UNCHANGED <<phase, buffer>>
       ELSE /\ phase' = [phase EXCEPT ![s] = "terminal"]
            /\ IF Len(buffer[queueOf[s]]) >= QueueSize
               THEN FailClosed /\ UNCHANGED buffer
               ELSE /\ buffer' = [buffer EXCEPT ![queueOf[s]] = Append(@, Marker)]
                    /\ future' = [future EXCEPT ![m.prompt] = m.result]
                    /\ UNCHANGED failed
    /\ UNCHANGED <<count, admitted, callback>>

\* After a failure the reader dispatches at most the line it was waiting for;
\* here it may go on, which only adds behaviours.
Read ==
    /\ wire # <<>> /\ ~torn
    /\ wire' = Tail(wire)
    /\ LET m == Head(wire)
           s == sessionOf[m.prompt]
       IN ReadUpdate(m, s) \/ ReadCallback(m, s) \/ ReadResponse(m, s)
    /\ UNCHANGED <<torn, queueOf, sessionOf, task, genVars, childVars, delivered>>

\* The stream ends or is malformed.
ReadFails ==
    /\ ~failed /\ ~torn /\ FailClosed
    /\ UNCHANGED <<torn, clientVars, sessionOf, buffer, task, genVars, callback, wire,
                   childVars, admitted, delivered>>

CallbackAnswered(k) ==
    /\ callback[k] \in Sessions
    /\ callback' = [callback EXCEPT ![k] = "answered"]
    /\ UNCHANGED <<failed, torn, clientVars, sessionOf, buffer, taskVars, genVars, wire,
                   childVars, admitted, delivered>>

-----------------------------------------------------------------------------
(* The generator                                                           *)

GenStep ==
    UNCHANGED <<failed, torn, sessionOf, callback, wire, emitted, admitted>>

At(p, place) ==
    /\ consumer' = [consumer EXCEPT ![p] = place]
    /\ UNCHANGED <<outcome, late, cancelled>>

\* The body is left with an outcome.  A normal end is only a last yield: the
\* finally clause is left to the finalizer of the generator.
Leave(p, how) ==
    /\ consumer' = [consumer EXCEPT ![p] = "closing"]
    /\ outcome' = [outcome EXCEPT ![p] = how]
    /\ UNCHANGED <<late, cancelled>>

DeadlinePasses(p) ==
    /\ consumer[p] \in Suspended /\ p \notin late
    /\ late' = late \cup {p}
    /\ UNCHANGED <<consumer, outcome, cancelled, clientVars, taskVars, buffer, delivered>>
    /\ GenStep /\ UNCHANGED answering

\* Cancelling the prompt task cancels the future it awaits, if it does.
FutureCancelled(p) ==
    future' = [future EXCEPT ![p] = IF @ \in {"open", "none"} THEN "cancelled" ELSE @]

\* Slip: every poll starts its deadline anew.
Loop_Patient(p) ==
    /\ consumer[p] = "loop"
    /\ At(p, "polling")
    /\ UNCHANGED <<clientVars, taskVars, buffer, delivered>>
    /\ GenStep /\ UNCHANGED answering

Loop(p) ==
    /\ consumer[p] = "loop"
    /\ IF p \in late THEN Leave(p, "timeout") ELSE At(p, "polling")
    /\ UNCHANGED <<clientVars, taskVars, buffer, delivered>>
    /\ GenStep /\ UNCHANGED answering

\* wait_for returns an item: the end, or a line for the collector.
TakeItem(p) ==
    /\ buffer' = [buffer EXCEPT ![p] = Tail(@)]
    /\ IF Head(buffer[p]) \in {Wake, Marker}
       THEN At(p, "awaiting") /\ UNCHANGED delivered
       ELSE /\ At(p, "yielded")
            /\ delivered' = [delivered EXCEPT ![p] = Append(@, Head(buffer[p]))]

Poll(p) ==
    /\ consumer[p] = "polling" /\ buffer[p] # <<>>
    /\ TakeItem(p)
    /\ UNCHANGED <<clientVars, taskVars>>
    /\ GenStep /\ UNCHANGED answering

\* The poll timer can only win against an empty queue.
PollExpires(p) ==
    /\ consumer[p] = "polling" /\ buffer[p] = <<>>
    /\ At(p, "expiring")
    /\ UNCHANGED <<clientVars, taskVars, buffer, delivered>>
    /\ GenStep /\ UNCHANGED answering

\* TimeoutError is raised some turns later; an item queued since then stays.
PollTimesOut(p) ==
    /\ consumer[p] = "expiring"
    /\ At(p, IF task[p] = "done" THEN "draining" ELSE "loop")
    /\ UNCHANGED <<clientVars, taskVars, buffer, delivered>>
    /\ GenStep /\ UNCHANGED answering

\* Slip: a prompt task found finished behind a timed out poll ends the stream.
Drain_Skips(p) ==
    /\ consumer[p] = "draining"
    /\ At(p, "awaiting")
    /\ UNCHANGED <<clientVars, taskVars, buffer, delivered>>
    /\ GenStep /\ UNCHANGED answering

\* The branch of the finished prompt task yields all that is queued but None.
Drain(p) ==
    /\ consumer[p] = "draining"
    /\ IF buffer[p] = <<>> THEN At(p, "awaiting") /\ UNCHANGED <<buffer, delivered>>
       ELSE /\ buffer' = [buffer EXCEPT ![p] = Tail(@)]
            /\ delivered' = [delivered EXCEPT ![p] =
                 IF Head(buffer[p]) = Wake THEN @ ELSE Append(@, Head(buffer[p]))]
            /\ At(p, "draining")
    /\ UNCHANGED <<clientVars, taskVars>>
    /\ GenStep /\ UNCHANGED answering

\* The collector asks for the next update.
Resume(p) ==
    /\ consumer[p] = "yielded"
    /\ At(p, "loop")
    /\ UNCHANGED <<clientVars, taskVars, buffer, delivered>>
    /\ GenStep /\ UNCHANGED answering

\* The prompt task has ended: the last yield, or its exception.
Finish(p) ==
    /\ consumer[p] = "awaiting" /\ task[p] = "done"
    /\ Leave(p, IF future[p] = "end" THEN "done" ELSE "error")
    /\ UNCHANGED <<clientVars, taskVars, buffer, delivered>>
    /\ GenStep /\ UNCHANGED answering

\* The collector is cancelled wherever the generator is suspended.  wait_for of
\* Python 3.11 returns an item it has just taken and forgets the cancellation.
Cancel(p) ==
    /\ consumer[p] \in Suspended \ {"loop"} /\ p \notin cancelled
    /\ cancelled' = cancelled \cup {p}
    /\ \/ /\ consumer[p] = "polling" /\ buffer[p] # <<>>
          /\ UNCHANGED <<consumer, outcome>>
       \/ /\ ~(consumer[p] = "polling" /\ buffer[p] # <<>>)
          /\ consumer' = [consumer EXCEPT ![p] = "closing"]
          /\ outcome' = [outcome EXCEPT ![p] = "cancelled"]
    /\ UNCHANGED <<late, clientVars, taskVars, buffer, delivered>>
    /\ GenStep /\ UNCHANGED answering

\* Slip: the queue is left registered for the session.
Close_KeepsQueue(p) ==
    /\ consumer[p] = "closing"
    /\ UNCHANGED clientVars
    /\ IF task[p] = "done" THEN At(p, "ended") /\ UNCHANGED taskVars
       ELSE /\ At(p, "unwinding") /\ FutureCancelled(p)
            /\ task' = [task EXCEPT ![p] = IF @ = "waiting" THEN @ ELSE "done"]
    /\ UNCHANGED <<buffer, delivered>>
    /\ answering' = IF task[p] = "draining" THEN answering \cup {p} ELSE answering
    /\ GenStep

\* The finally clause: queue and budget go by session, the task is cancelled.
\* A task still draining never gets to its observer, its bytes do get out.
Close(p) ==
    LET s == sessionOf[p] IN
    /\ consumer[p] = "closing"
    /\ queueOf' = [queueOf EXCEPT ![s] = None] /\ count' = [count EXCEPT ![s] = None]
    /\ UNCHANGED phase
    /\ IF task[p] = "done" THEN At(p, "ended") /\ UNCHANGED taskVars
       ELSE /\ At(p, "unwinding") /\ FutureCancelled(p)
            /\ task' = [task EXCEPT ![p] = IF @ = "waiting" THEN @ ELSE "done"]
    /\ UNCHANGED <<buffer, delivered>>
    /\ answering' = IF task[p] = "draining" THEN answering \cup {p} ELSE answering
    /\ GenStep

Unwind(p) ==
    /\ consumer[p] = "unwinding" /\ task[p] = "done"
    /\ At(p, "ended")
    /\ UNCHANGED <<clientVars, taskVars, buffer, delivered>>
    /\ GenStep /\ UNCHANGED answering

-----------------------------------------------------------------------------
(* Teardown                                                                *)

\* _signal_update_queues: registered queues are emptied, their readers woken.
Signalled(p) == IF \E s \in Sessions : queueOf[s] = p THEN <<Wake>> ELSE buffer[p]

\* abort fails the transport at once; stop only when the child is gone.
Teardown ==
    /\ ~torn /\ torn' = TRUE
    /\ buffer' = [p \in Prompts |-> Signalled(p)]
    /\ phase' = [s \in Sessions |-> "none"]
    /\ queueOf' = [s \in Sessions |-> None]
    /\ count' = [s \in Sessions |-> None]
    /\ FailClosed \/ UNCHANGED <<failed, future>>
    /\ callback' = [k \in Callbacks |-> IF callback[k] \in Sessions THEN "answered"
                                        ELSE callback[k]]
    /\ UNCHANGED <<sessionOf, task, genVars, wire, childVars, admitted, delivered>>

\* The end of the transport's stop rejects what is pending.
TransportStopped ==
    /\ torn /\ future # Failed
    /\ future' = Failed
    /\ UNCHANGED <<failed, torn, clientVars, sessionOf, buffer, task, genVars, callback,
                   wire, childVars, admitted, delivered>>

-----------------------------------------------------------------------------
Generator(p) ==
    \/ Loop(p) \/ Poll(p) \/ PollExpires(p) \/ PollTimesOut(p) \/ Drain(p) \/ Resume(p)
    \/ Finish(p) \/ Close(p) \/ Unwind(p)
Task(p) == TaskWrites(p) \/ TaskDrained(p) \/ TaskBreaks(p) \/ TaskWakes(p)

Next ==
    \/ \E p \in Prompts :
         \/ \E s \in Sessions : StartPrompt(p, s)
         \/ Generator(p) \/ Task(p) \/ DeadlinePasses(p) \/ Cancel(p)
         \/ ChildWrites(p) \/ ChildAnswers(p)
    \/ Read \/ ReadFails \/ Teardown \/ TransportStopped
    \/ \E k \in Callbacks : CallbackAnswered(k)

Spec == Init /\ [][Next]_vars

\* The event loop runs what is ready, the deadline passes, a stop under way
\* ends and breaks the pipes (Transport).  The child may do nothing at all.
FairSpec ==
    /\ Spec /\ WF_vars(TransportStopped)
    /\ \A p \in Prompts :
         /\ WF_vars(Generator(p)) /\ WF_vars(DeadlinePasses(p))
         /\ WF_vars(TaskWrites(p)) /\ WF_vars(TaskWakes(p))
         /\ WF_vars(torn /\ TaskBreaks(p))

-----------------------------------------------------------------------------
(* Properties                                                              *)

ResponseTo(m, p) == m.kind = "response" /\ m.prompt = p

\* The child has, will get, or has answered unread, the request of p.
Owed(p) ==
    \/ task[p] \in {"created", "draining"} \/ p \in answering
    \/ \E i \in DOMAIN wire : ResponseTo(wire[i], p)

\* A prompt that ends normally has given its collector every line the reader
\* admitted, once and in order and at most the terminal marker behind them,
\* whichever way the poll and its timer raced the lines and the response
\* (_prompt_content, _observe_response).  A teardown is the exception: it empties
\* the queue of a prompt that may have its response already, and
\* DirectService!LossSettlesEverything has settled the record by then.
EvidenceIsComplete ==
    ~torn => \A p \in Prompts : outcome[p] = "done" =>
        delivered[p] \in {admitted[p], Append(admitted[p], Marker)}

\* While the child keeps its continuity, a callback is handled only during the
\* epoch of a prompt whose response is still to be read.  However slow its task,
\* and whatever became of the collector and of the prompts around it, the callback
\* is never answered between two prompts of its session or during the next one
\* (_observe_response against the callback tasks, _prompt_content's phases).
CallbacksStayInTheirPrompt ==
    ~failed => \A k \in Callbacks : callback[k] \in Sessions =>
        /\ phase[callback[k]] = "active"
        /\ \E p \in Prompts : Owed(p) /\ sessionOf[p] = callback[k]

\* While the child keeps its continuity it works on one prompt of a session at
\* most, though collectors are cancelled and time out around it.
OnePromptAtAgent ==
    ~failed => \A p, q \in answering : sessionOf[p] = sessionOf[q] => p = q

\* The terminal marker always fits: a response read for the active prompt with
\* its callbacks answered settles it, however much evidence is queued before.
ResponseAlwaysFits ==
    [][\A s \in Sessions : phase[s] = "active" /\ phase'[s] = "terminal" =>
         \E p \in Prompts : future[p] = "open" /\ future'[p] \in {"end", "error"}]_vars

\* A registered queue belongs to a prompt whose generator will still read it,
\* and evidence is registered for it under its own session.
QueueHasReader ==
    ~failed => \A s \in Sessions : queueOf[s] # None =>
        sessionOf[queueOf[s]] = s /\ consumer[queueOf[s]] # "ended"

\* Every started prompt ends, if the child stays silent, if its cancellation is
\* forgotten, and if the client is torn down around it (an ended prompt stays so).
PromptsEnd == []<>(\A p \in Prompts : consumer[p] \in {"idle", "ended"})

\* No prompt is given lines the child wrote for another: whatever a cancelled or
\* timed out prompt leaves behind, its session is not lent out before it is over.
EvidenceIsItsOwn ==
    \A p \in Prompts : \A i \in DOMAIN admitted[p] : admitted[p][i].prompt = p

\* Prompts stay apart, at the agent and at the reader, through every way one of
\* them may end (_prompt_content's phases and its finally clause).
PromptsStayApart == TypeOK /\ OnePromptAtAgent /\ QueueHasReader

-----------------------------------------------------------------------------
(* The inductive invariant of PromptStreamProofs                           *)

Live(p) == consumer[p] \notin {"idle", "ended"}

\* A generator, its prompt task and the future that one awaits.
TaskFits(p) ==
    /\ IF consumer[p] = "idle"
       THEN /\ sessionOf[p] = None /\ task[p] = "none" /\ future[p] = "none"
            /\ buffer[p] = <<>> /\ admitted[p] = <<>> /\ delivered[p] = <<>>
       ELSE sessionOf[p] # None
    /\ consumer[p] = "ended" => task[p] \in {"none", "done"}
    /\ consumer[p] = "unwinding" => task[p] \in {"waiting", "done"} /\ future[p] # "open"
    /\ Live(p) => task[p] # "none"
    /\ task[p] = "created" => future[p] = "none"
    /\ future[p] = "open" => task[p] \in {"draining", "waiting"}
    /\ p \in answering => task[p] \in {"waiting", "done"}

\* One generator of a session is alive; a lost transport leaves no future open.
LivesAreWellFormed ==
    /\ \A p \in Prompts : TaskFits(p) /\ (failed => future[p] # "open")
    /\ \A p, q \in Prompts : Live(p) /\ Live(q) /\ sessionOf[p] = sessionOf[q] => p = q

\* A queue and a budget are registered from the start of a prompt to its finally
\* clause; a budget names a live prompt, a queue that of a refused one at worst.
QueuesAreRegistered ==
    /\ \A s \in Sessions : queueOf[s] # None =>
         /\ sessionOf[queueOf[s]] = s
         /\ consumer[queueOf[s]] \notin {"idle", "unwinding"}
         /\ ~failed => consumer[queueOf[s]] # "ended"
    /\ \A s \in Sessions : count[s] # None =>
         queueOf[s] # None /\ Live(queueOf[s]) /\ count[s] <= CountLimit
    /\ ~torn => \A p \in Prompts : Live(p) /\ consumer[p] # "unwinding" =>
         queueOf[sessionOf[p]] = p /\ count[sessionOf[p]] # None

\* A prompt's lines precede its one response on the wire.
WireIsOrdered ==
    \A i \in DOMAIN wire :
        /\ wire[i].kind # "response" =>
             \/ wire[i].prompt \in answering
             \/ \E j \in DOMAIN wire : j > i /\ ResponseTo(wire[j], wire[i].prompt)
        /\ wire[i].kind = "response" =>
             /\ wire[i].prompt \notin answering
             /\ task[wire[i].prompt] \in {"waiting", "done"}
             /\ \A j \in DOMAIN wire : ResponseTo(wire[j], wire[i].prompt) => j = i

\* A session's epoch ends with the response of the one prompt owed to it.
EpochsAreApart ==
    /\ \A p, q \in Prompts : Owed(p) /\ Owed(q) /\ sessionOf[p] = sessionOf[q] => p = q
    /\ \A p \in Prompts : Owed(p) /\ count[sessionOf[p]] # None => queueOf[sessionOf[p]] = p
    /\ ~torn => \A p \in Prompts :
         /\ Owed(p) => phase[sessionOf[p]] \in {"preparing", "active"}
         /\ future[p] = "open" => Owed(p)
         /\ Live(p) /\ future[p] \in {"end", "error"} => phase[sessionOf[p]] = "terminal"

\* What was admitted was delivered or is queued, with the marker behind it once
\* the epoch has ended.
FlowIsWhole(p) ==
    /\ delivered[p] \o buffer[p] \in {admitted[p], Append(admitted[p], Marker)}
    /\ \A s \in Sessions : queueOf[s] = p /\ count[s] # None /\ phase[s] # "terminal" =>
         delivered[p] \o buffer[p] = admitted[p] /\ Len(buffer[p]) <= count[s]
    /\ consumer[p] = "draining" => task[p] = "done"
    /\ consumer[p] = "awaiting" => future[p] # "open" /\ task[p] # "created"
    /\ consumer[p] = "awaiting" /\ future[p] = "end" => buffer[p] = <<>>
    /\ outcome[p] = "done" =>
         consumer[p] \in {"closing", "unwinding", "ended"} /\ future[p] = "end"
         /\ buffer[p] = <<>>

\* Nothing is lost between the reader and the collector.
NothingIsLost == ~torn => \A p \in Prompts : FlowIsWhole(p)

\* The child has the request of p in hand, or has answered it unread.
Working(p) == Owed(p) /\ task[p] \in {"waiting", "done"}

\* An active epoch has a prompt the child works on, and only active epochs have
\* callbacks.
CallbacksHaveEpochs ==
    ~failed =>
        /\ ~torn => \A s \in Sessions : phase[s] = "active" =>
             \E p \in Prompts : Working(p) /\ sessionOf[p] = s
        /\ \A k \in Callbacks : callback[k] \in Sessions =>
             ~torn /\ phase[callback[k]] = "active"

IInv ==
    /\ TypeOK /\ LivesAreWellFormed /\ QueuesAreRegistered /\ WireIsOrdered
    /\ EpochsAreApart /\ EvidenceIsItsOwn /\ NothingIsLost
=============================================================================
