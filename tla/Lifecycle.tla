----------------------------- MODULE Lifecycle -----------------------------
(***************************************************************************)
(* One run of the proxy process, run() of src/src/acp_proxy/__main__.py:   *)
(* admission of the options, start of the child, the catalog probe, the    *)
(* HTTP server, the readiness file, and the shutdown in its finally clause *)
(* against a child that may be lost at every await of it.                  *)
(*                                                                         *)
(* main is where run() is suspended.  The direct service is seen from      *)
(* outside: live, marked lost with tasks still to drain, drained.  Who     *)
(* marks it first waits for its tasks; any later caller of                 *)
(* mark_generation_lost returns at once.  DirectService models the inside. *)
(* Of the HTTP requests only those count that something outside the proxy  *)
(* may hold up for ever: server.shutdown() waits for them.                 *)
(***************************************************************************)
EXTENDS Naturals

VARIABLES
    options,      \* the arguments of run()
    main,         \* where run() waits
    child,        \* the language server: none, alive, gone
    childLost,    \* child_lost_event
    service,      \* direct_service: none, live, marked, drained
    marker,       \* who marked it lost: nobody, itself, the loss task, main
    lossTask,     \* generation_loss_task: none, running, done
    signalled,    \* shutdown_event
    shouldExit,   \* server.should_exit
    http,         \* none, starting, listening, closed
    serverTask,   \* server.main_loop(): none, running, done
    ready,        \* the readiness file: absent, present, left behind by the OS
    waits         \* what open requests wait for without a limit

childVars == <<child, childLost, service, marker, lossTask>>
httpVars == <<shouldExit, http, serverTask, ready, waits>>
vars == <<options, main, childVars, signalled, httpVars>>

Options == [mode : {"direct", "legacy", "unknown"}, host : {"loopback", "wildcard", "other"},
            authority : {"none", "trusted-host", "confined-container"},
            secret : BOOLEAN, prompt : BOOLEAN, limits : BOOLEAN, boundary : BOOLEAN,
            metadata : BOOLEAN]

\* A handler waits for the child, whose answer to session/new or to the choice of
\* a model legacy mode awaits without a limit; for its client, which may stall in
\* its body or stop reading the response; or for nobody: legacy mode forgets a
\* request whose answer carries a malformed error (Transport!ReadResponse).
Waits == IF options.mode = "legacy" THEN {"child", "client", "nobody"} ELSE {"client"}

TypeOK ==
    /\ options \in Options
    /\ main \in {"admitting", "starting", "probing", "stranded", "binding", "serving",
                 "losing", "exiting", "settling", "draining", "closing", "stopping",
                 "ended"}
    /\ child \in {"none", "alive", "gone"} /\ childLost \in BOOLEAN
    /\ service \in {"none", "live", "marked", "drained"}
    /\ marker \in {"nobody", "itself", "loss", "main"}
    /\ lossTask \in {"none", "running", "done"}
    /\ signalled \in BOOLEAN /\ shouldExit \in BOOLEAN
    /\ http \in {"none", "starting", "listening", "closed"}
    /\ serverTask \in {"none", "running", "done"}
    /\ ready \in {"absent", "present", "left"} /\ waits \subseteq Waits

Init ==
    /\ options \in Options
    /\ main = "admitting" /\ child = "none" /\ childLost = FALSE
    /\ service = "none" /\ marker = "nobody" /\ lossTask = "none"
    /\ signalled = FALSE /\ shouldExit = FALSE
    /\ http = "none" /\ serverTask = "none" /\ ready = "absent" /\ waits = {}

Goto(place) == main' = place

-----------------------------------------------------------------------------
(* Starting                                                                *)

\* _validate_run_mode for direct mode: a secret, no prompt of the proxy's own,
\* and no address beyond this host without both marks of a container.
DirectOptions ==
    /\ ~options.prompt /\ options.secret
    /\ \/ options.authority = "trusted-host" /\ options.host = "loopback"
       \/ /\ options.authority = "confined-container" /\ options.boundary
          /\ options.host \in {"loopback", "wildcard"}

LegacyOptions == options.authority = "none" /\ ~options.limits

ValidRunMode ==
    \/ options.mode = "legacy" /\ LegacyOptions
    \/ options.mode = "direct" /\ DirectOptions

\* Validation and binary admission come before anything is owned.
Admit ==
    /\ main = "admitting" /\ ValidRunMode
    /\ Goto("starting") /\ child' = "alive"
    /\ UNCHANGED <<options, childLost, service, marker, lossTask, signalled, httpVars>>

Refuse ==
    /\ main = "admitting" /\ Goto("ended")
    /\ UNCHANGED <<options, childVars, signalled, httpVars>>

\* client.start() returned: initialize was answered.
Initialized ==
    /\ main = "starting" /\ Goto("probing")
    /\ UNCHANGED <<options, childVars, signalled, httpVars>>

\* An error, the probe's timeout, or an interrupt that cancels run() while its
\* own signal handlers are not installed yet.
StartFails ==
    /\ main \in {"starting", "probing", "stranded"} /\ Goto("settling")
    /\ UNCHANGED <<options, childVars, signalled, httpVars>>

\* Slip: a child lost while its last answer waited is not looked for.
MayGoOn_Unchecked == TRUE

\* The child_lost_event is looked at after each await of the start.
MayGoOn == ~childLost

\* The probe is answered: from here to the await of server.startup() the
\* service, the application and the signal handlers are made in one step.
Probed ==
    /\ main = "probing"
    /\ IF MayGoOn
       THEN /\ Goto("binding") /\ http' = "starting"
            /\ service' = IF options.mode = "direct" THEN "live" ELSE "none"
       ELSE Goto("settling") /\ UNCHANGED <<http, service>>
    /\ UNCHANGED <<options, child, childLost, marker, lossTask, signalled,
                   shouldExit, serverTask, ready, waits>>

\* The address cannot be bound, or no socket is found.
BindFails ==
    /\ main = "binding" /\ Goto("settling")
    /\ UNCHANGED <<options, childVars, signalled, httpVars>>

\* server.startup() returned: the readiness file and the main loop.  The file
\* is renamed into place, so a failed write leaves none.
Bound ==
    /\ main = "binding" /\ http' = "listening"
    /\ \/ /\ MayGoOn /\ Goto("serving")
          /\ serverTask' = "running"
          /\ ready' = IF options.metadata THEN "present" ELSE "absent"
       \/ /\ ~MayGoOn \/ options.metadata
          /\ Goto("settling") /\ UNCHANGED <<serverTask, ready>>
    /\ UNCHANGED <<options, childVars, signalled, shouldExit, waits>>

-----------------------------------------------------------------------------
(* Losing the child                                                        *)

\* _owned_child_closed, called by the transport when it fails.
ChildClosed ==
    /\ child' = "gone" /\ childLost' = TRUE
    /\ lossTask' = IF service # "none" /\ lossTask = "none" THEN "running" ELSE lossTask

LoseChild ==
    /\ child = "alive" /\ ChildClosed
    /\ UNCHANGED <<options, main, service, marker, signalled, httpVars>>

\* A legacy answer with a malformed error fails the transport and leaves its own
\* caller behind, a handler or run() itself (Transport!ReadResponse).
Strand ==
    /\ options.mode = "legacy" /\ child = "alive" /\ ChildClosed
    /\ \/ /\ main \in {"starting", "probing"} /\ Goto("stranded")
          /\ UNCHANGED waits
       \/ /\ "child" \in waits /\ waits' = waits \cup {"nobody"}
          /\ UNCHANGED main
    /\ UNCHANGED <<options, service, marker, signalled, shouldExit, http, serverTask, ready>>

\* mark_generation_lost: who finds the service live marks it and waits.
Mark(who) == service' = "marked" /\ marker' = who

\* The service gives up an uncertain generation by itself: marks, drains the
\* other tasks, then aborts the child.
Quarantine ==
    /\ service = "live" /\ http = "listening" /\ Mark("itself")
    /\ UNCHANGED <<options, main, child, childLost, lossTask, signalled, httpVars>>

AbortChild ==
    /\ service = "marked" /\ marker = "itself"
    /\ service' = "drained"
    /\ IF child = "alive" THEN ChildClosed ELSE UNCHANGED <<child, childLost, lossTask>>
    /\ UNCHANGED <<options, main, marker, signalled, httpVars>>

\* The tasks another caller cancelled have ended.
Drain ==
    /\ service = "marked" /\ marker # "itself"
    /\ service' = "drained"
    /\ UNCHANGED <<options, main, child, childLost, marker, lossTask, signalled, httpVars>>

MarkLost ==
    /\ lossTask = "running" /\ service = "live" /\ Mark("loss")
    /\ UNCHANGED <<options, main, child, childLost, lossTask, signalled, httpVars>>

LossTaskEnds ==
    /\ lossTask = "running"
    /\ service = "drained" \/ (service = "marked" /\ marker # "loss")
    /\ lossTask' = "done"
    /\ UNCHANGED <<options, main, child, childLost, service, marker, signalled, httpVars>>

-----------------------------------------------------------------------------
(* Serving and shutting down                                               *)

\* A handler comes to an await that has no limit of its own.
RequestWaits(who) ==
    /\ http = "listening" /\ who \in Waits \ {"nobody"}
    /\ who = "child" => child = "alive"
    /\ waits' = waits \cup {who}
    /\ UNCHANGED <<options, main, childVars, signalled, shouldExit, http, serverTask, ready>>

\* The child answers or its transport fails; the client goes on or goes away.
RequestEnds(who) ==
    /\ who \in waits
    /\ waits' = waits \ {who}
    /\ UNCHANGED <<options, main, childVars, signalled, shouldExit, http, serverTask, ready>>

\* SIGINT or SIGTERM, once the handlers are installed.
Signal ==
    /\ http # "none" /\ ~signalled /\ main # "ended"
    /\ signalled' = TRUE
    /\ UNCHANGED <<options, main, childVars, httpVars>>

\* The main loop ends when told to, or by itself.
ServerEnds ==
    /\ serverTask = "running" /\ serverTask' = "done"
    /\ UNCHANGED <<options, main, childVars, signalled, shouldExit, http, ready, waits>>

Exit == shouldExit' = TRUE /\ Goto("exiting")

\* Slip: the wait is for the server and the signal only.
Reason_NoChild == serverTask = "done" \/ signalled

\* asyncio.wait, FIRST_COMPLETED.
Reason == serverTask = "done" \/ signalled \/ childLost

\* A loss is seen if its watcher ended in time, and surely if nothing else woke run().
Wake ==
    /\ main = "serving" /\ Reason
    /\ \/ /\ childLost /\ lossTask # "none"
          /\ Goto("losing") /\ UNCHANGED shouldExit
       \/ /\ serverTask = "done" \/ signalled \/ options.mode = "legacy"
          /\ Exit
    /\ UNCHANGED <<options, childVars, signalled, http, serverTask, ready, waits>>

Lost ==
    /\ main = "losing" /\ lossTask = "done"
    /\ Exit
    /\ UNCHANGED <<options, childVars, signalled, http, serverTask, ready, waits>>

Exited ==
    /\ main = "exiting" /\ serverTask = "done" /\ Goto("settling")
    /\ UNCHANGED <<options, childVars, signalled, httpVars>>

\* Slip: the loss task already running is not waited for.
LossSettled_Running == TRUE

LossSettled == lossTask # "running"

\* The finally clause: the loss task, then the owner's own mark.
Settle ==
    /\ main = "settling" /\ LossSettled
    /\ Goto("draining")
    /\ IF service = "live" THEN Mark("main") ELSE UNCHANGED <<service, marker>>
    /\ UNCHANGED <<options, child, childLost, lossTask, signalled, httpVars>>

\* server.shutdown(), if startup was attempted: it stops listening first.
CloseHttp ==
    /\ main = "draining" /\ ~(service = "marked" /\ marker = "main")
    /\ Goto("closing")
    /\ http' = IF http = "none" THEN "none" ELSE "closed"
    /\ UNCHANGED <<options, childVars, signalled, shouldExit, serverTask, ready, waits>>

\* Slip: the readiness file is removed on the path of the signal only.
Unready_AfterSignal == ready' = IF signalled THEN "absent" ELSE ready

\* An OSError of the removal is logged and the file stays.
Unready == IF ready = "present" THEN ready' \in {"absent", "left"} ELSE UNCHANGED ready

\* server.shutdown() returns when the last request is done, and has no timeout:
\* remove the file, then client.stop().  A transport that is being stopped calls
\* no close handler.
StopChild ==
    /\ main = "closing" /\ waits = {} /\ Goto("stopping")
    /\ Unready
    /\ child' = IF child = "none" THEN "none" ELSE "gone"
    /\ UNCHANGED <<options, childLost, service, marker, lossTask, signalled,
                   shouldExit, http, serverTask, waits>>

Stopped ==
    /\ main = "stopping" /\ Goto("ended")
    /\ UNCHANGED <<options, childVars, signalled, httpVars>>

Start == Admit \/ Refuse \/ Initialized \/ StartFails \/ Probed \/ BindFails \/ Bound
ShutDown == Wake \/ Lost \/ Exited \/ Settle \/ CloseHttp \/ StopChild \/ Stopped
Losing == Quarantine \/ AbortChild \/ Drain \/ MarkLost \/ LossTaskEnds

Next ==
    \/ Start \/ ShutDown \/ Losing \/ LoseChild \/ Signal \/ ServerEnds
    \/ Strand
    \/ \E who \in {"child", "client"} : RequestWaits(who) \/ RequestEnds(who)

Spec == Init /\ [][Next]_vars

\* run() goes on when what it awaits is done; the loss of the child fails the
\* requests of the start and those of legacy handlers, but a forgotten one;
\* uvicorn's loop ends when told to; the service drains (DirectService!LossDrains).
\* Nothing is assumed of the child, of the answers to the probe, of signals or of
\* HTTP clients: a live child that never answers and a client that stalls hold
\* server.shutdown() up.
Fairness ==
    /\ WF_vars(ShutDown) /\ WF_vars(AbortChild) /\ WF_vars(Drain)
    /\ WF_vars(MarkLost) /\ WF_vars(LossTaskEnds)
    /\ WF_vars(childLost /\ main # "stranded" /\ (StartFails \/ Probed))
    /\ WF_vars(Bound \/ BindFails)
    /\ WF_vars(shouldExit /\ ServerEnds)
    /\ WF_vars(child = "gone" /\ RequestEnds("child"))

FairSpec == Spec /\ Fairness

-----------------------------------------------------------------------------
\* A service that still admits work over a lost child has its loss task on the
\* way, at whichever await of the start or of serving the child was lost.
LossReachesService == service = "live" /\ childLost => lossTask = "running"

\* The readiness file appears only for a listening server over a child that has
\* not been lost, whose service is live.
ReadinessIsTrue ==
    [][ready' # ready /\ ready' = "present" =>
           /\ http' = "listening" /\ ~childLost
           /\ options.mode = "direct" => service' = "live"]_vars

\* The owner stops the child, and ends, only behind tasks that have drained;
\* the one exception is a quarantine the service began by itself, which no caller
\* of mark_generation_lost waits for.
OwnerDrainsFirst ==
    main \in {"stopping", "ended"} /\ service \in {"live", "marked"} => marker = "itself"

\* Whatever the start or the shutdown ran into, a process that ends leaves no
\* child, no listening socket, no server task, no open request, and no readiness
\* file it did not try to remove: only one the OS would not remove can stay.
NothingLeftBehind ==
    main = "ended" =>
        /\ child # "alive" /\ http # "listening" /\ serverTask # "running"
        /\ waits = {} /\ ready # "present"

\* The finally clause of run() is orderly whatever the start or the loss left it.
ShutdownIsOrderly == TypeOK /\ OwnerDrainsFirst /\ NothingLeftBehind

\* server.shutdown(), or run() in its start, waits for what nothing in the proxy
\* can end.
Held ==
    \/ main = "stranded"
    \/ /\ main = "closing"
       /\ waits \cap {"client", "nobody"} # {} \/ ("child" \in waits /\ child = "alive")

\* A lost child or a signal ends the process, unless it is held up for ever by a
\* client, by a live child that never answers a legacy request, or by a legacy
\* request that was forgotten.  In direct mode only a client can do that.
LossOrSignalEnds ==
    <>[]Held \/ ((childLost \/ (signalled /\ main = "serving")) ~> main = "ended")

-----------------------------------------------------------------------------
(* The inductive invariant                                                 *)

Finishing == {"draining", "closing", "stopping", "ended"}

\* Nothing but the child exists before the probe is answered.
StartOwnsOnlyTheChild ==
    /\ main \in {"admitting", "starting", "probing", "stranded"} =>
         /\ service = "none" /\ http = "none" /\ serverTask = "none"
         /\ ready = "absent" /\ waits = {}
    /\ main = "admitting" => child = "none"

\* A loss task exists only over a lost child, for a service that was there to
\* be told; until the server listens nothing else can mark that service.
LossTaskHasCause ==
    /\ childLost => child = "gone"
    /\ lossTask # "none" => childLost /\ service # "none"
    /\ main = "binding" =>
         /\ http = "starting" /\ serverTask = "none" /\ ready = "absent" /\ waits = {}
         /\ options.mode = "direct" /\ ~childLost => service = "live"

\* Who marked the service stays until it has drained, but for the service itself.
MarkerWaits ==
    service = "marked" =>
        /\ marker = "loss" => lossTask = "running" /\ main \notin Finishing
        /\ marker = "main" => main = "draining"
        /\ marker # "nobody"

\* What each part of the finally clause leaves to the next.
FinallyInOrder ==
    /\ main \in Finishing => service # "live"
    /\ serverTask = "running" => main \in {"serving", "losing", "exiting"}
    /\ main \in Finishing \ {"draining"} => http # "listening"
    /\ main \in {"stopping", "ended"} => child # "alive" /\ ready # "present" /\ waits = {}

IInv ==
    /\ TypeOK /\ StartOwnsOnlyTheChild /\ LossTaskHasCause /\ LossReachesService
    /\ MarkerWaits /\ FinallyInOrder
=============================================================================
