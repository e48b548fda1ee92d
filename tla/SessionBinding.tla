--------------------------- MODULE SessionBinding ---------------------------
(***************************************************************************)
(* Session creation and model binding of the direct ACP client,            *)
(* src/src/acp_proxy/client.py: session identities seen before the         *)
(* session/new response that names them, the per-session model catalog,    *)
(* the negotiation of one binding strategy per child, binding requests and *)
(* the guard on model drift, and the teardown that clears it all.          *)
(*                                                                         *)
(* A task is one coroutine.  A probe is the startup task: create_session,  *)
(* then negotiate_direct_model_binding for the default model it reported.  *)
(* A creator is one create_session_exact.  pc is where the task waits:     *)
(*   creating  for session/new          binding  for its binding request   *)
(* Between the reader handing over an answer and the task resuming, other  *)
(* lines may be read and the client may be torn down.  The child is        *)
(* arbitrary: it answers anything, in any order, and reports any state.    *)
(* A line dispatched after the transport failed changes nothing here (no   *)
(* request is pending, so no identity is admitted), so reading stops.      *)
(***************************************************************************)
EXTENDS Naturals, FiniteSets

CONSTANTS
    Probes, Creators, SessionIds, Models,
    MaxTeardowns,   \* bound: abort and stop
    None

Tasks == Probes \cup Creators
Methods == {"session/new", "session/set_config_option", "session/set_model"}

ASSUME TasksAreDistinct == Probes \cap Creators = {} /\ IsFiniteSet(Tasks)
ASSUME NoneIsNothing ==
    None \notin SessionIds \cup Models \cup Tasks \cup Methods \cup {"standard", "copilot"}
ASSUME TeardownsAreNatural == MaxTeardowns \in Nat

VARIABLES
    open,          \* the transport accepts requests
    pending,       \* _pending_requests: the method each task's request still holds
    answer,        \* what the future of each waiting task holds
    pc, wanted, asked, session,   \* each task: position, model, last request, session
    provisional,   \* _provisional_session_ids
    responseIds,   \* _session_new_response_ids
    sessions,      \* _sessions: the identities registered
    model, catalog,   \* of each session object: model_id, available_model_ids
    advertised,    \* _models and _default_model, the catalog of the probe
    expected,      \* _expected_model_updates
    strategy,      \* _direct_model_binding_strategy
    negotiation,   \* _direct_model_binding_negotiation: the task it belongs to
    generation,    \* _direct_model_binding_generation
    startedIn,     \* the generation a negotiation began in
    heard          \* history: the last model reported since binding was asked

rpcVars == <<open, pending, answer>>
taskVars == <<pc, wanted, asked, session>>
identityVars == <<provisional, responseIds, sessions>>
modelVars == <<model, catalog, advertised>>
strategyVars == <<strategy, negotiation, generation, startedIn>>
vars == <<rpcVars, taskVars, identityVars, modelVars, expected, strategyVars, heard>>

\* What a request ends with; id and offered only for session/new.
Answers == [kind : {"none", "lost", "error", "not_found", "ok"},
            id : SessionIds \cup {None}, model : Models \cup {None}, offered : SUBSET Models]
Bare(kind) == [kind |-> kind, id |-> None, model |-> None, offered |-> {}]
Unanswered == Bare("none")
\* A state update: the current model of its options, no model option, an
\* envelope out of shape, or a kind that is not config_option_update.
Reports == Models \cup {"missing", "malformed", "other"}

TypeOK ==
    /\ open \in BOOLEAN
    /\ pending \in [Tasks -> Methods \cup {None}]
    /\ answer \in [Tasks -> Answers]
    /\ pc \in [Tasks -> {"idle", "creating", "binding", "done", "failed"}]
    /\ wanted \in [Tasks -> Models \cup {None}]
    /\ asked \in [Tasks -> Methods \cup {None}]
    /\ session \in [Tasks -> SessionIds \cup {None}]
    /\ provisional \in SUBSET SessionIds /\ responseIds \in SUBSET SessionIds
    /\ sessions \in SUBSET SessionIds
    /\ model \in [SessionIds -> Models \cup {None}]
    /\ catalog \in [SessionIds -> SUBSET Models]
    /\ advertised \in [offered : SUBSET Models, default : Models \cup {None}]
    /\ expected \in [SessionIds -> Models \cup {None}]
    /\ strategy \in {None, "standard", "copilot"}
    /\ negotiation \in Probes \cup {None}
    /\ generation \in 0..MaxTeardowns
    /\ startedIn \in [Probes -> Nat]
    /\ heard \in [SessionIds -> Reports \cup {None}]

Init ==
    /\ open = TRUE
    /\ pending = [t \in Tasks |-> None] /\ answer = [t \in Tasks |-> Unanswered]
    /\ pc = [t \in Tasks |-> "idle"] /\ wanted = [t \in Tasks |-> None]
    /\ asked = [t \in Tasks |-> None] /\ session = [t \in Tasks |-> None]
    /\ provisional = {} /\ responseIds = {} /\ sessions = {}
    /\ model = [s \in SessionIds |-> None] /\ catalog = [s \in SessionIds |-> {}]
    /\ advertised = [offered |-> {}, default |-> None]
    /\ expected = [s \in SessionIds |-> None]
    /\ strategy = None /\ negotiation = None
    /\ generation = 0 /\ startedIn = [p \in Probes |-> 0]
    /\ heard = [s \in SessionIds |-> None]

-----------------------------------------------------------------------------
(* The transport, as this part of the client sees it                       *)

Waiting(t) == pc[t] \in {"creating", "binding"} /\ answer[t] = Unanswered

\* fail_closed: every future still open is rejected.
FailClosed ==
    /\ open' = FALSE
    /\ pending' = [t \in Tasks |-> None]
    /\ answer' = [t \in Tasks |-> IF Waiting(t) THEN Bare("lost") ELSE answer[t]]

\* pending_request_count("session/new"); a cancelled request keeps its entry.
PendingCreates == Cardinality({t \in Tasks : pending[t] = "session/new"})

\* The reader settles the request of t.
Settle(t, a) ==
    /\ answer' = [answer EXCEPT ![t] = a]
    /\ pending' = [pending EXCEPT ![t] = None]
    /\ UNCHANGED open

-----------------------------------------------------------------------------
(* Creating a session                                                      *)

\* create_session up to its first suspension.
SendNew(t) ==
    /\ pending' = [pending EXCEPT ![t] = "session/new"]
    /\ asked' = [asked EXCEPT ![t] = "session/new"]
    /\ pc' = [pc EXCEPT ![t] = "creating"]

CreateProbe(t) ==
    /\ t \in Probes /\ pc[t] = "idle" /\ open
    /\ SendNew(t)
    /\ UNCHANGED <<open, answer, wanted, session, identityVars, modelVars, expected,
                   strategyVars, heard>>

\* create_session_exact refuses before negotiation and outside the catalog.
CreateExact(t, m) ==
    /\ t \in Creators /\ pc[t] = "idle" /\ open
    /\ strategy # None /\ m \in advertised.offered
    /\ SendNew(t)
    /\ wanted' = [wanted EXCEPT ![t] = m]
    /\ UNCHANGED <<open, answer, session, identityVars, modelVars, expected,
                   strategyVars, heard>>

\* Slip: an identity is admitted while any request is outstanding.
AdmitProvisional_AnyRequest(s) ==
    /\ s \notin provisional
    /\ pending # [t \in Tasks |-> None]

\* At most one provisional identity for each unresolved session/new.
AdmitProvisional(s) ==
    /\ s \notin provisional
    /\ PendingCreates > Cardinality(provisional)

\* Slip: only registered sessions count as known.
KnownIdentity_Registered(s) == s \in sessions

KnownIdentity(s) == s \in sessions \cup responseIds

IdentityMismatch ==
    /\ FailClosed
    /\ provisional' = {} /\ responseIds' = {}
    /\ UNCHANGED <<taskVars, sessions, modelVars, expected, strategyVars, heard>>

\* _observe_session_new_response, then the future is set.
ReadNew(t, a) ==
    LET remaining == PendingCreates - 1
        resolved == provisional \ {a.id}
    IN  /\ open /\ pc[t] = "creating" /\ Waiting(t)
        /\ \/ /\ a.kind = "ok" /\ a.id # None /\ KnownIdentity(a.id)
              /\ FailClosed
              /\ UNCHANGED <<taskVars, identityVars, modelVars, expected, strategyVars, heard>>
           \/ /\ \/ a.kind = "ok" /\ a.id = None
                 \/ /\ ~(a.kind = "ok" /\ KnownIdentity(a.id))
                    /\ Cardinality(resolved) > remaining
              /\ IdentityMismatch
           \/ /\ ~(a.kind = "ok" /\ (a.id = None \/ KnownIdentity(a.id)))
              /\ Cardinality(resolved) <= remaining
              /\ provisional' = resolved
              /\ responseIds' = IF a.kind = "ok" THEN responseIds \cup {a.id} ELSE responseIds
              /\ Settle(t, a)
              /\ UNCHANGED <<taskVars, sessions, modelVars, expected, strategyVars, heard>>

\* A response for a request whose caller was cancelled is uncorrelated.
ReadLate(t) ==
    /\ open /\ pc[t] = "failed" /\ pending[t] # None
    /\ FailClosed
    /\ UNCHANGED <<taskVars, identityVars, modelVars, expected, strategyVars, heard>>

-----------------------------------------------------------------------------
(* Binding the model                                                       *)

\* The request of _set_config_option_exact or _set_copilot_model_settled by
\* a task on session s; on a closed transport its finally clause runs at once.
Ask(t, s, method) ==
    IF open
    THEN /\ pc' = [pc EXCEPT ![t] = "binding"]
         /\ pending' = [pending EXCEPT ![t] = method]
         /\ asked' = [asked EXCEPT ![t] = method]
         /\ answer' = [answer EXCEPT ![t] = Unanswered]
         /\ expected' = [expected EXCEPT ![s] = wanted'[t]]
         /\ heard' = [heard EXCEPT ![s] = None]
    ELSE /\ pc' = [pc EXCEPT ![t] = "failed"]
         /\ expected' = [expected EXCEPT ![s] = None]
         /\ UNCHANGED <<pending, asked, answer, heard>>

\* Leaving negotiate_direct_model_binding: its finally clause.
EndNegotiation(t) == negotiation' = IF negotiation = t THEN None ELSE negotiation

\* Slip: a settled strategy may be negotiated again.
MayNegotiate_Again == negotiation = None

MayNegotiate == strategy = None /\ negotiation = None

\* _require_direct_session_catalog for the session an answer describes.
CatalogHolds(a, m) == a.model \in a.offered /\ m \in a.offered

\* A probe goes on to negotiate for the default model, a creator to bind.
StartBinding(t, a, default) ==
    LET m == IF t \in Probes THEN default ELSE wanted[t]
        may == /\ CatalogHolds(a, m)
               /\ IF t \in Probes THEN MayNegotiate ELSE strategy # None
        method == IF t \in Creators /\ strategy = "copilot"
                  THEN "session/set_model" ELSE "session/set_config_option"
    IN  /\ wanted' = [wanted EXCEPT ![t] = m]
        /\ IF ~may
           THEN /\ pc' = [pc EXCEPT ![t] = "failed"]
                /\ UNCHANGED <<pending, asked, answer, expected, heard, negotiation, startedIn>>
           ELSE /\ Ask(t, a.id, method)
                /\ IF t \in Creators \/ ~open
                   THEN UNCHANGED <<negotiation, startedIn>>
                   ELSE /\ negotiation' = t
                        /\ startedIn' = [startedIn EXCEPT ![t] = generation]

\* create_session resumes with its answer: _bind_provisional_session, the
\* catalog, the registration, then the binding request in the same step.
Created(t) ==
    LET a == answer[t]
        extracted == IF sessions = {} THEN [offered |-> a.offered, default |-> a.model]
                     ELSE advertised
    IN  /\ pc[t] = "creating" /\ a # Unanswered
        /\ IF a.kind # "ok"
           THEN /\ pc' = [pc EXCEPT ![t] = "failed"]
                /\ UNCHANGED <<rpcVars, wanted, asked, session, identityVars, modelVars, expected,
                               strategyVars, heard>>
           ELSE IF a.id \notin provisional /\ provisional # {} /\ PendingCreates = 0
           THEN /\ FailClosed
                /\ provisional' = {} /\ responseIds' = {}
                /\ pc' = [pc EXCEPT ![t] = "failed"]
                /\ UNCHANGED <<wanted, asked, session, sessions, modelVars, expected,
                               strategyVars, heard>>
           ELSE /\ provisional' = provisional \ {a.id}
                /\ responseIds' = responseIds \ {a.id}
                /\ sessions' = sessions \cup {a.id}
                /\ session' = [session EXCEPT ![t] = a.id]
                /\ model' = [model EXCEPT ![a.id] = a.model]
                /\ catalog' = [catalog EXCEPT ![a.id] = a.offered]
                /\ advertised' = extracted
                /\ StartBinding(t, a, extracted.default)
                /\ UNCHANGED <<open, strategy, generation>>

\* The response of a binding request: the model it confirms, or an error.
ReadBound(t, a) ==
    /\ open /\ pc[t] = "binding" /\ Waiting(t)
    /\ a.model # None => asked[t] = "session/set_config_option"
    /\ Settle(t, a)
    /\ heard' = IF a.model = None THEN heard ELSE [heard EXCEPT ![session[t]] = a.model]
    /\ UNCHANGED <<taskVars, identityVars, modelVars, expected, strategyVars>>

\* set_model settles by its success, set_config_option by the value it reports.
Acknowledged(t) ==
    /\ answer[t].kind = "ok"
    /\ asked[t] = "session/set_config_option" => answer[t].model = wanted[t]

\* model_id of the session object after the answer; unregistered objects keep theirs.
BoundModel(t) ==
    LET s == session[t]
    IN  IF s \notin sessions THEN model[s]
        ELSE IF Acknowledged(t) THEN wanted[t]
        ELSE IF answer[t].kind = "ok" /\ answer[t].model # None THEN None
        ELSE model[s]

Resumes(t) == pc[t] = "binding" /\ answer[t] # Unanswered

Adopt(t) == model' = [model EXCEPT ![session[t]] = BoundModel(t)]
Unexpect(t) == expected' = [expected EXCEPT ![session[t]] = None]

\* create_session_exact resumes: bound only if the object now holds the model.
BoundExact(t) ==
    /\ t \in Creators /\ Resumes(t)
    /\ Adopt(t) /\ Unexpect(t)
    /\ pc' = [pc EXCEPT ![t] = IF Acknowledged(t) /\ BoundModel(t) = wanted[t]
                               THEN "done" ELSE "failed"]
    /\ UNCHANGED <<rpcVars, wanted, asked, session, identityVars, catalog, advertised,
                   strategyVars, heard>>

\* Slip: a negotiation that outlived its child still freezes its strategy.
NegotiationStands_Regardless(t) == TRUE

NegotiationStands(t) == generation = startedIn[t] /\ negotiation = t

\* The standard method is not there: the same negotiation tries Copilot's.
FallBack(t) ==
    /\ t \in Probes /\ Resumes(t)
    /\ answer[t].kind = "not_found" /\ asked[t] = "session/set_config_option"
    /\ UNCHANGED wanted
    /\ Ask(t, session[t], "session/set_model")
    /\ IF open THEN UNCHANGED negotiation ELSE EndNegotiation(t)
    /\ UNCHANGED <<open, session, identityVars, modelVars, strategy, generation, startedIn>>

Negotiated(t) ==
    LET stands == Acknowledged(t) /\ NegotiationStands(t)
    IN  /\ t \in Probes /\ Resumes(t)
        /\ ~(answer[t].kind = "not_found" /\ asked[t] = "session/set_config_option")
        /\ Adopt(t) /\ Unexpect(t) /\ EndNegotiation(t)
        /\ pc' = [pc EXCEPT ![t] = IF stands THEN "done" ELSE "failed"]
        /\ strategy' = IF ~stands THEN strategy
                       ELSE IF asked[t] = "session/set_model" THEN "copilot" ELSE "standard"
        /\ UNCHANGED <<rpcVars, wanted, asked, session, identityVars, catalog, advertised,
                       generation, startedIn, heard>>

\* A deadline or a cancellation ends the task wherever it waits; its request
\* stays registered with a cancelled future.
Cancel(t) ==
    /\ pc[t] \in {"creating", "binding"}
    /\ pc' = [pc EXCEPT ![t] = "failed"]
    /\ IF pc[t] = "binding" THEN Unexpect(t) ELSE UNCHANGED expected
    /\ EndNegotiation(t)
    /\ UNCHANGED <<rpcVars, wanted, asked, session, identityVars, modelVars,
                   strategy, generation, startedIn, heard>>

-----------------------------------------------------------------------------
(* State reported by the child, outside active prompts                     *)

\* Slip: the model being bound is not yet the one to compare with.
Selected_OnlyBound(s) == IF s \in sessions THEN model[s] ELSE None

Selected(s) ==
    IF expected[s] # None THEN expected[s]
    ELSE IF s \in sessions THEN model[s]
    ELSE None

\* _direct_model_integrity_holds
IntegrityHolds(s, r) ==
    \/ r = "other"
    \/ r # "malformed" /\ Selected(s) = None
    \/ r = Selected(s)

\* _handle_direct_state_update for one state update of one session.
ReadReport(s, r) ==
    LET correlated == KnownIdentity(s) \/ s \in provisional \/ AdmitProvisional(s)
        holds == IntegrityHolds(s, r)
        admits == holds /\ ~KnownIdentity(s) /\ AdmitProvisional(s)
    IN  /\ open
        /\ IF holds /\ correlated
           THEN UNCHANGED <<rpcVars>>
           ELSE FailClosed
        /\ provisional' = IF admits THEN provisional \cup {s} ELSE provisional
        /\ heard' = IF r = "other" \/ s \notin sessions THEN heard ELSE [heard EXCEPT ![s] = r]
        /\ UNCHANGED <<taskVars, responseIds, sessions, modelVars, expected, strategyVars>>

\* The child goes away, or the transport fails for another reason.
Lose ==
    /\ open /\ FailClosed
    /\ UNCHANGED <<taskVars, identityVars, modelVars, expected, strategyVars, heard>>

\* The strategy part of _clear_client_state.
Cleared ==
    /\ strategy' = None /\ negotiation' = None
    /\ generation' = generation + 1 /\ UNCHANGED startedIn

\* abort or stop: _clear_client_state, then the transport.
Teardown ==
    /\ generation < MaxTeardowns
    /\ Cleared
    /\ expected' = [s \in SessionIds |-> None]
    /\ provisional' = {} /\ responseIds' = {} /\ sessions' = {}
    /\ FailClosed
    /\ UNCHANGED <<taskVars, modelVars, heard>>

-----------------------------------------------------------------------------
ReadAnswer(t) ==
    \/ \E id \in SessionIds, m \in Models \cup {None}, offered \in SUBSET Models :
          ReadNew(t, [kind |-> "ok", id |-> id, model |-> m, offered |-> offered])
    \/ ReadNew(t, Bare("ok"))
    \/ ReadNew(t, Bare("error"))
    \/ \E m \in Models \cup {None} : ReadBound(t, [Bare("ok") EXCEPT !.model = m])
    \/ \E kind \in {"error", "not_found"} : ReadBound(t, Bare(kind))
    \/ ReadLate(t)

Next ==
    \/ \E t \in Tasks :
          \/ CreateProbe(t)
          \/ \E m \in Models : CreateExact(t, m)
          \/ ReadAnswer(t)
          \/ Created(t) \/ BoundExact(t) \/ FallBack(t) \/ Negotiated(t)
          \/ Cancel(t)
    \/ \E s \in SessionIds, r \in Reports : ReadReport(s, r)
    \/ Lose
    \/ Teardown

Spec == Init /\ [][Next]_vars

-----------------------------------------------------------------------------
\* An identity seen before its session/new response is owed to one of the
\* creates still outstanding and claimed by nobody else, in whatever order
\* reports, responses, errors and cancellations arrive: the reader catches a
\* mismatch, and _bind_provisional_session can only meet it after a failure.
ProvisionalIsOwed ==
    open => /\ Cardinality(provisional) <= PendingCreates
            /\ provisional \cap (sessions \cup responseIds) = {}

\* No two tasks are ever handed one session, although the child may answer
\* both creates with one identity before either resumes.
OneTaskPerSession ==
    \A t, u \in Tasks : t # u /\ session[t] # None => session[t] # session[u]

\* While continuity lasts, nothing the child has said of a session since its
\* binding was asked for, in a report or in the answer, contradicts the model
\* the creation or the negotiation returned with, then and ever after.
BoundModelIsUncontradicted ==
    open => \A t \in Tasks : pc[t] = "done" => heard[session[t]] \in {None, wanted[t]}

\* After abort or stop nothing of the old child is left to be used, whatever
\* task resumes later with an answer it already had.
NothingSurvivesTeardown ==
    generation > 0 =>
        /\ strategy = None /\ negotiation = None /\ ~open
        /\ provisional = {} /\ responseIds = {}
        /\ \A s \in SessionIds : expected[s] = None

\* The strategy is frozen: once negotiated it is only ever dropped, by a teardown.
StrategyIsFrozen == [][(strategy \in {None, strategy'} \/ generation' # generation)]_vars

\* Identities agree between the child, the client and its tasks: what is admitted
\* early is owed, and what is handed out is handed out once (_sessions,
\* _direct_provisional_session_ids).
IdentitiesAgree == TypeOK /\ ProvisionalIsOwed /\ OneTaskPerSession
-----------------------------------------------------------------------------
(* The inductive invariant                                                 *)

\* A create request is held by a task still waiting for it, or by a cancelled one;
\* an answer the reader let through names a session.
RequestsAreOwed ==
    \A t \in Tasks :
        /\ pending[t] = "session/new" =>
             pc[t] = "failed" \/ (pc[t] = "creating" /\ answer[t] = Unanswered)
        /\ pc[t] = "idle" => answer[t] = Unanswered
        /\ pc[t] = "creating" /\ answer[t].kind = "ok" => answer[t].id # None

\* The identities a task holds, or has in its unread answer.
Claims(t) ==
    {id \in SessionIds :
        \/ session[t] = id
        \/ pc[t] = "creating" /\ answer[t].kind = "ok" /\ answer[t].id = id}

ClaimsAreApart ==
    /\ \A t, u \in Tasks : t # u => Claims(t) \cap Claims(u) = {}
    /\ open => \A t \in Tasks : Claims(t) \subseteq sessions \cup responseIds

\* A binding under way is the one the child's reports are compared with, and what
\* was said since then agrees with it; so does the session of one that succeeded.
BindingIsExpected ==
    open => \A t \in Tasks :
        /\ pc[t] \in {"binding", "done"} => session[t] \in sessions /\ wanted[t] \in Models
        /\ pc[t] = "binding" =>
             /\ expected[session[t]] = wanted[t]
             /\ Waiting(t) \/ Acknowledged(t) => heard[session[t]] \in {None, wanted[t]}
        /\ pc[t] = "done" =>
             /\ expected[session[t]] = None /\ model[session[t]] = wanted[t]
             /\ heard[session[t]] \in {None, wanted[t]}

\* Nobody negotiates a strategy that is settled.
NegotiationIsOpen == negotiation # None => strategy = None

IInv ==
    /\ TypeOK /\ NothingSurvivesTeardown /\ NegotiationIsOpen /\ RequestsAreOwed
    /\ IsFiniteSet(provisional) /\ ProvisionalIsOwed /\ ClaimsAreApart
    /\ BindingIsExpected
=============================================================================
