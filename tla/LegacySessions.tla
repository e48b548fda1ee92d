--------------------------- MODULE LegacySessions ---------------------------
(***************************************************************************)
(* The deprecated OpenAI adapter, src/src/acp_proxy/server.py, over the    *)
(* permissive mode of src/src/acp_proxy/client.py: which ACP session a     *)
(* completion request is given, when the system prompt is injected, and    *)
(* whose text arrives in whose reply.                                      *)
(*                                                                         *)
(* A request is one HTTP handler; pc is where it is suspended:             *)
(*   creating   for session/new        selecting  for a model selector     *)
(*   injecting  draining the system prompt                                 *)
(*   answering  between the headers of a stream and its generator          *)
(*   prompting  draining its own prompt                                    *)
(* A turn is one prompt, the system's or the user's, of one request.  The  *)
(* child works on every turn it was sent until it answers it: this mode    *)
(* sends no cancellation.  Its updates name the session only.              *)
(***************************************************************************)
EXTENDS Naturals, FiniteSets

CONSTANTS
    Requests, Models, Conversations, SessionIds,
    MaxTurns,   \* bound: prompts sent when requests overlap
    None

ASSUME MaxTurnsIsNatural == MaxTurns \in Nat
ASSUME NoneIsNoSession == None \notin SessionIds

Keys == [model : Models, conversation : Conversations]
Turns == [request : Requests, by : {"system", "user"}]
System(r) == [request |-> r, by |-> "system"]
User(r) == [request |-> r, by |-> "user"]

VARIABLES
    systemPrompt,      \* whether one is configured
    calm,              \* each request waits for the others' ends, and no prompt
                       \* times out, is abandoned or is refused
    pc, key, single,   \* each request: its position, its key, len(messages) == 1
    method,            \* the selector _try_set_model is trying
    created, used,     \* the session it created, the session it prompts
    sessionOf,         \* _sessions of the adapter, by key
    initialized, active,   \* _initialized_sessions, _active_sessions
    model,             \* the client's sessions and their model_id
    queueOf,           \* _update_queues: the turn whose queue is registered
    working,           \* the child: the turns it works on
    ended,             \* turns whose generator ended normally
    reply              \* the turns whose text each turn was given

requestVars == <<key, single, method, created, used>>
adapterVars == <<sessionOf, initialized, active>>
turnVars == <<queueOf, working, ended, reply>>
settings == <<systemPrompt, calm>>
vars == <<settings, pc, requestVars, adapterVars, model, turnVars>>

TypeOK ==
    /\ systemPrompt \in BOOLEAN /\ calm \in BOOLEAN
    /\ pc \in [Requests -> {"idle", "creating", "selecting", "injecting", "answering",
                            "prompting",
                            "done", "failed"}]
    /\ key \in [Requests -> Keys \cup {None}] /\ single \in [Requests -> BOOLEAN]
    /\ method \in [Requests -> {"session/set_model", "session/set_config_option"}]
    /\ created \in [Requests -> SessionIds \cup {None}]
    /\ used \in [Requests -> SessionIds \cup {None}]
    /\ sessionOf \in [Keys -> SessionIds \cup {None}]
    /\ initialized \in SUBSET SessionIds /\ active \in SUBSET SessionIds
    /\ model \in [SessionIds -> Models \cup {None}]
    /\ queueOf \in [SessionIds -> Turns \cup {None}]
    /\ working \in SUBSET Turns /\ ended \in SUBSET Turns
    /\ reply \in [Turns -> SUBSET Turns]

Init ==
    /\ systemPrompt \in BOOLEAN /\ calm \in BOOLEAN
    /\ pc = [r \in Requests |-> "idle"] /\ key = [r \in Requests |-> None]
    /\ single = [r \in Requests |-> FALSE]
    /\ method = [r \in Requests |-> "session/set_model"]
    /\ created = [r \in Requests |-> None] /\ used = [r \in Requests |-> None]
    /\ sessionOf = [k \in Keys |-> None] /\ initialized = {} /\ active = {}
    /\ model = [s \in SessionIds |-> None]
    /\ queueOf = [s \in SessionIds |-> None]
    /\ working = {} /\ ended = {} /\ reply = [t \in Turns |-> {}]

Goto(r, place) == pc' = [pc EXCEPT ![r] = place]

-----------------------------------------------------------------------------
(* Turns: AcpClient.prompt without evidence limits                         *)

\* _prompt_content registers its queue over whatever is registered and sends.
Send(turn, s) ==
    /\ queueOf' = [queueOf EXCEPT ![s] = turn]
    /\ working' = working \cup {turn}
    /\ UNCHANGED <<ended, reply>>

SessionOfTurn(turn) ==
    IF turn.by = "system" THEN created[turn.request] ELSE used[turn.request]

\* _handle_notification: the text goes to the registered queue, or nowhere.
Update(turn) ==
    LET s == SessionOfTurn(turn)
    IN  /\ turn \in working /\ queueOf[s] # None
        /\ reply' = [reply EXCEPT ![queueOf[s]] = @ \cup {turn}]
        /\ UNCHANGED <<pc, requestVars, adapterVars, model, queueOf, working, ended>>

\* The finally clause pops the queue of the session, whoever registered it.
PopQueue(turn) == queueOf' = [queueOf EXCEPT ![SessionOfTurn(turn)] = None]

\* The child answered; the poll times out, drains its queue and yields done.
TurnEnds(turn) ==
    /\ turn \in working
    /\ working' = working \ {turn} /\ ended' = ended \cup {turn}
    /\ PopQueue(turn) /\ UNCHANGED reply

\* A timeout or a client that went away: the child is told nothing.  Or the
\* child refuses the turn.
TurnFails(turn) ==
    /\ ~calm
    /\ working' \in {working, working \ {turn}}
    /\ PopQueue(turn) /\ UNCHANGED <<ended, reply>>

\* The child finishes a turn nobody waits for; the answer is only logged.
Forgotten(turn) ==
    /\ turn \in working
    /\ pc[turn.request] # (IF turn.by = "system" THEN "injecting" ELSE "prompting")
    /\ working' = working \ {turn}
    /\ UNCHANGED <<pc, requestVars, adapterVars, model, queueOf, ended, reply>>

-----------------------------------------------------------------------------
(* _get_session                                                            *)

\* Slip: whether the session was used before does not matter.
NeedsNew_OnlyMissing(r, k, one) == sessionOf[k] = None

\* No session yet, or a single message that would join an active one.
NeedsNew(r, k, one) == sessionOf[k] = None \/ (one /\ sessionOf[k] \in active)

\* The handler takes the session its key now has.  It prompts it at once, or
\* when the stream's generator is started, after the headers.
Enter(r, s) ==
    /\ Goto(r, "prompting") \/ Goto(r, "answering")
    /\ used' = [used EXCEPT ![r] = s]
    /\ active' = active \cup {s}

Prompt(r, s) ==
    IF pc'[r] = "prompting" THEN Send(User(r), s) ELSE UNCHANGED turnVars

Arrived == {q \in Requests : pc[q] # "idle"}
TurnsEach == IF systemPrompt THEN 2 ELSE 1
MayArrive ==
    IF calm THEN \A q \in Arrived : pc[q] \in {"done", "failed"}
    ELSE (Cardinality(Arrived) + 1) * TurnsEach <= MaxTurns

Arrive(r, k, one) ==
    /\ pc[r] = "idle" /\ MayArrive
    /\ key' = [key EXCEPT ![r] = k] /\ single' = [single EXCEPT ![r] = one]
    /\ IF NeedsNew(r, k, one)
       THEN /\ Goto(r, "creating") /\ UNCHANGED <<used, active, turnVars>>
       ELSE Enter(r, sessionOf[k]) /\ Prompt(r, sessionOf[k])
    /\ UNCHANGED <<method, created, sessionOf, initialized, model>>

\* Slip: the session is kept under the conversation, whatever the model.
Keep_ByConversation(r, s) ==
    sessionOf' = [k \in Keys |-> IF k.conversation = key[r].conversation THEN s
                                 ELSE sessionOf[k]]

Keep(r, s) == sessionOf' = [sessionOf EXCEPT ![key[r]] = s]

\* Slip: no session is new enough for the system prompt.
Injects_Never(s) == FALSE

Injects(s) == systemPrompt /\ s \notin initialized

\* Slip: the answer to the system prompt is not drained.
Register_Undrained(r, s) ==
    /\ Keep(r, s)
    /\ initialized' = initialized \cup {s}
    /\ Goto(r, "prompting")
    /\ used' = [used EXCEPT ![r] = s] /\ active' = active \cup {s}
    /\ queueOf' = [queueOf EXCEPT ![s] = User(r)]
    /\ working' = working \cup {System(r), User(r)}
    /\ UNCHANGED <<ended, reply>>

\* create_session returned: fill the key, then inject or go on.
Register(r, s) ==
    /\ Keep(r, s)
    /\ IF Injects(s)
       THEN /\ initialized' = initialized \cup {s}
            /\ Goto(r, "injecting") /\ Send(System(r), s)
            /\ UNCHANGED <<used, active>>
       ELSE Enter(r, s) /\ Prompt(r, s) /\ UNCHANGED initialized

\* session/new is answered with a new session of some default model.
SessionCreated(r, s, default) ==
    /\ pc[r] = "creating" /\ \A q \in Requests : created[q] # s
    /\ created' = [created EXCEPT ![r] = s]
    /\ model' = [model EXCEPT ![s] = default]
    /\ IF default = key[r].model
       THEN Register(r, s)
       ELSE Goto(r, "selecting") /\ UNCHANGED <<used, adapterVars, turnVars>>
    /\ UNCHANGED <<key, single, method>>

\* _try_set_model: set_model, then set_config_option if that is not found.
ModelSelected(r) ==
    /\ pc[r] = "selecting"
    /\ model' = [model EXCEPT ![created[r]] = key[r].model]
    /\ Register(r, created[r])
    /\ UNCHANGED <<key, single, method, created>>

MethodNotFound(r) ==
    /\ pc[r] = "selecting" /\ method[r] = "session/set_model"
    /\ method' = [method EXCEPT ![r] = "session/set_config_option"]
    /\ UNCHANGED <<pc, key, single, created, used, adapterVars, model, turnVars>>

\* session/new or the last selector fails: answered 502.
CreationFails(r) ==
    /\ pc[r] \in {"creating", "selecting"} /\ Goto(r, "failed")
    /\ UNCHANGED <<requestVars, adapterVars, model, turnVars>>

\* The system turn is drained; the session of the key is looked up again.
Injected(r) ==
    /\ pc[r] = "injecting" /\ System(r) \in working
    /\ LET s == sessionOf[key[r]]
           popped == [queueOf EXCEPT ![created[r]] = None]
       IN  /\ Enter(r, s)
           /\ ended' = ended \cup {System(r)}
           /\ IF pc'[r] = "prompting"
              THEN /\ working' = (working \ {System(r)}) \cup {User(r)}
                   /\ queueOf' = [popped EXCEPT ![s] = User(r)]
              ELSE working' = working \ {System(r)} /\ queueOf' = popped
    /\ UNCHANGED <<key, single, method, created, sessionOf, initialized, model, reply>>

\* An exception of the injection is answered 502 too; the key keeps the session.
InjectionFails(r) ==
    /\ pc[r] = "injecting" /\ TurnFails(System(r)) /\ Goto(r, "failed")
    /\ UNCHANGED <<requestVars, adapterVars, model>>

\* The stream starts its generator, or its client is gone by then.
Begin(r) ==
    /\ pc[r] = "answering" /\ Goto(r, "prompting") /\ Send(User(r), used[r])
    /\ UNCHANGED <<requestVars, adapterVars, model>>

NeverBegins(r) ==
    /\ ~calm /\ pc[r] = "answering" /\ Goto(r, "failed")
    /\ UNCHANGED <<requestVars, adapterVars, model, turnVars>>

Completed(r) ==
    /\ pc[r] = "prompting" /\ TurnEnds(User(r)) /\ Goto(r, "done")
    /\ UNCHANGED <<requestVars, adapterVars, model>>

PromptFails(r) ==
    /\ pc[r] = "prompting" /\ TurnFails(User(r)) /\ Goto(r, "failed")
    /\ UNCHANGED <<requestVars, adapterVars, model>>

Step ==
    \/ \E r \in Requests :
          \/ \E k \in Keys, one \in BOOLEAN : Arrive(r, k, one)
          \/ \E s \in SessionIds, default \in Models : SessionCreated(r, s, default)
          \/ ModelSelected(r) \/ MethodNotFound(r) \/ CreationFails(r)
          \/ Injected(r) \/ InjectionFails(r)
          \/ Begin(r) \/ NeverBegins(r) \/ Completed(r) \/ PromptFails(r)
    \/ \E turn \in Turns : Update(turn) \/ Forgotten(turn)

Next == Step /\ UNCHANGED settings

Spec == Init /\ [][Next]_vars

-----------------------------------------------------------------------------
Prompted(r) == used[r] # None

\* However requests of one conversation interleave, fail and are retried, each is
\* prompted in a session that was created for its model (the key of _get_session).
ModelIsTheOneAsked == \A r \in Requests : Prompted(r) => model[used[r]] = key[r].model

\* Text the child wrote in one session never reaches a request of another key.
RepliesStayInTheirKey ==
    \A t, u \in Turns : u \in reply[t] => key[u.request] = key[t.request]

\* One client that waits for each answer finds the system prompt the first turn
\* of every new session: its own prompt is sent only when that one is over.
SystemPromptFirst ==
    calm /\ systemPrompt => \A r \in Requests : Prompted(r) =>
        \E q \in Requests : created[q] = used[r] /\ System(q) \in ended

\* For such a client identical first prompts do not collide into one session
\* (create_app).
FirstPromptsDoNotCollide ==
    calm => \A r, q \in Requests : r # q /\ Prompted(r) /\ single[r] /\ single[q] =>
        used[r] # used[q]

\* Such a client is given its own text and no other turn's.
RepliesAreTheirOwn == calm => \A t \in Turns : reply[t] \subseteq {t}

\* However requests overlap and fail, their key decides the model that answers
\* them and whose text they may be given (_get_session).
KeysAreKept == TypeOK /\ ModelIsTheOneAsked /\ RepliesStayInTheirKey

\* What create_app promises holds for a client that waits for each answer.
CalmClientIsServed == SystemPromptFirst /\ FirstPromptsDoNotCollide /\ RepliesAreTheirOwn
-----------------------------------------------------------------------------
(* The inductive invariant of LegacyProofs                                 *)

\* What a request has at each of its positions.
PositionsFit ==
    \A r \in Requests :
        /\ pc[r] # "idle" => key[r] \in Keys
        /\ pc[r] \in {"idle", "creating"} => created[r] = None
        /\ pc[r] \in {"selecting", "injecting"} => created[r] # None
        /\ pc[r] \in {"idle", "creating", "selecting", "injecting"} => used[r] = None
        /\ pc[r] \in {"answering", "prompting"} => used[r] # None
        /\ pc[r] = "injecting" => sessionOf[key[r]] # None

OneCreator == \A r, q \in Requests : created[r] # None /\ created[r] = created[q] => r = q

\* A session whose creation is over for good, with the model of the key.
MadeFor(s, k) ==
    \E q \in Requests : /\ created[q] = s /\ pc[q] \notin {"creating", "selecting"}
                        /\ key[q] = k /\ model[s] = k.model

SessionsAreMadeForTheirKeys ==
    /\ \A k \in Keys : sessionOf[k] # None => MadeFor(sessionOf[k], k)
    /\ \A r \in Requests : Prompted(r) => MadeFor(used[r], key[r]) /\ used[r] \in active
    /\ \A s \in initialized :
         \E q \in Requests : created[q] = s /\ pc[q] \notin {"creating", "selecting"}

\* A turn is worked on, listened to and given text in its own session only.
TurnsStayInTheirSessions ==
    /\ \A t \in working : SessionOfTurn(t) # None
    /\ \A s \in SessionIds : queueOf[s] # None => SessionOfTurn(queueOf[s]) = s
    /\ \A t, u \in Turns : u \in reply[t] =>
         SessionOfTurn(u) # None /\ SessionOfTurn(u) = SessionOfTurn(t)

\* A calm client has one request under way, that one turn, and its queue.
CalmIsSequential ==
    calm =>
        /\ \A r, q \in Requests : {pc[r], pc[q]} \cap {"idle", "done", "failed"} = {} => r = q
        /\ \A t \in working : pc[t.request] = IF t.by = "system" THEN "injecting" ELSE "prompting"
        /\ \A s \in SessionIds : queueOf[s] # None => queueOf[s] \in working

\* For a calm client the session being injected is its key's and nobody's yet, and
\* that of any key was injected or is being so.
CalmSessionsBegin ==
    calm =>
        /\ \A r \in Requests : pc[r] = "injecting" =>
             sessionOf[key[r]] = created[r] /\ \A q \in Requests : used[q] # created[r]
        /\ systemPrompt => \A k \in Keys : sessionOf[k] # None =>
             \E q \in Requests :
                 created[q] = sessionOf[k] /\ (System(q) \in ended \/ pc[q] = "injecting")

IInv ==
    /\ TypeOK /\ PositionsFit /\ OneCreator /\ SessionsAreMadeForTheirKeys
    /\ TurnsStayInTheirSessions /\ CalmIsSequential /\ CalmSessionsBegin /\ CalmClientIsServed
=============================================================================
