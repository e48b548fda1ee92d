---------------------------- MODULE LegacyProofs ----------------------------
(***************************************************************************)
(* Proofs about the two modules of the legacy mode, LegacySessions and     *)
(* Terminals.  For any number of requests, sessions, models and            *)
(* conversations: what the key of a request decides however requests       *)
(* overlap, and what a client that waits for each answer gets.  For any    *)
(* number of terminals and any pipe: what becomes of a command and its     *)
(* output, whatever calls and exits interleave.                            *)
(***************************************************************************)
EXTENDS LegacySessions, Terminals, SequenceTheorems, TLAPS

-----------------------------------------------------------------------------
(* LegacySessions                                                          *)

LEMMA TurnNames ==
    /\ \A r \in Requests : /\ System(r) \in Turns /\ User(r) \in Turns
                           /\ System(r).by = "system" /\ System(r).request = r
                           /\ User(r).by = "user" /\ User(r).request = r
    /\ \A t \in Turns : /\ t.request \in Requests
                        /\ \/ t.by = "system" /\ t = System(t.request)
                           \/ t.by = "user" /\ t = User(t.request)
BY DEF Turns, System, User

\* The session of a turn, by its kind.
LEMMA TurnSessions ==
    \A r \in Requests : /\ SessionOfTurn(System(r)) = created[r]
                        /\ SessionOfTurn(User(r)) = used[r]
BY DEF SessionOfTurn, System, User

\* Nobody goes back, and what was decided for a request stays.
HistoryGrows ==
    /\ \A r \in Requests :
         /\ pc[r] # "idle" => pc'[r] # "idle" /\ key'[r] = key[r]
         /\ created[r] # None => created'[r] = created[r]
         /\ used[r] # None => used'[r] = used[r]
         /\ pc[r] \notin {"idle", "creating", "selecting"} =>
              pc'[r] \notin {"idle", "creating", "selecting"} /\ created'[r] = created[r]
    /\ \A s \in SessionIds : model'[s] = model[s]
         \/ \A q \in Requests : created[q] = s => pc[q] \in {"creating", "selecting"}

\* A key is given the session that was made for it, a request that of its key, and
\* a turn its request's.
SessionsAreGiven ==
    /\ \A k \in Keys : sessionOf'[k] = sessionOf[k] \/
         \E r \in Requests : /\ key'[r] = k /\ created'[r] = sessionOf'[k]
                             /\ pc'[r] \notin {"creating", "selecting"}
                             /\ model'[created'[r]] = k.model
    /\ \A r \in Requests : used'[r] = used[r] \/
         (key'[r] \in Keys /\ used'[r] = sessionOf'[key'[r]] /\ used'[r] \in active')
    /\ active \subseteq active'
    /\ \A s \in initialized' : s \in initialized \/
         \E q \in Requests : created'[q] = s /\ pc'[q] \notin {"creating", "selecting"}

TurnsAreGiven ==
    /\ \A t \in working' : t \in working \/ SessionOfTurn(t)' # None
    /\ \A s \in SessionIds : queueOf'[s] \in {queueOf[s], None} \/ SessionOfTurn(queueOf[s])' = s
    /\ \A t, u \in Turns : u \in reply'[t] => u \in reply[t] \/
         (SessionOfTurn(u) # None /\ SessionOfTurn(u) = SessionOfTurn(t))

LEMMA InitEstablishes == Init => IInv
<1> SUFFICES ASSUME Init PROVE IInv
  OBVIOUS
<1> USE DEF Init
<1>1. TypeOK
  BY DEF TypeOK
<1>2. PositionsFit /\ OneCreator /\ SessionsAreMadeForTheirKeys
  BY DEF PositionsFit, OneCreator, SessionsAreMadeForTheirKeys, Prompted
<1>3. TurnsStayInTheirSessions /\ CalmIsSequential /\ CalmSessionsBegin
  BY DEF TurnsStayInTheirSessions, CalmIsSequential, CalmSessionsBegin
<1>4. CalmClientIsServed
  BY DEF CalmClientIsServed, SystemPromptFirst, FirstPromptsDoNotCollide, RepliesAreTheirOwn,
         Prompted
<1> QED
  BY <1>1, <1>2, <1>3, <1>4 DEF IInv

\* What is not None of a request or a key is a session.
LEMMA SessionsAreSessions ==
    ASSUME IInv
    PROVE  /\ None \notin SessionIds
           /\ \A r \in Requests : /\ created[r] # None => created[r] \in SessionIds
                                  /\ used[r] # None => used[r] \in SessionIds
           /\ \A k \in Keys : sessionOf[k] # None => sessionOf[k] \in SessionIds
BY NoneIsNoSession DEF IInv, TypeOK

LEMMA MadeForStays ==
    ASSUME IInv, HistoryGrows, NEW s \in SessionIds, NEW k \in Keys, MadeFor(s, k)
    PROVE  MadeFor(s, k)'
<1>1. PICK q \in Requests : /\ created[q] = s /\ pc[q] \notin {"creating", "selecting"}
                            /\ key[q] = k /\ model[s] = k.model
  BY DEF MadeFor
<1>2. created[q] # None /\ pc[q] # "idle"
  BY <1>1, NoneIsNoSession DEF IInv, PositionsFit
<1>3. /\ created'[q] = s /\ pc'[q] \notin {"creating", "selecting"} /\ key'[q] = k
      /\ model'[s] = model[s]
  BY <1>1, <1>2 DEF HistoryGrows
<1> QED
  BY <1>1, <1>3 DEF MadeFor

LEMMA StructureKept ==
    ASSUME IInv, TypeOK', HistoryGrows, SessionsAreGiven, TurnsAreGiven
    PROVE  SessionsAreMadeForTheirKeys' /\ TurnsStayInTheirSessions'
<1>1. ASSUME NEW k \in Keys, sessionOf'[k] # None PROVE MadeFor(sessionOf[k], k)'
  <2>1. CASE sessionOf'[k] = sessionOf[k]
    <3>1. sessionOf[k] \in SessionIds /\ MadeFor(sessionOf[k], k)
      BY <1>1, <2>1, SessionsAreSessions DEF IInv, SessionsAreMadeForTheirKeys
    <3>2. ASSUME NEW s \in SessionIds, MadeFor(s, k) PROVE MadeFor(s, k)'
      BY <3>2, MadeForStays
    <3> QED
      BY <2>1, <3>1, <3>2 DEF MadeFor
  <2>2. CASE sessionOf'[k] # sessionOf[k]
    BY <2>2 DEF SessionsAreGiven, MadeFor
  <2> QED
    BY <2>1, <2>2
<1>2. ASSUME NEW r \in Requests, used'[r] # None
      PROVE  MadeFor(used[r], key[r])' /\ used'[r] \in active'
  <2>1. CASE used'[r] = used[r]
    <3>1. /\ used[r] \in SessionIds /\ MadeFor(used[r], key[r]) /\ used[r] \in active
          /\ pc[r] # "idle" /\ key[r] \in Keys
      BY <1>2, <2>1, SessionsAreSessions
      DEF IInv, SessionsAreMadeForTheirKeys, Prompted, PositionsFit
    <3>2. ASSUME NEW s \in SessionIds, NEW k \in Keys, MadeFor(s, k) PROVE MadeFor(s, k)'
      BY <3>2, MadeForStays
    <3>3. key'[r] = key[r] /\ used[r] \in active'
      BY <3>1 DEF HistoryGrows, SessionsAreGiven
    <3> QED
      BY <2>1, <3>1, <3>2, <3>3 DEF MadeFor
  <2>2. CASE used'[r] # used[r]
    <3>1. key'[r] \in Keys /\ used'[r] = sessionOf'[key'[r]] /\ used'[r] \in active'
      BY <2>2 DEF SessionsAreGiven
    <3> QED
      BY <1>1, <1>2, <3>1 DEF MadeFor
  <2> QED
    BY <2>1, <2>2
<1>3. ASSUME NEW s \in initialized'
      PROVE  \E q \in Requests : created'[q] = s /\ pc'[q] \notin {"creating", "selecting"}
  <2>1. CASE s \in initialized
    <3>1. PICK q \in Requests : created[q] = s /\ pc[q] \notin {"creating", "selecting"}
      BY <2>1 DEF IInv, SessionsAreMadeForTheirKeys
    <3>2. s # None /\ pc[q] # "idle"
      BY <2>1, <3>1, NoneIsNoSession DEF IInv, TypeOK, PositionsFit
    <3> QED
      BY <3>1, <3>2 DEF HistoryGrows
  <2>2. CASE s \notin initialized
    BY <2>2 DEF SessionsAreGiven
  <2> QED
    BY <2>1, <2>2
<1>4. ASSUME NEW t \in Turns, SessionOfTurn(t) # None
      PROVE  SessionOfTurn(t)' = SessionOfTurn(t)
  BY <1>4, TurnNames DEF SessionOfTurn, HistoryGrows
<1>5. \A t \in working' : SessionOfTurn(t)' # None
  BY <1>4 DEF TurnsAreGiven, IInv, TurnsStayInTheirSessions, TypeOK
<1>6. ASSUME NEW s \in SessionIds, queueOf'[s] # None PROVE SessionOfTurn(queueOf[s])' = s
  <2>1. CASE queueOf'[s] = queueOf[s]
    <3>1. queueOf[s] \in Turns /\ SessionOfTurn(queueOf[s]) = s /\ s # None
      BY <1>6, <2>1, NoneIsNoSession DEF IInv, TurnsStayInTheirSessions, TypeOK
    <3>2. \A t \in Turns : SessionOfTurn(t) = s => SessionOfTurn(t)' = s
      BY <1>4, <3>1
    <3> QED
      BY <2>1, <3>1, <3>2 DEF SessionOfTurn
  <2>2. CASE queueOf'[s] # queueOf[s]
    BY <1>6, <2>2 DEF TurnsAreGiven
  <2> QED
    BY <2>1, <2>2
<1>7. \A t, u \in Turns : u \in reply'[t] =>
        SessionOfTurn(u)' # None /\ SessionOfTurn(u)' = SessionOfTurn(t)'
  BY <1>4 DEF TurnsAreGiven, IInv, TurnsStayInTheirSessions
<1> QED
  BY <1>1, <1>2, <1>3, <1>5, <1>6, <1>7
  DEF SessionsAreMadeForTheirKeys, TurnsStayInTheirSessions, Prompted

-----------------------------------------------------------------------------
(* Steps of a request under way that is given nothing                      *)

UnderWay == {"creating", "selecting", "injecting", "answering", "prompting"}

\* All that a calm client has under way is one request and its one turn.
LEMMA CalmWork ==
    ASSUME IInv, calm, NEW r \in Requests, pc[r] \in UnderWay
    PROVE  /\ \A q \in Requests : q # r => pc[q] \in {"idle", "done", "failed"}
           /\ pc[r] = "injecting" => working \subseteq {System(r)}
           /\ pc[r] = "prompting" => working \subseteq {User(r)}
           /\ pc[r] \notin {"injecting", "prompting"} => working = {}
           /\ \A s \in SessionIds : queueOf[s] # None => queueOf[s] \in working
<1>1. \A q \in Requests : q # r => pc[q] \in {"idle", "done", "failed"}
  BY DEF IInv, CalmIsSequential, UnderWay, TypeOK
<1>2. ASSUME NEW t \in working
      PROVE  t.request = r /\ \/ pc[r] = "injecting" /\ t = System(r)
                              \/ pc[r] = "prompting" /\ t = User(r)
  <2>1. t \in Turns /\ pc[t.request] = IF t.by = "system" THEN "injecting" ELSE "prompting"
    BY DEF IInv, TypeOK, CalmIsSequential
  <2>2. t.request = r
    BY <1>1, <2>1, TurnNames
  <2> QED
    BY <2>1, <2>2, TurnNames
<1>3. \A s \in SessionIds : queueOf[s] # None => queueOf[s] \in working
  BY DEF IInv, CalmIsSequential
<1> QED
  BY <1>1, <1>2, <1>3

\* Where r goes, with nothing decided about it.
LEMMA QuietShape ==
    ASSUME IInv, NEW r \in Requests, pc[r] \in UnderWay,
           NEW place \in {"selecting", "prompting", "done", "failed"},
           pc' = [pc EXCEPT ![r] = place],
           place = "prompting" => used[r] # None, place = "selecting" => pc[r] = "selecting",
           UNCHANGED <<settings, key, single, created, used, adapterVars, model>>
    PROVE  HistoryGrows /\ SessionsAreGiven /\ PositionsFit' /\ OneCreator'
<1> USE DEF settings, adapterVars
<1>1. pc'[r] = place /\ \A q \in Requests : q # r => pc'[q] = pc[q]
  BY DEF IInv, TypeOK
<1>2. HistoryGrows
  BY <1>1 DEF HistoryGrows, UnderWay
<1>3. SessionsAreGiven
  BY DEF SessionsAreGiven
<1>4. PositionsFit'
  BY <1>1 DEF IInv, PositionsFit, UnderWay
<1> QED
  BY <1>2, <1>3, <1>4 DEF IInv, OneCreator

\* The promises to a calm client, when nothing is decided about r.
LEMMA CalmKept ==
    ASSUME IInv, NEW r \in Requests, pc[r] \in UnderWay \ {"injecting"},
           NEW place \in {"selecting", "prompting", "done", "failed"},
           pc' = [pc EXCEPT ![r] = place],
           UNCHANGED <<settings, key, single, created, used, adapterVars, model, reply>>,
           ended \subseteq ended',
           calm => /\ \A t \in working' : t = User(r) /\ place = "prompting"
                   /\ \A s \in SessionIds : queueOf'[s] # None => queueOf'[s] \in working'
    PROVE  CalmIsSequential' /\ CalmSessionsBegin' /\ CalmClientIsServed'
<1> USE DEF settings, adapterVars
<1>1. pc'[r] = place /\ \A q \in Requests : q # r => pc'[q] = pc[q]
  BY DEF IInv, TypeOK
<1>2. calm => \A q \in Requests : q # r => pc[q] \in {"idle", "done", "failed"}
  BY CalmWork
<1>3. CalmIsSequential'
  <2>1. calm => \A t \in working' :
          pc'[t.request] = IF t.by = "system" THEN "injecting" ELSE "prompting"
    BY <1>1, TurnNames
  <2>2. calm => \A q, u \in Requests :
          {pc'[q], pc'[u]} \cap {"idle", "done", "failed"} = {} => q = u
    BY <1>1, <1>2
  <2> QED
    BY <2>1, <2>2 DEF CalmIsSequential
<1>4. CalmSessionsBegin'
  <2>1. calm => \A q \in Requests : pc[q] # "injecting" /\ pc'[q] # "injecting"
    BY <1>1, <1>2
  <2> QED
    BY <2>1 DEF IInv, CalmSessionsBegin
<1>5. SystemPromptFirst'
  BY DEF IInv, CalmClientIsServed, SystemPromptFirst, Prompted
<1>6. FirstPromptsDoNotCollide' /\ RepliesAreTheirOwn'
  BY DEF IInv, CalmClientIsServed, FirstPromptsDoNotCollide, RepliesAreTheirOwn, Prompted
<1> QED
  BY <1>3, <1>4, <1>5, <1>6 DEF CalmClientIsServed

\* What a step has to show.
LEMMA Collected ==
    ASSUME IInv, TypeOK', HistoryGrows, SessionsAreGiven, TurnsAreGiven, PositionsFit', OneCreator',
           CalmIsSequential', CalmSessionsBegin', CalmClientIsServed'
    PROVE  IInv'
BY StructureKept DEF IInv

LEMMA UnsettledPreserves ==
    ASSUME IInv, NEW r \in Requests, UNCHANGED settings, MethodNotFound(r) \/ CreationFails(r)
    PROVE  IInv'
<1>1. /\ pc[r] \in {"creating", "selecting"}
      /\ UNCHANGED <<settings, key, single, created, used, adapterVars, model, turnVars>>
      /\ method' \in [Requests -> {"session/set_model", "session/set_config_option"}]
  BY DEF MethodNotFound, CreationFails, requestVars, IInv, TypeOK
<1>2. PICK place \in {"selecting", "failed"} :
        pc' = [pc EXCEPT ![r] = place] /\ (place = "selecting" => pc[r] = "selecting")
  BY DEF MethodNotFound, CreationFails, Goto, IInv, TypeOK
<1>3. TypeOK'
  BY <1>1, <1>2 DEF IInv, TypeOK, settings, adapterVars, turnVars
<1>4. HistoryGrows /\ SessionsAreGiven /\ PositionsFit' /\ OneCreator'
  BY <1>1, <1>2, QuietShape DEF UnderWay
<1>5. TurnsAreGiven
  BY <1>1 DEF TurnsAreGiven, turnVars
<1>6. calm => working = {} /\ \A s \in SessionIds : queueOf[s] # None => queueOf[s] \in working
  BY <1>1, CalmWork DEF UnderWay
<1>7. CalmIsSequential' /\ CalmSessionsBegin' /\ CalmClientIsServed'
  BY <1>1, <1>2, <1>6, CalmKept DEF UnderWay, turnVars
<1> QED
  BY <1>3, <1>4, <1>5, <1>7, Collected

\* A turn that is given up leaves the child to itself; its queue goes.
LEMMA GivenUpPreserves ==
    ASSUME IInv, NEW r \in Requests, UNCHANGED settings,
           InjectionFails(r) \/ PromptFails(r) \/ NeverBegins(r)
    PROVE  IInv'
<1>1. /\ pc[r] \in UnderWay /\ pc' = [pc EXCEPT ![r] = "failed"] /\ ~calm
      /\ UNCHANGED <<settings, key, single, method, created, used, adapterVars, model, ended, reply>>
      /\ working' \subseteq working
  BY DEF InjectionFails, PromptFails, NeverBegins, TurnFails, Goto, UnderWay, requestVars, turnVars
<1>2. queueOf' \in [SessionIds -> Turns \cup {None}]
      /\ \A s \in SessionIds : queueOf'[s] \in {queueOf[s], None}
  BY DEF InjectionFails, PromptFails, NeverBegins, TurnFails, PopQueue, turnVars, IInv, TypeOK
<1>3. TypeOK'
  BY <1>1, <1>2 DEF IInv, TypeOK, settings, adapterVars
<1>4. HistoryGrows /\ SessionsAreGiven /\ PositionsFit' /\ OneCreator'
  BY <1>1, QuietShape
<1>5. TurnsAreGiven
  BY <1>1, <1>2 DEF TurnsAreGiven
<1>6. ~calm'
  BY <1>1 DEF settings
<1>7. CalmIsSequential' /\ CalmSessionsBegin' /\ CalmClientIsServed'
  BY <1>6 DEF CalmIsSequential, CalmSessionsBegin, CalmClientIsServed, SystemPromptFirst,
              FirstPromptsDoNotCollide, RepliesAreTheirOwn
<1> QED
  BY <1>3, <1>4, <1>5, <1>7, Collected

LEMMA BeginPreserves ==
    ASSUME IInv, NEW r \in Requests, UNCHANGED settings, Begin(r) PROVE IInv'
<1>1. /\ pc[r] = "answering" /\ pc' = [pc EXCEPT ![r] = "prompting"] /\ used[r] # None
      /\ UNCHANGED <<settings, key, single, method, created, used, adapterVars, model, ended, reply>>
      /\ queueOf' = [queueOf EXCEPT ![used[r]] = User(r)] /\ working' = working \cup {User(r)}
  BY DEF Begin, Goto, Send, requestVars, IInv, PositionsFit
<1>2. User(r) \in Turns /\ used[r] \in SessionIds
  BY <1>1, TurnNames, SessionsAreSessions
<1>3. TypeOK'
  BY <1>1, <1>2 DEF IInv, TypeOK, settings, adapterVars
<1>4. HistoryGrows /\ SessionsAreGiven /\ PositionsFit' /\ OneCreator'
  BY <1>1, QuietShape DEF UnderWay
<1>5. /\ queueOf'[used[r]] = User(r)
      /\ \A s \in SessionIds : s # used[r] => queueOf'[s] = queueOf[s]
  BY <1>1, <1>2 DEF IInv, TypeOK
<1>6. TurnsAreGiven
  <2>1. SessionOfTurn(User(r))' = used[r]
    BY <1>1, TurnNames DEF SessionOfTurn
  <2>2. SessionOfTurn(queueOf[used[r]])' = used[r]
    BY <1>5, <2>1, <1>1 DEF SessionOfTurn
  <2>3. \A s \in SessionIds : queueOf'[s] \in {queueOf[s], None} \/ SessionOfTurn(queueOf[s])' = s
    BY <1>1, <1>5, <2>2
  <2> QED
    BY <1>1, <2>1, <2>3 DEF TurnsAreGiven
<1>7. calm => working = {} /\ \A s \in SessionIds : queueOf[s] # None => queueOf[s] \in working
  BY <1>1, CalmWork DEF UnderWay
<1>8. CalmIsSequential' /\ CalmSessionsBegin' /\ CalmClientIsServed'
  <2>1. calm => /\ \A t \in working' : t = User(r)
                /\ \A s \in SessionIds : queueOf'[s] # None => queueOf'[s] \in working'
    BY <1>1, <1>5, <1>7
  <2> QED
    BY <1>1, <2>1, CalmKept DEF UnderWay
<1> QED
  BY <1>3, <1>4, <1>6, <1>8, Collected

LEMMA CompletedPreserves ==
    ASSUME IInv, NEW r \in Requests, UNCHANGED settings, Completed(r) PROVE IInv'
<1>1. /\ pc[r] = "prompting" /\ pc' = [pc EXCEPT ![r] = "done"]
      /\ UNCHANGED <<settings, key, single, method, created, used, adapterVars, model, reply>>
      /\ working' = working \ {User(r)} /\ ended' = ended \cup {User(r)} /\ User(r) \in Turns
      /\ queueOf' = [queueOf EXCEPT ![used[r]] = None]
  BY TurnNames, TurnSessions DEF Completed, Goto, TurnEnds, PopQueue, requestVars
<1>2. used[r] \in SessionIds
  BY <1>1, SessionsAreSessions DEF IInv, PositionsFit
<1>3. TypeOK'
  BY <1>1 DEF IInv, TypeOK, settings, adapterVars
<1>4. HistoryGrows /\ SessionsAreGiven /\ PositionsFit' /\ OneCreator'
  BY <1>1, QuietShape DEF UnderWay
<1>5. /\ queueOf'[used[r]] = None
      /\ \A s \in SessionIds : s # used[r] => queueOf'[s] = queueOf[s]
  BY <1>1, <1>2 DEF IInv, TypeOK
<1>6. TurnsAreGiven
  BY <1>1, <1>5 DEF TurnsAreGiven
<1>7. calm => /\ working \subseteq {User(r)}
              /\ \A s \in SessionIds : queueOf[s] # None => queueOf[s] \in working
  BY <1>1, CalmWork DEF UnderWay
<1>8. calm => /\ working' = {}
              /\ \A s \in SessionIds : queueOf'[s] = None
  <2>1. ASSUME calm, NEW s \in SessionIds, queueOf[s] # None PROVE s = used[r]
    BY <1>7, <2>1, TurnSessions DEF IInv, TurnsStayInTheirSessions
  <2> QED
    BY <1>1, <1>5, <1>7, <2>1
<1>9. CalmIsSequential' /\ CalmSessionsBegin' /\ CalmClientIsServed'
  BY <1>1, <1>8, CalmKept DEF UnderWay
<1> QED
  BY <1>3, <1>4, <1>6, <1>9, Collected

LEMMA UpdatePreserves ==
    ASSUME IInv, NEW turn \in Turns, UNCHANGED settings, Update(turn) PROVE IInv'
<1> DEFINE s == SessionOfTurn(turn)
           heard == queueOf[s]
<1>1. /\ turn \in working /\ heard # None
      /\ reply' = [reply EXCEPT ![heard] = @ \cup {turn}]
      /\ UNCHANGED <<settings, pc, key, single, method, created, used, adapterVars, model,
                     queueOf, working, ended>>
  BY DEF Update, requestVars
<1>2. s # None /\ s \in SessionIds
  <2>1. s # None
    BY <1>1 DEF IInv, TurnsStayInTheirSessions
  <2> QED
    BY <2>1, TurnNames DEF SessionOfTurn, IInv, TypeOK
<1>3. heard \in Turns /\ SessionOfTurn(heard) = s
  BY <1>1, <1>2 DEF IInv, TypeOK, TurnsStayInTheirSessions
<1> HIDE DEF s, heard
<1>4. /\ reply'[heard] = reply[heard] \cup {turn}
      /\ \A t \in Turns : t # heard => reply'[t] = reply[t]
  BY <1>1, <1>3 DEF IInv, TypeOK
<1>5. TypeOK'
  BY <1>1, <1>3 DEF IInv, TypeOK, settings, adapterVars
<1>6. HistoryGrows /\ SessionsAreGiven
  BY <1>1 DEF HistoryGrows, SessionsAreGiven, adapterVars
<1>7. PositionsFit' /\ OneCreator'
  BY <1>1 DEF IInv, PositionsFit, OneCreator, adapterVars
<1>8. TurnsAreGiven
  <2>1. SessionOfTurn(turn) # None /\ SessionOfTurn(turn) = SessionOfTurn(heard)
    BY <1>2, <1>3 DEF s
  <2>2. \A t, u \in Turns : u \in reply'[t] => u \in reply[t] \/ (t = heard /\ u = turn)
    BY <1>4
  <2> QED
    BY <1>1, <2>1, <2>2 DEF TurnsAreGiven
<1>9. CalmIsSequential' /\ CalmSessionsBegin'
  BY <1>1 DEF IInv, CalmIsSequential, CalmSessionsBegin, settings, adapterVars
<1>10. calm => heard = turn
  <2>1. turn.request \in Requests /\ (turn = System(turn.request) \/ turn = User(turn.request))
    BY TurnNames
  <2>2. calm => pc[turn.request] = IF turn.by = "system" THEN "injecting" ELSE "prompting"
    BY <1>1 DEF IInv, CalmIsSequential
  <2>3. calm => heard \in working
    BY <1>1, <1>2 DEF IInv, CalmIsSequential, heard
  <2> QED
    BY <1>1, <2>1, <2>2, <2>3, CalmWork DEF UnderWay
<1>11. CalmClientIsServed'
  <2>1. SystemPromptFirst' /\ FirstPromptsDoNotCollide'
    BY <1>1 DEF IInv, CalmClientIsServed, SystemPromptFirst, FirstPromptsDoNotCollide, Prompted,
                settings
  <2>2. RepliesAreTheirOwn'
    BY <1>1, <1>4, <1>10 DEF IInv, CalmClientIsServed, RepliesAreTheirOwn, settings
  <2> QED
    BY <2>1, <2>2 DEF CalmClientIsServed
<1> QED
  BY <1>5, <1>6, <1>7, <1>8, <1>9, <1>11, Collected

LEMMA ForgottenPreserves ==
    ASSUME IInv, NEW turn \in Turns, UNCHANGED settings, Forgotten(turn) PROVE IInv'
<1>1. /\ working' \subseteq working
      /\ UNCHANGED <<settings, pc, key, single, method, created, used, adapterVars, model,
                     queueOf, ended, reply>>
  BY DEF Forgotten, requestVars
<1>2. ~calm'
  BY DEF Forgotten, IInv, CalmIsSequential, settings
<1>3. TypeOK'
  BY <1>1 DEF IInv, TypeOK, settings, adapterVars
<1>4. HistoryGrows /\ SessionsAreGiven /\ TurnsAreGiven
  BY <1>1 DEF HistoryGrows, SessionsAreGiven, TurnsAreGiven, adapterVars
<1>5. PositionsFit' /\ OneCreator'
  BY <1>1 DEF IInv, PositionsFit, OneCreator, adapterVars
<1>6. CalmIsSequential' /\ CalmSessionsBegin' /\ CalmClientIsServed'
  BY <1>2 DEF CalmIsSequential, CalmSessionsBegin, CalmClientIsServed, SystemPromptFirst,
              FirstPromptsDoNotCollide, RepliesAreTheirOwn
<1> QED
  BY <1>3, <1>4, <1>5, <1>6, Collected

LEMMA StutterPreserves == ASSUME IInv, UNCHANGED vars PROVE IInv'
<1> USE DEF vars, settings, requestVars, adapterVars, turnVars
<1>1. TypeOK'
  BY DEF IInv, TypeOK
<1>2. HistoryGrows /\ SessionsAreGiven /\ TurnsAreGiven
  BY DEF HistoryGrows, SessionsAreGiven, TurnsAreGiven
<1>3. PositionsFit' /\ OneCreator'
  BY DEF IInv, PositionsFit, OneCreator
<1>4. CalmIsSequential' /\ CalmSessionsBegin'
  BY DEF IInv, CalmIsSequential, CalmSessionsBegin
<1>5. CalmClientIsServed'
  BY DEF IInv, CalmClientIsServed, SystemPromptFirst, FirstPromptsDoNotCollide,
         RepliesAreTheirOwn, Prompted
<1> QED
  BY <1>1, <1>2, <1>3, <1>4, <1>5, Collected

-----------------------------------------------------------------------------
(* Steps that give a request its session                                   *)

\* A turn that is sent, over whatever was registered, is heard in its session.
LEMMA SendGives ==
    ASSUME IInv, NEW turn \in Turns, NEW s \in SessionIds, SessionOfTurn(turn)' = s,
           queueOf'[s] = turn,
           \A x \in SessionIds : x # s => queueOf'[x] \in {queueOf[x], None},
           working' \subseteq working \cup {turn}, reply' = reply
    PROVE  TurnsAreGiven
<1>1. s # None
  BY NoneIsNoSession
<1>2. SessionOfTurn(queueOf[s])' = s
  BY DEF SessionOfTurn
<1>3. \A x \in SessionIds : queueOf'[x] \in {queueOf[x], None} \/ SessionOfTurn(queueOf[x])' = x
  BY <1>2
<1> QED
  BY <1>1, <1>3 DEF TurnsAreGiven

\* Nobody was ever given a session that is still being made.
LEMMA FreshIsUnused ==
    ASSUME IInv, NEW s \in SessionIds,
           \A q \in Requests : created[q] = s => pc[q] \in {"creating", "selecting"}
    PROVE  /\ s \notin initialized /\ \A k \in Keys : sessionOf[k] # s
           /\ \A q \in Requests : used[q] # s
BY NoneIsNoSession DEF IInv, SessionsAreMadeForTheirKeys, MadeFor, Prompted

\* The one request a calm client has under way is r, with the turn it is at.
LEMMA SequentialAgain ==
    ASSUME NEW r \in Requests, UNCHANGED settings,
           calm => /\ \A q \in Requests : q # r => pc'[q] \in {"idle", "done", "failed"}
                   /\ \A t \in working' : \/ t = User(r) /\ pc'[r] = "prompting"
                                          \/ t = System(r) /\ pc'[r] = "injecting"
                   /\ \A s \in SessionIds : queueOf'[s] # None => queueOf'[s] \in working'
    PROVE  CalmIsSequential'
<1>1. calm => \A t \in working' :
        pc'[t.request] = IF t.by = "system" THEN "injecting" ELSE "prompting"
  BY TurnNames
<1>2. calm => \A q, u \in Requests :
        {pc'[q], pc'[u]} \cap {"idle", "done", "failed"} = {} => q = u
  OBVIOUS
<1> QED
  BY <1>1, <1>2 DEF CalmIsSequential, settings

\* The promises to a calm client when r enters s.
LEMMA EnteringServes ==
    ASSUME IInv, NEW r \in Requests, NEW s \in SessionIds, used[r] = None, HistoryGrows,
           UNCHANGED <<settings, reply>>, used' = [used EXCEPT ![r] = s], ended \subseteq ended',
           \A q \in Requests : q # r => single'[q] = single[q],
           calm /\ systemPrompt => \E q \in Requests : created'[q] = s /\ System(q) \in ended',
           calm => \A q \in Requests : single'[r] => used[q] # s
    PROVE  CalmClientIsServed'
<1> USE DEF settings
<1>1. used'[r] = s /\ \A q \in Requests : q # r => used'[q] = used[q]
  BY DEF IInv, TypeOK
<1>2. SystemPromptFirst'
  <2> SUFFICES ASSUME calm, systemPrompt, NEW u \in Requests, used'[u] # None
               PROVE  \E q \in Requests : created'[q] = used'[u] /\ System(q) \in ended'
    BY DEF SystemPromptFirst, Prompted
  <2>1. CASE u = r
    BY <1>1, <2>1
  <2>2. CASE u # r
    <3>1. PICK q \in Requests : created[q] = used[u] /\ System(q) \in ended
      BY <1>1, <2>2 DEF IInv, CalmClientIsServed, SystemPromptFirst, Prompted
    <3>2. created'[q] = created[q]
      BY <1>1, <2>2, <3>1 DEF HistoryGrows
    <3> QED
      BY <1>1, <2>2, <3>1, <3>2
  <2> QED
    BY <2>1, <2>2
<1>3. FirstPromptsDoNotCollide'
  BY <1>1 DEF IInv, CalmClientIsServed, FirstPromptsDoNotCollide, Prompted
<1>4. RepliesAreTheirOwn'
  BY DEF IInv, CalmClientIsServed, RepliesAreTheirOwn
<1> QED
  BY <1>2, <1>3, <1>4 DEF CalmClientIsServed

\* A request that enters the session of its key, whatever else it finishes.
LEMMA EnterShape ==
    ASSUME IInv, NEW r \in Requests, NEW s \in SessionIds,
           pc[r] \in {"idle", "injecting"}, pc'[r] \in {"prompting", "answering"},
           \A q \in Requests : q # r => pc'[q] = pc[q] /\ key'[q] = key[q],
           pc[r] = "injecting" => key'[r] = key[r],
           key'[r] \in Keys, s = sessionOf[key'[r]],
           used' = [used EXCEPT ![r] = s], active' = active \cup {s},
           UNCHANGED <<created, sessionOf, initialized, model>>
    PROVE  HistoryGrows /\ SessionsAreGiven /\ PositionsFit' /\ OneCreator'
<1>1. /\ used'[r] = s /\ s # None /\ used[r] = None
      /\ \A q \in Requests : q # r => used'[q] = used[q]
  BY NoneIsNoSession DEF IInv, TypeOK, PositionsFit
<1>2. HistoryGrows
  BY <1>1 DEF HistoryGrows
<1>3. SessionsAreGiven
  BY <1>1 DEF SessionsAreGiven
<1>4. PositionsFit'
  <2>1. ASSUME NEW q \in Requests, q # r
        PROVE  /\ pc'[q] = pc[q] /\ key'[q] = key[q] /\ created'[q] = created[q]
               /\ used'[q] = used[q] /\ sessionOf' = sessionOf
    BY <1>1, <2>1
  <2> QED
    BY <1>1, <2>1 DEF IInv, PositionsFit
<1> QED
  BY <1>2, <1>3, <1>4 DEF IInv, OneCreator

\* The first turn of r in s, sent now or when the stream begins.
LEMMA PromptShape ==
    ASSUME IInv, NEW r \in Requests, NEW s \in SessionIds, Prompt(r, s)
    PROVE  /\ UNCHANGED <<ended, reply>>
           /\ queueOf' \in [SessionIds -> Turns \cup {None}] /\ working' \in SUBSET Turns
           /\ working' = working \cup (IF pc'[r] = "prompting" THEN {User(r)} ELSE {})
           /\ \A x \in SessionIds : queueOf'[x] = IF x = s /\ pc'[r] = "prompting" THEN User(r)
                                                  ELSE queueOf[x]
           /\ used'[r] = s => TurnsAreGiven
<1>1. User(r) \in Turns
  BY TurnNames
<1>2. /\ UNCHANGED <<ended, reply>>
      /\ queueOf' \in [SessionIds -> Turns \cup {None}] /\ working' \in SUBSET Turns
      /\ working' = working \cup (IF pc'[r] = "prompting" THEN {User(r)} ELSE {})
  BY <1>1 DEF Prompt, Send, turnVars, IInv, TypeOK
<1>3. \A x \in SessionIds : queueOf'[x] = IF x = s /\ pc'[r] = "prompting" THEN User(r)
                                          ELSE queueOf[x]
  BY <1>1 DEF Prompt, Send, turnVars, IInv, TypeOK
<1>4. ASSUME used'[r] = s PROVE TurnsAreGiven
  <2>1. CASE pc'[r] = "prompting"
    <3>1. SessionOfTurn(User(r))' = s
      BY <1>4, TurnNames DEF SessionOfTurn
    <3> QED
      BY <1>1, <1>2, <1>3, <2>1, <3>1, SendGives
  <2>2. CASE pc'[r] # "prompting"
    BY <2>2 DEF Prompt, turnVars, TurnsAreGiven
  <2> QED
    BY <2>1, <2>2
<1> QED
  BY <1>2, <1>3, <1>4

\* A request that arrives for a new session is given nothing yet.
LEMMA WaitingPreserves ==
    ASSUME IInv, NEW r \in Requests, NEW k \in Keys, NEW one \in BOOLEAN, UNCHANGED settings,
           Arrive(r, k, one), NeedsNew(r, k, one)
    PROVE  IInv'
<1>1. /\ pc[r] = "idle" /\ MayArrive /\ pc' = [pc EXCEPT ![r] = "creating"]
      /\ key' = [key EXCEPT ![r] = k] /\ single' = [single EXCEPT ![r] = one]
      /\ UNCHANGED <<settings, method, created, used, adapterVars, model, queueOf, working,
                     ended, reply>>
  BY DEF Arrive, Goto, adapterVars, turnVars
<1>2. /\ pc'[r] = "creating" /\ key'[r] = k /\ created[r] = None /\ used[r] = None
      /\ \A q \in Requests : q # r =>
           pc'[q] = pc[q] /\ key'[q] = key[q] /\ single'[q] = single[q]
  BY <1>1 DEF IInv, TypeOK, PositionsFit
<1>3. TypeOK'
  BY <1>1 DEF IInv, TypeOK, settings, adapterVars
<1>4. HistoryGrows /\ SessionsAreGiven /\ TurnsAreGiven
  BY <1>1, <1>2 DEF HistoryGrows, SessionsAreGiven, TurnsAreGiven, adapterVars
<1>5. PositionsFit' /\ OneCreator'
  BY <1>1, <1>2 DEF IInv, PositionsFit, OneCreator, adapterVars
<1>6. calm => \A q \in Requests : pc[q] \in {"idle", "done", "failed"}
  BY <1>1 DEF MayArrive, Arrived
<1>7. calm => working = {} /\ \A s \in SessionIds : queueOf[s] = None
  BY <1>6 DEF IInv, CalmIsSequential, TypeOK, Turns
<1>8. CalmIsSequential'
  BY <1>1, <1>2, <1>6, <1>7, SequentialAgain
<1>9. CalmSessionsBegin'
  <2>1. calm => \A q \in Requests : pc[q] # "injecting" /\ pc'[q] # "injecting"
    BY <1>2, <1>6
  <2> QED
    BY <1>1, <2>1 DEF IInv, CalmSessionsBegin, settings, adapterVars
<1>10. SystemPromptFirst' /\ RepliesAreTheirOwn'
  BY <1>1 DEF IInv, CalmClientIsServed, SystemPromptFirst, RepliesAreTheirOwn, Prompted, settings
<1>11. FirstPromptsDoNotCollide'
  BY <1>1, <1>2 DEF IInv, CalmClientIsServed, FirstPromptsDoNotCollide, Prompted, settings
<1> QED
  BY <1>3, <1>4, <1>5, <1>8, <1>9, <1>10, <1>11, Collected DEF CalmClientIsServed

\* A request that arrives for the session its key has enters it.
LEMMA JoiningPreserves ==
    ASSUME IInv, NEW r \in Requests, NEW k \in Keys, NEW one \in BOOLEAN, UNCHANGED settings,
           Arrive(r, k, one), ~NeedsNew(r, k, one)
    PROVE  IInv'
<1> DEFINE s == sessionOf[k]
<1>1. /\ pc[r] = "idle" /\ MayArrive
      /\ key' = [key EXCEPT ![r] = k] /\ single' = [single EXCEPT ![r] = one]
      /\ UNCHANGED <<settings, method, created, sessionOf, initialized, model>>
      /\ Enter(r, s) /\ Prompt(r, s) /\ s # None /\ (one => s \notin active)
  BY DEF Arrive, NeedsNew
<1>2. s \in SessionIds /\ s = sessionOf[k]
  BY <1>1, SessionsAreSessions
<1> HIDE DEF s
<1>3. PICK place \in {"prompting", "answering"} :
        /\ pc' = [pc EXCEPT ![r] = place]
        /\ used' = [used EXCEPT ![r] = s] /\ active' = active \cup {s}
  BY <1>1 DEF Enter, Goto
<1>4. /\ pc'[r] = place /\ key'[r] = k /\ single'[r] = one /\ used'[r] = s /\ used[r] = None
      /\ \A q \in Requests : q # r =>
           pc'[q] = pc[q] /\ key'[q] = key[q] /\ single'[q] = single[q] /\ used'[q] = used[q]
  BY <1>1, <1>3 DEF IInv, TypeOK, PositionsFit
<1>5. /\ UNCHANGED <<ended, reply>> /\ TurnsAreGiven
      /\ queueOf' \in [SessionIds -> Turns \cup {None}] /\ working' \in SUBSET Turns
      /\ working' = working \cup (IF place = "prompting" THEN {User(r)} ELSE {})
      /\ \A x \in SessionIds : queueOf'[x] = IF x = s /\ place = "prompting" THEN User(r)
                                             ELSE queueOf[x]
  BY <1>1, <1>2, <1>4, PromptShape
<1>6. TypeOK'
  BY <1>1, <1>2, <1>3, <1>5 DEF IInv, TypeOK, settings
<1>7. HistoryGrows /\ SessionsAreGiven /\ PositionsFit' /\ OneCreator'
  BY <1>1, <1>2, <1>3, <1>4, EnterShape
<1>8. calm => \A q \in Requests : pc[q] \in {"idle", "done", "failed"}
  BY <1>1 DEF MayArrive, Arrived
<1>9. calm => working = {} /\ \A x \in SessionIds : queueOf[x] = None
  BY <1>8 DEF IInv, CalmIsSequential, TypeOK, Turns
<1>10. CalmIsSequential'
  <2>1. calm => /\ \A t \in working' : t = User(r) /\ pc'[r] = "prompting"
                /\ \A x \in SessionIds : queueOf'[x] # None => queueOf'[x] \in working'
    BY <1>4, <1>5, <1>9
  <2>2. calm => \A q \in Requests : q # r => pc'[q] \in {"idle", "done", "failed"}
    BY <1>4, <1>8
  <2> QED
    BY <1>1, <2>1, <2>2, SequentialAgain
<1>11. CalmSessionsBegin'
  <2>1. calm => \A q \in Requests : pc[q] # "injecting" /\ pc'[q] # "injecting"
    BY <1>4, <1>8
  <2> QED
    BY <1>1, <1>5, <2>1 DEF IInv, CalmSessionsBegin, settings
<1>12. CalmClientIsServed'
  <2>1. calm /\ systemPrompt => \E q \in Requests : created'[q] = s /\ System(q) \in ended'
    BY <1>1, <1>2, <1>5, <1>8 DEF IInv, CalmSessionsBegin
  <2>2. \A q \in Requests : single'[r] => used[q] # s
    BY <1>1, <1>2, <1>4, NoneIsNoSession DEF IInv, SessionsAreMadeForTheirKeys, Prompted
  <2>3. /\ used[r] = None /\ used' = [used EXCEPT ![r] = s] /\ reply' = reply
        /\ ended \subseteq ended' /\ \A q \in Requests : q # r => single'[q] = single[q]
    BY <1>3, <1>4, <1>5
  <2> QED
    BY <1>2, <1>7, <2>1, <2>2, <2>3, EnteringServes
<1> QED
  BY <1>5, <1>6, <1>7, <1>10, <1>11, <1>12, Collected

\* create_session returned s: r injects the prompt of the system, or enters s.
LEMMA RegisterPreserves ==
    ASSUME IInv, NEW r \in Requests, NEW s \in SessionIds, UNCHANGED settings,
           pc[r] \in {"creating", "selecting"}, created[r] \in {None, s},
           \A q \in Requests : q # r => created[q] # s,
           created' = [created EXCEPT ![r] = s],
           model' = [model EXCEPT ![s] = key[r].model],
           Register(r, s), UNCHANGED <<key, single, method>>
    PROVE  IInv'
<1>1. /\ key[r] \in Keys /\ key[r].model \in Models /\ used[r] = None /\ s # None
      /\ created'[r] = s /\ \A q \in Requests : q # r => created'[q] = created[q]
      /\ model'[s] = key[r].model
      /\ \A x \in SessionIds : x # s => model'[x] = model[x]
  BY NoneIsNoSession DEF IInv, TypeOK, PositionsFit, Keys
<1>2. /\ sessionOf' = [sessionOf EXCEPT ![key[r]] = s]
      /\ sessionOf'[key[r]] = s /\ \A k \in Keys : k # key[r] => sessionOf'[k] = sessionOf[k]
  BY <1>1 DEF Register, Keep, IInv, TypeOK
<1>3. /\ s \notin initialized /\ \A k \in Keys : sessionOf[k] # s
      /\ \A q \in Requests : used[q] # s
  BY FreshIsUnused
<1>4. calm => /\ working = {} /\ \A x \in SessionIds : queueOf[x] = None
              /\ \A q \in Requests : q # r => pc[q] \in {"idle", "done", "failed"}
  BY CalmWork DEF UnderWay
<1>5. System(r) \in Turns
  BY TurnNames
<1>6. PICK place \in {"injecting", "prompting", "answering"} :
        /\ pc' = [pc EXCEPT ![r] = place]
        /\ place = "injecting" => /\ initialized' = initialized \cup {s} /\ Send(System(r), s)
                                  /\ UNCHANGED <<used, active>>
        /\ place # "injecting" => /\ used' = [used EXCEPT ![r] = s] /\ active' = active \cup {s}
                                  /\ Prompt(r, s) /\ UNCHANGED initialized /\ ~systemPrompt
  BY <1>3 DEF Register, Injects, Enter, Goto
<1>7. /\ pc'[r] = place /\ \A q \in Requests : q # r => pc'[q] = pc[q] /\ used'[q] = used[q]
      /\ used'[r] = IF place = "injecting" THEN None ELSE s
  <2>1. pc'[r] = place /\ \A q \in Requests : q # r => pc'[q] = pc[q]
    BY <1>6 DEF IInv, TypeOK
  <2>2. CASE place = "injecting"
    BY <1>1, <1>6, <2>1, <2>2
  <2>3. CASE place # "injecting"
    BY <1>6, <2>1, <2>3 DEF IInv, TypeOK
  <2> QED
    BY <2>2, <2>3
<1>8. /\ TurnsAreGiven /\ UNCHANGED <<ended, reply>>
      /\ queueOf' \in [SessionIds -> Turns \cup {None}] /\ working' \in SUBSET Turns
      /\ calm => /\ \A t \in working' : \/ t = User(r) /\ place = "prompting"
                                        \/ t = System(r) /\ place = "injecting"
                 /\ \A x \in SessionIds : queueOf'[x] # None => queueOf'[x] \in working'
  <2>1. CASE place = "injecting"
    <3>1. /\ queueOf' = [queueOf EXCEPT ![s] = System(r)] /\ working' = working \cup {System(r)}
          /\ UNCHANGED <<ended, reply>>
      BY <1>6, <2>1 DEF Send
    <3>2. queueOf'[s] = System(r) /\ \A x \in SessionIds : x # s => queueOf'[x] = queueOf[x]
      BY <3>1 DEF IInv, TypeOK
    <3>3. SessionOfTurn(System(r))' = s
      BY <1>1, TurnNames DEF SessionOfTurn
    <3>4. TurnsAreGiven
      BY <1>5, <3>1, <3>2, <3>3, SendGives
    <3>5. queueOf' \in [SessionIds -> Turns \cup {None}] /\ working' \in SUBSET Turns
      BY <1>5, <3>1 DEF IInv, TypeOK
    <3> QED
      BY <1>4, <2>1, <3>1, <3>2, <3>4, <3>5
  <2>2. CASE place # "injecting"
    <3>1. /\ UNCHANGED <<ended, reply>> /\ TurnsAreGiven
          /\ queueOf' \in [SessionIds -> Turns \cup {None}] /\ working' \in SUBSET Turns
          /\ working' = working \cup (IF place = "prompting" THEN {User(r)} ELSE {})
          /\ \A x \in SessionIds : queueOf'[x] = IF x = s /\ place = "prompting" THEN User(r)
                                                 ELSE queueOf[x]
      BY <1>6, <1>7, <2>2, PromptShape
    <3> QED
      BY <1>4, <2>2, <3>1
  <2> QED
    BY <2>1, <2>2
<1>9. TypeOK'
  <2>1. used' \in [Requests -> SessionIds \cup {None}] /\ active' \in SUBSET SessionIds
        /\ initialized' \in SUBSET SessionIds
    BY <1>6 DEF IInv, TypeOK
  <2>2. /\ sessionOf' \in [Keys -> SessionIds \cup {None}] /\ model' \in [SessionIds -> Models \cup {None}]
        /\ created' \in [Requests -> SessionIds \cup {None}]
    BY <1>1, <1>2 DEF IInv, TypeOK
  <2> QED
    BY <1>6, <1>8, <2>1, <2>2 DEF IInv, TypeOK, settings
<1>10. HistoryGrows
  BY <1>1, <1>7 DEF HistoryGrows
<1>11. SessionsAreGiven
  <2>1. \A k \in Keys : sessionOf'[k] = sessionOf[k] \/
          (/\ key'[r] = k /\ created'[r] = sessionOf'[k] /\ pc'[r] \notin {"creating", "selecting"}
           /\ model'[created'[r]] = k.model)
    BY <1>1, <1>2, <1>7
  <2>2. \A q \in Requests : used'[q] = used[q] \/
          (key'[q] \in Keys /\ used'[q] = sessionOf'[key'[q]] /\ used'[q] \in active')
    BY <1>1, <1>2, <1>6, <1>7
  <2>3. active \subseteq active' /\ initialized' \subseteq initialized \cup {s}
    BY <1>6
  <2> QED
    BY <1>1, <1>7, <2>1, <2>2, <2>3 DEF SessionsAreGiven
<1>12. PositionsFit'
  <2>1. ASSUME NEW q \in Requests, q # r, pc[q] = "injecting" PROVE sessionOf'[key[q]] # None
    BY <1>1, <1>2, <2>1 DEF IInv, PositionsFit
  <2> QED
    BY <1>1, <1>2, <1>7, <2>1 DEF IInv, PositionsFit
<1>13. OneCreator'
  BY <1>1 DEF IInv, OneCreator
<1>14. CalmIsSequential'
  BY <1>4, <1>7, <1>8, SequentialAgain
<1>15. CalmSessionsBegin'
  <2> SUFFICES ASSUME calm
               PROVE  /\ \A q \in Requests : pc'[q] = "injecting" =>
                           /\ sessionOf'[key'[q]] = created'[q]
                           /\ \A u \in Requests : used'[u] # created'[q]
                      /\ systemPrompt => \A k \in Keys : sessionOf'[k] # None =>
                           \E q \in Requests : /\ created'[q] = sessionOf'[k]
                                               /\ System(q) \in ended' \/ pc'[q] = "injecting"
    BY DEF CalmSessionsBegin, settings
  <2>1. ASSUME NEW q \in Requests, pc'[q] = "injecting"
        PROVE  /\ sessionOf'[key'[q]] = created'[q]
               /\ \A u \in Requests : used'[u] # created'[q]
    BY <1>1, <1>2, <1>3, <1>4, <1>7, <2>1
  <2>2. ASSUME systemPrompt, NEW k \in Keys, sessionOf'[k] # None
        PROVE  \E q \in Requests : /\ created'[q] = sessionOf'[k]
                                   /\ System(q) \in ended' \/ pc'[q] = "injecting"
    <3>1. CASE k = key[r]
      BY <1>1, <1>2, <1>6, <1>7, <2>2, <3>1
    <3>2. CASE k # key[r]
      <4>1. PICK q \in Requests : /\ created[q] = sessionOf[k]
                                  /\ System(q) \in ended \/ pc[q] = "injecting"
        BY <1>2, <2>2, <3>2 DEF IInv, CalmSessionsBegin
      <4>2. System(q) \in ended
        BY <1>4, <4>1
      <4>3. created'[q] = created[q]
        BY <1>2, <2>2, <3>2, <4>1, <1>10 DEF HistoryGrows
      <4> QED
        BY <1>2, <1>8, <3>2, <4>1, <4>2, <4>3
    <3> QED
      BY <3>1, <3>2
  <2> QED
    BY <2>1, <2>2
<1>16. CalmClientIsServed'
  <2>1. CASE place = "injecting"
    <3>1. UNCHANGED <<settings, single, used, ended, reply>>
      BY <1>6, <1>8, <2>1
    <3>2. FirstPromptsDoNotCollide' /\ RepliesAreTheirOwn'
      BY <3>1 DEF IInv, CalmClientIsServed, FirstPromptsDoNotCollide, RepliesAreTheirOwn, Prompted,
                  settings
    <3>3. SystemPromptFirst'
      <4> SUFFICES ASSUME calm, systemPrompt, NEW u \in Requests, used[u] # None
                   PROVE  \E q \in Requests : created'[q] = used[u] /\ System(q) \in ended
        BY <3>1 DEF SystemPromptFirst, Prompted, settings
      <4>1. PICK q \in Requests : created[q] = used[u] /\ System(q) \in ended
        BY DEF IInv, CalmClientIsServed, SystemPromptFirst, Prompted
      <4> QED
        BY <4>1, <1>10 DEF HistoryGrows
    <3> QED
      BY <3>2, <3>3 DEF CalmClientIsServed
  <2>2. CASE place # "injecting"
    <3>1. /\ ~systemPrompt /\ used' = [used EXCEPT ![r] = s] /\ reply' = reply
          /\ ended \subseteq ended' /\ \A q \in Requests : q # r => single'[q] = single[q]
      BY <1>6, <1>8, <2>2
    <3> QED
      BY <1>1, <1>3, <1>10, <3>1, EnteringServes
  <2> QED
    BY <2>1, <2>2
<1> QED
  BY <1>8, <1>9, <1>10, <1>11, <1>12, <1>13, <1>14, <1>15, <1>16, Collected

\* A session that still needs its model is nobody's yet.
LEMMA SelectingPreserves ==
    ASSUME IInv, NEW r \in Requests, NEW s \in SessionIds, NEW default \in Models,
           UNCHANGED settings, SessionCreated(r, s, default), default # key[r].model
    PROVE  IInv'
<1>1. /\ pc[r] = "creating" /\ pc' = [pc EXCEPT ![r] = "selecting"]
      /\ created' = [created EXCEPT ![r] = s] /\ \A q \in Requests : created[q] # s
      /\ model' = [model EXCEPT ![s] = default]
      /\ UNCHANGED <<settings, key, single, method, used, adapterVars, queueOf, working,
                     ended, reply>>
  BY DEF SessionCreated, Goto, turnVars
<1>2. /\ pc'[r] = "selecting" /\ created'[r] = s /\ created[r] = None /\ s # None
      /\ \A q \in Requests : q # r => pc'[q] = pc[q] /\ created'[q] = created[q]
      /\ \A x \in SessionIds : x # s => model'[x] = model[x]
  BY <1>1, NoneIsNoSession DEF IInv, TypeOK, PositionsFit
<1>3. TypeOK'
  BY <1>1 DEF IInv, TypeOK, settings, adapterVars
<1>4. HistoryGrows
  BY <1>1, <1>2 DEF HistoryGrows
<1>5. SessionsAreGiven /\ TurnsAreGiven
  BY <1>1 DEF SessionsAreGiven, TurnsAreGiven, adapterVars
<1>6. PositionsFit' /\ OneCreator'
  BY <1>1, <1>2 DEF IInv, PositionsFit, OneCreator, adapterVars
<1>7. calm => /\ working = {} /\ \A x \in SessionIds : queueOf[x] # None => queueOf[x] \in working
              /\ \A q \in Requests : q # r => pc[q] \in {"idle", "done", "failed"}
  BY <1>1, CalmWork DEF UnderWay
<1>8. CalmIsSequential'
  BY <1>1, <1>2, <1>7, SequentialAgain
<1>9. CalmSessionsBegin'
  <2> SUFFICES ASSUME calm, systemPrompt, NEW k \in Keys, sessionOf[k] # None
               PROVE  \E q \in Requests : created'[q] = sessionOf[k] /\ System(q) \in ended
    BY <1>1, <1>2, <1>7 DEF CalmSessionsBegin, settings, adapterVars
  <2>1. PICK q \in Requests : /\ created[q] = sessionOf[k]
                              /\ System(q) \in ended \/ pc[q] = "injecting"
    BY DEF IInv, CalmSessionsBegin
  <2> QED
    BY <1>1, <1>2, <1>7, <2>1
<1>10. FirstPromptsDoNotCollide' /\ RepliesAreTheirOwn'
  BY <1>1 DEF IInv, CalmClientIsServed, FirstPromptsDoNotCollide, RepliesAreTheirOwn, Prompted,
              settings
<1>11. SystemPromptFirst'
  <2> SUFFICES ASSUME calm, systemPrompt, NEW u \in Requests, used[u] # None
               PROVE  \E q \in Requests : created'[q] = used[u] /\ System(q) \in ended
    BY <1>1 DEF SystemPromptFirst, Prompted, settings
  <2>1. PICK q \in Requests : created[q] = used[u] /\ System(q) \in ended
    BY DEF IInv, CalmClientIsServed, SystemPromptFirst, Prompted
  <2> QED
    BY <2>1, <1>4 DEF HistoryGrows
<1> QED
  BY <1>3, <1>4, <1>5, <1>6, <1>8, <1>9, <1>10, <1>11, Collected DEF CalmClientIsServed

LEMMA CreatedPreserves ==
    ASSUME IInv, NEW r \in Requests, NEW s \in SessionIds, NEW default \in Models,
           UNCHANGED settings, SessionCreated(r, s, default)
    PROVE  IInv'
<1>1. CASE default = key[r].model
  <2>1. /\ pc[r] \in {"creating", "selecting"} /\ \A q \in Requests : q # r => created[q] # s
        /\ created' = [created EXCEPT ![r] = s] /\ model' = [model EXCEPT ![s] = key[r].model]
        /\ Register(r, s) /\ UNCHANGED <<key, single, method>>
    BY <1>1 DEF SessionCreated
  <2>2. created[r] \in {None, s}
    BY DEF SessionCreated, IInv, PositionsFit
  <2> QED
    BY <2>1, <2>2, RegisterPreserves
<1>2. CASE default # key[r].model
  BY <1>2, SelectingPreserves
<1> QED
  BY <1>1, <1>2

LEMMA SelectedPreserves ==
    ASSUME IInv, NEW r \in Requests, UNCHANGED settings, ModelSelected(r)
    PROVE  IInv'
<1> DEFINE s == created[r]
<1>1. /\ pc[r] = "selecting" /\ model' = [model EXCEPT ![s] = key[r].model] /\ Register(r, s)
      /\ UNCHANGED <<key, single, method, created>>
  BY DEF ModelSelected
<1>2. s # None /\ s \in SessionIds
  BY <1>1, SessionsAreSessions DEF IInv, PositionsFit
<1>3. \A q \in Requests : q # r => created[q] # s
  BY <1>2 DEF IInv, OneCreator
<1>4. created' = [created EXCEPT ![r] = s]
  BY <1>1 DEF IInv, TypeOK
<1>5. created[r] \in {None, s} /\ pc[r] \in {"creating", "selecting"}
  BY <1>1
<1> HIDE DEF s
<1> QED
  BY <1>1, <1>2, <1>3, <1>4, <1>5, RegisterPreserves

\* The prompt of the system is over: r enters the session its key has by then.
LEMMA InjectedPreserves ==
    ASSUME IInv, NEW r \in Requests, UNCHANGED settings, Injected(r)
    PROVE  IInv'
<1> DEFINE s == sessionOf[key[r]]
           popped == [queueOf EXCEPT ![created[r]] = None]
<1>1. /\ pc[r] = "injecting" /\ key[r] \in Keys /\ s # None /\ created[r] # None
      /\ used[r] = None /\ Enter(r, s) /\ ended' = ended \cup {System(r)}
      /\ UNCHANGED <<settings, key, single, method, created, sessionOf, initialized, model, reply>>
  BY DEF Injected, IInv, PositionsFit
<1>2. /\ s \in SessionIds /\ s = sessionOf[key[r]] /\ created[r] \in SessionIds
      /\ System(r) \in Turns /\ User(r) \in Turns
  BY <1>1, SessionsAreSessions, TurnNames
<1>3. PICK place \in {"prompting", "answering"} :
        /\ pc' = [pc EXCEPT ![r] = place]
        /\ used' = [used EXCEPT ![r] = s] /\ active' = active \cup {s}
  BY <1>1 DEF Enter, Goto
<1>4. /\ pc'[r] = place /\ used'[r] = s
      /\ \A q \in Requests : q # r => pc'[q] = pc[q] /\ used'[q] = used[q]
  BY <1>3 DEF IInv, TypeOK
<1>5. /\ queueOf' = IF place = "prompting" THEN [popped EXCEPT ![s] = User(r)] ELSE popped
      /\ working' = (working \ {System(r)}) \cup (IF place = "prompting" THEN {User(r)} ELSE {})
  BY <1>4 DEF Injected
<1>6. /\ popped \in [SessionIds -> Turns \cup {None}] /\ popped[created[r]] = None
      /\ \A x \in SessionIds : x # created[r] => popped[x] = queueOf[x]
  BY <1>2 DEF IInv, TypeOK
<1> HIDE DEF s, popped
<1>7. /\ queueOf' \in [SessionIds -> Turns \cup {None}] /\ working' \in SUBSET Turns
      /\ \A x \in SessionIds : queueOf'[x] = IF x = s /\ place = "prompting" THEN User(r)
                                             ELSE popped[x]
  BY <1>2, <1>5, <1>6 DEF IInv, TypeOK
<1>8. TypeOK'
  BY <1>1, <1>2, <1>3, <1>7 DEF IInv, TypeOK, settings
<1>9. HistoryGrows /\ SessionsAreGiven /\ PositionsFit' /\ OneCreator'
  <2>1. \A q \in Requests : q # r => pc'[q] = pc[q] /\ key'[q] = key[q]
    BY <1>1, <1>4
  <2> QED
    BY <1>1, <1>2, <1>3, <1>4, <2>1, EnterShape
<1>10. TurnsAreGiven
  <2>1. CASE place = "prompting"
    <3>1. SessionOfTurn(User(r))' = s
      BY <1>4, TurnNames DEF SessionOfTurn
    <3>2. queueOf'[s] = User(r) /\ \A x \in SessionIds : x # s => queueOf'[x] \in {queueOf[x], None}
      BY <1>2, <1>6, <1>7, <2>1
    <3>3. working' \subseteq working \cup {User(r)} /\ reply' = reply
      BY <1>1, <1>5
    <3> QED
      BY <1>2, <3>1, <3>2, <3>3, SendGives
  <2>2. CASE place # "prompting"
    <3>1. /\ working' \subseteq working /\ reply' = reply
          /\ \A x \in SessionIds : queueOf'[x] \in {queueOf[x], None}
      BY <1>1, <1>5, <1>6, <1>7, <2>2
    <3> QED
      BY <3>1 DEF TurnsAreGiven
  <2> QED
    BY <2>1, <2>2
<1>11. calm => /\ working \subseteq {System(r)}
               /\ \A x \in SessionIds : queueOf[x] # None => queueOf[x] \in working
               /\ \A q \in Requests : q # r => pc[q] \in {"idle", "done", "failed"}
  BY <1>1, CalmWork DEF UnderWay
<1>12. calm => \A x \in SessionIds : popped[x] = None
  <2> SUFFICES ASSUME calm, NEW x \in SessionIds, queueOf[x] # None PROVE x = created[r]
    BY <1>6
  <2> QED
    BY <1>11, TurnSessions DEF IInv, TurnsStayInTheirSessions
<1>13. CalmIsSequential'
  <2>1. calm => \A q \in Requests : q # r => pc'[q] \in {"idle", "done", "failed"}
    BY <1>4, <1>11
  <2>2. calm => /\ \A t \in working' : t = User(r) /\ pc'[r] = "prompting"
                /\ \A x \in SessionIds : queueOf'[x] # None => queueOf'[x] \in working'
    BY <1>4, <1>5, <1>7, <1>11, <1>12
  <2> QED
    BY <2>1, <2>2, SequentialAgain
<1>14. calm => s = created[r] /\ \A q \in Requests : used[q] # s
  BY <1>1, <1>2 DEF IInv, CalmSessionsBegin
<1>15. CalmSessionsBegin'
  <2>1. calm => \A q \in Requests : pc'[q] # "injecting"
    BY <1>4, <1>11
  <2>2. ASSUME calm, systemPrompt, NEW k \in Keys, sessionOf[k] # None
        PROVE  \E q \in Requests : created[q] = sessionOf[k] /\ System(q) \in ended'
    <3>1. PICK q \in Requests : /\ created[q] = sessionOf[k]
                                /\ System(q) \in ended \/ pc[q] = "injecting"
      BY <2>2 DEF IInv, CalmSessionsBegin
    <3> QED
      BY <1>1, <1>11, <2>2, <3>1
  <2> QED
    BY <1>1, <2>1, <2>2 DEF CalmSessionsBegin, settings
<1>16. CalmClientIsServed'
  <2>1. calm /\ systemPrompt => \E q \in Requests : created'[q] = s /\ System(q) \in ended'
    BY <1>1, <1>14
  <2>2. calm => \A q \in Requests : single'[r] => used[q] # s
    BY <1>14
  <2>3. /\ used[r] = None /\ used' = [used EXCEPT ![r] = s] /\ reply' = reply
        /\ ended \subseteq ended' /\ \A q \in Requests : q # r => single'[q] = single[q]
    BY <1>1, <1>3
  <2> QED
    BY <1>2, <1>9, <2>1, <2>2, <2>3, EnteringServes
<1> QED
  BY <1>8, <1>9, <1>10, <1>13, <1>15, <1>16, Collected

-----------------------------------------------------------------------------
LEMMA NextPreserves == IInv /\ [Next]_vars => IInv'
<1> SUFFICES ASSUME IInv, [Next]_vars PROVE IInv'
  OBVIOUS
<1>1. CASE UNCHANGED vars
  BY <1>1, StutterPreserves
<1>2. CASE Next
  <2> USE <1>2
  <2>0. UNCHANGED settings
    BY DEF Next
  <2>1. ASSUME NEW r \in Requests, NEW k \in Keys, NEW one \in BOOLEAN, Arrive(r, k, one)
        PROVE  IInv'
    BY <2>0, <2>1, WaitingPreserves, JoiningPreserves
  <2>2. ASSUME NEW r \in Requests, NEW s \in SessionIds, NEW default \in Models,
               SessionCreated(r, s, default)
        PROVE  IInv'
    BY <2>0, <2>2, CreatedPreserves
  <2>3. ASSUME NEW r \in Requests, ModelSelected(r) PROVE IInv'
    BY <2>0, <2>3, SelectedPreserves
  <2>4. ASSUME NEW r \in Requests, MethodNotFound(r) \/ CreationFails(r) PROVE IInv'
    BY <2>0, <2>4, UnsettledPreserves
  <2>5. ASSUME NEW r \in Requests, Injected(r) PROVE IInv'
    BY <2>0, <2>5, InjectedPreserves
  <2>6. ASSUME NEW r \in Requests, InjectionFails(r) \/ PromptFails(r) \/ NeverBegins(r)
        PROVE  IInv'
    BY <2>0, <2>6, GivenUpPreserves
  <2>7. ASSUME NEW r \in Requests, Begin(r) PROVE IInv'
    BY <2>0, <2>7, BeginPreserves
  <2>8. ASSUME NEW r \in Requests, Completed(r) PROVE IInv'
    BY <2>0, <2>8, CompletedPreserves
  <2>9. ASSUME NEW turn \in Turns, Update(turn) PROVE IInv'
    BY <2>0, <2>9, UpdatePreserves
  <2>10. ASSUME NEW turn \in Turns, Forgotten(turn) PROVE IInv'
    BY <2>0, <2>10, ForgottenPreserves
  <2> QED
    BY <2>1, <2>2, <2>3, <2>4, <2>5, <2>6, <2>7, <2>8, <2>9, <2>10 DEF Next, Step
<1> QED
  BY <1>1, <1>2

\* However requests overlap, fail and are retried (completions of server.py), what
\* the adapter keeps by key stays true to the sessions of the client.
THEOREM SessionsInvariantHolds == Spec => []IInv
<1>1. Init => IInv
  BY InitEstablishes
<1>2. IInv /\ [Next]_vars => IInv'
  BY NextPreserves
<1> QED
  BY <1>1, <1>2, PTL DEF Spec

\* The key of a request decides whose session it prompts and whose text it may get.
LEMMA KeysDecide == IInv => KeysAreKept
<1> SUFFICES ASSUME IInv PROVE KeysAreKept
  OBVIOUS
<1>1. ModelIsTheOneAsked
  BY DEF IInv, SessionsAreMadeForTheirKeys, MadeFor, ModelIsTheOneAsked
<1>2. ASSUME NEW t \in Turns, SessionOfTurn(t) # None
      PROVE  \E q \in Requests : created[q] = SessionOfTurn(t) /\ key[q] = key[t.request]
  <2>1. CASE t.by = "system"
    BY <2>1, TurnNames DEF SessionOfTurn
  <2>2. CASE t.by # "system"
    <3>1. SessionOfTurn(t) = used[t.request] /\ t.request \in Requests
      BY <2>2, TurnNames DEF SessionOfTurn
    <3> QED
      BY <1>2, <3>1 DEF IInv, SessionsAreMadeForTheirKeys, MadeFor, Prompted
  <2> QED
    BY <2>1, <2>2
<1>3. RepliesStayInTheirKey
  <2> SUFFICES ASSUME NEW t \in Turns, NEW u \in Turns, u \in reply[t]
               PROVE  key[u.request] = key[t.request]
    BY DEF RepliesStayInTheirKey
  <2>1. SessionOfTurn(u) # None /\ SessionOfTurn(u) = SessionOfTurn(t)
    BY DEF IInv, TurnsStayInTheirSessions
  <2>2. PICK p \in Requests : created[p] = SessionOfTurn(u) /\ key[p] = key[u.request]
    BY <1>2, <2>1
  <2>3. PICK q \in Requests : created[q] = SessionOfTurn(t) /\ key[q] = key[t.request]
    BY <1>2, <2>1
  <2>4. p = q
    BY <2>1, <2>2, <2>3 DEF IInv, OneCreator
  <2> QED
    BY <2>2, <2>3, <2>4
<1> QED
  BY <1>1, <1>3 DEF KeysAreKept, IInv

\* However requests of one conversation overlap, each is prompted in a session that
\* was made for its model, and is given no text of another key (_get_session).
THEOREM KeysAreAlwaysKept == Spec => []KeysAreKept
BY SessionsInvariantHolds, KeysDecide, PTL

\* A client that waits for each answer finds the prompt of the system first, its
\* first prompts apart and its own text only (create_app).
THEOREM CalmClientsAreServed == Spec => []CalmClientIsServed
<1>1. IInv => CalmClientIsServed
  BY DEF IInv
<1> QED
  BY <1>1, SessionsInvariantHolds, PTL

-----------------------------------------------------------------------------
(* Terminals                                                               *)

LEMMA CallNames ==
    \A c, d \in {"wait", "read", "answer", "reap"} : \A t, u \in Terms :
        /\ <<c, t>> \in Calls /\ <<c, t>> # Free
        /\ <<c, t>> = <<d, u>> => c = d /\ t = u
BY FreeIsNoCall DEF Calls

\* What the invariant says of one terminal.
TerminalFits(t) ==
    /\ t \in closed => AtEnd(t) /\ pipe[t] = <<>>
    /\ waits[t] = 0 => gathered[t] = <<>> /\ t \notin closed /\ busy # <<"wait", t>>
    /\ waits[t] = 1 /\ t \notin timedOut => (t \in closed <=> busy # <<"wait", t>>)
    /\ waits[t] <= 1 /\ t \notin timedOut => OnItsWay(t)
    /\ process[t] # "none" /\ t \notin kept /\ busy # <<"reap", t>> => Exited(t)

LEMMA FitsEach ==
    TerminalsIInv <=> TerminalsTypeOK /\ \A t \in Terms : TerminalFits(t)
BY DEF TerminalsIInv, TerminalsTypeOK, TerminalFits, ClosedIsTheEnd, WaitsLeaveTheirMark,
       OutputIsOnItsWay, ReleasedIsDead

SameElsewhere(t) ==
    \A u \in Terms : u # t =>
        /\ process'[u] = process[u] /\ pipe'[u] = pipe[u] /\ written'[u] = written[u]
        /\ gathered'[u] = gathered[u] /\ output'[u] = output[u] /\ waits'[u] = waits[u]
        /\ (u \in kept' <=> u \in kept) /\ (u \in held' <=> u \in held)
        /\ (u \in closed' <=> u \in closed) /\ (u \in timedOut' <=> u \in timedOut)
        /\ (busy' = <<"wait", u>> <=> busy = <<"wait", u>>)
        /\ (busy' = <<"reap", u>> <=> busy = <<"reap", u>>)

LEMMA OneTerminal ==
    ASSUME TerminalsIInv, TerminalsTypeOK', NEW t \in Terms, SameElsewhere(t), TerminalFits(t)'
    PROVE  TerminalsIInv'
<1>1. ASSUME NEW u \in Terms, u # t PROVE TerminalFits(u)'
  <2>1. TerminalFits(u)
    BY FitsEach
  <2>2. Everything(u)' = Everything(u) /\ (AtEnd(u)' <=> AtEnd(u)) /\ (Exited(u)' <=> Exited(u))
    BY <1>1 DEF SameElsewhere, Everything, AtEnd, Exited
  <2> QED
    BY <1>1, <2>1, <2>2 DEF TerminalFits, OnItsWay, SameElsewhere
<1>2. \A u \in Terms : TerminalFits(u)'
  BY <1>1
<1> QED
  BY <1>2 DEF TerminalsIInv, TerminalFits, ClosedIsTheEnd, WaitsLeaveTheirMark,
       OutputIsOnItsWay, ReleasedIsDead, TerminalsTypeOK

LEMMA TerminalsInitInv == TerminalsInit => TerminalsIInv
<1> SUFFICES ASSUME TerminalsInit PROVE TerminalsIInv
  OBVIOUS
<1>1. <<>> \in Seq(1..MaxWrites) /\ Len(<<>>) = 0
  BY EmptySeq
<1>2. TerminalsTypeOK
  BY <1>1, LeavingAreTerminals, PipesAreBounded DEF TerminalsInit, TerminalsTypeOK
<1>3. ASSUME NEW t \in Terms PROVE TerminalFits(t)
  <2>1. <<>> \o <<>> \o <<>> = <<>> /\ Everything(t) = <<>>
    BY <1>1, <1>2, ConcatEmptySeq DEF TerminalsInit, Everything
  <2> QED
    BY <2>1, CallNames DEF TerminalsInit, TerminalFits, OnItsWay
<1> QED
  BY <1>2, <1>3, FitsEach

\* Buffers in their order: the head of the last one moves up.
LEMMA HeadMoves ==
    ASSUME NEW S, NEW a \in Seq(S), NEW b \in Seq(S), NEW c \in Seq(S), c # <<>>
    PROVE  /\ Head(c) \in S /\ Tail(c) \in Seq(S) /\ Append(b, Head(c)) \in Seq(S)
           /\ Len(Tail(c)) = Len(c) - 1
           /\ a \o Append(b, Head(c)) \o Tail(c) = a \o b \o c
<1>1. Head(c) \in S /\ Tail(c) \in Seq(S) /\ c = <<Head(c)>> \o Tail(c) /\ Len(Tail(c)) = Len(c) - 1
  BY HeadTailProperties
<1> DEFINE h == Head(c)
           r == Tail(c)
<1>2. h \in S /\ r \in Seq(S) /\ <<h>> \in Seq(S) /\ a \o b \in Seq(S)
  BY <1>1, ConcatProperties
<1> HIDE DEF h, r
<1>3. Append(b, h) = b \o <<h>> /\ Append(b, h) \in Seq(S)
  BY <1>2, AppendIsConcat
<1>4. a \o (b \o <<h>>) = (a \o b) \o <<h>>
  BY <1>2, ConcatAssociative
<1>5. ((a \o b) \o <<h>>) \o r = (a \o b) \o (<<h>> \o r)
  BY <1>2, ConcatAssociative
<1> QED
  BY <1>1, <1>3, <1>4, <1>5 DEF h, r

\* A piece behind the last buffer is behind all of them.
LEMMA WrittenBehind ==
    ASSUME NEW S, NEW a \in Seq(S), NEW b \in Seq(S), NEW c \in Seq(S), NEW e \in S
    PROVE  Append(c, e) \in Seq(S) /\ a \o b \o Append(c, e) = Append(a \o b \o c, e)
<1>1. a \o b \in Seq(S) /\ a \o b \o c \in Seq(S)
  BY ConcatProperties
<1>2. /\ Append(c, e) = c \o <<e>> /\ <<e>> \in Seq(S) /\ Append(c, e) \in Seq(S)
      /\ Append(a \o b \o c, e) = (a \o b \o c) \o <<e>>
  BY <1>1, AppendIsConcat
<1>3. (a \o b) \o (c \o <<e>>) = ((a \o b) \o c) \o <<e>>
  BY <1>1, <1>2, ConcatAssociative
<1> QED
  BY <1>2, <1>3

\* The pieces up to the next one.
LEMMA NextPiece ==
    ASSUME NEW n \in Nat
    PROVE  Append([i \in 1..n |-> i], n + 1) = [i \in 1..(n + 1) |-> i]
<1> DEFINE all == [i \in 1..n |-> i]
<1>1. all \in Seq(Nat) /\ Len(all) = n /\ \A i \in 1..n : all[i] = i
  OBVIOUS
<1> HIDE DEF all
<1>2. /\ Append(all, n + 1) \in Seq(Nat) /\ Len(Append(all, n + 1)) = n + 1
      /\ \A i \in 1..(n + 1) : Append(all, n + 1)[i] = IF i <= n THEN all[i] ELSE n + 1
  BY <1>1
<1> DEFINE more == [i \in 1..(n + 1) |-> i]
<1>3. more \in Seq(Nat) /\ Len(more) = n + 1 /\ \A i \in 1..(n + 1) : more[i] = i
  OBVIOUS
<1> HIDE DEF more
<1>4. Append(all, n + 1) = more
  BY <1>1, <1>2, <1>3, SeqEqual
<1> QED
  BY <1>4 DEF all, more

\* What a terminal has, for its steps.
LEMMA TerminalHas ==
    ASSUME TerminalsIInv, NEW t \in Terms
    PROVE  /\ pipe[t] \in Seq(1..MaxWrites) /\ gathered[t] \in Seq(1..MaxWrites)
           /\ output[t] \in Seq(1..MaxWrites) /\ written[t] \in Nat /\ waits[t] \in Nat
           /\ MaxWrites \in Nat /\ TerminalFits(t)
BY FitsEach, PipesAreBounded DEF TerminalsIInv, TerminalsTypeOK

\* The same of the buffers of one terminal.
LEMMA TerminalBuffers ==
    ASSUME TerminalsIInv, NEW t \in Terms
    PROVE  /\ output[t] \o gathered[t] \in Seq(1..MaxWrites)
           /\ output[t] \o pipe[t] \in Seq(1..MaxWrites)
           /\ output[t] \o <<>> = output[t] /\ output[t] \o gathered[t] \o <<>> = output[t] \o gathered[t]
           /\ output[t] \o pipe[t] \o <<>> = output[t] \o pipe[t]
           /\ pipe[t] # <<>> =>
                /\ Tail(pipe[t]) \in Seq(1..MaxWrites) /\ Len(Tail(pipe[t])) = Len(pipe[t]) - 1
                /\ Append(gathered[t], Head(pipe[t])) \in Seq(1..MaxWrites)
                /\ output[t] \o Append(gathered[t], Head(pipe[t])) \o Tail(pipe[t])
                     = output[t] \o gathered[t] \o pipe[t]
           /\ \A e \in 1..MaxWrites :
                /\ Append(pipe[t], e) \in Seq(1..MaxWrites)
                /\ output[t] \o gathered[t] \o Append(pipe[t], e)
                     = Append(output[t] \o gathered[t] \o pipe[t], e)
<1> DEFINE S == 1..MaxWrites
           a == output[t]
           b == gathered[t]
           c == pipe[t]
<1>1. a \in Seq(S) /\ b \in Seq(S) /\ c \in Seq(S)
  BY TerminalHas
<1> HIDE DEF S, a, b, c
<1>2. a \o b \in Seq(S) /\ a \o c \in Seq(S) /\ a \o <<>> = a
  BY <1>1, ConcatProperties, ConcatEmptySeq
<1>3. a \o b \o <<>> = a \o b /\ a \o c \o <<>> = a \o c
  BY <1>2, ConcatEmptySeq
<1>4. c # <<>> => /\ Tail(c) \in Seq(S) /\ Append(b, Head(c)) \in Seq(S)
                  /\ Len(Tail(c)) = Len(c) - 1
                  /\ a \o Append(b, Head(c)) \o Tail(c) = a \o b \o c
  <2> SUFFICES ASSUME c # <<>>
               PROVE  /\ Tail(c) \in Seq(S) /\ Append(b, Head(c)) \in Seq(S)
                      /\ Len(Tail(c)) = Len(c) - 1
                      /\ a \o Append(b, Head(c)) \o Tail(c) = a \o b \o c
    OBVIOUS
  <2> QED
    BY <1>1, HeadMoves, SMTT(60)
<1>5. \A e \in S : /\ Append(c, e) \in Seq(S)
                   /\ a \o b \o Append(c, e) = Append(a \o b \o c, e)
  BY <1>1, WrittenBehind
<1> QED
  BY <1>2, <1>3, <1>4, <1>5 DEF S, a, b, c

LEMMA WritesInv == ASSUME TerminalsIInv, NEW t \in Terms, Writes(t) PROVE TerminalsIInv'
<1> DEFINE n == written[t] + 1
           buffer == Append(pipe[t], n)
<1>1. /\ process[t] = "running" /\ Len(pipe[t]) < PipeSize /\ n \in 1..MaxWrites /\ n \in Nat
      /\ UNCHANGED <<kept, process, held, closed, gathered, output, busy, waits, timedOut>>
      /\ written' = [written EXCEPT ![t] = n]
  BY TerminalHas DEF Writes, TerminalsIInv, TerminalsTypeOK
<1>2. written'[t] = n /\ \A u \in Terms : u # t => written'[u] = written[u]
  BY <1>1 DEF TerminalsIInv, TerminalsTypeOK
<1>3. pipe' = [pipe EXCEPT ![t] = buffer]
  BY <1>2 DEF Writes
<1> HIDE DEF n
<1>4. /\ buffer \in Seq(1..MaxWrites) /\ Len(buffer) = Len(pipe[t]) + 1
      /\ output[t] \o gathered[t] \o buffer = Append(output[t] \o gathered[t] \o pipe[t], n)
  <2>1. \A e \in 1..MaxWrites :
          /\ Append(pipe[t], e) \in Seq(1..MaxWrites)
          /\ output[t] \o gathered[t] \o Append(pipe[t], e)
               = Append(output[t] \o gathered[t] \o pipe[t], e)
    BY TerminalBuffers
  <2>2. Len(buffer) = Len(pipe[t]) + 1
    BY <1>1, TerminalHas, AppendProperties
  <2> QED
    BY <1>1, <2>1, <2>2
<1> HIDE DEF buffer
<1>5. pipe'[t] = buffer /\ \A u \in Terms : u # t => pipe'[u] = pipe[u]
  BY <1>3 DEF TerminalsIInv, TerminalsTypeOK
<1>6. TerminalsTypeOK'
  <2>1. Len(pipe[t]) \in Nat /\ PipeSize \in Nat
    BY TerminalHas, PipesAreBounded
  <2>2. \A u \in Terms : Len(pipe'[u]) <= PipeSize
    <3>1. ASSUME NEW u \in Terms PROVE Len(pipe'[u]) <= PipeSize
      <4>1. CASE u = t
        BY <1>1, <1>4, <1>5, <2>1, <4>1
      <4>2. CASE u # t
        BY <1>5, <4>2 DEF TerminalsIInv, TerminalsTypeOK
      <4> QED
        BY <4>1, <4>2
    <3> QED
      BY <3>1
  <2>3. pipe' \in [Terms -> Seq(1..MaxWrites)] /\ written' \in [Terms -> 0..MaxWrites]
    BY <1>1, <1>3, <1>4 DEF TerminalsIInv, TerminalsTypeOK
  <2> QED
    BY <1>1, <2>2, <2>3 DEF TerminalsIInv, TerminalsTypeOK
<1>7. SameElsewhere(t)
  BY <1>1, <1>2, <1>5 DEF SameElsewhere
<1>8. TerminalFits(t)'
  <2>1. t \notin closed /\ ~Exited(t)
    BY <1>1, TerminalHas DEF TerminalFits, OnItsWay, AtEnd, Exited
  <2>2. waits[t] <= 1 /\ t \notin timedOut =>
          output[t] \o gathered[t] \o buffer = Append(Everything(t), n)
    BY <1>4, <2>1, TerminalHas DEF TerminalFits, OnItsWay
  <2>3. Everything(t)' = Append(Everything(t), n)
    BY <1>2, TerminalHas, NextPiece DEF Everything, n
  <2> QED
    BY <1>1, <1>5, <2>1, <2>2, <2>3, TerminalHas DEF TerminalFits, OnItsWay, Exited
<1> QED
  BY <1>6, <1>7, <1>8, OneTerminal

\* Steps that leave the buffers alone.
LEMMA CommandEndsInv ==
    ASSUME TerminalsIInv, NEW t \in Terms, Exits(t) \/ DescendantExits(t)
    PROVE  TerminalsIInv'
<1>1. /\ UNCHANGED <<kept, pipe, written, closed, gathered, output, busy, waits, timedOut>>
      /\ held' \subseteq held /\ \A u \in Terms : u # t => process'[u] = process[u]
      /\ \A u \in Terms : u # t /\ u \in held => u \in held'
      /\ process'[t] = "exited" \/ process'[t] = process[t]
      /\ process[t] = "none" => process'[t] = "none"
      /\ process' \in [Terms -> {"none", "running", "killed", "exited"}]
  BY DEF Exits, DescendantExits, TerminalsIInv, TerminalsTypeOK
<1>2. TerminalsTypeOK'
  BY <1>1 DEF TerminalsIInv, TerminalsTypeOK
<1>3. SameElsewhere(t)
  BY <1>1 DEF SameElsewhere
<1>4. AtEnd(t) => AtEnd(t)'
  BY <1>1 DEF AtEnd, Exited
<1>5. TerminalFits(t)'
  BY <1>1, <1>4, TerminalHas DEF TerminalFits, OnItsWay, Exited, Everything
<1> QED
  BY <1>2, <1>3, <1>5, OneTerminal

LEMMA KilledFits ==
    ASSUME TerminalsIInv, NEW t \in Terms, process' = Killed(t)
    PROVE  /\ process' \in [Terms -> {"none", "running", "killed", "exited"}]
           /\ \A u \in Terms : u # t => process'[u] = process[u]
           /\ process'[t] = IF process[t] = "running" THEN "killed" ELSE process[t]
BY DEF Killed, TerminalsIInv, TerminalsTypeOK

LEMMA CreateInv == ASSUME TerminalsIInv, NEW t \in Terms, Create(t) PROVE TerminalsIInv'
<1>1. /\ process[t] = "none" /\ kept' = kept \cup {t}
      /\ UNCHANGED <<held, pipe, written, closed, gathered, output, busy, waits, timedOut>>
      /\ process' \in [Terms -> {"none", "running", "killed", "exited"}]
      /\ \A u \in Terms : u # t => process'[u] = process[u]
  BY DEF Create, TerminalsIInv, TerminalsTypeOK
<1>2. TerminalsTypeOK'
  BY <1>1 DEF TerminalsIInv, TerminalsTypeOK
<1>3. SameElsewhere(t)
  BY <1>1 DEF SameElsewhere
<1>4. t \notin closed
  BY <1>1, TerminalHas DEF TerminalFits, OnItsWay, AtEnd, Exited
<1>5. TerminalFits(t)'
  BY <1>1, <1>4, TerminalHas DEF TerminalFits, OnItsWay, Everything
<1> QED
  BY <1>2, <1>3, <1>5, OneTerminal

\* A call that takes the event loop, or ends and leaves it, with nothing else to show.
LEMMA OutputInv ==
    ASSUME TerminalsIInv, NEW t \in Terms, Output(t) \/ Answers(t) PROVE TerminalsIInv'
<1>1. PICK c \in {"read", "answer"} :
        \/ busy = Free /\ busy' = <<c, t>>
        \/ busy = <<c, t>> /\ busy' = Free
  BY DEF Output, Answers
<1>2. UNCHANGED <<kept, process, held, pipe, written, closed, gathered, output, waits, timedOut>>
  BY DEF Output, Answers, command
<1>3. /\ busy' \in Calls \cup {Free}
      /\ \A u \in Terms : /\ busy # <<"wait", u>> /\ busy' # <<"wait", u>>
                          /\ busy # <<"reap", u>> /\ busy' # <<"reap", u>>
  BY <1>1, CallNames
<1>4. TerminalsTypeOK'
  BY <1>2, <1>3 DEF TerminalsIInv, TerminalsTypeOK
<1>5. SameElsewhere(t)
  BY <1>2, <1>3 DEF SameElsewhere
<1>6. TerminalFits(t)'
  BY <1>2, <1>3, TerminalHas DEF TerminalFits, OnItsWay, AtEnd, Exited, Everything
<1> QED
  BY <1>4, <1>5, <1>6, OneTerminal

LEMMA ReadsInv == ASSUME TerminalsIInv, NEW t \in Terms, Reads(t) PROVE TerminalsIInv'
<1> DEFINE whole == output[t] \o pipe[t]
<1>1. /\ busy = <<"read", t>> /\ busy' = <<"answer", t>> /\ AtEnd(t)
      /\ output' = [output EXCEPT ![t] = whole] /\ pipe' = [pipe EXCEPT ![t] = <<>>]
      /\ UNCHANGED <<kept, process, held, written, closed, gathered, waits, timedOut>>
  BY DEF Reads
<1>2. whole \in Seq(1..MaxWrites) /\ whole \o <<>> = whole
      /\ (pipe[t] = <<>> => whole = output[t])
      /\ (gathered[t] = <<>> => output[t] \o gathered[t] \o pipe[t] = whole)
  BY TerminalBuffers
<1>3. /\ busy' \in Calls \cup {Free}
      /\ \A u \in Terms : /\ busy # <<"wait", u>> /\ busy' # <<"wait", u>>
                          /\ busy # <<"reap", u>> /\ busy' # <<"reap", u>>
  BY <1>1, CallNames
<1> HIDE DEF whole
<1>4. /\ output'[t] = whole /\ pipe'[t] = <<>>
      /\ \A u \in Terms : u # t => output'[u] = output[u] /\ pipe'[u] = pipe[u]
  BY <1>1 DEF TerminalsIInv, TerminalsTypeOK
<1>5. <<>> \in Seq(1..MaxWrites) /\ Len(<<>>) = 0 /\ PipeSize \in Nat
  BY EmptySeq, PipesAreBounded
<1>6. TerminalsTypeOK'
  <2>1. ASSUME NEW u \in Terms PROVE Len(pipe'[u]) <= PipeSize
    <3>1. CASE u = t
      BY <1>4, <1>5, <3>1
    <3>2. CASE u # t
      BY <1>4, <3>2 DEF TerminalsIInv, TerminalsTypeOK
    <3> QED
      BY <3>1, <3>2
  <2>2. {pipe', gathered', output'} \subseteq [Terms -> Seq(1..MaxWrites)]
    BY <1>1, <1>2, <1>5 DEF TerminalsIInv, TerminalsTypeOK
  <2> QED
    BY <1>1, <1>3, <2>1, <2>2 DEF TerminalsIInv, TerminalsTypeOK
<1>7. SameElsewhere(t)
  BY <1>1, <1>3, <1>4 DEF SameElsewhere
<1>8. TerminalFits(t)'
  <2>1. Everything(t)' = Everything(t) /\ (AtEnd(t)' <=> AtEnd(t)) /\ (Exited(t)' <=> Exited(t))
    BY <1>1 DEF Everything, AtEnd, Exited
  <2>2. CASE t \in closed
    <3>1. pipe[t] = <<>> /\ waits[t] # 0
      BY <2>2, TerminalHas DEF TerminalFits, OnItsWay
    <3> QED
      BY <1>1, <1>2, <1>3, <1>4, <2>1, <2>2, <3>1, TerminalHas DEF TerminalFits, OnItsWay
  <2>3. CASE t \notin closed
    <3>1. waits[t] <= 1 /\ t \notin timedOut => waits[t] = 0 /\ gathered[t] = <<>>
      <4>1. waits[t] \in Nat /\ busy # <<"wait", t>> /\ TerminalFits(t)
        BY <1>3, TerminalHas
      <4>2. waits[t] <= 1 => waits[t] \in {0, 1}
        BY <4>1
      <4> QED
        BY <2>3, <4>1, <4>2 DEF TerminalFits, OnItsWay
    <3>2. waits[t] <= 1 /\ t \notin timedOut => whole \o gathered[t] \o <<>> = Everything(t)
      BY <1>2, <2>3, <3>1, TerminalHas DEF TerminalFits, OnItsWay
    <3> QED
      BY <1>1, <1>3, <1>4, <2>1, <2>3, <3>2, TerminalHas DEF TerminalFits, OnItsWay
  <2> QED
    BY <2>2, <2>3
<1> QED
  BY <1>6, <1>7, <1>8, OneTerminal

LEMMA WaitInv == ASSUME TerminalsIInv, NEW t \in Terms, Wait(t) PROVE TerminalsIInv'
<1>1. /\ busy = Free /\ busy' = <<"wait", t>> /\ waits[t] < MaxWaits
      /\ waits' = [waits EXCEPT ![t] = @ + 1]
      /\ UNCHANGED <<kept, process, held, pipe, written, closed, gathered, output, timedOut>>
  BY DEF Wait, command
<1>2. waits'[t] = waits[t] + 1 /\ \A u \in Terms : u # t => waits'[u] = waits[u]
  BY <1>1 DEF TerminalsIInv, TerminalsTypeOK
<1>3. /\ busy' \in Calls /\ busy' # <<"reap", t>>
      /\ \A u \in Terms : /\ busy # <<"wait", u>> /\ (u # t => busy' # <<"wait", u>>)
                          /\ busy # <<"reap", u>> /\ busy' # <<"reap", u>>
  BY <1>1, CallNames
<1>4. TerminalsTypeOK'
  <2>1. waits' \in [Terms -> 0..MaxWaits]
    BY <1>1, PipesAreBounded DEF TerminalsIInv, TerminalsTypeOK
  <2> QED
    BY <1>1, <1>3, <2>1 DEF TerminalsIInv, TerminalsTypeOK
<1>5. SameElsewhere(t)
  BY <1>1, <1>2, <1>3 DEF SameElsewhere
<1>6. TerminalFits(t)'
  <2>1. Everything(t)' = Everything(t) /\ (AtEnd(t)' <=> AtEnd(t)) /\ (Exited(t)' <=> Exited(t))
    BY <1>1 DEF Everything, AtEnd, Exited
  <2>2. waits'[t] # 0 /\ (waits'[t] <= 1 => waits[t] = 0) /\ (waits'[t] = 1 => waits[t] = 0)
    BY <1>2, TerminalHas
  <2>3. TerminalFits(t) /\ busy # <<"reap", t>> /\ busy' # <<"reap", t>>
    BY <1>3, TerminalHas
  <2>4. CASE waits[t] = 0
    <3>1. t \notin closed /\ gathered[t] = <<>>
      BY <2>3, <2>4 DEF TerminalFits, OnItsWay
    <3>2. t \notin timedOut => OnItsWay(t)
      BY <2>3, <2>4 DEF TerminalFits
    <3>3. OnItsWay(t)' <=> OnItsWay(t)
      BY <1>1, <2>1 DEF OnItsWay
    <3>4. process[t] # "none" /\ t \notin kept => Exited(t)
      BY <2>3 DEF TerminalFits
    <3> QED
      BY <1>1, <2>1, <2>2, <3>1, <3>2, <3>3, <3>4 DEF TerminalFits
  <2>5. CASE waits[t] # 0
    <3>1. /\ t \in closed => AtEnd(t) /\ pipe[t] = <<>>
          /\ process[t] # "none" /\ t \notin kept => Exited(t)
      BY <2>3 DEF TerminalFits, OnItsWay
    <3> QED
      BY <1>1, <2>1, <2>2, <2>5, <3>1 DEF TerminalFits, OnItsWay
  <2> QED
    BY <2>4, <2>5
<1> QED
  BY <1>4, <1>5, <1>6, OneTerminal

LEMMA GathersInv == ASSUME TerminalsIInv, NEW t \in Terms, Gathers(t) PROVE TerminalsIInv'
<1> DEFINE more == Append(gathered[t], Head(pipe[t]))
           rest == Tail(pipe[t])
<1>1. /\ busy = <<"wait", t>> /\ t \notin closed /\ pipe[t] # <<>>
      /\ gathered' = [gathered EXCEPT ![t] = more] /\ pipe' = [pipe EXCEPT ![t] = rest]
      /\ UNCHANGED <<kept, process, held, written, closed, output, busy, waits, timedOut>>
  BY DEF Gathers
<1>2. /\ more \in Seq(1..MaxWrites) /\ rest \in Seq(1..MaxWrites) /\ Len(rest) = Len(pipe[t]) - 1
      /\ output[t] \o more \o rest = output[t] \o gathered[t] \o pipe[t]
  BY <1>1, TerminalBuffers
<1> HIDE DEF more, rest
<1>3. /\ gathered'[t] = more /\ pipe'[t] = rest
      /\ \A u \in Terms : u # t => gathered'[u] = gathered[u] /\ pipe'[u] = pipe[u]
  BY <1>1 DEF TerminalsIInv, TerminalsTypeOK
<1>4. TerminalsTypeOK'
  <2>1. Len(pipe[t]) \in Nat /\ PipeSize \in Nat /\ Len(pipe[t]) <= PipeSize
    BY TerminalHas, PipesAreBounded DEF TerminalsIInv, TerminalsTypeOK
  <2>2. Len(rest) <= PipeSize
    BY <1>2, <2>1
  <2>3. \A u \in Terms : Len(pipe'[u]) <= PipeSize
    BY <1>3, <2>2 DEF TerminalsIInv, TerminalsTypeOK
  <2>4. {pipe', gathered', output'} \subseteq [Terms -> Seq(1..MaxWrites)]
    BY <1>1, <1>2 DEF TerminalsIInv, TerminalsTypeOK
  <2> QED
    BY <1>1, <2>3, <2>4 DEF TerminalsIInv, TerminalsTypeOK
<1>5. SameElsewhere(t)
  BY <1>1, <1>3 DEF SameElsewhere
<1>6. TerminalFits(t)'
  <2>1. Everything(t)' = Everything(t) /\ (AtEnd(t)' <=> AtEnd(t)) /\ (Exited(t)' <=> Exited(t))
    BY <1>1 DEF Everything, AtEnd, Exited
  <2> QED
    BY <1>1, <1>2, <1>3, <2>1, TerminalHas DEF TerminalFits, OnItsWay
<1> QED
  BY <1>4, <1>5, <1>6, OneTerminal

LEMMA WaitEndsInv == ASSUME TerminalsIInv, NEW t \in Terms, WaitEnds(t) PROVE TerminalsIInv'
<1> DEFINE whole == output[t] \o gathered[t]
<1>1. /\ busy = <<"wait", t>> /\ busy' = Free
      /\ closed' = closed \cup {t} /\ output' = [output EXCEPT ![t] = whole]
      /\ UNCHANGED <<kept, process, held, pipe, written, gathered, waits, timedOut>>
  BY DEF WaitEnds, command
<1>2. AtEnd(t) /\ pipe[t] = <<>>
  BY TerminalHas DEF WaitEnds, TerminalFits
<1>3. whole \in Seq(1..MaxWrites) /\ whole \o <<>> = whole
  BY TerminalBuffers
<1>4. \A u \in Terms : /\ u # t => busy # <<"wait", u>>
                       /\ busy' # <<"wait", u>> /\ busy # <<"reap", u>> /\ busy' # <<"reap", u>>
  BY <1>1, CallNames
<1>5. waits[t] # 0 /\ (waits[t] = 1 /\ t \notin timedOut => t \notin closed)
  BY <1>1, TerminalHas DEF TerminalFits
<1>6. waits[t] <= 1 /\ t \notin timedOut => whole = Everything(t)
  <2>1. waits[t] <= 1 => waits[t] = 1
    <3>1. waits[t] \in Nat
      BY TerminalHas
    <3> QED
      BY <1>5, <3>1
  <2>2. waits[t] <= 1 /\ t \notin timedOut => OnItsWay(t)
    BY TerminalHas DEF TerminalFits
  <2>3. t \notin closed /\ OnItsWay(t) => whole \o pipe[t] = Everything(t)
    BY DEF OnItsWay
  <2> QED
    BY <1>2, <1>3, <1>5, <2>1, <2>2, <2>3
<1> HIDE DEF whole
<1>7. output'[t] = whole /\ \A u \in Terms : u # t => output'[u] = output[u]
  BY <1>1 DEF TerminalsIInv, TerminalsTypeOK
<1>8. TerminalsTypeOK'
  <2>1. {pipe', gathered', output'} \subseteq [Terms -> Seq(1..MaxWrites)]
    BY <1>1, <1>3 DEF TerminalsIInv, TerminalsTypeOK
  <2>2. closed' \subseteq Terms /\ busy' \in Calls \cup {Free}
    BY <1>1 DEF TerminalsIInv, TerminalsTypeOK
  <2> QED
    BY <1>1, <2>1, <2>2 DEF TerminalsIInv, TerminalsTypeOK
<1>9. SameElsewhere(t)
  BY <1>1, <1>4, <1>7 DEF SameElsewhere
<1>10. TerminalFits(t)'
  <2>1. Everything(t)' = Everything(t) /\ (AtEnd(t)' <=> AtEnd(t)) /\ (Exited(t)' <=> Exited(t))
    BY <1>1 DEF Everything, AtEnd, Exited
  <2>2. t \in closed' /\ busy' # <<"wait", t>> /\ Exited(t) /\ pipe' = pipe
    BY <1>1, <1>2, <1>4 DEF AtEnd
  <2>3. waits'[t] <= 1 /\ t \notin timedOut' => OnItsWay(t)'
    BY <1>1, <1>6, <1>7, <2>1, <2>2 DEF OnItsWay
  <2> QED
    BY <1>1, <1>2, <1>5, <2>1, <2>2, <2>3 DEF TerminalFits
<1> QED
  BY <1>8, <1>9, <1>10, OneTerminal

LEMMA WaitTimesOutInv ==
    ASSUME TerminalsIInv, NEW t \in Terms, WaitTimesOut(t) PROVE TerminalsIInv'
<1>1. /\ busy = <<"wait", t>> /\ busy' = Free /\ t \notin closed
      /\ timedOut' = timedOut \cup {t} /\ process' = Killed(t)
      /\ UNCHANGED <<kept, held, pipe, written, closed, gathered, output, waits>>
  BY DEF WaitTimesOut
<1>2. /\ process' \in [Terms -> {"none", "running", "killed", "exited"}]
      /\ \A u \in Terms : u # t => process'[u] = process[u]
      /\ process'[t] = IF process[t] = "running" THEN "killed" ELSE process[t]
  BY <1>1, KilledFits
<1>3. \A u \in Terms : /\ u # t => busy # <<"wait", u>>
                       /\ busy' # <<"wait", u>> /\ busy # <<"reap", u>> /\ busy' # <<"reap", u>>
  BY <1>1, CallNames
<1>4. TerminalsTypeOK'
  BY <1>1, <1>2 DEF TerminalsIInv, TerminalsTypeOK
<1>5. SameElsewhere(t)
  BY <1>1, <1>2, <1>3 DEF SameElsewhere
<1>6. TerminalFits(t)'
  <2>1. waits[t] # 0 /\ (process[t] # "none" /\ t \notin kept => Exited(t))
    BY <1>1, <1>3, TerminalHas DEF TerminalFits, OnItsWay
  <2> QED
    BY <1>1, <1>2, <2>1 DEF TerminalFits, OnItsWay, Exited
<1> QED
  BY <1>4, <1>5, <1>6, OneTerminal

\* kill and release, the release up to the death of the command.
LEMMA KillsInv ==
    ASSUME TerminalsIInv, NEW t \in Terms, Kill(t) \/ Release(t) PROVE TerminalsIInv'
<1>1. /\ busy = Free /\ t \in kept /\ process' = Killed(t)
      /\ UNCHANGED <<held, pipe, written, closed, gathered, output, waits, timedOut>>
      /\ \/ UNCHANGED <<kept, busy>>
         \/ kept' = kept \ {t} /\ busy' = IF Exited(t) THEN Free ELSE <<"reap", t>>
  BY DEF Kill, Release
<1>2. /\ process' \in [Terms -> {"none", "running", "killed", "exited"}]
      /\ \A u \in Terms : u # t => process'[u] = process[u]
      /\ process'[t] = IF process[t] = "running" THEN "killed" ELSE process[t]
  BY <1>1, KilledFits
<1>3. /\ busy' \in Calls \cup {Free}
      /\ \A u \in Terms : /\ busy # <<"wait", u>> /\ busy # <<"reap", u>> /\ busy' # <<"wait", u>>
                          /\ u # t => busy' # <<"reap", u>>
  BY <1>1, CallNames
<1>4. TerminalsTypeOK'
  BY <1>1, <1>2, <1>3 DEF TerminalsIInv, TerminalsTypeOK
<1>5. SameElsewhere(t)
  BY <1>1, <1>2, <1>3 DEF SameElsewhere
<1>6. TerminalFits(t)'
  <2>1. Everything(t)' = Everything(t) /\ (AtEnd(t) => AtEnd(t)')
    BY <1>1, <1>2 DEF Everything, AtEnd, Exited
  <2>2. busy # <<"wait", t>> /\ busy' # <<"wait", t>>
    BY <1>3
  <2>3. t \notin kept' /\ busy' # <<"reap", t>> => Exited(t)'
    BY <1>1, <1>2 DEF Exited
  <2> QED
    BY <1>1, <2>1, <2>2, <2>3, TerminalHas DEF TerminalFits, OnItsWay
<1> QED
  BY <1>4, <1>5, <1>6, OneTerminal

LEMMA ReapsInv == ASSUME TerminalsIInv, NEW t \in Terms, Reaps(t) PROVE TerminalsIInv'
<1>1. /\ busy = <<"reap", t>> /\ Exited(t) /\ busy' = Free
      /\ UNCHANGED <<kept, process, held, pipe, written, closed, gathered, output, waits, timedOut>>
  BY DEF Reaps, command
<1>2. \A u \in Terms : /\ busy # <<"wait", u>> /\ busy' # <<"wait", u>> /\ busy' # <<"reap", u>>
                       /\ u # t => busy # <<"reap", u>>
  BY <1>1, CallNames
<1>3. TerminalsTypeOK'
  BY <1>1 DEF TerminalsIInv, TerminalsTypeOK
<1>4. SameElsewhere(t)
  BY <1>1, <1>2 DEF SameElsewhere
<1>5. TerminalFits(t)'
  <2>1. /\ Everything(t)' = Everything(t) /\ (AtEnd(t)' <=> AtEnd(t)) /\ Exited(t)'
        /\ busy # <<"wait", t>> /\ busy' # <<"wait", t>>
    BY <1>1, <1>2 DEF Everything, AtEnd, Exited
  <2> QED
    BY <1>1, <2>1, TerminalHas DEF TerminalFits, OnItsWay
<1> QED
  BY <1>3, <1>4, <1>5, OneTerminal

LEMMA TerminalsNextInv == TerminalsIInv /\ [TerminalsNext]_terminalVars => TerminalsIInv'
<1> SUFFICES ASSUME TerminalsIInv, [TerminalsNext]_terminalVars PROVE TerminalsIInv'
  OBVIOUS
<1>1. CASE UNCHANGED terminalVars
  BY <1>1 DEF terminalVars, command, TerminalsIInv, TerminalsTypeOK, ClosedIsTheEnd,
              WaitsLeaveTheirMark, OutputIsOnItsWay, OnItsWay, ReleasedIsDead, Everything,
              AtEnd, Exited
<1>2. ASSUME NEW t \in Terms, Handler(t) PROVE TerminalsIInv'
  BY <1>2, CreateInv, OutputInv, ReadsInv, WaitInv, GathersInv, WaitEndsInv, WaitTimesOutInv,
     KillsInv, ReapsInv DEF Handler
<1>3. ASSUME NEW t \in Terms, Writes(t) \/ Exits(t) \/ DescendantExits(t) PROVE TerminalsIInv'
  BY <1>3, WritesInv, CommandEndsInv
<1> QED
  BY <1>1, <1>2, <1>3 DEF TerminalsNext

\* What the terminal callbacks, in any order, keep of a command and its two buffers.
THEOREM TerminalsInvariantHolds == TerminalsSpec => []TerminalsIInv
BY TerminalsInitInv, TerminalsNextInv, PTL DEF TerminalsSpec

\* A terminal's entry, its command and its output agree, whatever calls and
\* exits interleave (_handle_terminal_output, _handle_terminal_release).
THEOREM TerminalsAlwaysAgree == TerminalsSpec => []TerminalsAgree
<1>1. TerminalsIInv => TerminalsAgree
  <2> SUFFICES ASSUME TerminalsIInv PROVE OutputIsWhole
    BY DEF TerminalsAgree, TerminalsIInv
  <2> SUFFICES ASSUME NEW t \in Terms, AtEnd(t), pipe[t] = <<>>, waits[t] <= 1, t \notin timedOut,
                      busy # <<"wait", t>>
               PROVE  output[t] = Everything(t)
    BY DEF OutputIsWhole
  <2>1. waits[t] \in Nat /\ TerminalFits(t)
    BY TerminalHas
  <2>2. waits[t] \in {0, 1}
    BY <2>1
  <2>3. OnItsWay(t) /\ (t \in closed \/ gathered[t] = <<>>)
    BY <2>1, <2>2 DEF TerminalFits
  <2>4. output[t] \o <<>> = output[t] /\ output[t] \o gathered[t] \o <<>> = output[t] \o gathered[t]
    BY TerminalBuffers
  <2> QED
    BY <2>3, <2>4 DEF OnItsWay
<1> QED
  BY <1>1, TerminalsInvariantHolds, PTL
=============================================================================
