------------------------ MODULE SessionBindingProofs ------------------------
(***************************************************************************)
(* Proofs about SessionBinding, for any number of probes, creators,        *)
(* identities, models and teardowns: identities are handed out once, a     *)
(* bound model is never contradicted while continuity lasts, a strategy is *)
(* frozen, and a teardown leaves nothing behind.                           *)
(*                                                                         *)
(* A step that fails the transport leaves the properties of an open one    *)
(* vacuous and is dealt with once (ClosingKeeps).  The others keep the     *)
(* parts of IInv one by one.                                               *)
(***************************************************************************)
EXTENDS SessionBinding, FiniteSetTheorems, TLAPS

LEMMA InitEstablishesIInv == Init => IInv
  <1> SUFFICES ASSUME Init PROVE IInv
    OBVIOUS
  <1>1. IsFiniteSet(provisional) /\ Cardinality(provisional) = 0
    BY FS_EmptySet DEF Init
  <1>2. PendingCreates \in Nat
    <2>1. {t \in Tasks : pending[t] = "session/new"} = {}
      BY NoneIsNothing DEF Init, Methods
    <2> QED
      BY <2>1, FS_EmptySet DEF PendingCreates
  <1>3. TypeOK
    <2>1. Unanswered \in Answers
      BY DEF Answers, Unanswered, Bare
    <2> QED
      BY <2>1, TeardownsAreNatural DEF Init, TypeOK
  <1>4. RequestsAreOwed
    BY NoneIsNothing DEF Init, RequestsAreOwed, Methods
  <1>5. ProvisionalIsOwed
    BY <1>1, <1>2 DEF Init, ProvisionalIsOwed
  <1>6. ClaimsAreApart
    <2>1. \A t \in Tasks : Claims(t) = {}
      BY NoneIsNothing DEF Init, Claims
    <2> QED
      BY <2>1 DEF ClaimsAreApart
  <1> QED
    BY <1>1, <1>3, <1>4, <1>5, <1>6
    DEF Init, IInv, NothingSurvivesTeardown, NegotiationIsOpen, BindingIsExpected

-----------------------------------------------------------------------------
\* The tasks that may still owe an identity are finitely many.
LEMMA CreatesAreFinite ==
  /\ IsFiniteSet({t \in Tasks : pending[t] = "session/new"})
  /\ PendingCreates \in Nat
  <1>1. IsFiniteSet({t \in Tasks : pending[t] = "session/new"})
    BY TasksAreDistinct, FS_Subset
  <1> QED
    BY <1>1, FS_CardinalityType DEF PendingCreates

\* The transport fails: what is promised of an open one is vacuous.
LEMMA ClosingKeeps ==
  ASSUME IInv, FailClosed, TypeOK',
         provisional' \in {provisional, {}}, sessions' = sessions, session' = session,
         \A t \in Tasks : pc'[t] \in {pc[t], "failed"},
         expected' = expected, UNCHANGED <<strategy, negotiation, generation>>,
         responseIds' \in {responseIds, {}}
  PROVE  IInv'
  <1>1. /\ ~open' /\ pending' = [t \in Tasks |-> None]
        /\ answer' = [t \in Tasks |-> IF Waiting(t) THEN Bare("lost") ELSE answer[t]]
    BY DEF FailClosed
  <1>2. IsFiniteSet(provisional')
    BY FS_EmptySet DEF IInv
  <1>3. NothingSurvivesTeardown' /\ NegotiationIsOpen'
    BY <1>1 DEF IInv, NothingSurvivesTeardown, NegotiationIsOpen
  <1>4. RequestsAreOwed'
    BY <1>1, NoneIsNothing
    DEF IInv, TypeOK, RequestsAreOwed, Waiting, Bare, Unanswered, Methods
  <1>5. ClaimsAreApart'
    <2>1. \A t \in Tasks : Claims(t)' \subseteq Claims(t)
      BY <1>1 DEF Claims, Bare
    <2> QED
      BY <1>1, <2>1 DEF IInv, ClaimsAreApart
  <1> QED
    BY <1>1, <1>2, <1>3, <1>4, <1>5 DEF IInv, ProvisionalIsOwed, BindingIsExpected

\* What fails the transport keeps the types.
LEMMA FailClosedKeepsTypes ==
  ASSUME TypeOK, FailClosed
  PROVE  /\ open' \in BOOLEAN /\ pending' \in [Tasks -> Methods \cup {None}]
         /\ answer' \in [Tasks -> Answers]
  <1>1. Bare("lost") \in Answers
    BY DEF Bare, Answers
  <1> QED
    BY <1>1 DEF FailClosed, TypeOK

-----------------------------------------------------------------------------
LEMMA SendNewPreservesIInv ==
  ASSUME IInv, NEW t \in Tasks, CreateProbe(t) \/ \E m \in Models : CreateExact(t, m)
  PROVE  IInv'
  <1>1. /\ pc[t] = "idle" /\ open
        /\ pending' = [pending EXCEPT ![t] = "session/new"]
        /\ asked' = [asked EXCEPT ![t] = "session/new"]
        /\ pc' = [pc EXCEPT ![t] = "creating"]
        /\ \/ wanted' = wanted
           \/ \E m \in Models : wanted' = [wanted EXCEPT ![t] = m]
        /\ UNCHANGED <<open, answer, session, identityVars, modelVars, expected,
                       strategyVars, heard>>
    BY DEF CreateProbe, CreateExact, SendNew
  <1> USE DEF identityVars, modelVars, strategyVars
  <1>2. TypeOK'
    BY <1>1 DEF IInv, TypeOK, Methods
  <1>3. NothingSurvivesTeardown' /\ NegotiationIsOpen' /\ IsFiniteSet(provisional')
    BY <1>1 DEF IInv, NothingSurvivesTeardown, NegotiationIsOpen
  <1>4. answer[t] = Unanswered
    BY <1>1 DEF IInv, RequestsAreOwed
  <1>5. RequestsAreOwed'
    BY <1>1, <1>4 DEF IInv, TypeOK, RequestsAreOwed, Unanswered, Bare
  <1>6. ProvisionalIsOwed'
    <2>1. {u \in Tasks : pending[u] = "session/new"}
            \subseteq {u \in Tasks : pending'[u] = "session/new"}
      BY <1>1 DEF IInv, TypeOK
    <2>2. PendingCreates <= PendingCreates' /\ PendingCreates \in Nat /\ PendingCreates' \in Nat
      <3>1. IsFiniteSet({u \in Tasks : pending'[u] = "session/new"})
        BY TasksAreDistinct, FS_Subset
      <3> QED
        BY <2>1, <3>1, CreatesAreFinite, FS_Subset, FS_CardinalityType DEF PendingCreates
    <2>3. Cardinality(provisional) \in Nat
      BY FS_CardinalityType DEF IInv
    <2> QED
      BY <1>1, <2>2, <2>3 DEF IInv, ProvisionalIsOwed
  <1>7. ClaimsAreApart'
    <2>1. \A u \in Tasks : Claims(u)' = Claims(u)
      BY <1>1, <1>4 DEF Claims, IInv, TypeOK, Unanswered, Bare
    <2> QED
      BY <1>1, <2>1 DEF IInv, ClaimsAreApart
  <1>8. BindingIsExpected'
    BY <1>1 DEF IInv, TypeOK, BindingIsExpected, Waiting, Acknowledged
  <1> QED
    BY <1>2, <1>3, <1>5, <1>6, <1>7, <1>8 DEF IInv

LEMMA ReadNewPreservesIInv ==
  ASSUME IInv, NEW t \in Tasks, NEW a \in Answers, ReadNew(t, a)
  PROVE  IInv'
  <1> USE DEF identityVars, modelVars, strategyVars, taskVars
  <1>1. CASE FailClosed /\ UNCHANGED <<taskVars, identityVars, modelVars, expected,
                                       strategyVars, heard>>
    BY <1>1, ClosingKeeps, FailClosedKeepsTypes DEF IInv, TypeOK
  <1>2. CASE IdentityMismatch
    BY <1>2, ClosingKeeps, FailClosedKeepsTypes DEF IdentityMismatch, IInv, TypeOK
  <1>3. CASE /\ ~(a.kind = "ok" /\ (a.id = None \/ KnownIdentity(a.id)))
             /\ Cardinality(provisional \ {a.id}) <= PendingCreates - 1
             /\ provisional' = provisional \ {a.id}
             /\ responseIds' = IF a.kind = "ok" THEN responseIds \cup {a.id} ELSE responseIds
             /\ Settle(t, a)
             /\ UNCHANGED <<taskVars, sessions, modelVars, expected, strategyVars, heard>>
    <2>1. /\ open /\ pc[t] = "creating" /\ open' = open
          /\ answer' = [answer EXCEPT ![t] = a] /\ pending' = [pending EXCEPT ![t] = None]
      BY <1>3 DEF ReadNew, Settle
    <2>2. TypeOK'
      BY <1>3, <2>1 DEF IInv, TypeOK, Answers
    <2>3. IsFiniteSet(provisional') /\ Cardinality(provisional') \in Nat
      BY <1>3, FS_RemoveElement, FS_CardinalityType DEF IInv
    <2>4. generation = 0
      BY <2>1, TeardownsAreNatural DEF IInv, NothingSurvivesTeardown, TypeOK
    <2>5. NothingSurvivesTeardown' /\ NegotiationIsOpen'
      BY <1>3, <2>4 DEF IInv, NothingSurvivesTeardown, NegotiationIsOpen
    <2>6. RequestsAreOwed'
      BY <1>3, <2>1, NoneIsNothing DEF IInv, TypeOK, RequestsAreOwed, Methods
    <2>7. ProvisionalIsOwed'
      <3>1. PendingCreates' \in Nat /\ PendingCreates' >= PendingCreates - 1
        <4> DEFINE C == {u \in Tasks : pending[u] = "session/new"}
        <4>1. {u \in Tasks : pending'[u] = "session/new"} = C \ {t}
          BY <2>1, NoneIsNothing DEF IInv, TypeOK, Methods
        <4>2. IsFiniteSet(C) /\ Cardinality(C) \in Nat
          BY CreatesAreFinite DEF PendingCreates
        <4>3. Cardinality(C \ {t}) \in Nat /\ Cardinality(C \ {t}) >= Cardinality(C) - 1
          <5> HIDE DEF C
          <5>1. /\ IsFiniteSet(C \ {t})
                /\ Cardinality(C \ {t}) = IF t \in C THEN Cardinality(C) - 1 ELSE Cardinality(C)
            BY <4>2, FS_RemoveElement, Zenon
          <5>2. Cardinality(C \ {t}) \in Nat
            BY <5>1, FS_CardinalityType
          <5> QED
            BY <4>2, <5>1, <5>2
        <4> QED
          BY <4>1, <4>3 DEF PendingCreates
      <3>2. provisional' \cap (sessions' \cup responseIds') = {}
        BY <1>3, <2>1 DEF IInv, ProvisionalIsOwed
      <3> QED
        BY <1>3, <2>3, <3>1, <3>2, CreatesAreFinite DEF ProvisionalIsOwed
    <2>8. ClaimsAreApart'
      <3>1. \A u \in Tasks \ {t} : Claims(u)' = Claims(u)
        BY <1>3, <2>1 DEF Claims, IInv, TypeOK
      <3>2. Claims(t)' \subseteq Claims(t) \cup (IF a.kind = "ok" THEN {a.id} ELSE {})
        BY <1>3, <2>1 DEF Claims, IInv, TypeOK
      <3>3. a.kind = "ok" => \A u \in Tasks : a.id \notin Claims(u)
        BY <1>3, <2>1 DEF IInv, ClaimsAreApart, KnownIdentity
      <3> QED
        BY <1>3, <2>1, <3>1, <3>2, <3>3 DEF IInv, ClaimsAreApart
    <2>9. BindingIsExpected'
      BY <1>3, <2>1 DEF IInv, TypeOK, BindingIsExpected, Waiting, Acknowledged
    <2> QED
      BY <2>2, <2>3, <2>5, <2>6, <2>7, <2>8, <2>9 DEF IInv
  <1> QED
    BY <1>1, <1>2, <1>3 DEF ReadNew
-----------------------------------------------------------------------------
\* create_session resumes in one of four ways: without an answer to use, with an
\* identity that leaves another one unexplained, with a session it gives up on,
\* or with one it asks the child to bind.
Registers(t) ==
    LET a == answer[t]
    IN  /\ pc[t] = "creating" /\ a.kind = "ok" /\ a # Unanswered
        /\ provisional' = provisional \ {a.id} /\ responseIds' = responseIds \ {a.id}
        /\ sessions' = sessions \cup {a.id} /\ session' = [session EXCEPT ![t] = a.id]
        /\ model' = [model EXCEPT ![a.id] = a.model]
        /\ catalog' = [catalog EXCEPT ![a.id] = a.offered]
        /\ advertised' \in {advertised, [offered |-> a.offered, default |-> a.model]}
        /\ UNCHANGED <<open, strategy, generation>>

GivesUp(t) ==
    /\ pc' = [pc EXCEPT ![t] = "failed"]
    /\ \E m \in Models \cup {None} : wanted' = [wanted EXCEPT ![t] = m]
    /\ expected' \in {expected, [expected EXCEPT ![answer[t].id] = None]}
    /\ UNCHANGED <<pending, asked, answer, heard, negotiation, startedIn>>

Asks(t, m, method) ==
    /\ open
    /\ pc' = [pc EXCEPT ![t] = "binding"] /\ wanted' = [wanted EXCEPT ![t] = m]
    /\ pending' = [pending EXCEPT ![t] = method] /\ asked' = [asked EXCEPT ![t] = method]
    /\ answer' = [answer EXCEPT ![t] = Unanswered]
    /\ expected' = [expected EXCEPT ![answer[t].id] = m]
    /\ heard' = [heard EXCEPT ![answer[t].id] = None]
    /\ \/ UNCHANGED <<negotiation, startedIn>>
       \/ /\ t \in Probes /\ strategy = None /\ negotiation' = t
          /\ startedIn' = [startedIn EXCEPT ![t] = generation]

LEMMA CreatedShape ==
  ASSUME TypeOK, NEW t \in Tasks, Created(t)
  PROVE  \/ /\ pc' = [pc EXCEPT ![t] = "failed"]
            /\ UNCHANGED <<rpcVars, wanted, asked, session, identityVars, modelVars, expected,
                           strategyVars, heard>>
         \/ /\ FailClosed /\ provisional' = {} /\ responseIds' = {}
            /\ pc' = [pc EXCEPT ![t] = "failed"]
            /\ UNCHANGED <<wanted, asked, session, sessions, modelVars, expected,
                           strategyVars, heard>>
         \/ Registers(t) /\ GivesUp(t)
         \/ Registers(t) /\ \E m \in Models, method \in Methods \ {"session/new"} :
                              Asks(t, m, method)
  <1> DEFINE a == answer[t]
             extracted == IF sessions = {} THEN [offered |-> a.offered, default |-> a.model]
                          ELSE advertised
             m == IF t \in Probes THEN extracted.default ELSE wanted[t]
             method == IF t \in Creators /\ strategy = "copilot"
                       THEN "session/set_model" ELSE "session/set_config_option"
  <1>1. a \in Answers /\ m \in Models \cup {None} /\ method \in Methods \ {"session/new"}
    BY DEF TypeOK, Answers, Methods
  <1>2. ASSUME a.kind = "ok", ~(a.id \notin provisional /\ provisional # {} /\ PendingCreates = 0)
        PROVE  Registers(t) /\ StartBinding(t, a, extracted.default)
    BY <1>2 DEF Created, Registers
  <1>3. ASSUME Registers(t), StartBinding(t, a, extracted.default)
        PROVE  GivesUp(t) \/ \E n \in Models, k \in Methods \ {"session/new"} : Asks(t, n, k)
    <2>1. wanted' = [wanted EXCEPT ![t] = m] /\ wanted'[t] = m
      BY <1>3 DEF StartBinding, TypeOK
    <2>2. CASE /\ pc' = [pc EXCEPT ![t] = "failed"]
               /\ UNCHANGED <<pending, asked, answer, expected, heard, negotiation, startedIn>>
      BY <1>1, <2>1, <2>2 DEF GivesUp
    <2>3. CASE /\ CatalogHolds(a, m)
               /\ IF t \in Probes THEN MayNegotiate ELSE strategy # None
               /\ Ask(t, a.id, method)
               /\ IF t \in Creators \/ ~open
                  THEN UNCHANGED <<negotiation, startedIn>>
                  ELSE negotiation' = t /\ startedIn' = [startedIn EXCEPT ![t] = generation]
      <3>1. m \in Models
        BY <1>1, <2>3 DEF CatalogHolds, Answers
      <3>2. CASE open
        <4>1. Asks(t, m, method)
          BY <2>1, <2>3, <3>2, TasksAreDistinct DEF Asks, Ask, MayNegotiate, Tasks
        <4> QED
          BY <1>1, <3>1, <4>1
      <3>3. CASE ~open
        <4>1. /\ pc' = [pc EXCEPT ![t] = "failed"]
              /\ expected' = [expected EXCEPT ![a.id] = None]
              /\ UNCHANGED <<pending, asked, answer, heard, negotiation, startedIn>>
          BY <2>3, <3>3 DEF Ask
        <4> QED
          BY <1>1, <2>1, <4>1 DEF GivesUp
      <3> QED
        BY <3>2, <3>3
    <2> QED
      BY <1>3, <2>2, <2>3 DEF StartBinding
  <1> QED
    BY <1>2, <1>3 DEF Created

\* Requests that are not for a session do not change what is owed.
LEMMA OtherRequests ==
  ASSUME TypeOK, NEW t \in Tasks, NEW v, v # "session/new", pending[t] # "session/new",
         pending' = [pending EXCEPT ![t] = v]
  PROVE  PendingCreates' = PendingCreates
  <1>1. {u \in Tasks : pending'[u] = "session/new"} = {u \in Tasks : pending[u] = "session/new"}
    BY DEF TypeOK
  <1> QED
    BY <1>1 DEF PendingCreates

\* The sessions of two tasks differ once either is bound or being bound.
LEMMA SessionsDiffer ==
  ASSUME IInv, open, NEW t \in Tasks, pc[t] \in {"binding", "done"}
  PROVE  /\ session[t] \in SessionIds /\ session[t] \in sessions /\ session[t] \in Claims(t)
         /\ wanted[t] \in Models /\ wanted[t] # None
         /\ \A u \in Tasks \ {t} : session[t] \notin Claims(u) /\ session[t] # session[u]
  <1>1. session[t] \in SessionIds /\ session[t] \in sessions /\ wanted[t] \in Models
    BY DEF IInv, BindingIsExpected, TypeOK
  <1> QED
    BY <1>1, NoneIsNothing DEF IInv, ClaimsAreApart, Claims

\* An open transport has seen no teardown.
LEMMA OpenIsFresh ==
  ASSUME IInv, open
  PROVE  generation = 0
  BY TeardownsAreNatural DEF IInv, NothingSurvivesTeardown, TypeOK

\* A task that gives up changes nothing that others rely on.
LEMMA CancelPreservesIInv ==
  ASSUME IInv, NEW t \in Tasks, pc' = [pc EXCEPT ![t] = "failed"],
         \/ expected' = expected
         \/ pc[t] = "binding" /\ expected' = [expected EXCEPT ![session[t]] = None],
         negotiation' \in {negotiation, None},
         UNCHANGED <<rpcVars, wanted, asked, session, identityVars, modelVars,
                     strategy, generation, startedIn, heard>>
  PROVE  IInv'
  <1> USE DEF rpcVars, identityVars, modelVars
  <1>1. TypeOK'
    BY DEF IInv, TypeOK
  <1>2. NothingSurvivesTeardown' /\ NegotiationIsOpen' /\ IsFiniteSet(provisional')
    BY DEF IInv, NothingSurvivesTeardown, NegotiationIsOpen, TypeOK
  <1>3. RequestsAreOwed' /\ ClaimsAreApart'
    <2>1. \A u \in Tasks : Claims(u)' \subseteq Claims(u)
      BY DEF Claims, IInv, TypeOK
    <2> QED
      BY <2>1 DEF IInv, TypeOK, RequestsAreOwed, ClaimsAreApart
  <1>4. ProvisionalIsOwed'
    BY DEF IInv, ProvisionalIsOwed, PendingCreates
  <1>5. BindingIsExpected'
    <2> SUFFICES ASSUME open, NEW u \in Tasks, pc'[u] \in {"binding", "done"}
                 PROVE  /\ session[u] \in sessions /\ wanted[u] \in Models
                        /\ pc[u] = "binding" =>
                             /\ expected'[session[u]] = wanted[u]
                             /\ Waiting(u)' \/ Acknowledged(u)' =>
                                  heard[session[u]] \in {None, wanted[u]}
                        /\ pc[u] = "done" =>
                             /\ expected'[session[u]] = None /\ model[session[u]] = wanted[u]
                             /\ heard[session[u]] \in {None, wanted[u]}
      BY DEF BindingIsExpected, IInv, TypeOK
    <2>1. u # t /\ pc'[u] = pc[u]
      BY DEF IInv, TypeOK
    <2>2. expected'[session[u]] = expected[session[u]]
      BY <2>1, SessionsDiffer DEF IInv, TypeOK
    <2> QED
      BY <2>1, <2>2 DEF IInv, BindingIsExpected, Waiting, Acknowledged
  <1> QED
    BY <1>1, <1>2, <1>3, <1>4, <1>5 DEF IInv

LEMMA RegistersKeepsIdentities ==
  ASSUME IInv, NEW t \in Tasks, Registers(t), pc'[t] \in {"failed", "binding"},
         \A u \in Tasks \ {t} : pc'[u] = pc[u] /\ answer'[u] = answer[u],
         PendingCreates' = PendingCreates
  PROVE  /\ answer[t].id \in SessionIds /\ answer[t].id \in Claims(t)
         /\ \A u \in Tasks \ {t} : answer[t].id \notin Claims(u)
         /\ ClaimsAreApart' /\ ProvisionalIsOwed' /\ IsFiniteSet(provisional')
  <1> DEFINE a == answer[t]
  <1>1. a.id \in SessionIds /\ pc[t] = "creating" /\ a.kind = "ok"
    BY DEF Registers, IInv, RequestsAreOwed, TypeOK, Answers
  <1>2. a.id \in Claims(t) /\ \A u \in Tasks \ {t} : a.id \notin Claims(u)
    BY <1>1 DEF Claims, IInv, ClaimsAreApart
  <1>3. \A u \in Tasks : Claims(u)' \subseteq Claims(u)
    <2>1. Claims(t)' \subseteq {a.id}
      BY <1>1 DEF Claims, Registers, IInv, TypeOK
    <2>2. \A u \in Tasks \ {t} : Claims(u)' = Claims(u)
      BY DEF Claims, Registers, IInv, TypeOK
    <2> QED
      BY <1>2, <2>1, <2>2
  <1>4. /\ sessions' = sessions \cup {a.id} /\ responseIds' = responseIds \ {a.id}
        /\ provisional' = provisional \ {a.id} /\ open' = open
    BY DEF Registers
  <1>5. ClaimsAreApart'
    BY <1>3, <1>4 DEF IInv, ClaimsAreApart
  <1>6. /\ IsFiniteSet(provisional') /\ Cardinality(provisional') \in Nat
        /\ Cardinality(provisional) \in Nat
        /\ Cardinality(provisional') <= Cardinality(provisional)
    <2>1. IsFiniteSet(provisional) /\ provisional' \subseteq provisional
      BY <1>4 DEF IInv
    <2> QED
      BY <2>1, FS_Subset, FS_CardinalityType
  <1>7. ProvisionalIsOwed'
    BY <1>4, <1>6, CreatesAreFinite DEF IInv, ProvisionalIsOwed
  <1> QED
    BY <1>1, <1>2, <1>5, <1>6, <1>7

LEMMA CreatedPreservesIInv ==
  ASSUME IInv, NEW t \in Tasks, Created(t)
  PROVE  IInv'
  <1> DEFINE a == answer[t]
  <1>1. TypeOK
    BY DEF IInv
  <1>2. CASE /\ pc' = [pc EXCEPT ![t] = "failed"]
             /\ UNCHANGED <<rpcVars, wanted, asked, session, identityVars, modelVars, expected,
                            strategyVars, heard>>
    BY <1>2, CancelPreservesIInv DEF strategyVars
  <1>3. CASE /\ FailClosed /\ provisional' = {} /\ responseIds' = {}
             /\ pc' = [pc EXCEPT ![t] = "failed"]
             /\ UNCHANGED <<wanted, asked, session, sessions, modelVars, expected,
                            strategyVars, heard>>
    <2>1. TypeOK'
      BY <1>1, <1>3, FailClosedKeepsTypes DEF TypeOK, modelVars, strategyVars
    <2> QED
      BY <1>1, <1>3, <2>1, ClosingKeeps DEF TypeOK, modelVars, strategyVars
  <1>4. CASE Registers(t) /\ GivesUp(t)
    <2>1. PendingCreates' = PendingCreates
      BY <1>4 DEF GivesUp, PendingCreates
    <2>2. /\ a.id \in SessionIds /\ a.id \in Claims(t)
          /\ \A u \in Tasks \ {t} : a.id \notin Claims(u)
          /\ ClaimsAreApart' /\ ProvisionalIsOwed' /\ IsFiniteSet(provisional')
      BY <1>1, <1>4, <2>1, RegistersKeepsIdentities DEF GivesUp, TypeOK
    <2>3. TypeOK'
      BY <1>1, <1>4, <2>2 DEF TypeOK, Registers, GivesUp, Answers
    <2>4. NothingSurvivesTeardown' /\ NegotiationIsOpen'
      BY <1>1, <1>4
      DEF IInv, TypeOK, NothingSurvivesTeardown, NegotiationIsOpen, Registers, GivesUp
    <2>5. RequestsAreOwed'
      BY <1>1, <1>4 DEF IInv, TypeOK, RequestsAreOwed, GivesUp
    <2>6. BindingIsExpected'
      <3> SUFFICES ASSUME open, NEW u \in Tasks, u # t, pc[u] \in {"binding", "done"}
                   PROVE  /\ UNCHANGED <<pc[u], session[u], wanted[u], answer[u], asked[u]>>
                          /\ session[u] \in sessions'
                          /\ UNCHANGED <<expected[session[u]], model[session[u]],
                                         heard[session[u]]>>
        BY <1>1, <1>4
        DEF IInv, TypeOK, BindingIsExpected, Registers, GivesUp, Waiting, Acknowledged
      <3>1. session[u] \in SessionIds /\ session[u] # a.id /\ session[u] \in sessions
        BY <2>2, SessionsDiffer
      <3> QED
        BY <1>1, <1>4, <3>1 DEF TypeOK, Registers, GivesUp
    <2> QED
      BY <2>2, <2>3, <2>4, <2>5, <2>6 DEF IInv
  <1>5. ASSUME Registers(t), NEW m \in Models, NEW method \in Methods \ {"session/new"},
               Asks(t, m, method)
        PROVE  IInv'
    <2>1. PendingCreates' = PendingCreates
      BY <1>1, <1>5, OtherRequests DEF Asks, IInv, RequestsAreOwed, Registers
    <2>2. /\ a.id \in SessionIds /\ a.id \in Claims(t)
          /\ \A u \in Tasks \ {t} : a.id \notin Claims(u)
          /\ ClaimsAreApart' /\ ProvisionalIsOwed' /\ IsFiniteSet(provisional')
      BY <1>1, <1>5, <2>1, RegistersKeepsIdentities DEF Asks, TypeOK
    <2>3. TypeOK'
      <3>1. Unanswered \in Answers
        BY DEF Answers, Unanswered, Bare
      <3> QED
        BY <1>1, <1>5, <2>2, <3>1, OpenIsFresh, TeardownsAreNatural
        DEF TypeOK, Registers, Asks, Answers
    <2>4. NothingSurvivesTeardown' /\ NegotiationIsOpen'
      BY <1>5, OpenIsFresh
      DEF IInv, NothingSurvivesTeardown, NegotiationIsOpen, Registers, Asks
    <2>5. RequestsAreOwed'
      BY <1>1, <1>5 DEF IInv, TypeOK, RequestsAreOwed, Asks, Methods
    <2>6. BindingIsExpected'
      <3>1. ASSUME NEW u \in Tasks, u # t, pc[u] \in {"binding", "done"}
            PROVE  /\ UNCHANGED <<pc[u], session[u], wanted[u], answer[u], asked[u]>>
                   /\ session[u] \in sessions'
                   /\ UNCHANGED <<expected[session[u]], model[session[u]], heard[session[u]]>>
        <4>1. session[u] \in SessionIds /\ session[u] # a.id /\ session[u] \in sessions
          BY <1>5, <2>2, <3>1, SessionsDiffer DEF Asks
        <4> QED
          BY <1>1, <1>5, <3>1, <4>1 DEF TypeOK, Registers, Asks
      <3>2. /\ pc'[t] = "binding" /\ session'[t] = a.id /\ a.id \in sessions'
            /\ wanted'[t] = m /\ expected'[a.id] = m /\ heard'[a.id] = None
        BY <1>1, <1>5, <2>2 DEF TypeOK, Registers, Asks
      <3>3. \A u \in Tasks : pc'[u] \in {"binding", "done"} => u = t \/ pc'[u] = pc[u]
        BY <1>1, <1>5 DEF TypeOK, Asks
      <3> QED
        BY <1>5, <3>1, <3>2, <3>3
        DEF IInv, BindingIsExpected, Waiting, Acknowledged, Asks
    <2> QED
      BY <2>2, <2>3, <2>4, <2>5, <2>6 DEF IInv
  <1> QED
    BY <1>1, <1>2, <1>3, <1>4, <1>5, CreatedShape

LEMMA ReadBoundPreservesIInv ==
  ASSUME IInv, NEW t \in Tasks, NEW a \in Answers, ReadBound(t, a)
  PROVE  IInv'
  <1> USE DEF taskVars, identityVars, modelVars, strategyVars
  <1>1. /\ open /\ pc[t] = "binding" /\ Waiting(t) /\ open' = open
        /\ a.model # None => asked[t] = "session/set_config_option"
        /\ answer' = [answer EXCEPT ![t] = a] /\ pending' = [pending EXCEPT ![t] = None]
        /\ heard' = IF a.model = None THEN heard ELSE [heard EXCEPT ![session[t]] = a.model]
        /\ UNCHANGED <<taskVars, identityVars, modelVars, expected, strategyVars>>
    BY DEF ReadBound, Settle
  <1>2. TypeOK'
    BY <1>1 DEF IInv, TypeOK, Answers, Reports
  <1>3. NothingSurvivesTeardown' /\ NegotiationIsOpen' /\ IsFiniteSet(provisional')
    BY <1>1 DEF IInv, NothingSurvivesTeardown, NegotiationIsOpen
  <1>4. RequestsAreOwed'
    BY <1>1, NoneIsNothing DEF IInv, TypeOK, RequestsAreOwed, Methods
  <1>5. ProvisionalIsOwed'
    <2>1. PendingCreates' = PendingCreates
      BY <1>1, OtherRequests, NoneIsNothing DEF IInv, RequestsAreOwed, Methods
    <2> QED
      BY <1>1, <2>1 DEF IInv, ProvisionalIsOwed
  <1>6. ClaimsAreApart'
    <2>1. \A u \in Tasks : Claims(u)' = Claims(u)
      BY <1>1 DEF Claims, IInv, TypeOK
    <2> QED
      BY <1>1, <2>1 DEF IInv, ClaimsAreApart
  <1>7. BindingIsExpected'
    <2>1. ASSUME NEW u \in Tasks, u # t, pc[u] \in {"binding", "done"}
          PROVE  answer'[u] = answer[u] /\ heard'[session[u]] = heard[session[u]]
      BY <1>1, <2>1, SessionsDiffer DEF IInv, TypeOK
    <2>2. Acknowledged(t)' => heard'[session[t]] \in {None, wanted[t]}
      <3>1. heard[session[t]] \in {None, wanted[t]} /\ session[t] \in SessionIds
        BY <1>1, SessionsDiffer DEF IInv, BindingIsExpected
      <3> QED
        BY <1>1, <3>1 DEF IInv, TypeOK, Acknowledged
    <2>3. Waiting(t)' => Acknowledged(t)' \/ heard' = heard
      BY <1>1 DEF Waiting, IInv, TypeOK, Unanswered, Bare
    <2>4. heard[session[t]] \in {None, wanted[t]}
      BY <1>1 DEF IInv, BindingIsExpected
    <2> QED
      BY <1>1, <2>1, <2>2, <2>3, <2>4 DEF IInv, BindingIsExpected, Waiting, Acknowledged
  <1> QED
    BY <1>2, <1>3, <1>4, <1>5, <1>6, <1>7 DEF IInv

\* A task resumes with the end of its binding: bound only if the child said so.
LEMMA ConclusionPreservesIInv ==
  ASSUME IInv, NEW t \in Tasks, Resumes(t), Adopt(t), Unexpect(t),
         NEW end \in {"done", "failed"}, pc' = [pc EXCEPT ![t] = end],
         end = "done" => Acknowledged(t),
         negotiation' \in {negotiation, None},
         \/ strategy' = strategy
         \/ strategy' \in {"copilot", "standard"} /\ negotiation = t /\ negotiation' = None,
         UNCHANGED <<rpcVars, wanted, asked, session, identityVars, catalog, advertised,
                     generation, startedIn, heard>>
  PROVE  IInv'
  <1> USE DEF rpcVars, identityVars
  <1>1. /\ model' = [model EXCEPT ![session[t]] = BoundModel(t)]
        /\ expected' = [expected EXCEPT ![session[t]] = None] /\ pc[t] = "binding"
    BY DEF Adopt, Unexpect, Resumes
  <1>2. session[t] \in SessionIds => BoundModel(t) \in Models \cup {None}
    BY DEF BoundModel, IInv, TypeOK
  <1>3. TypeOK'
    BY <1>1, <1>2 DEF IInv, TypeOK
  <1>4. NothingSurvivesTeardown' /\ NegotiationIsOpen' /\ IsFiniteSet(provisional')
    BY <1>1, NoneIsNothing DEF IInv, NothingSurvivesTeardown, NegotiationIsOpen, TypeOK
  <1>5. RequestsAreOwed' /\ ClaimsAreApart'
    <2>1. \A u \in Tasks : Claims(u)' \subseteq Claims(u)
      BY DEF Claims, IInv, TypeOK
    <2> QED
      BY <1>1, <2>1 DEF IInv, TypeOK, RequestsAreOwed, ClaimsAreApart
  <1>6. ProvisionalIsOwed'
    BY DEF IInv, ProvisionalIsOwed, PendingCreates
  <1>7. BindingIsExpected'
    <2> SUFFICES ASSUME open PROVE BindingIsExpected'
      BY DEF BindingIsExpected
    <2>1. ASSUME NEW u \in Tasks, u # t, pc[u] \in {"binding", "done"}
          PROVE  /\ pc'[u] = pc[u]
                 /\ UNCHANGED <<expected[session[u]], model[session[u]]>>
      <3>1. session[u] \in SessionIds /\ session[u] # session[t]
        BY <1>1, <2>1, SessionsDiffer
      <3> QED
        BY <1>1, <2>1, <3>1 DEF IInv, TypeOK
    <2>2. /\ session[t] \in SessionIds /\ session[t] \in sessions /\ wanted[t] \in Models
          /\ Acknowledged(t) => heard[session[t]] \in {None, wanted[t]}
      BY <1>1, SessionsDiffer DEF IInv, BindingIsExpected
    <2>3. Acknowledged(t) => model'[session[t]] = wanted[t]
      BY <1>1, <2>2 DEF BoundModel, IInv, TypeOK
    <2>4. expected'[session[t]] = None
      BY <1>1, <2>2 DEF IInv, TypeOK
    <2>5. pc'[t] = end /\ \A u \in Tasks \ {t} : pc'[u] = pc[u]
      BY DEF IInv, TypeOK
    <2> QED
      BY <2>1, <2>2, <2>3, <2>4, <2>5 DEF IInv, BindingIsExpected, Waiting, Acknowledged
  <1> QED
    BY <1>3, <1>4, <1>5, <1>6, <1>7 DEF IInv

LEMMA FallBackPreservesIInv ==
  ASSUME IInv, NEW t \in Tasks, FallBack(t)
  PROVE  IInv'
  <1>1. /\ pc[t] = "binding" /\ wanted' = wanted /\ Ask(t, session[t], "session/set_model")
        /\ UNCHANGED <<open, session, identityVars, modelVars, strategy, generation, startedIn>>
        /\ IF open THEN UNCHANGED negotiation ELSE EndNegotiation(t)
    BY DEF FallBack, Resumes
  <1>2. CASE ~open
    BY <1>1, <1>2, CancelPreservesIInv DEF Ask, EndNegotiation, rpcVars
  <1>3. CASE open
    <2> USE DEF identityVars, modelVars
    <2>1. /\ pc' = [pc EXCEPT ![t] = "binding"]
          /\ pending' = [pending EXCEPT ![t] = "session/set_model"]
          /\ asked' = [asked EXCEPT ![t] = "session/set_model"]
          /\ answer' = [answer EXCEPT ![t] = Unanswered]
          /\ expected' = [expected EXCEPT ![session[t]] = wanted[t]]
          /\ heard' = [heard EXCEPT ![session[t]] = None] /\ negotiation' = negotiation
      BY <1>1, <1>3 DEF Ask
    <2>2. /\ session[t] \in SessionIds /\ session[t] \in sessions /\ wanted[t] \in Models
          /\ \A u \in Tasks \ {t} : session[t] # session[u]
      BY <1>1, <1>3, SessionsDiffer
    <2>3. TypeOK'
      <3>1. Unanswered \in Answers
        BY DEF Answers, Unanswered, Bare
      <3> QED
        BY <1>1, <2>1, <2>2, <3>1 DEF IInv, TypeOK, Methods
    <2>4. NothingSurvivesTeardown' /\ NegotiationIsOpen' /\ IsFiniteSet(provisional')
      BY <1>1, <1>3, <2>1, OpenIsFresh DEF IInv, NothingSurvivesTeardown, NegotiationIsOpen
    <2>5. RequestsAreOwed' /\ ClaimsAreApart'
      <3>1. \A u \in Tasks : Claims(u)' = Claims(u)
        BY <1>1, <2>1 DEF Claims, IInv, TypeOK
      <3> QED
        BY <1>1, <2>1, <3>1 DEF IInv, TypeOK, RequestsAreOwed, ClaimsAreApart
    <2>6. ProvisionalIsOwed'
      <3>1. PendingCreates' = PendingCreates
        BY <1>1, <2>1, OtherRequests DEF IInv, RequestsAreOwed
      <3> QED
        BY <1>1, <3>1 DEF IInv, ProvisionalIsOwed
    <2>7. BindingIsExpected'
      <3>1. ASSUME NEW u \in Tasks, u # t, pc[u] \in {"binding", "done"}
            PROVE  /\ UNCHANGED <<pc[u], answer[u], asked[u]>>
                   /\ UNCHANGED <<expected[session[u]], heard[session[u]]>>
        <4>1. session[u] \in SessionIds /\ session[u] # session[t]
          BY <1>3, <2>2, <3>1, SessionsDiffer
        <4> QED
          BY <1>1, <2>1, <3>1, <4>1 DEF IInv, TypeOK
      <3>2. /\ pc'[t] = "binding" /\ expected'[session[t]] = wanted[t]
            /\ heard'[session[t]] = None /\ \A u \in Tasks \ {t} : pc'[u] = pc[u]
        BY <2>1, <2>2 DEF IInv, TypeOK
      <3> QED
        BY <1>1, <1>3, <2>2, <3>1, <3>2 DEF IInv, BindingIsExpected, Waiting, Acknowledged
    <2> QED
      BY <2>3, <2>4, <2>5, <2>6, <2>7 DEF IInv
  <1> QED
    BY <1>2, <1>3

LEMMA ReadReportPreservesIInv ==
  ASSUME IInv, NEW s \in SessionIds, NEW r \in Reports, ReadReport(s, r)
  PROVE  IInv'
  <1> USE DEF taskVars, modelVars, strategyVars
  <1> DEFINE correlated == KnownIdentity(s) \/ s \in provisional \/ AdmitProvisional(s)
             holds == IntegrityHolds(s, r)
             admits == holds /\ ~KnownIdentity(s) /\ AdmitProvisional(s)
  <1>1. /\ open
        /\ provisional' = IF admits THEN provisional \cup {s} ELSE provisional
        /\ heard' = IF r = "other" \/ s \notin sessions THEN heard ELSE [heard EXCEPT ![s] = r]
        /\ UNCHANGED <<taskVars, responseIds, sessions, modelVars, expected, strategyVars>>
    BY DEF ReadReport
  <1>2. TypeOK' <=> (/\ open' \in BOOLEAN /\ pending' \in [Tasks -> Methods \cup {None}]
                     /\ answer' \in [Tasks -> Answers])
    BY <1>1 DEF IInv, TypeOK
  <1>3. CASE holds /\ correlated
    <2>1. UNCHANGED rpcVars
      BY <1>3 DEF ReadReport
    <2>2. TypeOK'
      BY <1>2, <2>1 DEF IInv, TypeOK, rpcVars
    <2>3. NothingSurvivesTeardown' /\ NegotiationIsOpen'
      BY <1>1, OpenIsFresh DEF IInv, NothingSurvivesTeardown, NegotiationIsOpen
    <2>4. IsFiniteSet(provisional') /\ ProvisionalIsOwed'
      <3>1. PendingCreates' = PendingCreates /\ PendingCreates \in Nat
        BY <2>1, CreatesAreFinite DEF PendingCreates, rpcVars
      <3>2. CASE admits
        <4>1. /\ provisional' = provisional \cup {s} /\ s \notin provisional
              /\ PendingCreates > Cardinality(provisional) /\ IsFiniteSet(provisional)
              /\ s \notin sessions \cup responseIds
          BY <1>1, <3>2 DEF AdmitProvisional, KnownIdentity, IInv
        <4>2. IsFiniteSet(provisional') /\ Cardinality(provisional') = Cardinality(provisional) + 1
              /\ Cardinality(provisional) \in Nat
          BY <4>1, FS_AddElement, FS_CardinalityType
        <4> QED
          BY <1>1, <3>1, <4>1, <4>2 DEF IInv, ProvisionalIsOwed
      <3>3. CASE ~admits
        BY <1>1, <2>1, <3>1, <3>3 DEF IInv, ProvisionalIsOwed, rpcVars
      <3> QED
        BY <3>2, <3>3
    <2>5. RequestsAreOwed' /\ ClaimsAreApart'
      <3>1. \A u \in Tasks : Claims(u)' = Claims(u)
        BY <1>1, <2>1 DEF Claims, rpcVars
      <3> QED
        BY <1>1, <2>1, <3>1 DEF IInv, RequestsAreOwed, ClaimsAreApart, rpcVars
    <2>6. BindingIsExpected'
      <3>1. ASSUME NEW u \in Tasks, pc[u] \in {"binding", "done"},
                   heard[session[u]] \in {None, wanted[u]},
                   Selected(session[u]) = wanted[u]
            PROVE  heard'[session[u]] \in {None, wanted[u]}
        <4>1. CASE s # session[u] \/ heard' = heard
          BY <1>1, <3>1, <4>1 DEF IInv, TypeOK
        <4>2. CASE s = session[u] /\ r # "other"
          <5>1. r = wanted[u]
            BY <1>1, <1>3, <3>1, <4>2, SessionsDiffer DEF IntegrityHolds
          <5> QED
            BY <1>1, <3>1, <4>2, <5>1 DEF IInv, TypeOK
        <4> QED
          BY <1>1, <4>1, <4>2
      <3>2. ASSUME NEW u \in Tasks, pc[u] = "binding" PROVE Selected(session[u]) = wanted[u]
        BY <1>1, <3>2, SessionsDiffer DEF IInv, BindingIsExpected, Selected
      <3>3. ASSUME NEW u \in Tasks, pc[u] = "done" PROVE Selected(session[u]) = wanted[u]
        BY <1>1, <3>3, SessionsDiffer DEF IInv, BindingIsExpected, Selected
      <3> QED
        BY <1>1, <2>1, <3>1, <3>2, <3>3
        DEF IInv, BindingIsExpected, Waiting, Acknowledged, rpcVars
    <2> QED
      BY <2>2, <2>3, <2>4, <2>5, <2>6 DEF IInv
  <1>4. CASE ~(holds /\ correlated)
    <2>1. FailClosed
      BY <1>4 DEF ReadReport
    <2>2. TypeOK'
      BY <1>2, <2>1, FailClosedKeepsTypes DEF IInv
    <2>3. CASE ~admits
      BY <1>1, <2>1, <2>2, <2>3, ClosingKeeps DEF IInv, TypeOK
    <2>4. CASE admits
      BY <1>4, <2>4
    <2> QED
      BY <2>3, <2>4
  <1> QED
    BY <1>3, <1>4

LEMMA TeardownPreservesIInv == IInv /\ Teardown => IInv'
  <1> SUFFICES ASSUME IInv, Teardown PROVE IInv'
    OBVIOUS
  <1>1. /\ strategy' = None /\ negotiation' = None /\ generation' = generation + 1
        /\ generation < MaxTeardowns /\ startedIn' = startedIn
        /\ expected' = [s \in SessionIds |-> None]
        /\ provisional' = {} /\ responseIds' = {} /\ sessions' = {} /\ ~open'
        /\ FailClosed /\ UNCHANGED <<taskVars, modelVars, heard>>
    BY DEF Teardown, Cleared, FailClosed
  <1> USE DEF taskVars, modelVars
  <1>2. TypeOK'
    BY <1>1, FailClosedKeepsTypes, TeardownsAreNatural DEF IInv, TypeOK
  <1>3. NothingSurvivesTeardown' /\ NegotiationIsOpen' /\ IsFiniteSet(provisional')
    BY <1>1, FS_EmptySet DEF NothingSurvivesTeardown, NegotiationIsOpen
  <1>4. RequestsAreOwed'
    BY <1>1, NoneIsNothing
    DEF IInv, TypeOK, RequestsAreOwed, FailClosed, Waiting, Bare, Unanswered, Methods
  <1>5. ClaimsAreApart'
    <2>1. \A t \in Tasks : Claims(t)' \subseteq Claims(t)
      BY <1>1 DEF Claims, Bare, FailClosed
    <2> QED
      BY <1>1, <2>1 DEF IInv, ClaimsAreApart
  <1> QED
    BY <1>1, <1>2, <1>3, <1>4, <1>5 DEF IInv, ProvisionalIsOwed, BindingIsExpected

-----------------------------------------------------------------------------
LEMMA NextPreservesIInv == IInv /\ [Next]_vars => IInv'
  <1> SUFFICES ASSUME IInv, [Next]_vars PROVE IInv'
    OBVIOUS
  <1>1. CASE UNCHANGED vars
    <2> USE <1>1 DEF vars, rpcVars, taskVars, identityVars, modelVars, strategyVars
    <2>1. TypeOK' /\ NothingSurvivesTeardown' /\ NegotiationIsOpen' /\ RequestsAreOwed'
      BY DEF IInv, TypeOK, NothingSurvivesTeardown, NegotiationIsOpen, RequestsAreOwed
    <2>2. IsFiniteSet(provisional') /\ ProvisionalIsOwed' /\ ClaimsAreApart'
      BY DEF IInv, ProvisionalIsOwed, PendingCreates, ClaimsAreApart, Claims
    <2>3. BindingIsExpected'
      BY DEF IInv, BindingIsExpected, Waiting, Acknowledged
    <2> QED
      BY <2>1, <2>2, <2>3 DEF IInv
  <1>2. ASSUME NEW t \in Tasks, CreateProbe(t) \/ \E m \in Models : CreateExact(t, m)
        PROVE  IInv'
    BY <1>2, SendNewPreservesIInv
  <1>3. ASSUME NEW t \in Tasks, ReadAnswer(t) PROVE IInv'
    <2>1. \A a : ReadNew(t, a) /\ a \in Answers => IInv'
      BY ReadNewPreservesIInv
    <2>2. \A a : ReadBound(t, a) /\ a \in Answers => IInv'
      BY ReadBoundPreservesIInv
    <2>3. \A kind \in {"ok", "error", "not_found"} : Bare(kind) \in Answers
      BY DEF Bare, Answers
    <2>4. \A m \in Models \cup {None} : [Bare("ok") EXCEPT !.model = m] \in Answers
      BY DEF Bare, Answers
    <2>5. \A id \in SessionIds, m \in Models \cup {None}, offered \in SUBSET Models :
            [kind |-> "ok", id |-> id, model |-> m, offered |-> offered] \in Answers
      BY DEF Answers
    <2>6. CASE ReadLate(t)
      <3>1. TypeOK'
        BY <2>6, FailClosedKeepsTypes
        DEF ReadLate, IInv, TypeOK, taskVars, identityVars, modelVars, strategyVars
      <3> QED
        BY <2>6, <3>1, ClosingKeeps
        DEF ReadLate, IInv, TypeOK, taskVars, identityVars, modelVars, strategyVars
    <2> QED
      BY <1>3, <2>1, <2>2, <2>3, <2>4, <2>5, <2>6 DEF ReadAnswer
  <1>4. ASSUME NEW t \in Tasks, Created(t) PROVE IInv'
    BY <1>4, CreatedPreservesIInv
  <1>5. ASSUME NEW t \in Tasks, BoundExact(t) PROVE IInv'
    <2> DEFINE end == IF Acknowledged(t) /\ BoundModel(t) = wanted[t] THEN "done" ELSE "failed"
    <2>1. /\ end \in {"done", "failed"} /\ end = "done" => Acknowledged(t)
          /\ pc' = [pc EXCEPT ![t] = end]
      BY <1>5 DEF BoundExact
    <2> HIDE DEF end
    <2> QED
      BY <1>5, <2>1, ConclusionPreservesIInv DEF BoundExact, strategyVars
  <1>6. ASSUME NEW t \in Tasks, FallBack(t) PROVE IInv'
    BY <1>6, FallBackPreservesIInv
  <1>7. ASSUME NEW t \in Tasks, Negotiated(t) PROVE IInv'
    <2> DEFINE end == IF Acknowledged(t) /\ NegotiationStands(t) THEN "done" ELSE "failed"
    <2>1. /\ end \in {"done", "failed"} /\ end = "done" => Acknowledged(t)
          /\ pc' = [pc EXCEPT ![t] = end]
      BY <1>7 DEF Negotiated
    <2>2. /\ negotiation' \in {negotiation, None}
          /\ \/ strategy' = strategy
             \/ strategy' \in {"copilot", "standard"} /\ negotiation = t /\ negotiation' = None
      BY <1>7 DEF Negotiated, EndNegotiation, NegotiationStands
    <2> HIDE DEF end
    <2> QED
      BY <1>7, <2>1, <2>2, ConclusionPreservesIInv DEF Negotiated
  <1>8. ASSUME NEW t \in Tasks, Cancel(t) PROVE IInv'
    BY <1>8, CancelPreservesIInv DEF Cancel, EndNegotiation, Unexpect
  <1>9. ASSUME NEW s \in SessionIds, NEW r \in Reports, ReadReport(s, r) PROVE IInv'
    BY <1>9, ReadReportPreservesIInv
  <1>10. CASE Lose
    <2>1. TypeOK'
      BY <1>10, FailClosedKeepsTypes
      DEF Lose, IInv, TypeOK, taskVars, identityVars, modelVars, strategyVars
    <2> QED
      BY <1>10, <2>1, ClosingKeeps
      DEF Lose, IInv, TypeOK, taskVars, identityVars, modelVars, strategyVars
  <1>11. CASE Teardown
    BY <1>11, TeardownPreservesIInv
  <1> QED
    BY <1>1, <1>2, <1>3, <1>4, <1>5, <1>6, <1>7, <1>8, <1>9, <1>10, <1>11 DEF Next

\* The inductive invariant holds of every reachable state.
THEOREM InvariantHolds == Spec => []IInv
  BY InitEstablishesIInv, NextPreservesIInv, PTL DEF Spec

\* Identities agree between the child, the client and its tasks, although the child
\* may name a session before or after its response, twice, or never.
THEOREM IdentitiesAlwaysAgree == Spec => []IdentitiesAgree
  <1>1. IInv => IdentitiesAgree
    BY DEF IInv, IdentitiesAgree, OneTaskPerSession, ClaimsAreApart, Claims, TypeOK
  <1> QED
    BY <1>1, InvariantHolds, PTL

\* The model a creation or a negotiation returned with is contradicted by nothing the
\* child says of the session as long as the transport stays open.
THEOREM BoundModelsHold == Spec => []BoundModelIsUncontradicted
  <1>1. IInv => BoundModelIsUncontradicted
    BY DEF IInv, BindingIsExpected, BoundModelIsUncontradicted
  <1> QED
    BY <1>1, InvariantHolds, PTL

\* No task that resumes after abort or stop brings anything of the old child back.
THEOREM TeardownIsComplete == Spec => []NothingSurvivesTeardown
  <1>1. IInv => NothingSurvivesTeardown
    BY DEF IInv
  <1> QED
    BY <1>1, InvariantHolds, PTL

\* A negotiated strategy is never renegotiated, only dropped with its child.
THEOREM StrategyStaysFrozen == Spec => StrategyIsFrozen
  <1>1. IInv /\ [Next]_vars =>
          [(strategy \in {None, strategy'} \/ generation' # generation)]_vars
    <2> SUFFICES ASSUME IInv, Next
                 PROVE  strategy \in {None, strategy'} \/ generation' # generation
      OBVIOUS
    <2>1. ASSUME NEW t \in Tasks, Negotiated(t) PROVE strategy \in {None, strategy'}
      BY <2>1, NoneIsNothing
      DEF Negotiated, NegotiationStands, IInv, NegotiationIsOpen, Tasks
    <2>2. ASSUME NEW t \in Tasks, ReadAnswer(t) PROVE strategy' = strategy
      <3>1. \A a : ReadNew(t, a) => strategy' = strategy
        BY DEF ReadNew, IdentityMismatch, strategyVars
      <3>2. \A a : ReadBound(t, a) => strategy' = strategy
        BY DEF ReadBound, strategyVars
      <3>3. ReadLate(t) => strategy' = strategy
        BY DEF ReadLate, strategyVars
      <3> QED
        BY <2>2, <3>1, <3>2, <3>3 DEF ReadAnswer
    <2>3. ASSUME NEW t \in Tasks, Created(t) PROVE strategy' = strategy
      BY <2>3 DEF Created, strategyVars
    <2>4. CASE Teardown
      BY <2>4 DEF Teardown, Cleared, IInv, TypeOK
    <2> QED
      BY <2>1, <2>2, <2>3, <2>4
      DEF Next, CreateProbe, CreateExact, BoundExact, FallBack, Cancel, ReadReport, Lose,
          strategyVars
  <1> QED
    BY <1>1, InvariantHolds, PTL DEF Spec, StrategyIsFrozen

=============================================================================
