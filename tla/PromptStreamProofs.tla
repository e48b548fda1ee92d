------------------------- MODULE PromptStreamProofs -------------------------
(***************************************************************************)
(* Proofs about PromptStream, for any number of sessions, prompts and      *)
(* callbacks and any limits: IInv is inductive, and with it no prompt is   *)
(* given another one's lines, none is lost between the reader and the      *)
(* collector, the terminal marker always fits, and callbacks stay in the   *)
(* epoch of their prompt.                                                  *)
(***************************************************************************)
EXTENDS PromptStream, SequenceTheorems, TLAPS

LEMMA NoneIsApart ==
    /\ None \notin Sessions /\ None \notin Prompts /\ None \notin Nat
    /\ Prompts \subseteq Nat /\ CountLimit \in Nat /\ CountLimit > 0
    /\ MaxEmitted \in Nat
<1>1. None \notin Sessions /\ None \notin Nat
  BY NoneIsNoPrompt
<1>2. CountLimit \in Nat /\ CountLimit > 0
  BY CountLimitIsPositive
<1> QED
  BY <1>1, <1>2, PromptsAreNumbers, BoundsAreNatural

\* Only the response of a prompt resolves its future; a loss or a cancellation
\* ends it otherwise.
NoFutureResolves ==
    \A p \in Prompts : future'[p] \in {"end", "error"} => future[p] = future'[p]

\* A step of one generator between two suspension points before its finally clause.
Moves(p) ==
    /\ Live(p) /\ consumer[p] # "unwinding"
    /\ \E place \in Suspended \cup {"closing"} : consumer' = [consumer EXCEPT ![p] = place]
    /\ UNCHANGED <<failed, torn, clientVars, sessionOf, taskVars, callback, wire, childVars,
                   admitted>>

LEMMA InitEstablishes == Init => IInv
<1> SUFFICES ASSUME Init PROVE IInv
  OBVIOUS
<1> USE DEF Init
<1>1. TypeOK
  <2>1. <<>> \in Seq(Items) /\ <<>> \in Seq(Messages)
    OBVIOUS
  <2>2. /\ buffer \in [Prompts -> Seq(Items)] /\ wire \in Seq(Messages)
        /\ admitted \in [Prompts -> Seq(Items)] /\ delivered \in [Prompts -> Seq(Items)]
    BY <2>1
  <2>3. emitted \in [Prompts -> 0..MaxEmitted]
    BY NoneIsApart
  <2> QED
    BY <2>2, <2>3 DEF TypeOK, PhaseNames
<1>2. LivesAreWellFormed /\ QueuesAreRegistered
  BY DEF LivesAreWellFormed, TaskFits, QueuesAreRegistered, Live
<1>3. DOMAIN wire = {}
  OBVIOUS
<1>4. WireIsOrdered
  BY <1>3 DEF WireIsOrdered
<1>5. EpochsAreApart
  BY <1>3 DEF EpochsAreApart, Owed, Live
<1>6. EvidenceIsItsOwn
  BY DEF EvidenceIsItsOwn
<1>7. NothingIsLost
  BY EmptySeq, ConcatEmptySeq DEF NothingIsLost, FlowIsWhole
<1> QED
  BY <1>1, <1>2, <1>4, <1>5, <1>6, <1>7 DEF IInv

-----------------------------------------------------------------------------
(* Failure, and the steps that leave the session's epoch alone             *)

LEMMA FailClosedShape ==
    ASSUME IInv, FailClosed
    PROVE  /\ failed' \in BOOLEAN /\ (failed => failed') /\ (~torn => failed')
           /\ future' \in [Prompts -> {"none", "open", "end", "error", "lost", "cancelled"}]
           /\ \A p \in Prompts : future'[p] \in {future[p], "lost"}
           /\ failed' => \A p \in Prompts : future'[p] # "open"
           /\ \A p \in Prompts : future[p] # "open" => future'[p] = future[p]
<1> USE DEF IInv, TypeOK, LivesAreWellFormed, TaskFits
<1>1. CASE failed \/ torn
  BY <1>1 DEF FailClosed
<1>2. CASE ~failed /\ ~torn
  <2>1. failed' = TRUE /\ future' = [p \in Prompts |-> IF future[p] = "open" THEN "lost" ELSE future[p]]
    BY <1>2 DEF FailClosed, Failed
  <2> QED
    BY <2>1
<1> QED
  BY <1>1, <1>2

\* The wire stays in order when it is left alone and no answered prompt comes
\* back to the child.
LEMMA WireKept ==
    ASSUME IInv, UNCHANGED wire, answering \subseteq answering',
           \A p \in Prompts : p \in answering' => p \in answering \/ task[p] = "draining",
           \A p \in Prompts : task[p] \in {"waiting", "done"} => task'[p] \in {"waiting", "done"}
    PROVE  WireIsOrdered'
<1> SUFFICES ASSUME NEW i \in DOMAIN wire
             PROVE  /\ wire[i].kind # "response" =>
                         \/ wire[i].prompt \in answering'
                         \/ \E j \in DOMAIN wire : j > i /\ ResponseTo(wire[j], wire[i].prompt)
                    /\ wire[i].kind = "response" =>
                         /\ wire[i].prompt \notin answering'
                         /\ task'[wire[i].prompt] \in {"waiting", "done"}
                         /\ \A j \in DOMAIN wire : ResponseTo(wire[j], wire[i].prompt) => j = i
  BY DEF WireIsOrdered, ResponseTo
<1>1. wire[i] \in Messages
  BY DEF IInv, TypeOK
<1>2. wire[i].prompt \in Prompts
  BY <1>1 DEF Messages
<1> QED
  BY <1>2 DEF IInv, WireIsOrdered

\* Whoever is owed something was started.
LEMMA OwedWereStarted ==
    ASSUME IInv, NEW p \in Prompts, Owed(p)
    PROVE  consumer[p] # "idle" /\ sessionOf[p] \in Sessions /\ task[p] # "none"
<1>1. task[p] # "none"
  BY DEF IInv, Owed, WireIsOrdered, ResponseTo, LivesAreWellFormed, TaskFits
<1> QED
  BY <1>1 DEF IInv, LivesAreWellFormed, TaskFits, TypeOK

\* A prompt named on the wire is owed its response, or it is one.
LEMMA WireNamesOwed ==
    ASSUME IInv, NEW i \in DOMAIN wire
    PROVE  wire[i] \in Messages /\ wire[i].prompt \in Prompts /\ Owed(wire[i].prompt)
<1>1. wire[i] \in Messages
  BY DEF IInv, TypeOK
<1>2. wire[i].prompt \in Prompts
  BY <1>1 DEF Messages
<1>3. Owed(wire[i].prompt)
  BY DEF IInv, WireIsOrdered, Owed, ResponseTo
<1> QED
  BY <1>1, <1>2, <1>3

\* The epochs of the sessions are left alone by a step that owes no prompt
\* anything new.
LEMMA EpochsKept ==
    ASSUME IInv, UNCHANGED <<phase, sessionOf, torn>>, NoFutureResolves,
           \A p \in Prompts : Owed(p)' => Owed(p),
           ~torn => \A p \in Prompts : future'[p] = "open" => Owed(p)',
           \A p \in Prompts : Live(p)' => Live(p),
           \A s \in Sessions : count'[s] # None => count[s] # None /\ queueOf'[s] = queueOf[s]
    PROVE  EpochsAreApart'
BY OwedWereStarted DEF IInv, EpochsAreApart, NoFutureResolves

\* A generator that only moves on disturbs nothing but its own flow of evidence.
LEMMA MovesKeeps ==
    ASSUME IInv, NEW p \in Prompts, Moves(p), TypeOK', NothingIsLost',
           \A q \in Prompts : q # p => UNCHANGED <<buffer[q], delivered[q]>>
    PROVE  IInv'
<1> USE DEF Moves, clientVars, taskVars, childVars
<1>0. /\ \A q \in Prompts : Live(q)' <=> Live(q)
      /\ \A q \in Prompts : q # p => consumer'[q] = consumer[q]
      /\ consumer[p] \notin {"idle", "unwinding", "ended"}
      /\ consumer'[p] \notin {"idle", "unwinding", "ended"}
  BY DEF IInv, TypeOK, Live, Suspended
<1>1. LivesAreWellFormed'
  <2>1. ASSUME NEW q \in Prompts PROVE TaskFits(q)'
    BY <1>0, <2>1 DEF IInv, LivesAreWellFormed, TaskFits, Live
  <2> QED
    BY <1>0, <2>1 DEF IInv, LivesAreWellFormed
<1>2. QueuesAreRegistered'
  <2>1. ASSUME NEW s \in Sessions, queueOf[s] # None
        PROVE  queueOf[s] \in Prompts
    BY <2>1 DEF IInv, TypeOK
  <2> QED
    BY <1>0, <2>1 DEF IInv, QueuesAreRegistered, Live
<1>3. WireIsOrdered'
  BY WireKept
<1>4. EpochsAreApart'
  <2>1. \A q \in Prompts : Owed(q)' <=> Owed(q)
    BY DEF Owed, ResponseTo
  <2>2. NoFutureResolves
    BY DEF IInv, TypeOK, NoFutureResolves
  <2>3. ~torn => \A q \in Prompts : future'[q] = "open" => Owed(q)'
    BY <2>1 DEF IInv, EpochsAreApart
  <2> QED
    BY <1>0, <2>1, <2>2, <2>3, EpochsKept
<1>5. EvidenceIsItsOwn'
  BY DEF IInv, EvidenceIsItsOwn
<1> QED
  BY <1>1, <1>2, <1>3, <1>4, <1>5 DEF IInv

-----------------------------------------------------------------------------
(* Evidence on its way from the queue to the collector                     *)

\* Yielding the head of a queue keeps the whole in order.
LEMMA HandedOver ==
    ASSUME NEW S, NEW d \in Seq(S), NEW b \in Seq(S), b # <<>>
    PROVE  Append(d, Head(b)) \o Tail(b) = d \o b
<1>1. /\ Head(b) \in S /\ Tail(b) \in Seq(S) /\ Len(Tail(b)) = Len(b) - 1
      /\ \A i \in 1..Len(Tail(b)) : Tail(b)[i] = b[i + 1]
      /\ Head(b) = b[1] /\ Len(b) \in Nat /\ Len(b) > 0 /\ Len(d) \in Nat
  BY HeadTailProperties, EmptySeq, LenProperties
<1>2. /\ Append(d, Head(b)) \in Seq(S) /\ Len(Append(d, Head(b))) = Len(d) + 1
      /\ \A i \in 1..Len(d) : Append(d, Head(b))[i] = d[i]
      /\ Append(d, Head(b))[Len(d) + 1] = b[1]
  BY <1>1, AppendProperties
<1> DEFINE l == Append(d, Head(b)) \o Tail(b)
           r == d \o b
<1>3. /\ l \in Seq(S) /\ Len(l) = Len(d) + 1 + Len(b) - 1
      /\ \A i \in 1..Len(d) + Len(b) :
            l[i] = IF i <= Len(d) + 1 THEN Append(d, Head(b))[i] ELSE Tail(b)[i - (Len(d) + 1)]
  BY <1>1, <1>2, ConcatProperties
<1>4. /\ r \in Seq(S) /\ Len(r) = Len(d) + Len(b)
      /\ \A i \in 1..Len(d) + Len(b) : r[i] = IF i <= Len(d) THEN d[i] ELSE b[i - Len(d)]
  BY ConcatProperties
<1>5. ASSUME NEW i \in 1..Len(d) + Len(b) PROVE l[i] = r[i]
  <2>1. CASE i <= Len(d)
    BY <1>1, <1>2, <1>3, <1>4, <2>1
  <2>2. CASE i = Len(d) + 1
    BY <1>1, <1>2, <1>3, <1>4, <2>2
  <2>3. CASE i > Len(d) + 1
    <3>1. i - (Len(d) + 1) \in 1..Len(Tail(b))
      BY <1>1, <2>3
    <3>2. Tail(b)[i - (Len(d) + 1)] = b[i - (Len(d) + 1) + 1]
      BY <1>1, <3>1
    <3>3. i - (Len(d) + 1) + 1 = i - Len(d)
      BY <1>1
    <3> QED
      BY <1>1, <1>3, <1>4, <2>3, <3>2, <3>3
  <2> QED
    BY <1>1, <2>1, <2>2, <2>3
<1>6. Len(l) = Len(r) /\ Len(r) = Len(d) + Len(b)
  BY <1>1, <1>3, <1>4
<1> HIDE DEF l, r
<1>7. l = r
  BY <1>3, <1>4, <1>5, <1>6, SeqEqual
<1> QED
  BY <1>7 DEF l, r

LEMMA ItemsAreApart ==
    /\ Marker \in Items /\ Marker # Wake /\ Marker.prompt = None /\ Wake.prompt = None
BY DEF Marker, Wake, Items

\* What is queued and was never admitted is the marker, and the last of all.
LEMMA MarkerIsLast ==
    ASSUME NEW d \in Seq(Items), NEW b \in Seq(Items), NEW a \in Seq(Items),
           b # <<>>, \A i \in 1..Len(a) : a[i] # Head(b),
           d \o b = a \/ d \o b = Append(a, Marker)
    PROVE  Tail(b) = <<>> /\ d = a /\ Head(b) = Marker /\ d \o b # a
<1>1. /\ Head(b) = b[1] /\ Len(b) \in Nat /\ Len(b) > 0 /\ Len(d) \in Nat /\ Len(a) \in Nat
      /\ Tail(b) \in Seq(Items) /\ Len(Tail(b)) = Len(b) - 1
  BY HeadTailProperties, EmptySeq, LenProperties
<1>2. /\ Len(d \o b) = Len(d) + Len(b)
      /\ \A i \in 1..Len(d) + Len(b) : (d \o b)[i] = IF i <= Len(d) THEN d[i] ELSE b[i - Len(d)]
  BY ConcatProperties
<1>3. (d \o b)[Len(d) + 1] = Head(b) /\ Len(d) + 1 <= Len(d \o b)
  BY <1>1, <1>2
<1>4. d \o b # a
  BY <1>1, <1>3
<1>5. /\ d \o b = Append(a, Marker) /\ Len(Append(a, Marker)) = Len(a) + 1
      /\ \A i \in 1..Len(a) : Append(a, Marker)[i] = a[i]
      /\ Append(a, Marker)[Len(a) + 1] = Marker
  BY <1>4, ItemsAreApart, AppendProperties
<1>6. Len(d) + 1 = Len(a) + 1 /\ Len(b) = 1
  BY <1>1, <1>2, <1>3, <1>5
<1>7. Head(b) = Marker /\ Tail(b) = <<>>
  BY <1>1, <1>3, <1>5, <1>6, EmptySeq
<1>8. Len(d) = Len(a) /\ \A i \in 1..Len(d) : d[i] = a[i]
  BY <1>1, <1>2, <1>5, <1>6
<1>9. d = a
  BY <1>8, SeqEqual
<1> QED
  BY <1>4, <1>7, <1>9

\* A generator that is owed a response is the one its session's queue is for.
LEMMA OwedIsRegistered ==
    ASSUME IInv, ~torn, NEW p \in Prompts, Owed(p), Live(p), consumer[p] # "unwinding"
    PROVE  /\ sessionOf[p] \in Sessions
           /\ queueOf[sessionOf[p]] = p /\ count[sessionOf[p]] # None
           /\ phase[sessionOf[p]] \in {"preparing", "active"}
BY OwedWereStarted DEF IInv, QueuesAreRegistered, EpochsAreApart

LEMMA OpenIsRegistered ==
    ASSUME IInv, ~torn, NEW p \in Prompts, future[p] = "open"
    PROVE  /\ Owed(p) /\ Live(p) /\ sessionOf[p] \in Sessions
           /\ queueOf[sessionOf[p]] = p /\ count[sessionOf[p]] # None
           /\ phase[sessionOf[p]] \in {"preparing", "active"}
<1>1. Owed(p)
  BY DEF IInv, EpochsAreApart
<1>2. Live(p) /\ consumer[p] # "unwinding"
  BY DEF IInv, LivesAreWellFormed, TaskFits, Live
<1> QED
  BY <1>1, <1>2, OwedIsRegistered

\* In a running client the head of a queue is evidence, or the marker as its last.
LEMMA HeadOfQueue ==
    ASSUME IInv, ~torn, NEW p \in Prompts, buffer[p] # <<>>, Head(buffer[p]) \in {Wake, Marker}
    PROVE  /\ Head(buffer[p]) = Marker /\ Tail(buffer[p]) = <<>> /\ delivered[p] = admitted[p]
           /\ delivered[p] \o buffer[p] # admitted[p]
<1>1. /\ buffer[p] \in Seq(Items) /\ admitted[p] \in Seq(Items) /\ delivered[p] \in Seq(Items)
      /\ \/ delivered[p] \o buffer[p] = admitted[p]
         \/ delivered[p] \o buffer[p] = Append(admitted[p], Marker)
  BY DEF IInv, TypeOK, NothingIsLost, FlowIsWhole
<1>2. \A i \in 1..Len(admitted[p]) : admitted[p][i] # Head(buffer[p])
  <2>1. \A i \in 1..Len(admitted[p]) : admitted[p][i].prompt = p
    BY <1>1 DEF IInv, EvidenceIsItsOwn
  <2> QED
    BY <2>1, ItemsAreApart, NoneIsApart
<1> DEFINE d == delivered[p]
           b == buffer[p]
           a == admitted[p]
<1>3. /\ d \in Seq(Items) /\ b \in Seq(Items) /\ a \in Seq(Items) /\ b # <<>>
      /\ \A i \in 1..Len(a) : a[i] # Head(b)
      /\ d \o b = a \/ d \o b = Append(a, Marker)
  BY <1>1, <1>2
<1> HIDE DEF d, b, a
<1>4. Tail(b) = <<>> /\ d = a /\ Head(b) = Marker /\ d \o b # a
  BY <1>3, MarkerIsLast
<1> QED
  BY <1>4 DEF d, b, a

\* A move of one generator leaves the flow of the others alone.
LEMMA MovesPreserves ==
    ASSUME IInv, NEW p \in Prompts, Moves(p), TypeOK', ~torn => FlowIsWhole(p)',
           \A q \in Prompts : q # p => UNCHANGED <<buffer[q], delivered[q], outcome[q]>>
    PROVE  IInv'
<1>1. NothingIsLost'
  <2> SUFFICES ASSUME ~torn, NEW q \in Prompts, q # p PROVE FlowIsWhole(q)'
    BY DEF NothingIsLost, Moves
  <2>1. consumer'[q] = consumer[q] /\ buffer'[q] = buffer[q] /\ delivered'[q] = delivered[q]
        /\ outcome'[q] = outcome[q]
    BY DEF Moves, IInv, TypeOK
  <2>2. UNCHANGED <<phase, queueOf, count, task, future, admitted>>
    BY DEF Moves, clientVars, taskVars
  <2>3. FlowIsWhole(q)
    BY DEF IInv, NothingIsLost
  <2> QED
    BY <2>1, <2>2, <2>3 DEF FlowIsWhole
<1> QED
  BY <1>1, MovesKeeps

\* The steps of a generator that take nothing from its queue.
LEMMA IdleMovesPreserve ==
    ASSUME IInv, NEW p \in Prompts,
           Loop(p) \/ PollExpires(p) \/ PollTimesOut(p) \/ Resume(p) \/ Finish(p)
             \/ Cancel(p) \/ DeadlinePasses(p)
    PROVE  IInv'
<1> USE DEF Loop, PollExpires, PollTimesOut, Resume, Finish, Cancel, DeadlinePasses, At, Leave,
           GenStep
<1>1. UNCHANGED <<buffer, delivered, admitted, clientVars, taskVars, sessionOf, wire, failed,
                  torn, callback, childVars>>
  BY DEF childVars
<1>2. PICK place \in Suspended \cup {"closing"} : consumer' = [consumer EXCEPT ![p] = place]
  <2>1. CASE Cancel(p) /\ UNCHANGED consumer
    BY <2>1 DEF IInv, TypeOK, Suspended
  <2>2. CASE DeadlinePasses(p)
    BY <2>2 DEF IInv, TypeOK
  <2> QED
    BY <2>1, <2>2 DEF Suspended
<1>3. consumer[p] \in Suspended
  BY DEF Suspended
<1>4. Moves(p)
  BY <1>1, <1>2, <1>3 DEF Moves, Live, Suspended
<1>5. /\ outcome' \in [Prompts -> {"none", "done", "error", "timeout", "cancelled"}]
      /\ late' \in SUBSET Prompts /\ cancelled' \in SUBSET Prompts
      /\ \A q \in Prompts : q # p => outcome'[q] = outcome[q]
  BY DEF IInv, TypeOK
<1>6. TypeOK'
  BY <1>1, <1>2, <1>5 DEF IInv, TypeOK, clientVars, taskVars, childVars
<1>7. ASSUME ~torn PROVE FlowIsWhole(p)'
  <2>1. FlowIsWhole(p) /\ TaskFits(p)
    BY <1>7 DEF IInv, NothingIsLost, LivesAreWellFormed
  <2>2. \A s \in Sessions : UNCHANGED <<queueOf[s], count[s], phase[s]>>
    BY <1>1 DEF clientVars
  <2>3. UNCHANGED <<delivered[p], buffer[p], admitted[p], task[p], future[p]>>
    BY <1>1 DEF taskVars
  <2>4. outcome[p] # "done"
    BY <1>3, <2>1 DEF FlowIsWhole, Suspended
  <2>5. /\ consumer'[p] = "draining" => task[p] = "done"
        /\ consumer'[p] = "awaiting" => consumer[p] = "awaiting"
    BY <2>1, <1>3 DEF FlowIsWhole, IInv, TypeOK
  <2>6. outcome'[p] = "done" =>
          consumer[p] = "awaiting" /\ consumer'[p] = "closing" /\ future[p] = "end"
    BY <2>4 DEF IInv, TypeOK
  <2> QED
    BY <2>1, <2>2, <2>3, <2>5, <2>6 DEF FlowIsWhole
<1> QED
  BY <1>1, <1>4, <1>5, <1>6, <1>7, MovesPreserves

\* An item that is taken and yielded, or is a wake-up, leaves the flow whole.
LEMMA TakingKeepsFlow ==
    ASSUME IInv, ~torn, NEW p \in Prompts, buffer[p] # <<>>,
           UNCHANGED <<clientVars, taskVars, admitted, outcome>>,
           consumer[p] \in Suspended, consumer'[p] \in Suspended \ {"awaiting"},
           consumer'[p] = "draining" => consumer[p] = "draining",
           buffer'[p] = Tail(buffer[p]), delivered'[p] = Append(delivered[p], Head(buffer[p]))
    PROVE  FlowIsWhole(p)'
<1>1. FlowIsWhole(p) /\ buffer[p] \in Seq(Items) /\ delivered[p] \in Seq(Items)
  BY DEF IInv, TypeOK, NothingIsLost
<1> DEFINE d == delivered[p]
           b == buffer[p]
<1>2. d \in Seq(Items) /\ b \in Seq(Items) /\ b # <<>>
  BY <1>1
<1> HIDE DEF d, b
<1>3. Append(d, Head(b)) \o Tail(b) = d \o b /\ Len(Tail(b)) = Len(b) - 1 /\ Len(b) \in Nat
  BY <1>2, HandedOver, HeadTailProperties, LenProperties
<1>4. /\ delivered'[p] \o buffer'[p] = delivered[p] \o buffer[p]
      /\ Len(buffer'[p]) = Len(buffer[p]) - 1 /\ Len(buffer[p]) \in Nat
  BY <1>3 DEF d, b
<1>5. \A s \in Sessions : count[s] # None => count[s] \in Nat
  BY DEF IInv, TypeOK
<1>6. outcome'[p] # "done" /\ UNCHANGED <<task, future, admitted, queueOf, count, phase>>
  BY <1>1 DEF FlowIsWhole, Suspended, clientVars, taskVars
<1>7. delivered'[p] \o buffer'[p] \in {admitted'[p], Append(admitted'[p], Marker)}
  BY <1>1, <1>4, <1>6 DEF FlowIsWhole
<1>8. ASSUME NEW s \in Sessions, queueOf'[s] = p, count'[s] # None, phase'[s] # "terminal"
      PROVE  delivered'[p] \o buffer'[p] = admitted'[p] /\ Len(buffer'[p]) <= count'[s]
  <2>1. delivered[p] \o buffer[p] = admitted[p] /\ Len(buffer[p]) <= count[s]
    BY <1>1, <1>6, <1>8 DEF FlowIsWhole
  <2>2. count[s] \in Nat /\ count'[s] = count[s] /\ admitted'[p] = admitted[p]
    BY <1>5, <1>6, <1>8
  <2>3. \A m, n, c \in Nat : m = n - 1 /\ n <= c => m <= c
    OBVIOUS
  <2>4. Len(buffer[p]) - 1 \in Nat
    BY <1>3, HeadTailProperties, LenProperties, <1>2 DEF b
  <2>5. Len(buffer'[p]) <= count[s]
    BY <1>4, <2>1, <2>2, <2>3, <2>4
  <2> QED
    BY <1>4, <2>1, <2>2, <2>5
<1>9. consumer'[p] = "draining" => task'[p] = "done"
  BY <1>1, <1>6 DEF FlowIsWhole
<1> QED
  BY <1>6, <1>7, <1>8, <1>9 DEF FlowIsWhole, Suspended

LEMMA PollPreserves == ASSUME NEW p \in Prompts, IInv, Poll(p) PROVE IInv'
<1> USE DEF Poll, TakeItem, At, GenStep
<1>1. UNCHANGED <<clientVars, taskVars, sessionOf, wire, failed, torn, callback, childVars,
                  admitted, outcome, late, cancelled>>
      /\ consumer[p] = "polling" /\ buffer[p] # <<>>
  BY DEF childVars
<1>2. PICK place \in {"awaiting", "yielded"} : consumer' = [consumer EXCEPT ![p] = place]
  OBVIOUS
<1>3. Moves(p)
  BY <1>1, <1>2 DEF Moves, Live, Suspended
<1>4. /\ buffer[p] \in Seq(Items) /\ delivered[p] \in Seq(Items)
      /\ buffer \in [Prompts -> Seq(Items)] /\ delivered \in [Prompts -> Seq(Items)]
      /\ consumer \in [Prompts -> {"idle", "closing", "unwinding", "ended"} \cup Suspended]
  BY DEF IInv, TypeOK
<1>5. Tail(buffer[p]) \in Seq(Items) /\ Append(delivered[p], Head(buffer[p])) \in Seq(Items)
  BY <1>1, <1>4, HeadTailProperties, AppendProperties
<1>6. TypeOK'
  BY <1>1, <1>2, <1>4, <1>5
  DEF IInv, TypeOK, clientVars, taskVars, childVars, Suspended
<1>7. ASSUME ~torn PROVE FlowIsWhole(p)'
  <2>1. CASE Head(buffer[p]) \in {Wake, Marker}
    <3>1. /\ consumer'[p] = "awaiting" /\ delivered'[p] = delivered[p]
          /\ buffer'[p] = Tail(buffer[p])
      BY <1>4, <2>1
    <3>2. buffer'[p] = <<>> /\ delivered[p] = admitted[p]
          /\ delivered[p] \o buffer[p] # admitted[p]
      BY <1>1, <1>7, <2>1, <3>1, HeadOfQueue
    <3>3. delivered'[p] \o buffer'[p] = admitted[p] /\ Len(buffer'[p]) = 0
      BY <1>4, <3>1, <3>2, ConcatEmptySeq, EmptySeq
    <3>4. FlowIsWhole(p)
      BY <1>7 DEF IInv, NothingIsLost
    <3>5. future[p] # "open" /\ task[p] # "created"
      <4>1. Live(p) /\ consumer[p] # "unwinding"
        BY <1>1 DEF Live
      <4>2. ~Owed(p)
        BY <1>7, <3>2, <3>4, <4>1, OwedIsRegistered DEF FlowIsWhole
      <4> QED
        BY <1>7, <4>2, OpenIsRegistered DEF Owed
    <3>6. outcome[p] # "done"
      BY <1>1, <3>4 DEF FlowIsWhole
    <3>7. \A s \in Sessions : count[s] # None => count[s] >= 0
      BY DEF IInv, TypeOK
    <3>8. UNCHANGED <<task, future, admitted, queueOf, count, phase, outcome>>
      BY <1>1 DEF clientVars, taskVars
    <3> QED
      BY <3>1, <3>2, <3>3, <3>5, <3>6, <3>7, <3>8 DEF FlowIsWhole
  <2>2. CASE Head(buffer[p]) \notin {Wake, Marker}
    <3>1. /\ consumer'[p] = "yielded" /\ buffer'[p] = Tail(buffer[p])
          /\ delivered'[p] = Append(delivered[p], Head(buffer[p]))
      BY <1>4, <2>2
    <3> QED
      BY <1>1, <1>7, <3>1, TakingKeepsFlow DEF Suspended
  <2> QED
    BY <2>1, <2>2
<1>8. \A q \in Prompts : q # p => UNCHANGED <<buffer[q], delivered[q], outcome[q]>>
  BY <1>1, <1>4
<1> QED
  BY <1>3, <1>6, <1>7, <1>8, MovesPreserves

LEMMA DrainPreserves == ASSUME NEW p \in Prompts, IInv, Drain(p) PROVE IInv'
<1> USE DEF Drain, At, GenStep
<1>1. UNCHANGED <<clientVars, taskVars, sessionOf, wire, failed, torn, callback, childVars,
                  admitted, outcome, late, cancelled>>
      /\ consumer[p] = "draining"
  BY DEF childVars
<1>2. PICK place \in {"awaiting", "draining"} : consumer' = [consumer EXCEPT ![p] = place]
  OBVIOUS
<1>3. Moves(p)
  BY <1>1, <1>2 DEF Moves, Live, Suspended
<1>4. /\ buffer[p] \in Seq(Items) /\ delivered[p] \in Seq(Items)
      /\ buffer \in [Prompts -> Seq(Items)] /\ delivered \in [Prompts -> Seq(Items)]
      /\ consumer \in [Prompts -> {"idle", "closing", "unwinding", "ended"} \cup Suspended]
  BY DEF IInv, TypeOK
<1>5. buffer[p] # <<>> =>
        Tail(buffer[p]) \in Seq(Items) /\ Append(delivered[p], Head(buffer[p])) \in Seq(Items)
  BY <1>4, HeadTailProperties, AppendProperties
<1>6. TypeOK'
  <2>1. buffer' \in [Prompts -> Seq(Items)] /\ delivered' \in [Prompts -> Seq(Items)]
    BY <1>4, <1>5
  <2> QED
    BY <1>1, <1>2, <1>4, <2>1 DEF IInv, TypeOK, clientVars, taskVars, childVars, Suspended
<1>7. ASSUME ~torn PROVE FlowIsWhole(p)'
  <2>0. FlowIsWhole(p) /\ TaskFits(p)
    BY <1>7 DEF IInv, NothingIsLost, LivesAreWellFormed
  <2>1. CASE buffer[p] = <<>>
    <3>1. consumer'[p] = "awaiting" /\ UNCHANGED <<buffer[p], delivered[p]>>
      BY <1>4, <2>1
    <3>2. future[p] # "open" /\ task[p] # "created" /\ outcome[p] # "done"
      BY <1>1, <2>0 DEF FlowIsWhole, TaskFits
    <3>3. UNCHANGED <<task, future, admitted, queueOf, count, phase, outcome>>
      BY <1>1 DEF clientVars, taskVars
    <3> QED
      BY <2>0, <2>1, <3>1, <3>2, <3>3 DEF FlowIsWhole
  <2>2. CASE buffer[p] # <<>>
    <3>1. Head(buffer[p]) # Wake
      BY <1>7, <2>2, HeadOfQueue, ItemsAreApart
    <3>2. /\ consumer'[p] = "draining" /\ buffer'[p] = Tail(buffer[p])
          /\ delivered'[p] = Append(delivered[p], Head(buffer[p]))
      BY <1>4, <2>2, <3>1
    <3> QED
      BY <1>1, <1>7, <2>2, <3>2, TakingKeepsFlow DEF Suspended
  <2> QED
    BY <2>1, <2>2
<1>8. \A q \in Prompts : q # p => UNCHANGED <<buffer[q], delivered[q], outcome[q]>>
  BY <1>1, <1>4
<1> QED
  BY <1>3, <1>6, <1>7, <1>8, MovesPreserves

-----------------------------------------------------------------------------
(* The prompt task, and the ends of the transport                          *)

\* A step that advances prompt tasks, opens their requests or fails them.
LEMMA QuietPreserves ==
    ASSUME IInv, TypeOK',
           UNCHANGED <<torn, clientVars, sessionOf, buffer, consumer, outcome, wire, answering,
                       admitted, delivered>>,
           failed => failed', NoFutureResolves,
           \A p \in Prompts : failed' => future'[p] # "open",
           \A p \in Prompts :
             \/ task'[p] = task[p]
             \/ task'[p] = "done" /\ task[p] # "none"
             \/ task'[p] = "draining" /\ task[p] = "created",
           \A p \in Prompts : future'[p] = "open" =>
             \/ future[p] = "open" /\ task'[p] = task[p]
             \/ task[p] = "created" /\ task'[p] = "draining",
           \A p \in Prompts :
             /\ task[p] = "none" \/ future[p] = "end" => future'[p] = future[p]
             /\ task'[p] = "created" => future'[p] = future[p]
    PROVE  IInv'
<1> USE DEF clientVars
<1>0. \A p \in Prompts : Live(p)' <=> Live(p)
  BY DEF Live
<1>1. LivesAreWellFormed'
  <2>1. ASSUME NEW p \in Prompts PROVE TaskFits(p)'
    <3>1. TaskFits(p)
      BY DEF IInv, LivesAreWellFormed
    <3> QED
      BY <1>0, <3>1 DEF TaskFits
  <2> QED
    BY <1>0, <2>1 DEF IInv, LivesAreWellFormed
<1>2. QueuesAreRegistered'
  BY <1>0 DEF IInv, TypeOK, QueuesAreRegistered, Live
<1>3. WireIsOrdered'
  BY WireKept
<1>4. \A p \in Prompts : Owed(p)' => Owed(p)
  BY DEF Owed, ResponseTo
<1>5. ~torn => \A p \in Prompts : future'[p] = "open" => Owed(p)'
  BY DEF IInv, EpochsAreApart, Owed, ResponseTo
<1>6. EpochsAreApart'
  BY <1>0, <1>4, <1>5, EpochsKept
<1>7. EvidenceIsItsOwn'
  BY DEF IInv, EvidenceIsItsOwn
<1>8. NothingIsLost'
  <2> SUFFICES ASSUME ~torn, NEW p \in Prompts PROVE FlowIsWhole(p)'
    BY DEF NothingIsLost
  <2>1. FlowIsWhole(p) /\ TaskFits(p)
    BY DEF IInv, NothingIsLost, LivesAreWellFormed
  <2> QED
    BY <2>1 DEF FlowIsWhole, NoFutureResolves, TaskFits
<1> QED
  BY <1>1, <1>2, <1>3, <1>6, <1>7, <1>8 DEF IInv

LEMMA TaskWritesPreserves == ASSUME NEW p \in Prompts, IInv, TaskWrites(p) PROVE IInv'
<1> USE DEF TaskWrites, clientVars, genVars, childVars
<1>1. TypeOK'
  BY DEF IInv, TypeOK
<1>2. future[p] = "none"
  BY DEF IInv, LivesAreWellFormed, TaskFits
<1>3. \A q \in Prompts : q # p => UNCHANGED <<task[q], future[q]>>
  BY DEF IInv, TypeOK
<1>4. /\ task[p] = "created" /\ UNCHANGED failed
      /\ \/ (failed \/ torn) /\ task'[p] = "done" /\ future'[p] = "lost"
         \/ ~failed /\ task'[p] = "draining" /\ future'[p] = "open"
      /\ future'[p] \in {"lost", "open"} /\ (failed => future'[p] = "lost")
      /\ task'[p] \in {"draining", "done"} /\ (future'[p] = "open" => task'[p] = "draining")
  BY DEF IInv, TypeOK
<1>5. \A q \in Prompts : failed => future[q] # "open"
  BY DEF IInv, LivesAreWellFormed
<1> QED
  BY <1>1, <1>2, <1>3, <1>4, <1>5, QuietPreserves DEF NoFutureResolves

LEMMA TaskEndsPreserve ==
    ASSUME NEW p \in Prompts, IInv, TaskBreaks(p) \/ TaskWakes(p) PROVE IInv'
<1> USE DEF TaskBreaks, TaskWakes, clientVars, genVars, childVars
<1>1. TypeOK'
  BY DEF IInv, TypeOK
<1>2. \A q \in Prompts : q # p => UNCHANGED <<task[q], future[q]>>
  BY DEF IInv, TypeOK
<1>3. /\ task[p] \in {"draining", "waiting"} /\ task'[p] = "done" /\ UNCHANGED failed
      /\ future'[p] # "open"
      /\ future'[p] = future[p] \/ (future[p] = "open" /\ future'[p] = "cancelled")
  BY DEF IInv, TypeOK
<1>4. \A q \in Prompts : failed => future[q] # "open"
  BY DEF IInv, LivesAreWellFormed
<1> QED
  BY <1>1, <1>2, <1>3, <1>4, QuietPreserves DEF NoFutureResolves

\* A loss that is noticed outside a line of the child, an answer to a callback and
\* the end of a stop.
LEMMA LossPreserves ==
    ASSUME IInv, TypeOK', FailClosed,
           UNCHANGED <<torn, clientVars, sessionOf, buffer, consumer, outcome, wire, answering,
                       admitted, delivered, task>>
    PROVE  IInv'
<1>1. /\ failed => failed'
      /\ \A q \in Prompts : future'[q] \in {future[q], "lost"}
      /\ failed' => \A q \in Prompts : future'[q] # "open"
      /\ \A q \in Prompts : future[q] # "open" => future'[q] = future[q]
  BY FailClosedShape
<1>2. \A q \in Prompts : future[q] = "open" => task[q] \notin {"none", "created"}
  BY DEF IInv, LivesAreWellFormed, TaskFits
<1> QED
  BY <1>1, <1>2, QuietPreserves DEF NoFutureResolves

LEMMA ReadFailsPreserves == IInv /\ ReadFails => IInv'
<1> SUFFICES ASSUME IInv, ReadFails PROVE IInv'
  OBVIOUS
<1> USE DEF ReadFails, clientVars, genVars, childVars
<1>1. TypeOK'
  BY FailClosedShape DEF IInv, TypeOK
<1> QED
  BY <1>1, LossPreserves

LEMMA CallbackAnsweredPreserves ==
    ASSUME NEW k \in Callbacks, IInv, CallbackAnswered(k) PROVE IInv'
<1> USE DEF CallbackAnswered, clientVars, genVars, childVars, taskVars
<1>1. TypeOK'
  BY DEF IInv, TypeOK
<1>2. \A q \in Prompts : failed => future[q] # "open"
  BY DEF IInv, LivesAreWellFormed
<1> QED
  BY <1>1, <1>2, QuietPreserves DEF NoFutureResolves

LEMMA TransportStoppedPreserves == IInv /\ TransportStopped => IInv'
<1> SUFFICES ASSUME IInv, TransportStopped PROVE IInv'
  OBVIOUS
<1> USE DEF TransportStopped, Failed, clientVars, genVars, childVars
<1>1. TypeOK'
  BY DEF IInv, TypeOK
<1>2. /\ \A q \in Prompts : future'[q] \in {future[q], "lost"} /\ future'[q] # "open"
      /\ \A q \in Prompts : future[q] # "open" => future'[q] = future[q]
  OBVIOUS
<1>3. \A q \in Prompts : future[q] = "open" => task[q] \notin {"none", "created"}
  BY DEF IInv, LivesAreWellFormed, TaskFits
<1> QED
  BY <1>1, <1>2, <1>3, QuietPreserves DEF NoFutureResolves

\* The request is out: the epoch of its session opens, or continuity is lost.
LEMMA TaskDrainedPreserves == ASSUME NEW p \in Prompts, IInv, TaskDrained(p) PROVE IInv'
<1> USE DEF TaskDrained, genVars
<1>1. /\ task[p] = "draining" /\ task' = [task EXCEPT ![p] = "waiting"]
      /\ answering' = answering \cup {p}
      /\ UNCHANGED <<torn, queueOf, count, sessionOf, buffer, consumer, outcome, late, cancelled,
                     callback, wire, emitted, admitted, delivered>>
  OBVIOUS
<1>2. Owed(p) /\ sessionOf[p] \in Sessions
  BY <1>1, OwedWereStarted DEF Owed
<1>3. \/ /\ phase[sessionOf[p]] = "preparing"
         /\ phase' = [phase EXCEPT ![sessionOf[p]] = "active"] /\ UNCHANGED <<failed, future>>
      \/ FailClosed /\ UNCHANGED phase
  OBVIOUS
<1>4. /\ failed' \in BOOLEAN /\ (failed => failed')
      /\ future' \in [Prompts -> {"none", "open", "end", "error", "lost", "cancelled"}]
      /\ failed' => \A q \in Prompts : future'[q] # "open"
      /\ \A q \in Prompts : future'[q] \in {future[q], "lost"}
      /\ \A q \in Prompts : future[q] # "open" => future'[q] = future[q]
  <2>1. CASE UNCHANGED <<failed, future>>
    BY <2>1 DEF IInv, TypeOK, LivesAreWellFormed
  <2>2. CASE FailClosed
    BY <2>2, FailClosedShape
  <2> QED
    BY <1>3, <2>1, <2>2
<1>5. phase' \in [Sessions -> PhaseNames]
      /\ \A s \in Sessions : phase'[s] = phase[s] \/ (phase[s] = "preparing" /\ phase'[s] = "active")
  BY <1>2, <1>3 DEF IInv, TypeOK, PhaseNames
<1>6. task'[p] = "waiting" /\ \A q \in Prompts : q # p => task'[q] = task[q]
  BY <1>1 DEF IInv, TypeOK
<1>7. TypeOK'
  <2>1. /\ task' \in [Prompts -> {"none", "created", "draining", "waiting", "done"}]
        /\ answering' \in SUBSET Prompts
    BY <1>1 DEF IInv, TypeOK
  <2> HIDE DEF TaskDrained
  <2> QED
    BY <1>1, <1>4, <1>5, <2>1 DEF IInv, TypeOK
<1>8. \A q \in Prompts : (Live(q)' <=> Live(q)) /\ (Owed(q)' <=> Owed(q))
  BY <1>1, <1>6 DEF Live, Owed, ResponseTo
<1>9. LivesAreWellFormed'
  <2>1. ASSUME NEW q \in Prompts PROVE TaskFits(q)'
    <3>1. TaskFits(q)
      BY DEF IInv, LivesAreWellFormed
    <3> QED
      BY <1>1, <1>4, <1>6, <1>8, <3>1 DEF TaskFits
  <2> QED
    BY <1>1, <1>4, <1>8, <2>1 DEF IInv, LivesAreWellFormed
<1>10. QueuesAreRegistered'
  BY <1>1, <1>4, <1>8 DEF IInv, TypeOK, QueuesAreRegistered, Live
<1>11. WireIsOrdered'
  BY <1>1, <1>6, WireKept
<1>12. EpochsAreApart'
  <2>1. \A q \in Prompts : Owed(q) => sessionOf[q] \in Sessions
    BY OwedWereStarted
  <2>2. \A q \in Prompts : Live(q) => sessionOf[q] \in Sessions
    BY DEF IInv, TypeOK, LivesAreWellFormed, TaskFits, Live
  <2> QED
    BY <1>1, <1>4, <1>5, <1>8, <2>1, <2>2 DEF IInv, EpochsAreApart
<1>13. EvidenceIsItsOwn'
  BY <1>1 DEF IInv, EvidenceIsItsOwn
<1>14. NothingIsLost'
  <2> SUFFICES ASSUME ~torn, NEW q \in Prompts PROVE FlowIsWhole(q)'
    BY <1>1 DEF NothingIsLost
  <2>1. FlowIsWhole(q)
    BY DEF IInv, NothingIsLost
  <2>2. task'[q] # "created" \/ task[q] = "created"
    BY <1>6
  <2>3. task[q] = "done" => task'[q] = "done"
    BY <1>1, <1>6
  <2> QED
    BY <1>1, <1>4, <1>5, <2>1, <2>2, <2>3 DEF FlowIsWhole
<1> QED
  BY <1>7, <1>9, <1>10, <1>11, <1>12, <1>13, <1>14 DEF IInv

\* The finally clause: the queue goes, and with it the task.
LEMMA ClosePreserves == ASSUME NEW p \in Prompts, IInv, Close(p) PROVE IInv'
<1> DEFINE s == sessionOf[p]
<1> USE DEF Close, At, GenStep, FutureCancelled, taskVars
<1>1. /\ consumer[p] = "closing" /\ s \in Sessions /\ Live(p)
      /\ UNCHANGED <<failed, torn, phase, sessionOf, buffer, callback, wire, emitted, admitted,
                     delivered, outcome, late, cancelled>>
      /\ queueOf' = [queueOf EXCEPT ![s] = None] /\ count' = [count EXCEPT ![s] = None]
  BY DEF IInv, TypeOK, LivesAreWellFormed, TaskFits, Live
<1>2. /\ consumer' = [consumer EXCEPT ![p] = IF task[p] = "done" THEN "ended" ELSE "unwinding"]
      /\ answering' = IF task[p] = "draining" THEN answering \cup {p} ELSE answering
  OBVIOUS
<1>3. /\ \A q \in Prompts : q # p => UNCHANGED <<consumer[q], task[q], future[q]>>
      /\ consumer'[p] = IF task[p] = "done" THEN "ended" ELSE "unwinding"
      /\ task'[p] = IF task[p] = "waiting" THEN "waiting" ELSE "done"
      /\ future'[p] = IF task[p] # "done" /\ future[p] \in {"open", "none"} THEN "cancelled"
                      ELSE future[p]
  BY DEF IInv, TypeOK
<1>4. /\ \A t \in Sessions : t # s => UNCHANGED <<queueOf[t], count[t]>>
      /\ queueOf'[s] = None /\ count'[s] = None
  BY <1>1 DEF IInv, TypeOK
<1>5. TypeOK'
  <2>1. consumer' \in [Prompts -> {"idle", "closing", "unwinding", "ended"} \cup Suspended]
    BY <1>2 DEF IInv, TypeOK
  <2>2. /\ task' \in [Prompts -> {"none", "created", "draining", "waiting", "done"}]
        /\ future' \in [Prompts -> {"none", "open", "end", "error", "lost", "cancelled"}]
    BY DEF IInv, TypeOK
  <2> QED
    BY <1>1, <1>2, <2>1, <2>2 DEF IInv, TypeOK
<1> HIDE DEF Close, At, GenStep, FutureCancelled, taskVars, s
<1>6. TaskFits(p) /\ (failed => future[p] # "open")
  BY DEF IInv, LivesAreWellFormed
<1>7. /\ future'[p] # "open" /\ task[p] # "none"
      /\ future'[p] = future[p] \/ future'[p] = "cancelled"
      /\ \A q \in Prompts : Live(q)' => Live(q)
  BY <1>1, <1>3, <1>6 DEF TaskFits, Live
<1>8. LivesAreWellFormed'
  <2>1. ASSUME NEW q \in Prompts PROVE TaskFits(q)' /\ (failed' => future'[q] # "open")
    <3>1. CASE q = p
      BY <1>1, <1>2, <1>3, <1>6, <1>7, <3>1 DEF TaskFits, Live
    <3>2. CASE q # p
      <4>1. TaskFits(q) /\ (failed => future[q] # "open")
        BY DEF IInv, LivesAreWellFormed
      <4> QED
        BY <1>1, <1>2, <1>3, <3>2, <4>1 DEF TaskFits, Live
    <3> QED
      BY <3>1, <3>2
  <2> QED
    BY <1>1, <1>7, <2>1 DEF IInv, LivesAreWellFormed
<1>9. QueuesAreRegistered'
  <2>1. ASSUME NEW t \in Sessions, queueOf'[t] # None PROVE t # s /\ queueOf[t] # p /\ queueOf[t] \in Prompts
    BY <1>1, <1>4, <2>1 DEF IInv, TypeOK, QueuesAreRegistered, s
  <2>2. ASSUME NEW t \in Sessions, count'[t] # None
        PROVE  t # s /\ queueOf'[t] # None /\ Live(queueOf[t])
    BY <1>4, <2>2 DEF IInv, QueuesAreRegistered
  <2>3. ASSUME ~torn, NEW q \in Prompts, Live(q)', consumer'[q] # "unwinding"
        PROVE  queueOf'[sessionOf[q]] = q /\ count'[sessionOf[q]] # None
    <3>1. q # p /\ Live(q) /\ consumer[q] # "unwinding"
      BY <1>3, <2>3 DEF Live
    <3>2. sessionOf[q] # s /\ sessionOf[q] \in Sessions
      BY <1>1, <3>1 DEF IInv, TypeOK, LivesAreWellFormed, TaskFits, Live, s
    <3> QED
      BY <1>4, <2>3, <3>1, <3>2 DEF IInv, QueuesAreRegistered
  <2> QED
    BY <1>1, <1>3, <1>4, <2>1, <2>2, <2>3 DEF IInv, QueuesAreRegistered, Live
<1>10. WireIsOrdered'
  BY <1>1, <1>2, <1>3, WireKept
<1>11. \A q \in Prompts : Owed(q)' => Owed(q)
  BY <1>1, <1>2, <1>3 DEF Owed, ResponseTo
<1>12. ~torn => \A q \in Prompts : future'[q] = "open" => Owed(q)'
  BY <1>1, <1>2, <1>3, <1>7 DEF IInv, EpochsAreApart, Owed, ResponseTo
<1>13. EpochsAreApart'
  BY <1>1, <1>3, <1>4, <1>7, <1>11, <1>12, EpochsKept DEF NoFutureResolves
<1>14. EvidenceIsItsOwn'
  BY <1>1 DEF IInv, EvidenceIsItsOwn
<1>15. NothingIsLost'
  <2> SUFFICES ASSUME ~torn, NEW q \in Prompts PROVE FlowIsWhole(q)'
    BY <1>1 DEF NothingIsLost
  <2>1. FlowIsWhole(q)
    BY DEF IInv, NothingIsLost
  <2>2. \A t \in Sessions : count'[t] # None => UNCHANGED <<count[t], queueOf[t]>>
    BY <1>4
  <2>3. CASE q = p
    BY <1>1, <1>3, <1>7, <2>1, <2>2, <2>3 DEF FlowIsWhole
  <2>4. CASE q # p
    BY <1>1, <1>3, <2>1, <2>2, <2>4 DEF FlowIsWhole
  <2> QED
    BY <2>3, <2>4
<1> QED
  BY <1>5, <1>8, <1>9, <1>10, <1>13, <1>14, <1>15 DEF IInv

LEMMA UnwindPreserves == ASSUME NEW p \in Prompts, IInv, Unwind(p) PROVE IInv'
<1> USE DEF Unwind, At, GenStep, clientVars, taskVars
<1>1. /\ consumer[p] = "unwinding" /\ task[p] = "done"
      /\ consumer' = [consumer EXCEPT ![p] = "ended"]
      /\ UNCHANGED <<failed, torn, phase, queueOf, count, task, future, sessionOf, buffer, callback,
                     wire, emitted, answering, admitted, delivered, outcome, late, cancelled>>
  BY DEF IInv, LivesAreWellFormed, TaskFits, childVars
<1> HIDE DEF Unwind, At, GenStep, clientVars, taskVars
<1>2. consumer'[p] = "ended" /\ \A q \in Prompts : q # p => consumer'[q] = consumer[q]
  BY <1>1 DEF IInv, TypeOK
<1>3. TypeOK'
  BY <1>1 DEF IInv, TypeOK
<1>4. \A q \in Prompts : /\ Live(q)' <=> Live(q) /\ q # p
                         /\ Owed(q)' <=> Owed(q)
  BY <1>1, <1>2 DEF Live, Owed, ResponseTo
<1>5. LivesAreWellFormed'
  <2>1. ASSUME NEW q \in Prompts PROVE TaskFits(q)' /\ (failed' => future'[q] # "open")
    BY <1>1, <1>2, <1>4 DEF IInv, LivesAreWellFormed, TaskFits
  <2> QED
    BY <1>1, <1>4, <2>1 DEF IInv, LivesAreWellFormed
<1>6. QueuesAreRegistered'
  BY <1>1, <1>2, <1>4 DEF IInv, TypeOK, QueuesAreRegistered, Live
<1>7. WireIsOrdered'
  BY <1>1, WireKept
<1>8. EpochsAreApart'
  <2>1. NoFutureResolves
    BY <1>1 DEF NoFutureResolves
  <2>2. ~torn => \A q \in Prompts : future'[q] = "open" => Owed(q)'
    BY <1>1, <1>4 DEF IInv, EpochsAreApart
  <2> QED
    BY <1>1, <1>4, <2>1, <2>2, EpochsKept
<1>9. EvidenceIsItsOwn'
  BY <1>1 DEF IInv, EvidenceIsItsOwn
<1>10. NothingIsLost'
  <2>1. ASSUME NEW q \in Prompts, ~torn PROVE FlowIsWhole(q)'
    <3>1. FlowIsWhole(q)
      BY <2>1 DEF IInv, NothingIsLost
    <3>2. consumer'[q] # consumer[q] => consumer[q] = "unwinding" /\ consumer'[q] = "ended"
      BY <1>1, <1>2
    <3> QED
      BY <1>1, <3>1, <3>2 DEF FlowIsWhole
  <2> QED
    BY <1>1, <2>1 DEF NothingIsLost
<1> QED
  BY <1>3, <1>5, <1>6, <1>7, <1>8, <1>9, <1>10 DEF IInv

\* The client is torn down: every queue goes and every reader is woken.
LEMMA TeardownPreserves == IInv /\ Teardown => IInv'
<1> SUFFICES ASSUME IInv, Teardown PROVE IInv'
  OBVIOUS
<1> USE DEF Teardown, genVars, childVars
<1>1. /\ torn' /\ torn' \in BOOLEAN /\ phase' = [s \in Sessions |-> "none"]
      /\ queueOf' = [s \in Sessions |-> None] /\ count' = [s \in Sessions |-> None]
      /\ UNCHANGED <<sessionOf, task, consumer, outcome, late, cancelled, wire, emitted, answering,
                     admitted, delivered>>
  OBVIOUS
<1>2. /\ failed' \in BOOLEAN
      /\ future' \in [Prompts -> {"none", "open", "end", "error", "lost", "cancelled"}]
      /\ failed' => \A q \in Prompts : future'[q] # "open"
      /\ \A q \in Prompts : future'[q] \in {future[q], "lost"}
      /\ \A q \in Prompts : future[q] # "open" => future'[q] = future[q]
  <2>1. CASE UNCHANGED <<failed, future>>
    BY <2>1 DEF IInv, TypeOK, LivesAreWellFormed
  <2>2. CASE FailClosed
    BY <2>2, FailClosedShape
  <2> QED
    BY <2>1, <2>2
<1>3. TypeOK'
  <2>1. Wake \in Items
    BY NoneIsApart DEF Wake, Items
  <2>2. <<Wake>> \in Seq(Items)
    BY <2>1
  <2>3. buffer' \in [Prompts -> Seq(Items)]
    BY <2>2 DEF Signalled, IInv, TypeOK
  <2>4. callback' \in [Callbacks -> {"none", "answered"} \cup Sessions]
    BY DEF IInv, TypeOK
  <2> HIDE DEF Teardown
  <2> QED
    BY <1>1, <1>2, <2>3, <2>4 DEF IInv, TypeOK, PhaseNames
<1>4. \A q \in Prompts : consumer[q] = "idle" => buffer'[q] = <<>>
  <2> SUFFICES ASSUME NEW q \in Prompts, consumer[q] = "idle" PROVE buffer'[q] = <<>>
    OBVIOUS
  <2>1. q # None /\ buffer[q] = <<>>
    BY NoneIsApart DEF IInv, LivesAreWellFormed, TaskFits
  <2>2. \A s \in Sessions : queueOf[s] # q
    BY <2>1 DEF IInv, QueuesAreRegistered
  <2>3. buffer'[q] = Signalled(q)
    OBVIOUS
  <2> QED
    BY <2>1, <2>2, <2>3 DEF Signalled
<1> HIDE DEF Teardown
<1>5. LivesAreWellFormed'
  <2>1. ASSUME NEW q \in Prompts PROVE TaskFits(q)'
    <3>1. TaskFits(q)
      BY DEF IInv, LivesAreWellFormed
    <3> QED
      BY <1>1, <1>2, <1>4, <3>1 DEF TaskFits, Live
  <2> QED
    BY <1>1, <1>2, <2>1 DEF IInv, LivesAreWellFormed, Live
<1>6. QueuesAreRegistered'
  BY <1>1 DEF QueuesAreRegistered
<1>7. WireIsOrdered'
  BY <1>1, WireKept
<1>8. EpochsAreApart'
  <2>1. \A q \in Prompts : (Owed(q)' <=> Owed(q)) /\ (Owed(q) => sessionOf[q] \in Sessions)
    BY <1>1, OwedWereStarted DEF Owed, ResponseTo
  <2> QED
    BY <1>1, <2>1 DEF IInv, EpochsAreApart
<1>9. EvidenceIsItsOwn' /\ NothingIsLost'
  BY <1>1 DEF IInv, EvidenceIsItsOwn, NothingIsLost
<1> QED
  BY <1>3, <1>5, <1>6, <1>7, <1>8, <1>9 DEF IInv

\* A prompt that starts finds its session without a live generator.
LEMMA StartFinds ==
    ASSUME IInv, NEW p \in Prompts, NEW s \in Sessions, StartPrompt(p, s)
    PROVE  /\ ~Owed(p) /\ ~Live(p) /\ TaskFits(p) /\ consumer[p] = "idle"
           /\ \A q \in Prompts : Live(q) => sessionOf[q] # s
           /\ \A t \in Sessions : queueOf[t] # p
           /\ count[s] = None
           /\ MayStart(s) => \A q \in Prompts : Owed(q) => sessionOf[q] # s
<1>1. /\ consumer[p] = "idle" /\ ~torn
      /\ \A q \in Prompts : sessionOf[q] = s => consumer[q] = "ended"
  BY DEF StartPrompt
<1>2. ~Owed(p) /\ ~Live(p) /\ TaskFits(p)
  BY <1>1, OwedWereStarted DEF IInv, LivesAreWellFormed, Live
<1>3. \A q \in Prompts : Live(q) => sessionOf[q] # s
  BY <1>1 DEF Live
<1>4. \A t \in Sessions : queueOf[t] # p
  BY <1>1, NoneIsApart DEF IInv, QueuesAreRegistered
<1>5. count[s] = None
  BY <1>3 DEF IInv, TypeOK, QueuesAreRegistered
<1>6. MayStart(s) => \A q \in Prompts : Owed(q) => sessionOf[q] # s
  BY <1>1 DEF MayStart, IInv, EpochsAreApart
<1> QED
  BY <1>1, <1>2, <1>3, <1>4, <1>5, <1>6

\* A session that is not done with the prompt before refuses this one.
LEMMA RefusedStartPreserves ==
    ASSUME NEW p \in Prompts, NEW s \in Sessions, IInv, StartPrompt(p, s), ~MayStart(s)
    PROVE  IInv'
<1>1. /\ ~torn /\ sessionOf' = [sessionOf EXCEPT ![p] = s]
      /\ queueOf' = [queueOf EXCEPT ![s] = p] /\ consumer' = [consumer EXCEPT ![p] = "ended"]
      /\ outcome' = [outcome EXCEPT ![p] = "error"] /\ FailClosed
      /\ UNCHANGED <<torn, phase, count, task, buffer, late, cancelled, callback, wire, emitted,
                     answering, admitted, delivered>>
  BY DEF StartPrompt, childVars
<1>2. /\ sessionOf'[p] = s /\ queueOf'[s] = p /\ consumer'[p] = "ended" /\ outcome'[p] = "error"
      /\ \A q \in Prompts : q # p => UNCHANGED <<sessionOf[q], consumer[q], outcome[q]>>
      /\ \A t \in Sessions : t # s => queueOf'[t] = queueOf[t]
  BY <1>1 DEF IInv, TypeOK
<1>3. /\ ~Owed(p) /\ ~Live(p) /\ TaskFits(p) /\ consumer[p] = "idle"
      /\ \A q \in Prompts : Live(q) => sessionOf[q] # s
      /\ \A t \in Sessions : queueOf[t] # p
      /\ count[s] = None
  BY StartFinds
<1>4. /\ failed' = TRUE
      /\ future' \in [Prompts -> {"none", "open", "end", "error", "lost", "cancelled"}]
      /\ \A q \in Prompts : future'[q] # "open" /\ future'[q] \in {future[q], "lost"}
      /\ \A q \in Prompts : future[q] # "open" => future'[q] = future[q]
  BY <1>1, FailClosedShape
<1>5. TypeOK'
  BY <1>1, <1>4 DEF IInv, TypeOK
<1>6. \A q \in Prompts : /\ (Owed(q)' <=> Owed(q)) /\ (Live(q)' <=> Live(q))
                         /\ Owed(q) \/ Live(q) => q # p
  BY <1>1, <1>2, <1>3 DEF Owed, Live, ResponseTo
<1>7. LivesAreWellFormed'
  <2>1. ASSUME NEW q \in Prompts PROVE TaskFits(q)' /\ (failed' => future'[q] # "open")
    <3>1. TaskFits(q)
      BY DEF IInv, LivesAreWellFormed
    <3>2. CASE q = p
      <4>1. s # None
        BY NoneIsApart
      <4> QED
        BY <1>1, <1>2, <1>3, <1>4, <1>6, <3>2, <4>1 DEF TaskFits, Owed
    <3>3. CASE q # p
      BY <1>1, <1>2, <1>4, <1>6, <3>1, <3>3 DEF TaskFits
    <3> QED
      BY <3>2, <3>3
  <2> QED
    BY <1>2, <1>6, <2>1 DEF IInv, LivesAreWellFormed
<1>8. QueuesAreRegistered'
  <2>1. ASSUME NEW t \in Sessions, queueOf'[t] # None
        PROVE  /\ sessionOf'[queueOf'[t]] = t /\ consumer'[queueOf'[t]] \notin {"idle", "unwinding"}
    <3>1. CASE t = s
      BY <1>2, <3>1
    <3>2. CASE t # s
      BY <1>2, <1>3, <2>1, <3>2 DEF IInv, TypeOK, QueuesAreRegistered
    <3> QED
      BY <3>1, <3>2
  <2>2. ASSUME NEW t \in Sessions, count'[t] # None
        PROVE  queueOf'[t] # None /\ Live(queueOf[t])' /\ count'[t] <= CountLimit
    <3>1. t # s /\ queueOf'[t] = queueOf[t] /\ queueOf[t] # None /\ Live(queueOf[t])
          /\ count[t] <= CountLimit
      BY <1>1, <1>2, <1>3, <2>2 DEF IInv, QueuesAreRegistered
    <3>2. queueOf[t] \in Prompts
      BY <3>1 DEF IInv, TypeOK
    <3>3. Live(queueOf[t])'
      BY <1>2, <1>3, <3>1, <3>2 DEF Live
    <3> QED
      BY <1>1, <3>1, <3>3
  <2>3. ASSUME NEW q \in Prompts, Live(q)', consumer'[q] # "unwinding"
        PROVE  queueOf'[sessionOf'[q]] = q /\ count'[sessionOf'[q]] # None
    <3>1. Live(q) /\ q # p /\ sessionOf[q] # s /\ sessionOf[q] \in Sessions
      BY <1>3, <1>6, <2>3 DEF IInv, TypeOK, LivesAreWellFormed, TaskFits, Live
    <3> QED
      BY <1>1, <1>2, <2>3, <3>1 DEF IInv, QueuesAreRegistered
  <2> QED
    BY <1>4, <2>1, <2>2, <2>3 DEF QueuesAreRegistered
<1>9. WireIsOrdered'
  BY <1>1, WireKept
<1>10. EpochsAreApart'
  <2>1. \A q \in Prompts : Owed(q) => sessionOf'[q] = sessionOf[q] /\ sessionOf[q] \in Sessions
    BY <1>2, <1>6, OwedWereStarted
  <2>2. \A q \in Prompts : Live(q) => sessionOf'[q] = sessionOf[q]
    BY <1>2, <1>6
  <2>3. \A t \in Sessions : count[t] # None => queueOf'[t] = queueOf[t]
    BY <1>2, <1>3
  <2> QED
    BY <1>1, <1>4, <1>6, <2>1, <2>2, <2>3 DEF IInv, EpochsAreApart
<1>11. EvidenceIsItsOwn'
  BY <1>1 DEF IInv, EvidenceIsItsOwn
<1>12. NothingIsLost'
  <2> SUFFICES ASSUME NEW q \in Prompts PROVE FlowIsWhole(q)'
    BY DEF NothingIsLost
  <2>1. FlowIsWhole(q)
    BY <1>1 DEF IInv, NothingIsLost
  <2>2. \A t \in Sessions : count[t] # None => queueOf'[t] = queueOf[t]
    BY <1>2, <1>3
  <2>3. CASE q = p
    BY <1>1, <1>2, <2>1, <2>2, <2>3 DEF FlowIsWhole
  <2>4. CASE q # p
    BY <1>1, <1>2, <1>4, <2>1, <2>2, <2>4 DEF FlowIsWhole
  <2> QED
    BY <2>3, <2>4
<1> QED
  BY <1>5, <1>7, <1>8, <1>9, <1>10, <1>11, <1>12 DEF IInv

\* A session that is done with the prompt before opens a new epoch.
LEMMA AcceptedStartPreserves ==
    ASSUME NEW p \in Prompts, NEW s \in Sessions, IInv, StartPrompt(p, s), MayStart(s)
    PROVE  IInv'
<1>1. /\ ~torn /\ sessionOf' = [sessionOf EXCEPT ![p] = s]
      /\ queueOf' = [queueOf EXCEPT ![s] = p] /\ consumer' = [consumer EXCEPT ![p] = "loop"]
      /\ phase' = [phase EXCEPT ![s] = "preparing"] /\ count' = [count EXCEPT ![s] = 0]
      /\ task' = [task EXCEPT ![p] = "created"]
      /\ UNCHANGED <<failed, future, outcome, torn, buffer, late, cancelled, callback, wire, emitted,
                     answering, admitted, delivered>>
  BY DEF StartPrompt, childVars
<1>2. /\ sessionOf'[p] = s /\ queueOf'[s] = p /\ consumer'[p] = "loop" /\ task'[p] = "created"
      /\ phase'[s] = "preparing" /\ count'[s] = 0
      /\ \A q \in Prompts : q # p => UNCHANGED <<sessionOf[q], consumer[q], task[q]>>
      /\ \A t \in Sessions : t # s => UNCHANGED <<queueOf[t], phase[t], count[t]>>
  BY <1>1 DEF IInv, TypeOK
<1>3. /\ ~Owed(p) /\ ~Live(p) /\ TaskFits(p) /\ consumer[p] = "idle"
      /\ \A q \in Prompts : Live(q) => sessionOf[q] # s
      /\ \A t \in Sessions : queueOf[t] # p
      /\ \A q \in Prompts : Owed(q) => sessionOf[q] # s
  BY StartFinds
<1>4. TypeOK'
  <2>1. consumer' \in [Prompts -> {"idle", "closing", "unwinding", "ended"} \cup Suspended]
    BY <1>1 DEF IInv, TypeOK, Suspended
  <2>2. /\ phase' \in [Sessions -> PhaseNames] /\ count' \in [Sessions -> Nat \cup {None}]
        /\ task' \in [Prompts -> {"none", "created", "draining", "waiting", "done"}]
        /\ sessionOf' \in [Prompts -> Sessions \cup {None}]
        /\ queueOf' \in [Sessions -> Prompts \cup {None}]
    BY <1>1 DEF IInv, TypeOK, PhaseNames
  <2> QED
    BY <1>1, <2>1, <2>2 DEF IInv, TypeOK
<1>5. \A q \in Prompts : /\ (Owed(q)' <=> Owed(q) \/ q = p) /\ (Live(q)' <=> Live(q) \/ q = p)
                         /\ Owed(q) \/ Live(q) => q # p
  BY <1>1, <1>2, <1>3 DEF Owed, Live, ResponseTo
<1>6. LivesAreWellFormed'
  <2>1. ASSUME NEW q \in Prompts PROVE TaskFits(q)' /\ (failed' => future'[q] # "open")
    <3>1. TaskFits(q) /\ (failed => future[q] # "open")
      BY DEF IInv, LivesAreWellFormed
    <3>2. CASE q = p
      <4>1. s # None
        BY NoneIsApart
      <4> QED
        BY <1>1, <1>2, <1>3, <1>5, <3>1, <3>2, <4>1 DEF TaskFits, Owed
    <3>3. CASE q # p
      BY <1>1, <1>2, <1>5, <3>1, <3>3 DEF TaskFits
    <3> QED
      BY <3>2, <3>3
  <2>2. ASSUME NEW q \in Prompts, NEW r \in Prompts, Live(q)', Live(r)', sessionOf'[q] = sessionOf'[r]
        PROVE  q = r
    BY <1>2, <1>3, <1>5, <2>2 DEF IInv, LivesAreWellFormed
  <2> QED
    BY <2>1, <2>2 DEF LivesAreWellFormed
<1>7. QueuesAreRegistered'
  <2>1. ASSUME NEW t \in Sessions, queueOf'[t] # None
        PROVE  /\ sessionOf'[queueOf'[t]] = t /\ consumer'[queueOf'[t]] \notin {"idle", "unwinding"}
               /\ ~failed' => consumer'[queueOf'[t]] # "ended"
    <3>1. CASE t = s
      BY <1>2, <3>1
    <3>2. CASE t # s
      BY <1>1, <1>2, <1>3, <2>1, <3>2 DEF IInv, TypeOK, QueuesAreRegistered
    <3> QED
      BY <3>1, <3>2
  <2>2. ASSUME NEW t \in Sessions, count'[t] # None
        PROVE  /\ queueOf'[t] # None /\ count'[t] <= CountLimit
               /\ consumer'[queueOf'[t]] \notin {"idle", "ended"}
    <3>1. CASE t = s
      BY <1>2, <3>1, NoneIsApart
    <3>2. CASE t # s
      <4>1. queueOf[t] # None /\ Live(queueOf[t]) /\ count[t] <= CountLimit
            /\ queueOf'[t] = queueOf[t] /\ count'[t] = count[t]
        BY <1>2, <2>2, <3>2 DEF IInv, QueuesAreRegistered
      <4>2. queueOf[t] \in Prompts /\ queueOf[t] # p
        BY <1>3, <4>1 DEF IInv, TypeOK
      <4> QED
        BY <1>2, <4>1, <4>2 DEF Live
    <3> QED
      BY <3>1, <3>2
  <2>3. ASSUME NEW q \in Prompts, Live(q)', consumer'[q] # "unwinding"
        PROVE  queueOf'[sessionOf'[q]] = q /\ count'[sessionOf'[q]] # None
    <3>1. CASE q = p
      BY <1>2, <3>1, NoneIsApart
    <3>2. CASE q # p
      <4>1. Live(q) /\ sessionOf[q] # s /\ sessionOf[q] \in Sessions
        BY <1>3, <1>5, <2>3, <3>2 DEF IInv, TypeOK, LivesAreWellFormed, TaskFits, Live
      <4> QED
        BY <1>1, <1>2, <2>3, <3>2, <4>1 DEF IInv, QueuesAreRegistered
    <3> QED
      BY <3>1, <3>2
  <2> QED
    BY <2>1, <2>2, <2>3 DEF QueuesAreRegistered, Live
<1>8. WireIsOrdered'
  <2>1. task[p] = "none"
    BY <1>3 DEF TaskFits
  <2>2. \A q \in Prompts : task[q] \in {"waiting", "done"} => task'[q] \in {"waiting", "done"}
    BY <1>2, <2>1
  <2> QED
    BY <1>1, <2>2, WireKept
<1>9. EpochsAreApart'
  <2>1. \A q \in Prompts : Owed(q) => /\ sessionOf'[q] = sessionOf[q] /\ sessionOf[q] \in Sessions
                                      /\ sessionOf[q] # s
    BY <1>2, <1>3, <1>5, OwedWereStarted
  <2>2. \A q \in Prompts : Live(q) => /\ sessionOf'[q] = sessionOf[q] /\ sessionOf[q] \in Sessions
                                      /\ sessionOf[q] # s
    BY <1>2, <1>3, <1>5 DEF IInv, TypeOK, LivesAreWellFormed, TaskFits, Live
  <2>3. future[p] = "none"
    BY <1>3 DEF TaskFits
  <2> QED
    BY <1>1, <1>2, <1>5, <2>1, <2>2, <2>3 DEF IInv, EpochsAreApart
<1>10. EvidenceIsItsOwn'
  BY <1>1 DEF IInv, EvidenceIsItsOwn
<1>11. NothingIsLost'
  <2> SUFFICES ASSUME NEW q \in Prompts PROVE FlowIsWhole(q)'
    BY DEF NothingIsLost
  <2>1. FlowIsWhole(q)
    BY <1>1 DEF IInv, NothingIsLost
  <2>2. CASE q = p
    <3>1. delivered[q] = <<>> /\ buffer[q] = <<>> /\ admitted[q] = <<>>
      BY <1>3, <2>2 DEF TaskFits
    <3>2. delivered[q] \o buffer[q] = admitted[q] /\ Len(buffer[q]) = 0
      BY <3>1, ConcatEmptySeq, EmptySeq
    <3>3. outcome'[q] # "done" /\ consumer'[q] = "loop"
      BY <1>1, <1>2, <1>3, <2>1, <2>2 DEF FlowIsWhole
    <3>4. \A t \in Sessions : queueOf'[t] = q => count'[t] = 0
      BY <1>2, <1>3, <2>2
    <3>5. UNCHANGED <<delivered[q], buffer[q], admitted[q]>>
      BY <1>1
    <3>6. \A t \in Sessions : queueOf'[t] = q => Len(buffer'[q]) <= count'[t]
      BY <3>2, <3>4, <3>5
    <3>7. delivered'[q] \o buffer'[q] = admitted'[q]
      BY <3>2, <3>5
    <3> QED
      BY <3>3, <3>6, <3>7 DEF FlowIsWhole
  <2>3. CASE q # p
    <3>1. \A t \in Sessions :
            queueOf'[t] = q => UNCHANGED <<queueOf[t], count[t], phase[t]>>
      BY <1>2, <2>3
    <3>2. UNCHANGED <<consumer[q], task[q], future[q], outcome[q], buffer[q], delivered[q], admitted[q]>>
      BY <1>1, <1>2, <2>3
    <3> QED
      BY <2>1, <3>1, <3>2 DEF FlowIsWhole
  <2> QED
    BY <2>2, <2>3
<1> QED
  BY <1>4, <1>6, <1>7, <1>8, <1>9, <1>10, <1>11 DEF IInv

-----------------------------------------------------------------------------
(* The child writes                                                        *)

LEMMA WireGrows ==
    ASSUME IInv, NEW m \in Messages, wire' = Append(wire, m)
    PROVE  /\ Len(wire) \in Nat /\ DOMAIN wire = 1..Len(wire) /\ wire' \in Seq(Messages)
           /\ DOMAIN wire' = 1..Len(wire) + 1
           /\ \A i \in 1..Len(wire) : wire'[i] = wire[i]
           /\ wire'[Len(wire) + 1] = m
<1>1. wire \in Seq(Messages)
  BY DEF IInv, TypeOK
<1>2. /\ wire' \in Seq(Messages) /\ Len(wire') = Len(wire) + 1
      /\ \A i \in 1..Len(wire) : wire'[i] = wire[i]
      /\ wire'[Len(wire) + 1] = m
  BY <1>1, AppendProperties
<1>3. Len(wire) \in Nat /\ DOMAIN wire = 1..Len(wire) /\ DOMAIN wire' = 1..Len(wire')
  BY <1>1, <1>2, LenProperties
<1> QED
  BY <1>2, <1>3

\* A line of the child changes neither what is owed nor where evidence goes.
LEMMA WritingPreserves ==
    ASSUME IInv, TypeOK', WireIsOrdered', answering' \subseteq answering,
           UNCHANGED <<failed, torn, clientVars, sessionOf, buffer, taskVars, consumer, outcome,
                       admitted, delivered>>,
           \A p \in Prompts : Owed(p)' <=> Owed(p)
    PROVE  IInv'
<1> USE DEF clientVars, taskVars
<1>1. \A p \in Prompts : Live(p)' <=> Live(p)
  BY DEF Live
<1>2. LivesAreWellFormed'
  <2>1. ASSUME NEW p \in Prompts PROVE TaskFits(p)'
    BY <1>1 DEF IInv, LivesAreWellFormed, TaskFits
  <2> QED
    BY <1>1, <2>1 DEF IInv, LivesAreWellFormed
<1>3. QueuesAreRegistered'
  BY <1>1 DEF IInv, TypeOK, QueuesAreRegistered, Live
<1>4. EpochsAreApart'
  BY <1>1 DEF IInv, EpochsAreApart
<1>5. EvidenceIsItsOwn' /\ NothingIsLost'
  BY DEF IInv, EvidenceIsItsOwn, NothingIsLost, FlowIsWhole
<1> QED
  BY <1>2, <1>3, <1>4, <1>5 DEF IInv

LEMMA ChildWritesPreserves == ASSUME NEW p \in Prompts, IInv, ChildWrites(p) PROVE IInv'
<1> USE DEF ChildWrites, Write, genVars
<1>1. /\ p \in answering /\ emitted[p] < MaxEmitted /\ UNCHANGED answering
      /\ emitted' = [emitted EXCEPT ![p] = @ + 1]
      /\ emitted'[p] \in 1..MaxEmitted /\ emitted' \in [Prompts -> 0..MaxEmitted]
  BY NoneIsApart DEF IInv, TypeOK
<1>2. PICK m \in Messages : wire' = Append(wire, m) /\ m.kind # "response" /\ m.prompt = p
  <2>1. CASE \E kind \in {"update", "state"} :
               Write([kind |-> kind, prompt |-> p, line |-> emitted'[p]])
    BY <1>1, <2>1 DEF Messages
  <2>2. CASE \E k \in Callbacks :
               Write([kind |-> "callback", prompt |-> p, line |-> emitted'[p], id |-> k])
    BY <1>1, <2>2 DEF Messages
  <2> QED
    BY <2>1, <2>2
<1>3. UNCHANGED <<failed, torn, clientVars, sessionOf, buffer, taskVars, genVars, callback,
                  admitted, delivered>>
  OBVIOUS
<1> HIDE DEF ChildWrites, Write
<1>4. /\ Len(wire) \in Nat /\ DOMAIN wire = 1..Len(wire) /\ wire' \in Seq(Messages)
      /\ DOMAIN wire' = 1..Len(wire) + 1
      /\ \A i \in 1..Len(wire) : wire'[i] = wire[i]
      /\ wire'[Len(wire) + 1] = m
  BY <1>2, WireGrows
<1>5. TypeOK'
  BY <1>1, <1>3, <1>4 DEF IInv, TypeOK, clientVars, taskVars
<1>6. \A q \in Prompts : Owed(q)' <=> Owed(q)
  BY <1>1, <1>2, <1>3, <1>4 DEF Owed, ResponseTo, taskVars
<1>7. WireIsOrdered'
  <2> SUFFICES ASSUME NEW i \in 1..Len(wire) + 1
               PROVE  /\ wire'[i].kind # "response" =>
                           \/ wire'[i].prompt \in answering
                           \/ \E j \in 1..Len(wire) + 1 : j > i /\ ResponseTo(wire'[j], wire'[i].prompt)
                      /\ wire'[i].kind = "response" =>
                           /\ wire'[i].prompt \notin answering
                           /\ task[wire'[i].prompt] \in {"waiting", "done"}
                           /\ \A j \in 1..Len(wire) + 1 : ResponseTo(wire'[j], wire'[i].prompt) => j = i
    BY <1>1, <1>3, <1>4 DEF WireIsOrdered, ResponseTo, taskVars
  <2>1. CASE i = Len(wire) + 1
    BY <1>1, <1>2, <1>4, <2>1
  <2>2. CASE i \in 1..Len(wire)
    BY <1>2, <1>4, <2>2 DEF IInv, WireIsOrdered, ResponseTo
  <2> QED
    BY <1>4, <2>1, <2>2
<1> QED
  BY <1>1, <1>3, <1>5, <1>6, <1>7, WritingPreserves

LEMMA ChildAnswersPreserves == ASSUME NEW p \in Prompts, IInv, ChildAnswers(p) PROVE IInv'
<1> USE DEF ChildAnswers, Write, genVars
<1>1. p \in answering /\ answering' = answering \ {p} /\ UNCHANGED emitted
  OBVIOUS
<1>2. PICK m \in Messages : wire' = Append(wire, m) /\ ResponseTo(m, p)
  BY DEF Messages, ResponseTo
<1>3. UNCHANGED <<failed, torn, clientVars, sessionOf, buffer, taskVars, genVars, callback,
                  admitted, delivered>>
  OBVIOUS
<1> HIDE DEF ChildAnswers, Write
<1>4. /\ Len(wire) \in Nat /\ DOMAIN wire = 1..Len(wire) /\ wire' \in Seq(Messages)
      /\ DOMAIN wire' = 1..Len(wire) + 1
      /\ \A i \in 1..Len(wire) : wire'[i] = wire[i]
      /\ wire'[Len(wire) + 1] = m
  BY <1>2, WireGrows
<1>5. TypeOK'
  BY <1>1, <1>3, <1>4 DEF IInv, TypeOK, clientVars, taskVars
<1>6. \A q \in Prompts : Owed(q)' <=> Owed(q)
  BY <1>1, <1>2, <1>3, <1>4 DEF Owed, ResponseTo, taskVars
<1>7. WireIsOrdered'
  <2> SUFFICES ASSUME NEW i \in 1..Len(wire) + 1
               PROVE  /\ wire'[i].kind # "response" =>
                           \/ wire'[i].prompt \in answering'
                           \/ \E j \in 1..Len(wire) + 1 : j > i /\ ResponseTo(wire'[j], wire'[i].prompt)
                      /\ wire'[i].kind = "response" =>
                           /\ wire'[i].prompt \notin answering'
                           /\ task[wire'[i].prompt] \in {"waiting", "done"}
                           /\ \A j \in 1..Len(wire) + 1 : ResponseTo(wire'[j], wire'[i].prompt) => j = i
    BY <1>1, <1>3, <1>4 DEF WireIsOrdered, ResponseTo, taskVars
  <2>1. task[p] \in {"waiting", "done"} /\ \A j \in 1..Len(wire) : ~ResponseTo(wire[j], p)
    BY <1>1, <1>4 DEF IInv, WireIsOrdered, LivesAreWellFormed, TaskFits, ResponseTo
  <2>2. CASE i = Len(wire) + 1
    BY <1>1, <1>2, <1>4, <2>1, <2>2 DEF ResponseTo
  <2>3. CASE i \in 1..Len(wire)
    <3>1. wire'[i] = wire[i] /\ Len(wire) + 1 \in 1..Len(wire) + 1 /\ Len(wire) + 1 > i
      BY <1>4, <2>3
    <3>2. ASSUME wire[i].kind # "response"
          PROVE  \/ wire[i].prompt \in answering'
                 \/ \E j \in 1..Len(wire) + 1 : j > i /\ ResponseTo(wire'[j], wire[i].prompt)
      BY <1>1, <1>2, <1>4, <2>3, <3>1, <3>2 DEF IInv, WireIsOrdered, ResponseTo
    <3>3. ASSUME wire[i].kind = "response"
          PROVE  /\ wire[i].prompt # p /\ wire[i].prompt \notin answering
                 /\ task[wire[i].prompt] \in {"waiting", "done"}
                 /\ \A j \in 1..Len(wire) : ResponseTo(wire[j], wire[i].prompt) => j = i
      BY <1>1, <1>4, <2>3, <3>3 DEF IInv, WireIsOrdered, ResponseTo
    <3> QED
      BY <1>1, <1>2, <1>4, <3>1, <3>2, <3>3 DEF ResponseTo
  <2> QED
    BY <1>4, <2>2, <2>3
<1> QED
  BY <1>1, <1>3, <1>5, <1>6, <1>7, WritingPreserves

-----------------------------------------------------------------------------
(* The reader                                                              *)

LEMMA QueuedBehind ==
    ASSUME NEW S, NEW d \in Seq(S), NEW b \in Seq(S), NEW e \in S
    PROVE  d \o Append(b, e) = Append(d \o b, e)
<1>1. /\ Append(b, e) = b \o <<e>> /\ <<e>> \in Seq(S)
      /\ d \o b \in Seq(S)
  BY AppendIsConcat, ConcatProperties
<1>2. Append(d \o b, e) = (d \o b) \o <<e>>
  BY <1>1, AppendIsConcat
<1> QED
  BY <1>1, <1>2, ConcatAssociative

\* Reading a line leaves the wire in order, and ends a debt only if the line is
\* the response.
LEMMA LineIsRead ==
    ASSUME IInv, wire # <<>>, wire' = Tail(wire), UNCHANGED <<answering, task>>
    PROVE  /\ Head(wire) \in Messages /\ Head(wire).prompt \in Prompts
           /\ Owed(Head(wire).prompt) /\ sessionOf[Head(wire).prompt] \in Sessions
           /\ wire' \in Seq(Messages) /\ WireIsOrdered'
           /\ \A p \in Prompts :
                /\ Owed(p)' => Owed(p)
                /\ Owed(p) => Owed(p)' \/ ResponseTo(Head(wire), p)
                /\ ResponseTo(Head(wire), p) => ~Owed(p)' /\ task[p] \in {"waiting", "done"}
<1>1. /\ wire \in Seq(Messages) /\ Len(wire) \in Nat /\ Len(wire) > 0
      /\ DOMAIN wire = 1..Len(wire) /\ Head(wire) = wire[1]
  BY EmptySeq, LenProperties DEF IInv, TypeOK
<1>2. /\ wire' \in Seq(Messages) /\ Len(wire') = Len(wire) - 1
      /\ \A i \in 1..Len(wire') : wire'[i] = wire[i + 1]
  BY <1>1, HeadTailProperties
<1>3. DOMAIN wire' = 1..Len(wire) - 1 /\ \A i \in 1..Len(wire) - 1 : wire'[i] = wire[i + 1]
  BY <1>2, LenProperties
<1>4. 1 \in DOMAIN wire
  BY <1>1
<1>5. Head(wire) \in Messages /\ Head(wire).prompt \in Prompts /\ Owed(Head(wire).prompt)
  BY <1>1, <1>4, WireNamesOwed
<1>6. \A p \in Prompts : ResponseTo(wire[1], p) =>
        /\ p \notin answering /\ task[p] \in {"waiting", "done"}
        /\ \A j \in 1..Len(wire) : ResponseTo(wire[j], p) => j = 1
  BY <1>1, <1>4 DEF IInv, WireIsOrdered, ResponseTo
<1>7. ASSUME NEW p \in Prompts
      PROVE  (\E i \in DOMAIN wire' : ResponseTo(wire'[i], p)) <=>
             (\E i \in 2..Len(wire) : ResponseTo(wire[i], p))
  <2>1. ASSUME NEW i \in DOMAIN wire', ResponseTo(wire'[i], p)
        PROVE  i + 1 \in 2..Len(wire) /\ ResponseTo(wire[i + 1], p)
    BY <1>1, <1>3, <2>1
  <2>2. ASSUME NEW i \in 2..Len(wire), ResponseTo(wire[i], p)
        PROVE  i - 1 \in DOMAIN wire' /\ ResponseTo(wire'[i - 1], p)
    <3>1. i - 1 \in 1..Len(wire) - 1 /\ (i - 1) + 1 = i
      BY <1>1, <2>2
    <3>2. wire'[i - 1] = wire[(i - 1) + 1]
      BY <1>3, <3>1
    <3> QED
      BY <1>3, <2>2, <3>1, <3>2
  <2> QED
    BY <2>1, <2>2
<1>8. ASSUME NEW p \in Prompts
      PROVE  /\ Owed(p)' => Owed(p)
             /\ Owed(p) => Owed(p)' \/ ResponseTo(Head(wire), p)
             /\ ResponseTo(Head(wire), p) => ~Owed(p)' /\ task[p] \in {"waiting", "done"}
  <2>1. Owed(p)' <=> \/ task[p] \in {"created", "draining"} \/ p \in answering
                     \/ \E i \in 2..Len(wire) : ResponseTo(wire[i], p)
    BY <1>7 DEF Owed, ResponseTo
  <2>2. Owed(p) <=> \/ task[p] \in {"created", "draining"} \/ p \in answering
                    \/ \E i \in 1..Len(wire) : ResponseTo(wire[i], p)
    BY <1>1 DEF Owed
  <2>3. \A i \in 1..Len(wire) : i = 1 \/ i \in 2..Len(wire)
    BY <1>1
  <2>4. \A i \in 2..Len(wire) : i \in 1..Len(wire) /\ i # 1
    BY <1>1
  <2> QED
    BY <1>1, <1>6, <2>1, <2>2, <2>3, <2>4
<1>9. WireIsOrdered'
  <2> SUFFICES ASSUME NEW i \in DOMAIN wire'
               PROVE  /\ wire'[i].kind # "response" =>
                           \/ wire'[i].prompt \in answering
                           \/ \E j \in DOMAIN wire' : j > i /\ ResponseTo(wire'[j], wire'[i].prompt)
                      /\ wire'[i].kind = "response" =>
                           /\ wire'[i].prompt \notin answering
                           /\ task[wire'[i].prompt] \in {"waiting", "done"}
                           /\ \A j \in DOMAIN wire' : ResponseTo(wire'[j], wire'[i].prompt) => j = i
    BY Zenon DEF WireIsOrdered, ResponseTo
  <2>0. DOMAIN wire' = 1..Len(wire) - 1
    BY <1>3
  <2>1. i + 1 \in DOMAIN wire /\ wire'[i] = wire[i + 1]
    BY <1>1, <1>3
  <2>2. ASSUME wire[i + 1].kind # "response", wire[i + 1].prompt \notin answering
        PROVE  \E j \in DOMAIN wire' : j > i /\ ResponseTo(wire'[j], wire[i + 1].prompt)
    <3>1. PICK j \in DOMAIN wire : j > i + 1 /\ ResponseTo(wire[j], wire[i + 1].prompt)
      BY <2>1, <2>2 DEF IInv, WireIsOrdered
    <3>2. j - 1 \in 1..Len(wire) - 1 /\ j - 1 > i /\ (j - 1) + 1 = j
      BY <1>1, <3>1
    <3>3. wire'[j - 1] = wire[(j - 1) + 1]
      BY <1>3, <3>2
    <3> QED
      BY <2>0, <3>1, <3>2, <3>3
  <2>3. ASSUME wire[i + 1].kind = "response"
        PROVE  /\ wire[i + 1].prompt \notin answering
               /\ task[wire[i + 1].prompt] \in {"waiting", "done"}
               /\ \A j \in DOMAIN wire' : ResponseTo(wire'[j], wire[i + 1].prompt) => j = i
    <3>1. ASSUME NEW j \in DOMAIN wire', ResponseTo(wire'[j], wire[i + 1].prompt) PROVE j = i
      <4>1. j + 1 \in DOMAIN wire /\ ResponseTo(wire[j + 1], wire[i + 1].prompt)
        BY <1>1, <1>3, <3>1
      <4>2. j + 1 = i + 1
        BY <2>1, <2>3, <4>1 DEF IInv, WireIsOrdered
      <4> QED
        BY <4>2
    <3> QED
      BY <2>1, <2>3, <3>1 DEF IInv, WireIsOrdered
  <2> QED
    BY <2>1, <2>2, <2>3
<1> QED
  BY <1>2, <1>5, <1>8, <1>9, OwedWereStarted

\* A line that admits nothing: discarded, or the loss of continuity.
LEMMA DroppedLinePreserves ==
    ASSUME IInv, TypeOK', ~torn, wire # <<>>, wire' = Tail(wire),
           UNCHANGED <<torn, clientVars, sessionOf, buffer, task, consumer, outcome, answering,
                       admitted, delivered>>,
           \/ FailClosed
           \/ UNCHANGED <<failed, future>> /\ Head(wire).kind # "response"
    PROVE  IInv'
<1> USE DEF clientVars
<1>1. /\ failed => failed'
      /\ failed' => \A q \in Prompts : future'[q] # "open"
      /\ \A q \in Prompts : future'[q] \in {future[q], "lost"}
      /\ \A q \in Prompts : future[q] # "open" => future'[q] = future[q]
      /\ \A q \in Prompts : future'[q] = "open" => Owed(q) /\ Head(wire).kind # "response"
  <2>1. CASE FailClosed
    BY <2>1, FailClosedShape
  <2>2. CASE UNCHANGED <<failed, future>> /\ Head(wire).kind # "response"
    BY <2>2 DEF IInv, LivesAreWellFormed, EpochsAreApart
  <2> QED
    BY <2>1, <2>2
<1>2. /\ WireIsOrdered'
      /\ \A q \in Prompts : /\ Owed(q)' => Owed(q)
                            /\ Owed(q) => Owed(q)' \/ ResponseTo(Head(wire), q)
  BY LineIsRead
<1>3. \A q \in Prompts : Live(q)' <=> Live(q)
  BY DEF Live
<1>4. LivesAreWellFormed'
  <2>1. ASSUME NEW q \in Prompts PROVE TaskFits(q)' /\ (failed' => future'[q] # "open")
    <3>1. TaskFits(q)
      BY DEF IInv, LivesAreWellFormed
    <3> QED
      BY <1>1, <1>3, <3>1 DEF TaskFits
  <2> QED
    BY <1>3, <2>1 DEF IInv, LivesAreWellFormed
<1>5. QueuesAreRegistered'
  BY <1>1, <1>3 DEF IInv, TypeOK, QueuesAreRegistered, Live
<1>6. \A q \in Prompts : future'[q] = "open" => Owed(q)'
  BY <1>1, <1>2 DEF ResponseTo
<1>7. EpochsAreApart'
  BY <1>1, <1>2, <1>3, <1>6, EpochsKept DEF NoFutureResolves
<1>8. EvidenceIsItsOwn'
  BY DEF IInv, EvidenceIsItsOwn
<1>9. NothingIsLost'
  BY <1>1 DEF IInv, NothingIsLost, FlowIsWhole
<1> QED
  BY <1>2, <1>4, <1>5, <1>7, <1>8, <1>9 DEF IInv

\* A line of evidence is queued, in the queue of the prompt it was written for.
LEMMA QueuedLinePreserves ==
    ASSUME IInv, TypeOK', ~torn, wire # <<>>, wire' = Tail(wire),
           NEW p \in Prompts, NEW s \in Sessions,
           Head(wire).kind # "response", Head(wire).prompt = p, sessionOf[p] = s,
           UNCHANGED <<failed, torn, phase, queueOf, sessionOf, taskVars, consumer, outcome,
                       answering, delivered>>,
           phase[s] = "active", count[s] # None, count[s] < CountLimit,
           count' = [count EXCEPT ![s] = @ + 1],
           NEW item \in Items, item.prompt = p,
           buffer' = [buffer EXCEPT ![queueOf[s]] = Append(@, item)],
           admitted' = [admitted EXCEPT ![queueOf[s]] = Append(@, item)]
    PROVE  IInv'
<1> USE DEF taskVars
<1>1. /\ WireIsOrdered' /\ Owed(p)
      /\ \A q \in Prompts : Owed(q)' <=> Owed(q)
  BY LineIsRead DEF ResponseTo
<1>2. queueOf[s] = p /\ Live(p)
  BY <1>1 DEF IInv, EpochsAreApart, QueuesAreRegistered
<1>3. /\ count[s] \in Nat /\ count'[s] = count[s] + 1 /\ count'[s] <= CountLimit /\ count'[s] # None
      /\ \A t \in Sessions : t # s => count'[t] = count[t]
  <2>1. count \in [Sessions -> Nat \cup {None}]
    BY DEF IInv, TypeOK
  <2>2. count[s] \in Nat
    BY <2>1
  <2>3. count'[s] = count[s] + 1 /\ \A t \in Sessions : t # s => count'[t] = count[t]
    BY <2>1
  <2>4. count[s] + 1 \in Nat /\ count[s] + 1 <= CountLimit
    BY <2>2, NoneIsApart
  <2> QED
    BY <2>2, <2>3, <2>4, NoneIsApart
<1>4. /\ buffer'[p] = Append(buffer[p], item) /\ admitted'[p] = Append(admitted[p], item)
      /\ \A q \in Prompts : q # p => UNCHANGED <<buffer[q], admitted[q]>>
      /\ buffer[p] \in Seq(Items) /\ admitted[p] \in Seq(Items) /\ delivered[p] \in Seq(Items)
  BY <1>2 DEF IInv, TypeOK
<1>5. \A q \in Prompts : Live(q)' <=> Live(q)
  BY DEF Live
<1>6. LivesAreWellFormed'
  <2>1. ASSUME NEW q \in Prompts PROVE TaskFits(q)' /\ (failed' => future'[q] # "open")
    <3>1. TaskFits(q) /\ (failed => future[q] # "open")
      BY DEF IInv, LivesAreWellFormed
    <3>2. consumer[q] = "idle" => UNCHANGED <<buffer[q], admitted[q]>>
      BY <1>2, <1>4 DEF Live
    <3> QED
      BY <1>5, <3>1, <3>2 DEF TaskFits
  <2> QED
    BY <1>5, <2>1 DEF IInv, LivesAreWellFormed
<1>7. QueuesAreRegistered'
  <2>1. ASSUME NEW t \in Sessions, count'[t] # None
        PROVE  queueOf[t] # None /\ Live(queueOf[t]) /\ count'[t] <= CountLimit
    <3>1. count[t] # None
      BY <1>3, <2>1
    <3> QED
      BY <1>3, <3>1 DEF IInv, QueuesAreRegistered
  <2>2. ASSUME NEW t \in Sessions, count[t] # None PROVE count'[t] # None
    BY <1>3, <2>2
  <2>3. \A q \in Prompts : Live(q) => sessionOf[q] \in Sessions
    BY DEF IInv, TypeOK, LivesAreWellFormed, TaskFits, Live
  <2> QED
    BY <2>1, <2>2, <2>3 DEF IInv, QueuesAreRegistered, Live
<1>8. EpochsAreApart'
  <2>1. \A q \in Prompts : Owed(q) => sessionOf[q] \in Sessions
    BY OwedWereStarted
  <2>2. \A t \in Sessions : count'[t] # None => count[t] # None
    BY <1>3
  <2> QED
    BY <1>1, <1>5, <2>1, <2>2 DEF IInv, EpochsAreApart
<1>9. EvidenceIsItsOwn'
  <2> SUFFICES ASSUME NEW q \in Prompts, NEW i \in DOMAIN admitted'[q]
               PROVE  admitted'[q][i].prompt = q
    BY DEF EvidenceIsItsOwn
  <2>1. CASE q # p
    BY <1>4, <2>1 DEF IInv, EvidenceIsItsOwn
  <2>2. CASE q = p
    <3>1. /\ i \in 1..Len(admitted[p]) + 1 /\ Len(admitted[p]) \in Nat
          /\ DOMAIN admitted[p] = 1..Len(admitted[p])
          /\ \A j \in 1..Len(admitted[p]) : admitted'[p][j] = admitted[p][j]
          /\ admitted'[p][Len(admitted[p]) + 1] = item
      <4>1. Append(admitted[p], item) \in Seq(Items)
            /\ Len(Append(admitted[p], item)) = Len(admitted[p]) + 1
        BY <1>4, AppendProperties
      <4> QED
        BY <1>4, <2>2, <4>1, AppendProperties, LenProperties
    <3>2. CASE i = Len(admitted[p]) + 1
      BY <2>2, <3>1, <3>2
    <3>3. CASE i \in 1..Len(admitted[p])
      BY <2>2, <3>1, <3>3 DEF IInv, EvidenceIsItsOwn
    <3> QED
      BY <3>1, <3>2, <3>3
  <2> QED
    BY <2>1, <2>2
<1>10. NothingIsLost'
  <2> SUFFICES ASSUME NEW q \in Prompts PROVE FlowIsWhole(q)'
    BY DEF NothingIsLost
  <2>1. FlowIsWhole(q)
    BY DEF IInv, NothingIsLost
  <2>2. \A t \in Sessions : queueOf[t] = p => t = s
    BY <1>2, NoneIsApart DEF IInv, QueuesAreRegistered
  <2>3. CASE q # p
    <3>1. \A t \in Sessions : queueOf[t] = q => count'[t] = count[t]
      BY <1>2, <1>3, <2>3
    <3>2. UNCHANGED <<buffer[q], admitted[q], delivered[q]>>
      BY <1>4, <2>3
    <3> QED
      BY <2>1, <3>1, <3>2 DEF FlowIsWhole
  <2>4. CASE q = p
    <3>1. delivered[q] \o buffer[q] = admitted[q] /\ Len(buffer[q]) <= count[s]
      BY <1>2, <2>1, <2>4 DEF FlowIsWhole
    <3>2. /\ delivered[q] \o Append(buffer[q], item) = Append(delivered[q] \o buffer[q], item)
          /\ Len(Append(buffer[q], item)) = Len(buffer[q]) + 1 /\ Len(buffer[q]) \in Nat
      <4> DEFINE d == delivered[p]
      <4> DEFINE b == buffer[p]
      <4>1. d \in Seq(Items) /\ b \in Seq(Items) /\ d = delivered[q] /\ b = buffer[q]
        BY <1>4, <2>4
      <4> HIDE DEF d, b
      <4>2. ASSUME NEW x \in Seq(Items), NEW y \in Seq(Items)
            PROVE  x \o Append(y, item) = Append(x \o y, item)
        BY QueuedBehind
      <4>3. Len(Append(b, item)) = Len(b) + 1 /\ Len(b) \in Nat
        BY <4>1, AppendProperties, LenProperties
      <4> QED
        BY <4>1, <4>2, <4>3
    <3>3. delivered'[q] \o buffer'[q] = admitted'[q]
      BY <1>4, <2>4, <3>1, <3>2
    <3>4. Len(buffer'[q]) <= count'[s]
      BY <1>3, <1>4, <2>4, <3>1, <3>2
    <3>5. future[q] # "end"
      BY <1>2, <2>4 DEF IInv, EpochsAreApart
    <3>6. outcome[q] # "done"
      BY <2>1, <3>5 DEF FlowIsWhole
    <3> QED
      BY <2>1, <2>2, <2>4, <3>3, <3>4, <3>5, <3>6 DEF FlowIsWhole
  <2> QED
    BY <2>3, <2>4
<1> QED
  BY <1>1, <1>6, <1>7, <1>8, <1>9, <1>10 DEF IInv

\* The terminal marker of the active prompt has a place behind its evidence.
LEMMA MarkerFits ==
    ASSUME IInv, ~torn, NEW p \in Prompts, future[p] = "open", phase[sessionOf[p]] = "active"
    PROVE  /\ queueOf[sessionOf[p]] = p /\ Len(buffer[p]) < QueueSize
           /\ delivered[p] \o buffer[p] = admitted[p]
<1> DEFINE s == sessionOf[p]
<1>1. s \in Sessions /\ queueOf[s] = p /\ count[s] # None
  BY OpenIsRegistered
<1>2. delivered[p] \o buffer[p] = admitted[p] /\ Len(buffer[p]) <= count[s]
  BY <1>1 DEF IInv, NothingIsLost, FlowIsWhole
<1>3. count[s] \in Nat /\ count[s] <= CountLimit
  BY <1>1 DEF IInv, TypeOK, QueuesAreRegistered
<1>4. Len(buffer[p]) \in Nat
  BY LenProperties DEF IInv, TypeOK
<1>5. Len(buffer[p]) < QueueSize
  BY <1>2, <1>3, <1>4, NoneIsApart DEF QueueSize
<1> QED
  BY <1>1, <1>2, <1>5

\* The response of the active prompt ends the session's epoch and its flow.
LEMMA ResponseLinePreserves ==
    ASSUME IInv, TypeOK', ~torn, wire # <<>>, wire' = Tail(wire),
           NEW p \in Prompts, ResponseTo(Head(wire), p), future[p] = "open",
           phase[sessionOf[p]] = "active",
           phase' = [phase EXCEPT ![sessionOf[p]] = "terminal"],
           buffer' = [buffer EXCEPT ![p] = Append(@, Marker)],
           NEW result \in {"end", "error"}, future' = [future EXCEPT ![p] = result],
           UNCHANGED <<failed, torn, queueOf, count, sessionOf, task, consumer, outcome,
                       answering, admitted, delivered>>
    PROVE  IInv'
<1>1. /\ WireIsOrdered' /\ task[p] \in {"waiting", "done"}
      /\ \A q \in Prompts : Owed(q)' => Owed(q) /\ q # p
      /\ \A q \in Prompts : q # p => (Owed(q)' <=> Owed(q))
  BY LineIsRead DEF ResponseTo
<1>2. /\ Owed(p) /\ Live(p) /\ sessionOf[p] \in Sessions /\ queueOf[sessionOf[p]] = p
      /\ delivered[p] \o buffer[p] = admitted[p]
  BY OpenIsRegistered, MarkerFits
<1>3. /\ phase'[sessionOf[p]] = "terminal"
      /\ \A t \in Sessions : t # sessionOf[p] => phase'[t] = phase[t]
      /\ future'[p] = result /\ \A q \in Prompts : q # p => UNCHANGED <<future[q], buffer[q]>>
      /\ buffer'[p] = Append(buffer[p], Marker)
  BY <1>2 DEF IInv, TypeOK
<1>4. \A q \in Prompts : Live(q)' <=> Live(q)
  BY DEF Live
<1>5. LivesAreWellFormed'
  <2>1. ASSUME NEW q \in Prompts PROVE TaskFits(q)' /\ (failed' => future'[q] # "open")
    <3>1. TaskFits(q) /\ (failed => future[q] # "open")
      BY DEF IInv, LivesAreWellFormed
    <3>2. CASE q # p
      BY <1>3, <1>4, <3>1, <3>2 DEF TaskFits
    <3>3. CASE q = p
      BY <1>1, <1>2, <1>3, <1>4, <3>1, <3>3 DEF TaskFits, Live
    <3> QED
      BY <3>2, <3>3
  <2> QED
    BY <1>4, <2>1 DEF IInv, LivesAreWellFormed
<1>6. QueuesAreRegistered'
  BY <1>4 DEF IInv, TypeOK, QueuesAreRegistered, Live
<1>7. EpochsAreApart'
  <2>1. \A q \in Prompts : Owed(q)' => sessionOf[q] \in Sessions /\ sessionOf[q] # sessionOf[p]
    BY <1>1, <1>2, OwedWereStarted DEF IInv, EpochsAreApart
  <2>2. \A q \in Prompts : Owed(q)' => phase'[sessionOf[q]] \in {"preparing", "active"}
    BY <1>1, <1>3, <2>1 DEF IInv, EpochsAreApart
  <2>3. \A q \in Prompts : future'[q] = "open" => Owed(q)'
    BY <1>1, <1>3 DEF IInv, EpochsAreApart
  <2>4. ASSUME NEW q \in Prompts, Live(q), future'[q] \in {"end", "error"}
        PROVE  phase'[sessionOf[q]] = "terminal"
    <3>1. CASE q = p
      BY <1>3, <3>1
    <3>2. CASE q # p
      <4>1. sessionOf[q] \in Sessions /\ phase[sessionOf[q]] = "terminal"
        BY <1>3, <2>4, <3>2 DEF IInv, EpochsAreApart, TypeOK, LivesAreWellFormed, TaskFits, Live
      <4> QED
        BY <1>3, <4>1
    <3> QED
      BY <3>1, <3>2
  <2>5. /\ \A q, r \in Prompts : Owed(q)' /\ Owed(r)' /\ sessionOf[q] = sessionOf[r] => q = r
        /\ \A q \in Prompts : Owed(q)' /\ count[sessionOf[q]] # None => queueOf[sessionOf[q]] = q
    BY <1>1 DEF IInv, EpochsAreApart
  <2> QED
    BY <1>4, <2>2, <2>3, <2>4, <2>5 DEF EpochsAreApart
<1>8. EvidenceIsItsOwn'
  BY DEF IInv, EvidenceIsItsOwn
<1>9. NothingIsLost'
  <2> SUFFICES ASSUME NEW q \in Prompts PROVE FlowIsWhole(q)'
    BY DEF NothingIsLost
  <2>1. FlowIsWhole(q)
    BY DEF IInv, NothingIsLost
  <2>2. CASE q # p
    <3>1. \A t \in Sessions : phase'[t] # "terminal" => phase[t] # "terminal"
      BY <1>3
    <3>2. UNCHANGED <<buffer[q], admitted[q], delivered[q], future[q]>>
      BY <1>3, <2>2
    <3> QED
      BY <2>1, <3>1, <3>2 DEF FlowIsWhole
  <2>3. CASE q = p
    <3> DEFINE d == delivered[p]
    <3> DEFINE b == buffer[p]
    <3>1. d \in Seq(Items) /\ b \in Seq(Items) /\ d = delivered[q] /\ b = buffer[q]
      BY <2>3 DEF IInv, TypeOK
    <3>2. ASSUME NEW x \in Seq(Items), NEW y \in Seq(Items)
          PROVE  x \o Append(y, Marker) = Append(x \o y, Marker)
      BY QueuedBehind, ItemsAreApart
    <3>3. d \o Append(b, Marker) = Append(d \o b, Marker)
      BY <3>1, <3>2
    <3>4. delivered'[q] \o buffer'[q] = Append(admitted'[q], Marker)
      BY <1>2, <1>3, <2>3, <3>3
    <3>5. \A t \in Sessions : queueOf[t] = q => phase'[t] = "terminal"
      BY <1>3, <2>3, NoneIsApart DEF IInv, QueuesAreRegistered
    <3>6. consumer[q] # "awaiting" /\ outcome[q] # "done" /\ future[q] = "open"
      BY <2>1, <2>3 DEF FlowIsWhole
    <3> QED
      BY <2>1, <3>4, <3>5, <3>6 DEF FlowIsWhole
  <2> QED
    BY <2>2, <2>3
<1> QED
  BY <1>1, <1>5, <1>6, <1>7, <1>8, <1>9 DEF IInv

LEMMA ReadPreserves == IInv /\ Read => IInv'
<1> SUFFICES ASSUME IInv, Read PROVE IInv'
  OBVIOUS
<1> DEFINE m == Head(wire)
<1> DEFINE p == m.prompt
<1> DEFINE s == sessionOf[p]
<1>1. /\ wire # <<>> /\ ~torn /\ wire' = Tail(wire)
      /\ UNCHANGED <<torn, queueOf, sessionOf, task, consumer, outcome, late, cancelled, emitted,
                     answering, delivered>>
      /\ ReadUpdate(m, s) \/ ReadCallback(m, s) \/ ReadResponse(m, s)
  BY DEF Read, genVars, childVars
<1>2. m \in Messages /\ p \in Prompts /\ s \in Sessions /\ wire' \in Seq(Messages)
  BY <1>1, LineIsRead
<1>3. FailClosed => failed' \in BOOLEAN /\
        future' \in [Prompts -> {"none", "open", "end", "error", "lost", "cancelled"}]
  BY FailClosedShape
<1>4. CASE ReadUpdate(m, s) \/ ReadCallback(m, s)
  <2>1. m.kind # "response" /\ UNCHANGED phase
    BY <1>4 DEF ReadUpdate, ReadCallback
  <2>2. ItemOf(m) \in Items /\ ItemOf(m).prompt = p
    <3>1. m.line \in 1..MaxEmitted
      BY <1>2, <2>1 DEF Messages
    <3> QED
      BY <1>2, <3>1, NoneIsApart DEF ItemOf, Items
  <2>3. callback' \in [Callbacks -> {"none", "answered"} \cup Sessions]
    <3>1. CASE ReadUpdate(m, s)
      BY <3>1 DEF ReadUpdate, IInv, TypeOK
    <3>2. CASE ReadCallback(m, s)
      BY <1>2, <3>2 DEF ReadCallback, IInv, TypeOK
    <3> QED
      BY <1>4, <3>1, <3>2
  <2>4. \/ Receiving(s) /\ Enqueue(s, ItemOf(m))
        \/ FailClosed /\ UNCHANGED <<count, buffer, admitted>>
        \/ UNCHANGED <<failed, future, count, buffer, admitted>>
    BY <1>4 DEF ReadUpdate, ReadCallback
  <2>5. CASE \/ FailClosed /\ UNCHANGED <<count, buffer, admitted>>
             \/ UNCHANGED <<failed, future, count, buffer, admitted>>
    <3>1. TypeOK'
      BY <1>1, <1>2, <1>3, <2>1, <2>3, <2>5 DEF IInv, TypeOK
    <3> QED
      BY <1>1, <2>1, <2>5, <3>1, DroppedLinePreserves DEF clientVars
  <2>6. CASE /\ Receiving(s) /\ count[s] # None /\ count[s] < CountLimit
             /\ count' = [count EXCEPT ![s] = @ + 1]
             /\ buffer' = [buffer EXCEPT ![queueOf[s]] = Append(@, ItemOf(m))]
             /\ admitted' = [admitted EXCEPT ![queueOf[s]] = Append(@, ItemOf(m))]
             /\ UNCHANGED <<failed, future>>
    <3>1. queueOf[s] \in Prompts /\ phase[s] = "active"
      BY <1>2, <2>6 DEF Receiving, IInv, TypeOK
    <3>2. count' \in [Sessions -> Nat \cup {None}]
      <4>1. count \in [Sessions -> Nat \cup {None}]
        BY DEF IInv, TypeOK
      <4>2. count[s] \in Nat
        BY <1>2, <2>6, <4>1
      <4>3. count[s] + 1 \in Nat
        BY <4>2
      <4> QED
        BY <1>2, <2>6, <4>1, <4>3
    <3>3. buffer' \in [Prompts -> Seq(Items)] /\ admitted' \in [Prompts -> Seq(Items)]
      <4>1. \A x \in Seq(Items) : Append(x, ItemOf(m)) \in Seq(Items)
        BY <2>2, AppendProperties
      <4> QED
        BY <2>6, <3>1, <4>1 DEF IInv, TypeOK
    <3>4. TypeOK'
      BY <1>1, <1>2, <2>1, <2>3, <2>6, <3>2, <3>3 DEF IInv, TypeOK
    <3> QED
      BY <1>1, <1>2, <2>1, <2>2, <2>6, <3>1, <3>4, QueuedLinePreserves DEF taskVars
  <2> QED
    BY <2>4, <2>5, <2>6 DEF Enqueue
<1>5. CASE ReadResponse(m, s)
  <2>1. ResponseTo(m, p) /\ UNCHANGED <<count, admitted, callback>>
    BY <1>5 DEF ReadResponse, ResponseTo
  <2>2. CASE future[p] # "open" \/ Unanswered(s) \/ ~Receiving(s)
    <3>1. FailClosed /\ UNCHANGED <<phase, buffer>>
      BY <1>5, <2>2 DEF ReadResponse
    <3>2. TypeOK'
      BY <1>1, <1>2, <1>3, <2>1, <3>1 DEF IInv, TypeOK
    <3> QED
      BY <1>1, <2>1, <3>1, <3>2, DroppedLinePreserves DEF clientVars
  <2>3. CASE future[p] = "open" /\ Receiving(s)
             /\ ~(future[p] # "open" \/ Unanswered(s) \/ ~Receiving(s))
    <3>1. queueOf[s] = p /\ phase[s] = "active" /\ ~(Len(buffer[p]) >= QueueSize)
      <4>1. Len(buffer[p]) \in Nat /\ QueueSize \in Nat
        BY <1>2, LenProperties, NoneIsApart DEF IInv, TypeOK, QueueSize
      <4>2. phase[s] = "active"
        BY <2>3 DEF Receiving
      <4>3. queueOf[s] = p /\ Len(buffer[p]) < QueueSize
        BY <1>1, <1>2, <2>3, <4>2, MarkerFits
      <4> QED
        BY <4>1, <4>2, <4>3
    <3>2. /\ phase' = [phase EXCEPT ![s] = "terminal"]
          /\ buffer' = [buffer EXCEPT ![p] = Append(@, Marker)]
          /\ future' = [future EXCEPT ![p] = m.result] /\ UNCHANGED failed
      BY <1>5, <2>3, <3>1 DEF ReadResponse
    <3>3. m.result \in {"end", "error"}
      BY <1>2, <2>1 DEF Messages, ResponseTo
    <3>4. buffer' \in [Prompts -> Seq(Items)]
      <4>1. \A x \in Seq(Items) : Append(x, Marker) \in Seq(Items)
        BY ItemsAreApart, AppendProperties
      <4> QED
        BY <1>2, <3>2, <4>1 DEF IInv, TypeOK
    <3>5. TypeOK'
      BY <1>1, <1>2, <2>1, <3>2, <3>3, <3>4 DEF IInv, TypeOK, PhaseNames
    <3> QED
      BY <1>1, <1>2, <2>1, <2>3, <3>1, <3>2, <3>3, <3>5, ResponseLinePreserves
  <2> QED
    BY <2>2, <2>3
<1> QED
  BY <1>1, <1>4, <1>5

-----------------------------------------------------------------------------
(* The invariant                                                           *)

LEMMA StutterPreserves == IInv /\ UNCHANGED vars => IInv'
BY SMTT(90) DEF vars, clientVars, taskVars, genVars, childVars, IInv, TypeOK, LivesAreWellFormed, TaskFits,
       Live, QueuesAreRegistered, WireIsOrdered, ResponseTo, EpochsAreApart, Owed,
       EvidenceIsItsOwn, NothingIsLost, FlowIsWhole

LEMMA NextPreserves == IInv /\ Next => IInv'
<1> SUFFICES ASSUME IInv, Next PROVE IInv'
  OBVIOUS
<1>1. ASSUME NEW p \in Prompts, NEW s \in Sessions, StartPrompt(p, s) PROVE IInv'
  BY <1>1, RefusedStartPreserves, AcceptedStartPreserves
<1>2. ASSUME NEW p \in Prompts, Generator(p) PROVE IInv'
  BY <1>2, IdleMovesPreserve, PollPreserves, DrainPreserves, ClosePreserves, UnwindPreserves
     DEF Generator
<1>3. ASSUME NEW p \in Prompts, Task(p) PROVE IInv'
  BY <1>3, TaskWritesPreserves, TaskDrainedPreserves, TaskEndsPreserve DEF Task
<1>4. ASSUME NEW p \in Prompts,
             DeadlinePasses(p) \/ Cancel(p) \/ ChildWrites(p) \/ ChildAnswers(p)
      PROVE  IInv'
  BY <1>4, IdleMovesPreserve, ChildWritesPreserves, ChildAnswersPreserves
<1>5. CASE Read \/ ReadFails \/ Teardown \/ TransportStopped
  BY <1>5, ReadPreserves, ReadFailsPreserves, TeardownPreserves, TransportStoppedPreserves
<1>6. ASSUME NEW k \in Callbacks, CallbackAnswered(k) PROVE IInv'
  BY <1>6, CallbackAnsweredPreserves
<1> QED
  BY <1>1, <1>2, <1>3, <1>4, <1>5, <1>6 DEF Next

\* Prompts, generators, queues and the wire fit together in every reachable state.
THEOREM InvariantHolds == Spec => []IInv
<1>1. IInv /\ [Next]_vars => IInv'
  BY NextPreserves, StutterPreserves
<1> QED
  BY <1>1, InitEstablishes, PTL DEF Spec

-----------------------------------------------------------------------------
(* What it gives                                                           *)

\* While the child keeps its continuity it works on one prompt of a session at
\* most, and evidence is registered for a generator that will still read it:
\* a session is not lent out again before its prompt is over at both ends
\* (_prompt_content, its phases and its finally clause).
THEOREM PromptsAlwaysStayApart == Spec => []PromptsStayApart
<1>1. IInv => PromptsStayApart
  <2> SUFFICES ASSUME IInv PROVE PromptsStayApart
    OBVIOUS
  <2>1. OnePromptAtAgent
    BY DEF IInv, TypeOK, EpochsAreApart, Owed, OnePromptAtAgent
  <2>2. QueueHasReader
    BY DEF IInv, QueuesAreRegistered, QueueHasReader
  <2> QED
    BY <2>1, <2>2 DEF IInv, PromptsStayApart
<1> QED
  BY <1>1, InvariantHolds, PTL

\* No prompt is ever given a line the child wrote for another one, though a line
\* names its session only (_enqueue_direct_update).
THEOREM EvidenceStaysItsOwn == Spec => []EvidenceIsItsOwn
<1>1. IInv => EvidenceIsItsOwn
  BY DEF IInv
<1> QED
  BY <1>1, InvariantHolds, PTL

\* A prompt that ends normally has given its collector all that the reader
\* admitted, once and in order (_prompt_content, _observe_response).
THEOREM EvidenceArrivesComplete == Spec => []EvidenceIsComplete
<1>1. IInv => EvidenceIsComplete
  <2> SUFFICES ASSUME IInv, ~torn, NEW p \in Prompts, outcome[p] = "done"
               PROVE  delivered[p] \in {admitted[p], Append(admitted[p], Marker)}
    BY DEF EvidenceIsComplete
  <2>1. FlowIsWhole(p) /\ delivered[p] \in Seq(Items)
    BY DEF IInv, NothingIsLost, TypeOK
  <2>2. buffer[p] = <<>> /\ delivered[p] \o buffer[p] \in {admitted[p], Append(admitted[p], Marker)}
    BY <2>1 DEF FlowIsWhole
  <2>3. \A x \in Seq(Items) : x \o <<>> = x
    BY ConcatEmptySeq
  <2>4. delivered[p] \o buffer[p] = delivered[p]
    BY <2>1, <2>2, <2>3
  <2> QED
    BY <2>2, <2>4
<1> QED
  BY <1>1, InvariantHolds, PTL

\* The response of p is read: its epoch ends with its future.
Settles(p) ==
    /\ future[p] = "open"
    /\ \E result \in {"end", "error"} : future' = [future EXCEPT ![p] = result]

NoEpochEnds == \A s \in Sessions : phase[s] = "active" => phase'[s] # "terminal"

LEMMA ReadSettles ==
    ASSUME IInv, Read PROVE (NoFutureResolves /\ NoEpochEnds) \/ \E p \in Prompts : Settles(p)
<1> DEFINE m == Head(wire)
<1> DEFINE p == m.prompt
<1> DEFINE s == sessionOf[p]
<1>1. /\ wire # <<>> /\ ~torn /\ wire' = Tail(wire) /\ UNCHANGED <<answering, task>>
      /\ ReadUpdate(m, s) \/ ReadCallback(m, s) \/ ReadResponse(m, s)
  BY DEF Read, childVars
<1>2. m \in Messages /\ p \in Prompts /\ s \in Sessions
  BY <1>1, LineIsRead
<1>3. FailClosed \/ UNCHANGED <<failed, future>> => NoFutureResolves
  BY FailClosedShape DEF NoFutureResolves
<1>4. CASE ReadUpdate(m, s) \/ ReadCallback(m, s)
  <2>1. UNCHANGED phase /\ (FailClosed \/ UNCHANGED <<failed, future>>)
    BY <1>4 DEF ReadUpdate, ReadCallback, Enqueue
  <2> QED
    BY <1>3, <2>1 DEF NoEpochEnds
<1>5. CASE ReadResponse(m, s)
  <2>1. CASE future[p] # "open" \/ Unanswered(s) \/ ~Receiving(s)
    BY <1>3, <1>5, <2>1 DEF ReadResponse, NoEpochEnds
  <2>2. CASE ~(future[p] # "open" \/ Unanswered(s) \/ ~Receiving(s))
    <3>1. phase[s] = "active" /\ future[p] = "open" /\ ~Unanswered(s)
      BY <2>2 DEF Receiving
    <3>2. queueOf[s] = p /\ Len(buffer[p]) < QueueSize
      BY <1>1, <1>2, <3>1, MarkerFits
    <3>3. ~(Len(buffer[p]) >= QueueSize)
      <4>1. Len(buffer[p]) \in Nat /\ QueueSize \in Nat
        BY <1>2, LenProperties, NoneIsApart DEF IInv, TypeOK, QueueSize
      <4> QED
        BY <3>2, <4>1
    <3>4. future' = [future EXCEPT ![p] = m.result] /\ m.kind = "response"
      BY <1>5, <2>2, <3>2, <3>3 DEF ReadResponse
    <3>5. m.result \in {"end", "error"}
      BY <1>2, <3>4 DEF Messages
    <3> QED
      BY <1>2, <3>1, <3>4, <3>5 DEF Settles
  <2> QED
    BY <2>1, <2>2
<1> QED
  BY <1>1, <1>4, <1>5

\* Nothing but a response resolves a future or ends an active epoch.
LEMMA OnlyResponsesSettle ==
    ASSUME IInv, [Next]_vars
    PROVE  (NoFutureResolves /\ NoEpochEnds) \/ \E p \in Prompts : Settles(p)
<1> USE DEF IInv, TypeOK, NoFutureResolves, NoEpochEnds, clientVars, taskVars, genVars, childVars
<1>1. CASE FailClosed /\ UNCHANGED phase
  BY <1>1, FailClosedShape
<1>2. CASE UNCHANGED <<future, phase>>
  BY <1>2
<1>3. ASSUME NEW p \in Prompts, NEW s \in Sessions, StartPrompt(p, s)
      PROVE  NoFutureResolves /\ NoEpochEnds
  <2>1. NoFutureResolves
    BY <1>3, FailClosedShape DEF StartPrompt
  <2>2. NoEpochEnds
    <3>1. phase' = phase \/ phase' = [phase EXCEPT ![s] = "preparing"]
      BY <1>3 DEF StartPrompt
    <3> QED
      BY <3>1
  <2> QED
    BY <2>1, <2>2
<1>4. ASSUME NEW p \in Prompts, Generator(p) PROVE NoFutureResolves /\ NoEpochEnds
  <2>1. CASE Close(p)
    BY <2>1 DEF Close, At, GenStep, FutureCancelled
  <2>2. CASE ~Close(p)
    <3>1. UNCHANGED <<future, phase>>
      BY <1>4, <2>2 DEF Generator, Loop, Poll, PollExpires, PollTimesOut, Drain, Resume, Finish,
                        Unwind
    <3> QED
      BY <1>2, <3>1
  <2> QED
    BY <2>1, <2>2
<1>5. ASSUME NEW p \in Prompts, Task(p) PROVE NoFutureResolves /\ NoEpochEnds
  <2>1. CASE TaskWrites(p)
    BY <2>1 DEF TaskWrites
  <2>2. CASE TaskDrained(p)
    <3>1. \/ UNCHANGED future
          \/ FailClosed
      BY <2>2 DEF TaskDrained
    <3>2. NoFutureResolves
      BY <3>1, FailClosedShape
    <3>3. NoEpochEnds
      BY <2>2 DEF TaskDrained
    <3> QED
      BY <3>2, <3>3
  <2>3. CASE TaskBreaks(p) \/ TaskWakes(p)
    BY <2>3 DEF TaskBreaks, TaskWakes
  <2> QED
    BY <1>5, <2>1, <2>2, <2>3 DEF Task
<1>6. ASSUME NEW p \in Prompts,
             DeadlinePasses(p) \/ Cancel(p) \/ ChildWrites(p) \/ ChildAnswers(p)
      PROVE  NoFutureResolves /\ NoEpochEnds
  <2>1. UNCHANGED <<future, phase>>
    <3>1. CASE DeadlinePasses(p) \/ Cancel(p)
      BY <3>1 DEF DeadlinePasses, Cancel
    <3>2. CASE ChildWrites(p)
      BY <3>2 DEF ChildWrites, Write
    <3>3. CASE ChildAnswers(p)
      BY <3>3 DEF ChildAnswers, Write
    <3> QED
      BY <1>6, <3>1, <3>2, <3>3
  <2> QED
    BY <1>2, <2>1
<1>7. CASE ReadFails
  BY <1>1, <1>7 DEF ReadFails
<1>8. CASE Teardown
  <2>1. NoFutureResolves
    BY <1>8, FailClosedShape DEF Teardown
  <2>2. NoEpochEnds
    BY <1>8 DEF Teardown
  <2> QED
    BY <2>1, <2>2
<1>9. CASE TransportStopped
  BY <1>9 DEF TransportStopped, Failed
<1>10. ASSUME NEW k \in Callbacks, CallbackAnswered(k) PROVE NoFutureResolves /\ NoEpochEnds
  BY <1>2, <1>10 DEF CallbackAnswered
<1>11. CASE UNCHANGED vars
  BY <1>2, <1>11 DEF vars
<1> QED
  BY <1>3, <1>4, <1>5, <1>6, <1>7, <1>8, <1>9, <1>10, <1>11, ReadSettles DEF Next

\* The terminal marker always fits: an epoch that ends settles a prompt, however
\* much evidence is queued before the response (QueueSize against event_count_limit).
THEOREM ResponseFits == Spec => ResponseAlwaysFits
<1>1. IInv /\ [Next]_vars =>
        [\A s \in Sessions : phase[s] = "active" /\ phase'[s] = "terminal" =>
           \E p \in Prompts : future[p] = "open" /\ future'[p] \in {"end", "error"}]_vars
  <2> SUFFICES ASSUME IInv, [Next]_vars, NEW s \in Sessions,
                      phase[s] = "active", phase'[s] = "terminal"
               PROVE  \E p \in Prompts : future[p] = "open" /\ future'[p] \in {"end", "error"}
    OBVIOUS
  <2>1. PICK p \in Prompts : Settles(p)
    BY OnlyResponsesSettle DEF NoEpochEnds
  <2>2. future[p] = "open" /\ future'[p] \in {"end", "error"}
    BY <2>1 DEF Settles, IInv, TypeOK
  <2> QED
    BY <2>2
<1> QED
  BY <1>1, InvariantHolds, PTL DEF Spec, ResponseAlwaysFits

-----------------------------------------------------------------------------
(* Callbacks and epochs: a second invariant on top of IInv                 *)

\* A step that opens no epoch, takes nothing from the child and begins no
\* callback keeps callbacks inside their epochs.
LEMMA EpochsStayWorked ==
    ASSUME IInv, CallbacksHaveEpochs, failed => failed', torn' = torn,
           \A s \in Sessions : phase'[s] = "active" => phase[s] = "active",
           \A p \in Prompts : Working(p) => Working(p)' /\ sessionOf'[p] = sessionOf[p],
           ~failed' => \A k \in Callbacks : callback'[k] \in Sessions =>
                         callback'[k] = callback[k] /\ phase'[callback[k]] = "active"
    PROVE  CallbacksHaveEpochs'
BY DEF CallbacksHaveEpochs

\* Nothing happens to the work of the child, to epochs or to callbacks.
LEMMA NothingBegins ==
    ASSUME IInv, CallbacksHaveEpochs, failed => failed',
           UNCHANGED <<torn, phase, sessionOf, wire, answering, callback>>,
           \A p \in Prompts : task[p] \in {"waiting", "done"} => task'[p] \in {"waiting", "done"}
    PROVE  CallbacksHaveEpochs'
<1>1. ASSUME NEW p \in Prompts, Working(p) PROVE Working(p)'
  BY <1>1 DEF Working, Owed, ResponseTo
<1>2. ~failed' => \A k \in Callbacks : callback'[k] \in Sessions =>
                    callback'[k] = callback[k] /\ phase'[callback[k]] = "active"
  BY DEF CallbacksHaveEpochs
<1> QED
  BY <1>1, <1>2, EpochsStayWorked

LEMMA StartKeepsCallbacks ==
    ASSUME IInv, CallbacksHaveEpochs, NEW p \in Prompts, NEW s \in Sessions, StartPrompt(p, s)
    PROVE  CallbacksHaveEpochs'
<1> USE DEF StartPrompt, childVars
<1>1. failed => failed'
  BY FailClosedShape DEF IInv, TypeOK
<1>2. ASSUME NEW q \in Prompts, Working(q)
      PROVE  Working(q)' /\ sessionOf'[q] = sessionOf[q]
  <2>1. q # p
    BY <1>2, OwedWereStarted DEF Working
  <2>2. task'[q] = task[q] /\ sessionOf'[q] = sessionOf[q]
    BY <2>1 DEF IInv, TypeOK
  <2> QED
    BY <1>2, <2>2 DEF Working, Owed, ResponseTo
<1>3. phase' = phase \/ (phase' = [phase EXCEPT ![s] = "preparing"] /\ phase[s] # "active")
  BY DEF MayStart
<1>4. \A t \in Sessions : phase'[t] = "active" <=> phase[t] = "active"
  BY <1>3 DEF IInv, TypeOK
<1> QED
  BY <1>1, <1>2, <1>4, EpochsStayWorked DEF CallbacksHaveEpochs

LEMMA CloseKeepsCallbacks ==
    ASSUME IInv, CallbacksHaveEpochs, NEW p \in Prompts, Close(p)
    PROVE  CallbacksHaveEpochs'
<1> USE DEF Close, GenStep
<1>1. ASSUME NEW q \in Prompts, Working(q) PROVE Working(q)' /\ sessionOf'[q] = sessionOf[q]
  <2>1. task'[q] \in {"waiting", "done"}
    BY <1>1 DEF Working, taskVars, IInv, TypeOK
  <2>2. answering \subseteq answering'
    OBVIOUS
  <2> QED
    BY <1>1, <2>1, <2>2 DEF Working, Owed, ResponseTo
<1>2. UNCHANGED <<failed, torn, phase, callback>>
  OBVIOUS
<1> QED
  BY <1>1, <1>2, EpochsStayWorked DEF CallbacksHaveEpochs

\* The epoch that opens is that of a prompt the child just got.
LEMMA DrainedKeepsCallbacks ==
    ASSUME IInv, CallbacksHaveEpochs, NEW p \in Prompts, TaskDrained(p)
    PROVE  CallbacksHaveEpochs'
<1> USE DEF TaskDrained
<1>1. failed => failed'
  BY FailClosedShape
<1>2. sessionOf[p] \in Sessions
  BY OwedWereStarted DEF Owed
<1>3. ASSUME NEW q \in Prompts, Working(q) PROVE Working(q)'
  <2>1. q # p /\ task'[q] = task[q]
    BY <1>3 DEF Working, IInv, TypeOK
  <2> QED
    BY <1>3, <2>1 DEF Working, Owed, ResponseTo
<1>4. Working(p)'
  BY DEF Working, Owed, IInv, TypeOK
<1>5. \A s \in Sessions : /\ phase[s] = "active" => phase'[s] = "active"
                          /\ phase'[s] = "active" => phase[s] = "active" \/ s = sessionOf[p]
  BY <1>2 DEF IInv, TypeOK
<1> QED
  BY <1>1, <1>3, <1>4, <1>5 DEF CallbacksHaveEpochs

LEMMA TaskKeepsCallbacks ==
    ASSUME IInv, CallbacksHaveEpochs, NEW p \in Prompts, Task(p)
    PROVE  CallbacksHaveEpochs'
<1>1. CASE TaskDrained(p)
  BY <1>1, DrainedKeepsCallbacks
<1>2. CASE TaskWrites(p) \/ TaskBreaks(p) \/ TaskWakes(p)
  <2>1. UNCHANGED <<failed, torn, phase, sessionOf, wire, answering, callback>>
    BY <1>2 DEF TaskWrites, TaskBreaks, TaskWakes, clientVars, childVars
  <2>2. \A q \in Prompts : task[q] \in {"waiting", "done"} => task'[q] \in {"waiting", "done"}
    BY <1>2 DEF TaskWrites, TaskBreaks, TaskWakes, IInv, TypeOK
  <2> QED
    BY <2>1, <2>2, NothingBegins
<1> QED
  BY <1>1, <1>2 DEF Task

\* A prompt the child answers is one whose response waits on the wire.
LEMMA ChildKeepsCallbacks ==
    ASSUME IInv, CallbacksHaveEpochs, NEW p \in Prompts, ChildWrites(p) \/ ChildAnswers(p)
    PROVE  CallbacksHaveEpochs'
<1>1. UNCHANGED <<failed, torn, phase, sessionOf, task, callback>>
  BY DEF ChildWrites, ChildAnswers, Write, clientVars, taskVars
<1>2. PICK m \in Messages :
        /\ wire' = Append(wire, m)
        /\ \A q \in answering : q \in answering' \/ ResponseTo(m, q)
  <2>1. CASE ChildWrites(p)
    <3>1. emitted'[p] \in 1..MaxEmitted /\ answering' = answering
      BY <2>1, NoneIsApart DEF ChildWrites, IInv, TypeOK
    <3> QED
      BY <2>1, <3>1 DEF ChildWrites, Write, Messages
  <2>2. CASE ChildAnswers(p)
    <3>1. PICK result \in {"end", "error"} :
            Write([kind |-> "response", prompt |-> p, result |-> result])
      BY <2>2 DEF ChildAnswers
    <3>2. [kind |-> "response", prompt |-> p, result |-> result] \in Messages
      BY DEF Messages
    <3>3. \A q \in answering : q # p => q \in answering'
      BY <2>2 DEF ChildAnswers
    <3> QED
      BY <3>1, <3>2, <3>3 DEF Write, ResponseTo
  <2> QED
    BY <2>1, <2>2
<1>3. /\ DOMAIN wire = 1..Len(wire) /\ DOMAIN wire' = 1..Len(wire) + 1 /\ Len(wire) \in Nat
      /\ \A i \in 1..Len(wire) : wire'[i] = wire[i]
      /\ wire'[Len(wire) + 1] = m
  BY <1>2, WireGrows
<1>4. ASSUME NEW q \in Prompts, Working(q) PROVE Working(q)'
  <2>1. Len(wire) + 1 \in DOMAIN wire' /\ DOMAIN wire \subseteq DOMAIN wire'
    BY <1>3
  <2> QED
    BY <1>1, <1>2, <1>3, <1>4, <2>1 DEF Working, Owed, ResponseTo
<1> QED
  BY <1>1, <1>4, EpochsStayWorked DEF CallbacksHaveEpochs

\* The response of a prompt ends its epoch behind its callbacks; a callback begins
\* in the active epoch it was read in.
LEMMA ReadKeepsCallbacks ==
    ASSUME IInv, CallbacksHaveEpochs, Read PROVE CallbacksHaveEpochs'
<1> DEFINE m == Head(wire)
<1> DEFINE p == m.prompt
<1> DEFINE s == sessionOf[p]
<1>1. /\ wire # <<>> /\ ~torn /\ ~torn' /\ wire' = Tail(wire)
      /\ UNCHANGED <<sessionOf, answering, task>>
      /\ ReadUpdate(m, s) \/ ReadCallback(m, s) \/ ReadResponse(m, s)
  BY DEF Read, childVars
<1>2. /\ m \in Messages /\ p \in Prompts /\ s \in Sessions
      /\ \A q \in Prompts : Owed(q) => Owed(q)' \/ ResponseTo(m, q)
  BY <1>1, LineIsRead
<1>3. SUFFICES ASSUME ~failed' PROVE CallbacksHaveEpochs'
  BY DEF CallbacksHaveEpochs
<1>4. ~FailClosed
  BY <1>1, <1>3, FailClosedShape
<1>5. ~failed
  BY <1>1, <1>3, <1>4
  DEF ReadUpdate, ReadCallback, ReadResponse, Enqueue
<1>6. ASSUME NEW q \in Prompts, Working(q), ~ResponseTo(m, q) PROVE Working(q)'
  BY <1>1, <1>2, <1>6 DEF Working
<1>7. CASE ReadUpdate(m, s)
  <2>1. \A q \in Prompts : ~ResponseTo(m, q)
    BY <1>7 DEF ReadUpdate, ResponseTo
  <2> QED
    BY <1>1, <1>5, <1>6, <1>7, <2>1 DEF ReadUpdate, CallbacksHaveEpochs
<1>8. CASE ReadCallback(m, s)
  <2>1. \A q \in Prompts : ~ResponseTo(m, q)
    BY <1>8 DEF ReadCallback, ResponseTo
  <2>2. phase[s] = "active" /\ UNCHANGED phase
    BY <1>4, <1>8 DEF ReadCallback, Receiving
  <2>3. \A k \in Callbacks : callback'[k] \in {callback[k], s}
    BY <1>8 DEF ReadCallback, IInv, TypeOK
  <2> QED
    BY <1>1, <1>2, <1>5, <1>6, <2>1, <2>2, <2>3 DEF CallbacksHaveEpochs
<1>9. CASE ReadResponse(m, s)
  <2>1. /\ ~Unanswered(s) /\ phase' = [phase EXCEPT ![s] = "terminal"]
        /\ UNCHANGED callback /\ m.kind = "response"
    BY <1>4, <1>9 DEF ReadResponse
  <2>2. \A t \in Sessions : t # s => phase'[t] = phase[t]
    BY <2>1 DEF IInv, TypeOK
  <2>3. phase'[s] = "terminal"
    BY <1>2, <2>1 DEF IInv, TypeOK
  <2>4. \A q \in Prompts : sessionOf[q] # s => ~ResponseTo(m, q)
    BY DEF ResponseTo
  <2>5. \A k \in Callbacks : callback[k] # s
    BY <2>1 DEF Unanswered
  <2> QED
    BY <1>1, <1>5, <1>6, <2>1, <2>2, <2>3, <2>4, <2>5 DEF CallbacksHaveEpochs
<1> QED
  BY <1>1, <1>7, <1>8, <1>9

LEMMA TeardownKeepsCallbacks ==
    ASSUME IInv, CallbacksHaveEpochs, Teardown PROVE CallbacksHaveEpochs'
<1>1. torn'
  BY DEF Teardown
<1>2. \A k \in Callbacks : callback'[k] \notin Sessions
  BY SessionsAreApart DEF Teardown
<1> QED
  BY <1>1, <1>2 DEF CallbacksHaveEpochs

LEMMA NextKeepsCallbacks ==
    ASSUME IInv, CallbacksHaveEpochs, [Next]_vars PROVE CallbacksHaveEpochs'
<1>1. ASSUME NEW p \in Prompts, Generator(p) PROVE CallbacksHaveEpochs'
  <2>1. CASE ~Close(p)
    <3>1. UNCHANGED <<failed, torn, phase, sessionOf, wire, answering, callback, task>>
      BY <1>1, <2>1 DEF Generator, Loop, Poll, PollExpires, PollTimesOut, Drain, Resume,
                        Finish, Unwind, GenStep, clientVars, taskVars
    <3> QED
      BY <3>1, NothingBegins
  <2> QED
    BY <2>1, CloseKeepsCallbacks
<1>2. ASSUME NEW p \in Prompts, DeadlinePasses(p) \/ Cancel(p) PROVE CallbacksHaveEpochs'
  <2>1. UNCHANGED <<failed, torn, phase, sessionOf, wire, answering, callback, task>>
    BY <1>2 DEF DeadlinePasses, Cancel, GenStep, clientVars, taskVars
  <2> QED
    BY <2>1, NothingBegins
<1>3. CASE ReadFails \/ TransportStopped
  <2>1. UNCHANGED <<torn, phase, sessionOf, wire, answering, callback, task>>
    BY <1>3 DEF ReadFails, TransportStopped, clientVars, childVars
  <2>2. failed => failed'
    BY <1>3, FailClosedShape DEF ReadFails, TransportStopped
  <2> QED
    BY <2>1, <2>2, NothingBegins
<1>4. ASSUME NEW k \in Callbacks, CallbackAnswered(k) PROVE CallbacksHaveEpochs'
  <2>1. UNCHANGED <<failed, torn, phase, sessionOf, wire, answering, task>>
    BY <1>4 DEF CallbackAnswered, clientVars, taskVars, childVars
  <2>2. \A q \in Prompts : Working(q) => Working(q)'
    BY <2>1 DEF Working, Owed, ResponseTo
  <2>3. \A j \in Callbacks : callback'[j] \in Sessions => callback'[j] = callback[j]
    BY <1>4, SessionsAreApart DEF CallbackAnswered, IInv, TypeOK
  <2> QED
    BY <2>1, <2>2, <2>3, EpochsStayWorked DEF CallbacksHaveEpochs
<1>5. CASE UNCHANGED vars
  BY <1>5, NothingBegins DEF vars, clientVars, taskVars, childVars
<1> QED
  BY <1>1, <1>2, <1>3, <1>4, <1>5, StartKeepsCallbacks, TaskKeepsCallbacks,
     ChildKeepsCallbacks, ReadKeepsCallbacks, TeardownKeepsCallbacks DEF Next

\* A callback is handled only in the epoch of a prompt whose response is still to
\* be read, never between two prompts of its session or during the next one
\* (_observe_response against the callback tasks, _prompt_content's phases).
THEOREM CallbacksAlwaysStay == Spec => []CallbacksStayInTheirPrompt
<1>1. Init => CallbacksHaveEpochs
  BY SessionsAreApart DEF Init, CallbacksHaveEpochs
<1>2. IInv /\ CallbacksHaveEpochs /\ [Next]_vars => CallbacksHaveEpochs'
  BY NextKeepsCallbacks
<1>3. CallbacksHaveEpochs => CallbacksStayInTheirPrompt
  BY DEF CallbacksHaveEpochs, CallbacksStayInTheirPrompt, Working
<1> QED
  BY <1>1, <1>2, <1>3, InvariantHolds, PTL DEF Spec
=============================================================================
