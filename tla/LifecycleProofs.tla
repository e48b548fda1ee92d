-------------------------- MODULE LifecycleProofs --------------------------
(***************************************************************************)
(* Machine-checked proofs about Lifecycle: whatever the start, the loss of *)
(* the child and the signals do to each other, run() leaves in order.      *)
(* The module has no constants; the proofs are of its one state machine.   *)
(***************************************************************************)
EXTENDS Lifecycle, TLAPS

USE DEF vars, childVars, httpVars, Goto

\* What a request may wait for is a matter of the options, which do not change.
LEMMA WaitsStay == ASSUME options' = options PROVE Waits' = Waits
  BY DEF Waits

LEMMA InitEstablishesIInv == Init => IInv
  BY DEF Init, IInv, TypeOK, StartOwnsOnlyTheChild, LossTaskHasCause,
         LossReachesService, MarkerWaits, FinallyInOrder, Finishing

-----------------------------------------------------------------------------
\* From the admission of the options to the main loop of the server.
LEMMA StartPreservesIInv ==
  ASSUME IInv, Start
  PROVE  IInv'
  <1> USE DEF IInv, TypeOK, StartOwnsOnlyTheChild, LossTaskHasCause,
              LossReachesService, MarkerWaits, FinallyInOrder, Finishing, MayGoOn
  <1>0. options' = options
    BY DEF Start, Admit, Refuse, Initialized, StartFails, Probed, BindFails, Bound
  <1> USE <1>0, WaitsStay
  <1>1. CASE Admit
    BY <1>1 DEF Admit
  <1>2. CASE Refuse \/ Initialized
    BY <1>2 DEF Refuse, Initialized
  <1>3. CASE StartFails \/ BindFails
    BY <1>3 DEF StartFails, BindFails
  <1>4. CASE Probed
    BY <1>4 DEF Probed, Options
  <1>5. CASE Bound
    BY <1>5 DEF Bound, Options
  <1> QED
    BY <1>1, <1>2, <1>3, <1>4, <1>5 DEF Start

\* The finally clause and the waits before it.
LEMMA ShutDownPreservesIInv ==
  ASSUME IInv, ShutDown
  PROVE  IInv'
  <1> USE DEF IInv, TypeOK, StartOwnsOnlyTheChild, LossTaskHasCause,
              LossReachesService, MarkerWaits, FinallyInOrder, Finishing
  <1>0. options' = options
    BY DEF ShutDown, Wake, Lost, Exited, Settle, CloseHttp, StopChild, Stopped
  <1> USE <1>0, WaitsStay
  <1>1. CASE Wake \/ Lost
    <2>1. shouldExit' \in BOOLEAN
      BY <1>1, Zenon DEF Wake, Lost, Exit
    <2> QED
      BY <1>1, <2>1 DEF Wake, Lost, Exit
  <1>2. CASE Exited
    BY <1>2 DEF Exited
  <1>3. CASE Settle
    BY <1>3 DEF Settle, LossSettled, Mark
  <1>4. CASE CloseHttp
    BY <1>4 DEF CloseHttp
  <1>5. CASE StopChild
    <2>1. ready' \in {"absent", "left"}
      BY <1>5 DEF StopChild, Unready
    <2> QED
      BY <1>5, <2>1 DEF StopChild
  <1>6. CASE Stopped
    BY <1>6 DEF Stopped
  <1> QED
    BY <1>1, <1>2, <1>3, <1>4, <1>5, <1>6 DEF ShutDown

\* The loss of the child, the service's own quarantine and what follows them.
LEMMA LosingPreservesIInv ==
  ASSUME IInv, Losing \/ LoseChild \/ Strand
  PROVE  IInv'
  <1> USE DEF IInv, TypeOK, StartOwnsOnlyTheChild, LossTaskHasCause,
              LossReachesService, MarkerWaits, FinallyInOrder, Finishing
  <1>0. options' = options
    BY DEF Losing, LoseChild, Quarantine, AbortChild, Drain, MarkLost, LossTaskEnds, Strand
  <1> USE <1>0, WaitsStay
  <1>1. CASE LoseChild
    BY <1>1 DEF LoseChild, ChildClosed
  <1>2. CASE Quarantine
    BY <1>2 DEF Quarantine, Mark
  <1>3. CASE AbortChild
    <2>1. CASE child = "alive"
      <3>1. childLost' \in BOOLEAN /\ childLost'
        BY <1>3, <2>1, Zenon DEF AbortChild, ChildClosed
      <3> QED
        BY <1>3, <2>1, <3>1 DEF AbortChild, ChildClosed
    <2>2. CASE child # "alive"
      BY <1>3, <2>2 DEF AbortChild
    <2> QED
      BY <2>1, <2>2
  <1>4. CASE Drain
    BY <1>4 DEF Drain
  <1>5. CASE MarkLost
    BY <1>5 DEF MarkLost, Mark
  <1>6. CASE LossTaskEnds
    BY <1>6 DEF LossTaskEnds
  <1>7. CASE Strand
    <2>1. childLost' = TRUE /\ child' = "gone"
      BY <1>7 DEF Strand, ChildClosed
    <2>2. CASE main \in {"starting", "probing"} /\ Goto("stranded") /\ UNCHANGED waits
      BY <1>7, <2>1, <2>2 DEF Strand, ChildClosed
    <2>3. CASE "child" \in waits /\ waits' = waits \cup {"nobody"} /\ UNCHANGED main
      <3>1. waits' \subseteq Waits'
        BY <1>7, <2>3 DEF Strand, Waits
      <3>2. main \notin {"admitting", "starting", "probing", "stranded", "binding",
                         "stopping", "ended"}
        BY <2>3
      <3> QED
        BY <1>7, <2>1, <2>3, <3>1, <3>2 DEF Strand, ChildClosed
    <2> QED
      BY <1>7, <2>2, <2>3 DEF Strand
  <1> QED
    BY <1>1, <1>2, <1>3, <1>4, <1>5, <1>6, <1>7 DEF Losing

LEMMA NextPreservesIInv == IInv /\ [Next]_vars => IInv'
  <1> SUFFICES ASSUME IInv, [Next]_vars PROVE IInv'
    OBVIOUS
  <1>1. CASE Signal \/ ServerEnds
    <2>1. signalled' \in BOOLEAN
      BY <1>1, Zenon DEF Signal, ServerEnds, IInv, TypeOK
    <2>2. Waits' = Waits
      BY <1>1, WaitsStay DEF Signal, ServerEnds
    <2> QED
      BY <1>1, <2>1, <2>2
      DEF Signal, ServerEnds, IInv, TypeOK, StartOwnsOnlyTheChild, LossTaskHasCause,
          LossReachesService, MarkerWaits, FinallyInOrder
  <1>2. CASE \E who \in {"child", "client"} : RequestWaits(who) \/ RequestEnds(who)
    <2>1. PICK who \in {"child", "client"} : RequestWaits(who) \/ RequestEnds(who)
      BY <1>2
    <2>2. Waits' = Waits
      BY <2>1, WaitsStay DEF RequestWaits, RequestEnds
    <2>3. CASE RequestWaits(who)
      BY <2>2, <2>3
      DEF RequestWaits, IInv, TypeOK, StartOwnsOnlyTheChild, LossTaskHasCause,
          LossReachesService, MarkerWaits, FinallyInOrder, Finishing
    <2>4. CASE RequestEnds(who)
      BY <2>2, <2>4
      DEF RequestEnds, IInv, TypeOK, StartOwnsOnlyTheChild, LossTaskHasCause,
          LossReachesService, MarkerWaits, FinallyInOrder, Finishing
    <2> QED
      BY <2>1, <2>3, <2>4
  <1>3. CASE UNCHANGED vars
    BY <1>3, WaitsStay
    DEF IInv, TypeOK, StartOwnsOnlyTheChild, LossTaskHasCause, LossReachesService,
        MarkerWaits, FinallyInOrder
  <1> QED
    BY <1>1, <1>2, <1>3, StartPreservesIInv, ShutDownPreservesIInv, LosingPreservesIInv
    DEF Next

-----------------------------------------------------------------------------
\* What run() owns and who waits for whom, at every await of it.
THEOREM InvariantHolds == Spec => []IInv
  BY InitEstablishesIInv, NextPreservesIInv, PTL DEF Spec

\* A service that still admits work over a lost child has its loss task on the
\* way (_owned_child_closed, the checks of child_lost_event between the awaits).
THEOREM LossAlwaysReachesService == Spec => []LossReachesService
  <1>1. IInv => LossReachesService
    BY DEF IInv
  <1> QED
    BY <1>1, InvariantHolds, PTL

\* The owner stops the child, and ends, only behind drained tasks, and leaves no
\* child, socket, server task or open request, and no readiness file but one the OS
\* would not remove (the finally clause of run(), _remove_metadata_file).
THEOREM ShutdownLeavesNothing == Spec => []ShutdownIsOrderly
  <1>1. IInv => ShutdownIsOrderly
    BY DEF IInv, TypeOK, FinallyInOrder, MarkerWaits, Finishing, ShutdownIsOrderly,
           OwnerDrainsFirst, NothingLeftBehind
  <1> QED
    BY <1>1, InvariantHolds, PTL

\* The readiness file appears only for a listening server over a live service and
\* a child that has not been lost (the second check of child_lost_event).
THEOREM ReadinessIsNeverEarly == Spec => ReadinessIsTrue
  <1>1. IInv /\ [Next]_vars =>
          [ready' # ready /\ ready' = "present" =>
              /\ http' = "listening" /\ ~childLost
              /\ options.mode = "direct" => service' = "live"]_vars
    <2> SUFFICES ASSUME IInv, Next, ready' # ready, ready' = "present"
                 PROVE  /\ http' = "listening" /\ ~childLost
                        /\ options.mode = "direct" => service' = "live"
      OBVIOUS
    <2>1. Bound
      BY DEF Next, Start, Admit, Refuse, Initialized, StartFails, Probed, BindFails,
             ShutDown, Wake, Lost, Exited, Settle, CloseHttp, StopChild, Unready, Stopped,
             Exit, Losing, Quarantine, AbortChild, Drain, MarkLost, LossTaskEnds,
             LoseChild, Signal, ServerEnds, Strand, RequestWaits, RequestEnds
    <2> QED
      BY <2>1 DEF Bound, MayGoOn, IInv, LossTaskHasCause
  <1> QED
    BY <1>1, InvariantHolds, PTL DEF Spec, ReadinessIsTrue
=============================================================================
