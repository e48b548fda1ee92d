----------------------- MODULE BinarySelectionProofs -----------------------
(***************************************************************************)
(* Proofs about BinarySelection, for any set of paths and versions and any *)
(* number of replacements.                                                 *)
(***************************************************************************)
EXTENDS BinarySelection, TLAPS

\* None is neither a version nor a path: admitted[p] # None says that p was
\* accepted, binary # None that a path was chosen.
LEMMA NoneIsNoVersion ==
    /\ None \notin Versions /\ Versions \subseteq Nat /\ Minimum \in Nat
    /\ None \notin Paths /\ Absent \notin Versions /\ Broken \notin Versions
BY VersionsAreOrdered, PathsAreOrdered, NotNumbers

\* The invariant holds at first.
LEMMA InitEstablishes == Init => IInv
<1> SUFFICES ASSUME Init PROVE IInv
  OBVIOUS
<1> USE NoneIsNoVersion DEF Init
<1>1. TypeOK
  BY DEF TypeOK, Contents
<1>2. ~Discovered /\ Admitted = {}
  BY DEF Discovered, Admitted
<1>3. ChoiceFollowsPhase
  BY DEF ChoiceFollowsPhase
<1>4. UsableIsNotMissed
  BY <1>2 DEF UsableIsNotMissed
<1>5. AdmittedIsTrue /\ ChoiceIsBest
  BY <1>2 DEF AdmittedIsTrue, ChoiceIsBest
<1>6. RefusedForGood
  BY DEF RefusedForGood
<1> QED
  BY <1>1, <1>3, <1>4, <1>5, <1>6 DEF IInv

\* A step of the search that leaves the choice and the disk alone, and loses no
\* usable file, preserves the invariant.
LEMMA SearchPreserves ==
    ASSUME IInv, TypeOK', UNCHANGED <<admitted, choiceVars, diskVars, hindered>>,
           skipped \subseteq skipped',
           phase \in {"listing", "walking"}, phase' \in {"walking", "inspecting"},
           UsableIsNotMissed'
    PROVE  IInv'
<1>1. ChoiceFollowsPhase'
  BY DEF IInv, ChoiceFollowsPhase, choiceVars
<1>2. AdmittedIsTrue'
  BY DEF IInv, AdmittedIsTrue, diskVars, Steady
<1>3. binary' = None
  BY DEF IInv, ChoiceFollowsPhase, choiceVars
<1>4. ChoiceIsBest'
  BY <1>3, NoneIsNoVersion DEF ChoiceIsBest, Discovered
<1> QED
  BY <1>1, <1>2, <1>4 DEF IInv, RefusedForGood

LEMMA ListProcessesPreserves == IInv /\ ListProcesses => IInv'
<1> SUFFICES ASSUME IInv, ListProcesses PROVE IInv'
  OBVIOUS
<1> USE DEF ListProcesses, choiceVars, diskVars
<1>1. TypeOK'
  BY DEF IInv, TypeOK
<1>2. UsableIsNotMissed'
  BY DEF IInv, UsableIsNotMissed, ChoiceFollowsPhase, Usable, Steady, Accepted
<1> QED
  BY <1>1, <1>2, SearchPreserves

LEMMA VisitPreserves == ASSUME NEW p \in Paths PROVE IInv /\ Visit(p) => IInv'
<1> SUFFICES ASSUME IInv, Visit(p) PROVE IInv'
  OBVIOUS
<1> USE DEF Visit, choiceVars, diskVars
<1>1. TypeOK'
  BY DEF IInv, TypeOK, Found
<1>2. UsableIsNotMissed'
  <2> SUFFICES ASSUME NEW q \in Paths, Usable(q)'
               PROVE  q \in toVisit' \/ q \in candidates' \/ admitted'[q] = file'[q]
    BY DEF UsableIsNotMissed
  <2>1. Usable(q) /\ file[q] # Absent
    BY NoneIsNoVersion, NotNumbers DEF Usable, Steady, Accepted
  <2>2. q \in toVisit \/ q \in candidates \/ admitted[q] = file[q]
    BY <2>1 DEF IInv, UsableIsNotMissed, ChoiceFollowsPhase
  <2>3. CASE q = p
    BY <2>1, <2>3 DEF Found, Usable
  <2>4. CASE q # p
    BY <2>2, <2>4 DEF Found
  <2> QED
    BY <2>3, <2>4
<1> QED
  BY <1>1, <1>2, SearchPreserves

LEMMA WalkedPreserves == IInv /\ Walked => IInv'
<1> SUFFICES ASSUME IInv, Walked PROVE IInv'
  OBVIOUS
<1> USE DEF Walked, choiceVars, diskVars
<1>1. TypeOK'
  BY DEF IInv, TypeOK
<1>2. UsableIsNotMissed'
  BY DEF IInv, UsableIsNotMissed, ChoiceFollowsPhase, Usable, Steady, Accepted
<1> QED
  BY <1>1, <1>2, SearchPreserves

LEMMA InspectPreserves == ASSUME NEW p \in Paths PROVE IInv /\ Inspect(p) => IInv'
<1> SUFFICES ASSUME IInv, Inspect(p) PROVE IInv'
  OBVIOUS
<1> USE NoneIsNoVersion DEF Inspect, choiceVars, diskVars
<1>1. TypeOK /\ binary = None /\ observed = None /\ executed = None
  BY DEF IInv, ChoiceFollowsPhase
<1>2. TypeOK'
  BY <1>1 DEF TypeOK, Rest, Accepted, Hinder
<1>3. ChoiceFollowsPhase'
  BY <1>1 DEF ChoiceFollowsPhase
<1>4. UsableIsNotMissed'
  <2> SUFFICES ASSUME NEW q \in Paths, Usable(q)'
               PROVE  q \in toInspect' \/ admitted'[q] = file'[q]
    BY DEF UsableIsNotMissed
  <2>1. Usable(q) /\ q \notin hindered'
    BY DEF Usable, Steady, Accepted, Hinder
  <2>2. q \in toInspect \/ admitted[q] = file[q]
    BY <1>1, <2>1 DEF IInv, UsableIsNotMissed
  <2>3. CASE q = p
    BY <1>1, <2>1, <2>3 DEF Usable, Hinder, TypeOK
  <2>4. CASE q # p
    BY <1>1, <2>2, <2>4 DEF Rest, TypeOK
  <2> QED
    BY <2>3, <2>4
<1>5. AdmittedIsTrue'
  <2> SUFFICES ASSUME NEW q \in Paths, admitted'[q] # None
               PROVE  admitted'[q] >= Minimum /\ (Steady(q)' => admitted'[q] = file'[q])
    BY DEF AdmittedIsTrue
  <2>1. CASE q = p /\ Accepted(p) /\ admitted' = [admitted EXCEPT ![p] = file[p]]
    BY <1>1, <2>1 DEF Accepted, TypeOK
  <2>2. CASE q # p \/ UNCHANGED admitted
    BY <1>1, <2>2 DEF IInv, AdmittedIsTrue, Steady, TypeOK
  <2> QED
    BY <2>1, <2>2
<1>6. ChoiceIsBest'
  BY <1>1 DEF ChoiceIsBest, Discovered
<1> QED
  BY <1>2, <1>3, <1>4, <1>5, <1>6 DEF IInv, RefusedForGood

LEMMA SelectPreserves == IInv /\ Select => IInv'
<1> SUFFICES ASSUME IInv, Select PROVE IInv'
  OBVIOUS
<1> USE NoneIsNoVersion DEF Select, searchVars, diskVars
<1>1. PICK p \in Paths : IsBest(p) /\ binary' = p
  OBVIOUS
<1>2. TypeOK' /\ ChoiceFollowsPhase'
  BY <1>1 DEF IInv, TypeOK, ChoiceFollowsPhase
<1>3. UsableIsNotMissed'
  <2> SUFFICES ASSUME NEW q \in Paths, Usable(q)' PROVE admitted'[q] = file'[q]
    BY DEF UsableIsNotMissed
  <2>1. Usable(q)
    BY DEF Usable, Steady, Accepted
  <2> QED
    BY <2>1 DEF IInv, UsableIsNotMissed, ChoiceFollowsPhase
<1>4. AdmittedIsTrue'
  BY DEF IInv, AdmittedIsTrue, Steady
<1>5. IsBest(p)'
  BY <1>1 DEF IsBest, Admitted
<1>6. ChoiceIsBest'
  BY <1>1, <1>5 DEF ChoiceIsBest
<1> QED
  BY <1>2, <1>3, <1>4, <1>6 DEF IInv, RefusedForGood

LEMMA NothingFoundPreserves == IInv /\ NothingFound => IInv'
<1> SUFFICES ASSUME IInv, NothingFound PROVE IInv'
  OBVIOUS
<1> USE NoneIsNoVersion DEF NothingFound, searchVars, choiceVars, diskVars
<1>1. binary = None
  BY DEF IInv, ChoiceFollowsPhase
<1>2. TypeOK' /\ ChoiceFollowsPhase'
  BY DEF IInv, TypeOK, ChoiceFollowsPhase, Admitted
<1>3. UsableIsNotMissed'
  <2> SUFFICES ASSUME NEW q \in Paths, Usable(q)' PROVE admitted'[q] = file'[q]
    BY DEF UsableIsNotMissed
  <2>1. Usable(q)
    BY DEF Usable, Steady, Accepted
  <2> QED
    BY <1>1, <2>1 DEF IInv, UsableIsNotMissed
<1>4. AdmittedIsTrue' /\ ChoiceIsBest'
  BY <1>1 DEF IInv, AdmittedIsTrue, ChoiceIsBest, Steady, Discovered
<1> QED
  BY <1>1, <1>2, <1>3, <1>4 DEF IInv, RefusedForGood

\* A step of run() that leaves the search, the choice and the disk alone keeps
\* what the invariant says of them.
LEMMA RunPreserves ==
    ASSUME IInv, UNCHANGED <<searchVars, binary, diskVars, skipped>>, hindered \subseteq hindered',
           phase \in {"admitting", "starting"}, phase' \in {"starting", "running", "failed"}
    PROVE  UsableIsNotMissed' /\ AdmittedIsTrue' /\ (Discovered => IsBest(binary))' /\ binary # None
<1> USE DEF searchVars, diskVars
<1>1. binary # None
  BY DEF IInv, ChoiceFollowsPhase
<1>2. UsableIsNotMissed'
  <2> SUFFICES ASSUME NEW q \in Paths, Usable(q)'
               PROVE  admitted'[q] = file'[q] \/ (binary' # None /\ ~Discovered')
    BY DEF UsableIsNotMissed
  <2>1. Usable(q)
    BY DEF Usable, Steady, Accepted
  <2> QED
    BY <2>1 DEF IInv, UsableIsNotMissed, Discovered
<1>3. AdmittedIsTrue'
  BY DEF IInv, AdmittedIsTrue, Steady
<1>4. (Discovered => IsBest(binary))'
  BY DEF IInv, ChoiceIsBest, Discovered, IsBest, Admitted
<1> QED
  BY <1>1, <1>2, <1>3, <1>4

LEMMA AdmitPreserves == IInv /\ Admit => IInv'
<1> SUFFICES ASSUME IInv, Admit PROVE IInv'
  OBVIOUS
<1> USE NoneIsNoVersion
<1>1. UsableIsNotMissed' /\ AdmittedIsTrue' /\ (Discovered => IsBest(binary))' /\ binary # None
  BY RunPreserves DEF Admit, Hinder
<1>2. TypeOK' /\ ChoiceFollowsPhase'
  BY <1>1 DEF IInv, TypeOK, ChoiceFollowsPhase, Admit, Hinder, Accepted, searchVars, diskVars
<1>3. ChoiceIsBest'
  BY <1>1 DEF ChoiceIsBest, Admit, Accepted, diskVars
<1>4. RefusedForGood'
  BY <1>1 DEF RefusedForGood, Admit, Hinder, Accepted, diskVars
<1> QED
  BY <1>1, <1>2, <1>3, <1>4 DEF IInv

LEMMA ExecutePreserves == IInv /\ Execute => IInv'
<1> SUFFICES ASSUME IInv, Execute PROVE IInv'
  OBVIOUS
<1> USE NoneIsNoVersion
<1>1. UsableIsNotMissed' /\ AdmittedIsTrue' /\ (Discovered => IsBest(binary))' /\ binary # None
  BY RunPreserves DEF Execute, Hinder
<1>2. TypeOK' /\ ChoiceFollowsPhase'
  BY <1>1 DEF IInv, TypeOK, ChoiceFollowsPhase, Execute, Hinder, Contents, searchVars, diskVars
<1>3. ChoiceIsBest'
  BY <1>1 DEF IInv, ChoiceIsBest, Execute, Steady, diskVars
<1>4. RefusedForGood'
  BY <1>1 DEF RefusedForGood, Accepted, Execute, Hinder, diskVars
<1> QED
  BY <1>1, <1>2, <1>3, <1>4 DEF IInv

\* Replacing a file makes it unsteady, so nothing is said of it any more.
LEMMA ReplacePreserves == ASSUME NEW p \in Paths PROVE IInv /\ Replace(p) => IInv'
<1> SUFFICES ASSUME IInv, Replace(p) PROVE IInv'
  OBVIOUS
<1> USE NoneIsNoVersion DEF Replace, searchVars, choiceVars
<1>1. PICK c \in Contents : file' = [file EXCEPT ![p] = c]
  OBVIOUS
<1>2. TypeOK /\ TypeOK' /\ ChoiceFollowsPhase'
  BY <1>1 DEF IInv, TypeOK, ChoiceFollowsPhase, Admitted
<1>3. \A q \in Paths : Steady(q)' => Steady(q) /\ file'[q] = file[q]
  BY <1>1, <1>2 DEF Steady, TypeOK
<1>4. UsableIsNotMissed'
  <2> SUFFICES ASSUME NEW q \in Paths, Usable(q)'
               PROVE  \/ phase = "listing" /\ q \in toVisit
                      \/ phase = "walking" /\ (q \in toVisit \/ q \in candidates)
                      \/ phase = "inspecting" /\ q \in toInspect
                      \/ admitted[q] = file'[q]
                      \/ binary # None /\ ~Discovered'
    BY DEF UsableIsNotMissed
  <2>1. Usable(q) /\ file'[q] = file[q]
    BY <1>3 DEF Usable, Accepted
  <2> QED
    BY <2>1 DEF IInv, UsableIsNotMissed, Discovered
<1>5. AdmittedIsTrue'
  BY <1>3 DEF IInv, AdmittedIsTrue
<1>6. (Discovered => IsBest(binary))'
  BY DEF IInv, ChoiceIsBest, Discovered, IsBest, Admitted
<1>7. ChoiceIsBest'
  <2>1. phase \in {"starting", "running"} => binary \in Paths
    BY <1>2 DEF IInv, TypeOK, ChoiceFollowsPhase
  <2> QED
    BY <1>3, <1>6, <2>1 DEF IInv, ChoiceIsBest
<1> QED
  BY <1>2, <1>4, <1>5, <1>7 DEF IInv, RefusedForGood

LEMMA StutterPreserves == IInv /\ UNCHANGED vars => IInv'
BY DEF IInv, TypeOK, Contents, ChoiceFollowsPhase, UsableIsNotMissed, AdmittedIsTrue, ChoiceIsBest,
       RefusedForGood, Usable, Steady, Accepted, Discovered, IsBest, Admitted, vars, searchVars, choiceVars, diskVars

\* The inductive invariant, for any directory and any number of replacements.
THEOREM InvariantHolds == Spec => []IInv
<1>1. Init => IInv
  BY InitEstablishes
<1>2. IInv /\ [Next]_vars => IInv'
  BY ListProcessesPreserves, VisitPreserves, WalkedPreserves, InspectPreserves, SelectPreserves,
     NothingFoundPreserves, AdmitPreserves, ExecutePreserves, ReplacePreserves, StutterPreserves
     DEF Next
<1> QED
  BY <1>1, <1>2, PTL DEF Spec

\* find_binary never chooses a language server older than one that was there, and
\* could be read, all along.
THEOREM NeverOlder == Spec => []NotOlderThanASteadyOne
<1>1. IInv => NotOlderThanASteadyOne
  <2> SUFFICES ASSUME IInv, Discovered, NEW p \in Paths, Usable(p)
               PROVE  admitted[binary] >= file[p]
    BY DEF NotOlderThanASteadyOne
  <2> USE NoneIsNoVersion
  <2>1. IsBest(binary) /\ binary # None
    BY DEF IInv, ChoiceIsBest, Discovered
  <2>2. admitted[p] = file[p]
    BY <2>1 DEF IInv, UsableIsNotMissed, ChoiceFollowsPhase
  <2>3. p \in Admitted /\ admitted[p] \in Nat /\ admitted[binary] \in Nat
    BY <2>1, <2>2 DEF Usable, Accepted, Admitted, IInv, TypeOK, IsBest
  <2> QED
    BY <2>1, <2>2, <2>3 DEF IsBest
<1> QED
  BY <1>1, InvariantHolds, PTL

\* What run() executes is what it admitted, unless the file was replaced.
THEOREM ChildIsAdmitted == Spec => []SteadyChildIsTheAdmittedOne
<1>1. IInv => SteadyChildIsTheAdmittedOne
  BY NoneIsNoVersion DEF IInv, SteadyChildIsTheAdmittedOne, ChoiceIsBest, AdmittedIsTrue, Discovered
<1> QED
  BY <1>1, InvariantHolds, PTL

\* main() gives up only when no usable language server was there all along, or
\* when the one it went on with was replaced, not acceptable, or could not be run.
THEOREM GivesUpOnlyThen == Spec => []GivesUpRightly
<1>1. IInv => GivesUpRightly
  <2> SUFFICES ASSUME IInv, phase = "failed", binary = None, NEW p \in Paths, Usable(p)
               PROVE  FALSE
    BY DEF IInv, GivesUpRightly, RefusedForGood
  <2>1. admitted[p] = file[p] /\ admitted[p] = None
    BY DEF IInv, UsableIsNotMissed, ChoiceFollowsPhase, Admitted
  <2> QED
    BY <2>1, NoneIsNoVersion DEF Usable, Accepted
<1> QED
  BY <1>1, InvariantHolds, PTL
=============================================================================
