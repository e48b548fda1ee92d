-------------------------- MODULE BinarySelection --------------------------
(***************************************************************************)
(* Which language server is executed: find_binary and admission in         *)
(* src/src/acp_proxy/discovery.py, main() and run() of                     *)
(* src/src/acp_proxy/__main__.py, while the files on disk may be replaced  *)
(* at every moment (the IDE that installed them updates itself).           *)
(*                                                                         *)
(* A path is a canonical path and stands for its place in sorted order;    *)
(* a version is a number.  One probe of a file is one step here: the       *)
(* module VersionProbe looks inside.  A probe of a good file may still     *)
(* fail by itself, at every one of the places where a file is executed.    *)
(***************************************************************************)
EXTENDS Naturals, FiniteSets

CONSTANTS
    Paths,        \* canonical paths, as numbers in sorted order
    Versions,     \* versions a file may report
    Minimum,      \* MIN_COPILOT_LANGUAGE_SERVER_VERSION
    MaxChanges,   \* bound on replacements of files
    Absent,       \* no executable file at the path
    Broken,       \* an executable whose probe always fails
    None

ASSUME PathsAreOrdered == Paths \subseteq Nat
ASSUME VersionsAreOrdered == Versions \subseteq Nat /\ Minimum \in Nat
ASSUME NotNumbers == Absent \notin Nat /\ Broken \notin Nat /\ None \notin Nat

VARIABLES
    phase,       \* where main() and run() are
    running,     \* paths the process list names
    file,        \* what is at each path
    toVisit,     \* paths os.walk has not come to
    candidates,  \* named executables found so far
    toInspect,   \* canonical_paths not inspected yet
    admitted,    \* what each inspected candidate reported, if it was accepted
    binary,      \* the path main() hands to run()
    observed,    \* admission.version in run()
    executed,    \* the version the child really is
    changed,     \* paths that were ever replaced
    skipped,     \* paths the process list or the walk could not tell of
    hindered,    \* paths of good files that once could not be run, or not in time
    changes      \* number of replacements

searchVars == <<toVisit, candidates, toInspect, admitted>>
choiceVars == <<binary, observed, executed>>
diskVars == <<file, changed, changes>>
vars == <<phase, running, searchVars, choiceVars, diskVars, skipped, hindered>>

Contents == Versions \cup {Absent, Broken}

TypeOK ==
    /\ phase \in {"listing", "walking", "inspecting", "admitting", "starting",
                  "running", "failed"}
    /\ running \in SUBSET Paths /\ file \in [Paths -> Contents]
    /\ toVisit \in SUBSET Paths /\ candidates \in SUBSET Paths
    /\ toInspect \in SUBSET Paths
    /\ admitted \in [Paths -> Versions \cup {None}]
    /\ binary \in Paths \cup {None} /\ observed \in Versions \cup {None}
    /\ executed \in Versions \cup {Broken, None}
    /\ changed \in SUBSET Paths /\ skipped \in SUBSET Paths /\ hindered \in SUBSET Paths
    /\ changes \in Nat

\* main() with --binary goes to run() at once.
Init ==
    /\ binary \in Paths \cup {None}
    /\ phase = IF binary = None THEN "listing" ELSE "admitting"
    /\ running \in SUBSET Paths /\ file \in [Paths -> Contents]
    /\ toVisit = Paths /\ candidates = {} /\ toInspect = {}
    /\ admitted = [p \in Paths |-> None]
    /\ observed = None /\ executed = None
    /\ changed = {} /\ skipped = {} /\ hindered = {} /\ changes = 0

-----------------------------------------------------------------------------
(* Finding candidates                                                      *)

\* _candidate_paths_from_processes: ps may fail, and then names nobody.
ListProcesses ==
    /\ phase = "listing" /\ phase' = "walking"
    /\ candidates' \in {running, {}}
    /\ UNCHANGED <<running, toVisit, toInspect, admitted, choiceVars, diskVars, skipped, hindered>>

\* Slip: the disk is searched only when no process was found.
Found_ProcessesFirst(p) == candidates = {} /\ file[p] # Absent

\* A named, executable regular file.
Found(p) == file[p] # Absent

\* _candidate_paths_from_jetbrains: os.walk comes to one directory after the
\* other; an error in one is logged and the walk goes on without it.
Visit(p) ==
    /\ phase = "walking" /\ p \in toVisit
    /\ toVisit' = toVisit \ {p}
    /\ \/ /\ candidates' = IF Found(p) THEN candidates \cup {p} ELSE candidates
          /\ UNCHANGED skipped
       \/ skipped' = skipped \cup {p} /\ UNCHANGED candidates
    /\ UNCHANGED <<phase, running, toInspect, admitted, choiceVars, diskVars, hindered>>

Walked ==
    /\ phase = "walking" /\ toVisit = {}
    /\ phase' = "inspecting" /\ toInspect' = candidates
    /\ UNCHANGED <<running, toVisit, candidates, admitted, choiceVars, diskVars, skipped, hindered>>

-----------------------------------------------------------------------------
(* Choosing                                                                *)

\* _inspect_binary: an executable, its probe, the minimum.
Accepted(p) == file[p] \in Versions /\ file[p] >= Minimum

\* The process is not spawned (OSError), or does not answer within ten seconds.
Hinder(p) == hindered' = hindered \cup {p}

\* Slip: a rejected candidate ends the loop.
Rest_StopsAtReject(p) == IF Accepted(p) THEN toInspect \ {p} ELSE {}

\* A rejection is counted and the loop goes on.
Rest(p) == toInspect \ {p}

\* for path in sorted(canonical_paths)
Inspect(p) ==
    /\ phase = "inspecting" /\ p \in toInspect /\ \A q \in toInspect : p <= q
    /\ toInspect' = Rest(p)
    /\ \/ /\ Accepted(p) /\ admitted' = [admitted EXCEPT ![p] = file[p]]
          /\ UNCHANGED hindered
       \/ Accepted(p) /\ Hinder(p) /\ UNCHANGED admitted
       \/ ~Accepted(p) /\ UNCHANGED <<admitted, hindered>>
    /\ UNCHANGED <<phase, running, toVisit, candidates, choiceVars, diskVars, skipped>>

Admitted == {p \in Paths : admitted[p] # None}

\* The highest version, and among equals the first path.
IsBest(p) ==
    /\ p \in Admitted
    /\ \A q \in Admitted : \/ admitted[p] > admitted[q]
                           \/ admitted[p] = admitted[q] /\ p <= q

Select ==
    /\ phase = "inspecting" /\ toInspect = {}
    /\ \E p \in Paths : IsBest(p) /\ binary' = p
    /\ phase' = "admitting"
    /\ UNCHANGED <<running, searchVars, observed, executed, diskVars, skipped, hindered>>

\* No candidate, or none accepted: main() exits with 1 either way.
NothingFound ==
    /\ phase = "inspecting" /\ toInspect = {} /\ Admitted = {}
    /\ phase' = "failed"
    /\ UNCHANGED <<running, searchVars, choiceVars, diskVars, skipped, hindered>>

-----------------------------------------------------------------------------
(* Running                                                                 *)

\* run() admits whatever path it was given again, in a thread.  This second probe
\* may fail although the first one of the same file did not, and ends main().
Admit ==
    /\ phase = "admitting"
    /\ \/ /\ Accepted(binary)
          /\ phase' = "starting" /\ observed' = file[binary] /\ UNCHANGED hindered
       \/ /\ Accepted(binary) /\ Hinder(binary)
          /\ phase' = "failed" /\ UNCHANGED observed
       \/ ~Accepted(binary) /\ phase' = "failed" /\ UNCHANGED <<observed, hindered>>
    /\ UNCHANGED <<running, searchVars, binary, executed, diskVars, skipped>>

\* The transport executes what is at the path by then, or cannot.
Execute ==
    /\ phase = "starting"
    /\ \/ /\ file[binary] # Absent
          /\ phase' = "running" /\ executed' = file[binary] /\ UNCHANGED hindered
       \/ /\ file[binary] # Absent /\ Hinder(binary)
          /\ phase' = "failed" /\ UNCHANGED executed
       \/ file[binary] = Absent /\ phase' = "failed" /\ UNCHANGED <<executed, hindered>>
    /\ UNCHANGED <<running, searchVars, binary, observed, diskVars, skipped>>

\* A file is installed, replaced or removed.
Replace(p) ==
    /\ changes < MaxChanges /\ phase \notin {"running", "failed"}
    /\ \E c \in Contents \ {file[p]} : file' = [file EXCEPT ![p] = c]
    /\ changed' = changed \cup {p} /\ changes' = changes + 1
    /\ UNCHANGED <<phase, running, searchVars, choiceVars, skipped, hindered>>

Next ==
    \/ ListProcesses \/ Walked \/ Select \/ NothingFound \/ Admit \/ Execute
    \/ \E p \in Paths : Visit(p) \/ Inspect(p) \/ Replace(p)

Spec == Init /\ [][Next]_vars

-----------------------------------------------------------------------------
Steady(p) == p \notin changed

\* A file nobody touched, in a directory that could be read, with a version that
\* is good enough, and that ran whenever it was tried.
Usable(p) == Steady(p) /\ p \notin skipped \cup hindered /\ Accepted(p)

Discovered == \E p \in Paths : admitted[p] # None /\ binary = p

\* Whatever else changes on disk meanwhile, and wherever a candidate was found
\* first, a discovered language server is never older than one that was there all
\* along: enumeration order cannot choose an older one (find_binary).
NotOlderThanASteadyOne ==
    Discovered => \A p \in Paths : Usable(p) => admitted[binary] >= file[p]

\* main() gives up only when no usable language server was there all along, or
\* when the one path it goes on with, given or chosen, was replaced, was never
\* acceptable, or could not be run; a failing probe of one candidate is no reason
\* as long as another one is usable (_select_best_binary, run).
GivesUpRightly ==
    phase = "failed" =>
        IF binary = None THEN \A p \in Paths : ~Usable(p)
        ELSE \/ ~Steady(binary) \/ ~Accepted(binary) \/ binary \in hindered

\* What is executed is what admission observed, and new enough, unless the file
\* was replaced in between (admit_compatible_binary, AcpTransport.start).
SteadyChildIsTheAdmittedOne ==
    phase = "running" /\ Steady(binary) =>
        executed = observed /\ observed >= Minimum /\ (Discovered => admitted[binary] = observed)

-----------------------------------------------------------------------------
(* The inductive invariant of BinarySelectionProofs                        *)

\* Before the choice nothing is chosen; afterwards binary is a path.
ChoiceFollowsPhase ==
    /\ phase \in {"listing", "walking", "inspecting"} =>
          binary = None /\ observed = None /\ executed = None
    /\ phase \in {"admitting", "starting", "running"} => binary # None
    /\ phase = "failed" /\ binary = None => Admitted = {}

\* A usable file is still to be visited, still to be inspected, or admitted.
UsableIsNotMissed ==
    \A p \in Paths : Usable(p) =>
        \/ phase = "listing" /\ p \in toVisit
        \/ phase = "walking" /\ (p \in toVisit \/ p \in candidates)
        \/ phase = "inspecting" /\ p \in toInspect
        \/ admitted[p] = file[p]
        \/ binary # None /\ ~Discovered

\* What is admitted was good enough, and a steady file has not changed since.
AdmittedIsTrue ==
    \A p \in Paths : admitted[p] # None =>
        admitted[p] >= Minimum /\ (Steady(p) => admitted[p] = file[p])

\* The choice was the best of what was admitted; run() saw the file it runs.
ChoiceIsBest ==
    /\ Discovered => IsBest(binary)
    /\ phase \in {"starting", "running"} =>
          observed # None /\ observed >= Minimum /\ (Steady(binary) => observed = file[binary])
    /\ phase = "running" /\ Steady(binary) => executed = file[binary]

\* The chosen file was refused, gone or could not be run when main() gave up
\* after a choice.
RefusedForGood ==
    phase = "failed" /\ binary # None =>
        ~Steady(binary) \/ ~Accepted(binary) \/ binary \in hindered

IInv ==
    /\ TypeOK /\ ChoiceFollowsPhase /\ UsableIsNotMissed /\ AdmittedIsTrue /\ ChoiceIsBest
    /\ RefusedForGood
=============================================================================
