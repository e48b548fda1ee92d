----------------------------- MODULE Terminals -----------------------------
(***************************************************************************)
(* The terminals of the permissive legacy policy (src/src/acp_proxy/       *)
(* client.py): commands the agent runs, reads, waits for, kills, releases. *)
(*                                                                         *)
(* The handlers are not coroutines: one that waits for a command holds the *)
(* event loop, and no other handler starts meanwhile.  The command and its *)
(* descendants run on.  Output is a sequence of numbered pieces.  A call   *)
(* about an unknown terminal changes nothing and is left out.              *)
(***************************************************************************)
EXTENDS Integers, Sequences

CONSTANTS
    Terms,      \* terminal ids
    Leaving,    \* terminals whose command leaves a descendant with its pipe
    Free,       \* no call holds the event loop
    PipeSize,   \* pieces the pipe holds
    MaxWrites,  \* bound: pieces one command writes
    MaxWaits    \* bound: terminal/wait_for_exit calls per terminal

Calls == {"wait", "read", "answer", "reap"} \X Terms

ASSUME LeavingAreTerminals == Leaving \subseteq Terms
ASSUME PipesAreBounded == {PipeSize, MaxWrites, MaxWaits} \subseteq Nat
ASSUME FreeIsNoCall == Free \notin Calls

VARIABLES
    kept,      \* keys of _terminals
    process,   \* the command: none, running, killed, exited
    held,      \* a descendant holds the write end of the pipe
    pipe,      \* pieces written and not read
    written,   \* how many pieces were written
    closed,    \* communicate() met the end and closed stdout
    gathered,  \* communicate()'s own list, which outlives the call
    output,    \* term["output"]
    busy,      \* <<call, terminal>> that holds the event loop, or Free
    waits,     \* waits begun
    timedOut   \* history: terminals a wait has given up on

command == <<process, held, pipe, written>>
terminalVars == <<kept, command, closed, gathered, output, busy, waits, timedOut>>

TerminalsTypeOK ==
    /\ kept \subseteq Terms /\ held \subseteq Terms /\ closed \subseteq Terms
    /\ timedOut \subseteq Terms
    /\ process \in [Terms -> {"none", "running", "killed", "exited"}]
    /\ written \in [Terms -> 0..MaxWrites] /\ waits \in [Terms -> 0..MaxWaits]
    /\ {pipe, gathered, output} \subseteq [Terms -> Seq(1..MaxWrites)]
    /\ \A t \in Terms : Len(pipe[t]) <= PipeSize
    /\ busy \in Calls \cup {Free}

TerminalsInit ==
    /\ kept = {} /\ process = [t \in Terms |-> "none"] /\ held = Leaving
    /\ pipe = [t \in Terms |-> <<>>] /\ written = [t \in Terms |-> 0]
    /\ closed = {} /\ gathered = pipe /\ output = pipe /\ busy = Free
    /\ waits = written /\ timedOut = {}

Exited(t) == process[t] = "exited"
AtEnd(t) == Exited(t) /\ t \notin held
Killed(t) == [process EXCEPT ![t] = IF @ = "running" THEN "killed" ELSE @]

-----------------------------------------------------------------------------
(* The command. *)
Writes(t) ==
    /\ process[t] = "running" /\ Len(pipe[t]) < PipeSize /\ written[t] < MaxWrites
    /\ written' = [written EXCEPT ![t] = @ + 1]
    /\ pipe' = [pipe EXCEPT ![t] = Append(@, written'[t])]
    /\ UNCHANGED <<kept, process, held, closed, gathered, output, busy, waits, timedOut>>

Exits(t) ==
    /\ process[t] \in {"running", "killed"}
    /\ process' = [process EXCEPT ![t] = "exited"]
    /\ UNCHANGED <<kept, held, pipe, written, closed, gathered, output, busy, waits, timedOut>>

DescendantExits(t) ==
    /\ t \in held /\ process[t] # "none" /\ held' = held \ {t}
    /\ UNCHANGED <<kept, process, pipe, written, closed, gathered, output, busy, waits, timedOut>>

-----------------------------------------------------------------------------
(* The handlers. *)
Create(t) ==
    /\ busy = Free /\ process[t] = "none"
    /\ kept' = kept \cup {t} /\ process' = [process EXCEPT ![t] = "running"]
    /\ UNCHANGED <<held, pipe, written, closed, gathered, output, busy, waits, timedOut>>

\* terminal/output: a command seen to have exited is read to the end, which
\* raises, and changes nothing, once communicate() has closed the stream.
Output(t) ==
    /\ busy = Free /\ t \in kept
    /\ ~(Exited(t) /\ t \in closed)
    /\ busy' = <<IF Exited(t) THEN "read" ELSE "answer", t>>
    /\ UNCHANGED <<kept, command, closed, gathered, output, waits, timedOut>>

\* read() returns at the end of the pipe, so not while a descendant holds it.
Reads(t) ==
    /\ busy = <<"read", t>> /\ AtEnd(t)
    /\ output' = [output EXCEPT ![t] = @ \o pipe[t]] /\ pipe' = [pipe EXCEPT ![t] = <<>>]
    /\ busy' = <<"answer", t>>
    /\ UNCHANGED <<kept, process, held, written, closed, gathered, waits, timedOut>>

\* The answer; its exit status is polled for a second time.
Answers(t) ==
    /\ busy = <<"answer", t>> /\ busy' = Free
    /\ UNCHANGED <<kept, command, closed, gathered, output, waits, timedOut>>

\* terminal/wait_for_exit: communicate() reads until the end and the exit.
Wait(t) ==
    /\ busy = Free /\ t \in kept /\ waits[t] < MaxWaits
    /\ busy' = <<"wait", t>> /\ waits' = [waits EXCEPT ![t] = @ + 1]
    /\ UNCHANGED <<kept, command, closed, gathered, output, timedOut>>

Gathers(t) ==
    /\ busy = <<"wait", t>> /\ t \notin closed /\ pipe[t] # <<>>
    /\ gathered' = [gathered EXCEPT ![t] = Append(@, Head(pipe[t]))]
    /\ pipe' = [pipe EXCEPT ![t] = Tail(@)]
    /\ UNCHANGED <<kept, process, held, written, closed, output, busy, waits, timedOut>>

\* Slip: the output is replaced by what this wait has gathered.
WaitEnds_Replaces(t) ==
    /\ busy = <<"wait", t>> /\ busy' = Free
    /\ t \in closed \/ (AtEnd(t) /\ pipe[t] = <<>>)
    /\ closed' = closed \cup {t} /\ output' = [output EXCEPT ![t] = gathered[t]]
    /\ UNCHANGED <<kept, command, gathered, waits, timedOut>>

\* What a finished wait adds to the output: everything communicate() returns.
WaitEnds(t) ==
    /\ busy = <<"wait", t>> /\ busy' = Free
    /\ t \in closed \/ (AtEnd(t) /\ pipe[t] = <<>>)
    /\ closed' = closed \cup {t} /\ output' = [output EXCEPT ![t] = @ \o gathered[t]]
    /\ UNCHANGED <<kept, command, gathered, waits, timedOut>>

\* Slip: the timeout only ends the call.
WaitTimesOut_Spares(t) ==
    /\ busy = <<"wait", t>> /\ busy' = Free /\ timedOut' = timedOut \cup {t}
    /\ UNCHANGED <<kept, command, closed, gathered, output, waits>>

\* communicate(timeout=120) gives up; the command is killed.
WaitTimesOut(t) ==
    /\ busy = <<"wait", t>> /\ busy' = Free /\ t \notin closed
    /\ timedOut' = timedOut \cup {t} /\ process' = Killed(t)
    /\ UNCHANGED <<kept, held, pipe, written, closed, gathered, output, waits>>

Kill(t) ==
    /\ busy = Free /\ t \in kept /\ process' = Killed(t)
    /\ UNCHANGED <<kept, held, pipe, written, closed, gathered, output, busy, waits, timedOut>>

\* Slip: the command is killed and not reaped.
Release_Unreaped(t) ==
    /\ busy = Free /\ t \in kept /\ kept' = kept \ {t} /\ process' = Killed(t)
    /\ UNCHANGED <<held, pipe, written, closed, gathered, output, busy, waits, timedOut>>

\* Slip: the release waits for a command nobody kills.
Release_OnlyWaits(t) ==
    /\ busy = Free /\ t \in kept /\ kept' = kept \ {t}
    /\ busy' = IF Exited(t) THEN Free ELSE <<"reap", t>>
    /\ UNCHANGED <<command, closed, gathered, output, waits, timedOut>>

\* terminal/release: dropped, killed if it runs, and reaped before the answer.
Release(t) ==
    /\ busy = Free /\ t \in kept /\ kept' = kept \ {t}
    /\ process' = Killed(t) /\ busy' = IF Exited(t) THEN Free ELSE <<"reap", t>>
    /\ UNCHANGED <<held, pipe, written, closed, gathered, output, waits, timedOut>>

Reaps(t) ==
    /\ busy = <<"reap", t>> /\ Exited(t) /\ busy' = Free
    /\ UNCHANGED <<kept, command, closed, gathered, output, waits, timedOut>>

Handler(t) ==
    \/ Create(t) \/ Output(t) \/ Reads(t) \/ Answers(t) \/ Wait(t) \/ Gathers(t)
    \/ WaitEnds(t) \/ WaitTimesOut(t) \/ Kill(t) \/ Release(t) \/ Reaps(t)
TerminalsNext == \E t \in Terms : Handler(t) \/ Writes(t) \/ Exits(t) \/ DescendantExits(t)

TerminalsSpec == TerminalsInit /\ [][TerminalsNext]_terminalVars

\* The handlers run on, the timeout expires, and a killed command dies; a
\* command left alone and a descendant owe nobody their end.
FairTerminalsSpec ==
    /\ TerminalsSpec
    /\ \A t \in Terms :
         /\ WF_terminalVars(Reads(t) \/ Answers(t) \/ Gathers(t) \/ WaitEnds(t) \/ Reaps(t))
         /\ WF_terminalVars(WaitTimesOut(t))
         /\ WF_terminalVars(process[t] = "killed" /\ Exits(t))

-----------------------------------------------------------------------------
Everything(t) == [i \in 1..written[t] |-> i]

\* Reading and waiting use two buffers over one pipe: as long as no wait was
\* given up or repeated, what either of them has read to the end is the
\* command's output, whole and in order.
OutputIsWhole ==
    \A t \in Terms :
        AtEnd(t) /\ pipe[t] = <<>> /\ waits[t] <= 1 /\ t \notin timedOut
        /\ busy # <<"wait", t>> => output[t] = Everything(t)

\* However waits, kills and exits interleave, a released command is dead when
\* its release is answered, and none that lost its entry runs unseen.
ReleasedIsDead ==
    \A t \in Terms :
        process[t] # "none" /\ t \notin kept /\ busy # <<"reap", t>> => Exited(t)

\* Once no descendant of a command holds a pipe, every call returns: the event
\* loop, and with it the reader, the callbacks and the HTTP server, comes back.
LoopComesBack == held = {} ~> busy = Free

\* A command somebody waited for does not outlive the timeout of the wait.
WaitedForEnds == \A t \in Terms : busy = <<"wait", t>> ~> Exited(t)

\* A terminal's entry, its command and its output agree (_terminals).
TerminalsAgree == TerminalsTypeOK /\ OutputIsWhole /\ ReleasedIsDead

\* Terminal calls come back and keep their timeout (_handle_terminal_wait,
\* _handle_terminal_output).
CallsComeBack == LoopComesBack /\ WaitedForEnds
-----------------------------------------------------------------------------
(* The inductive invariant of LegacyProofs                                 *)

\* A closed stream was read to its end, after which nobody writes.
ClosedIsTheEnd == \A t \in closed : AtEnd(t) /\ pipe[t] = <<>>

\* What waits have to do with what they gather and close.
WaitsLeaveTheirMark ==
    \A t \in Terms :
        /\ waits[t] = 0 => gathered[t] = <<>> /\ t \notin closed /\ busy # <<"wait", t>>
        /\ waits[t] = 1 /\ t \notin timedOut => (t \in closed <=> busy # <<"wait", t>>)

\* The output is on its way through the two buffers, or has arrived.
OnItsWay(t) ==
    IF t \in closed THEN output[t] = Everything(t)
    ELSE output[t] \o gathered[t] \o pipe[t] = Everything(t)
OutputIsOnItsWay == \A t \in Terms : waits[t] <= 1 /\ t \notin timedOut => OnItsWay(t)

TerminalsIInv ==
    /\ TerminalsTypeOK /\ ClosedIsTheEnd /\ WaitsLeaveTheirMark /\ OutputIsOnItsWay
    /\ ReleasedIsDead
=============================================================================
