--------------------------- MODULE VersionProbe ---------------------------
(***************************************************************************)
(* One version probe of src/src/acp_proxy/discovery.py: a candidate binary *)
(* runs with --version in a process group of its own; a reader thread      *)
(* keeps a bounded part of its output while the main thread waits for it,  *)
(* judges it, and takes the group down.  POSIX; killpg is not refused, and *)
(* the id of the group names no other group when it is killed.             *)
(*                                                                         *)
(* Bytes are counted, not kept.  The program may spawn descendants, in its *)
(* group or escaped from it, that hold its end of the pipe.                *)
(***************************************************************************)
EXTENDS Integers

CONSTANTS
    Limit,      \* _VERSION_OUTPUT_LIMIT_BYTES
    PipeSize,   \* bytes the pipe holds
    MaxBytes    \* bound: bytes written

ASSUME LimitIsNatural == Limit \in Nat
ASSUME SizesAreNatural == PipeSize \in Nat /\ MaxBytes \in Nat

VARIABLES
    leader,    \* the probed process: running, exited, reaped
    silent,    \* it has closed its end of the pipe
    code,      \* its exit code, once it is not running
    kids,      \* descendants alive, by where they are: "grouped", "escaped"
    pipe,      \* bytes in the pipe
    written,   \* bytes written
    reader,    \* the reader thread: looping, reading, done
    got,       \* len(output)
    failed,    \* reader_failed
    open,      \* process.stdout is open
    main,      \* where the main thread is
    result     \* what the call comes to: none, version, failed

child == <<leader, silent, code, kids, written>>
thread == <<reader, got, failed, pipe>>
caller == <<open, main, result>>
vars == <<child, thread, caller>>

Waits == {"output", "exit"}

TypeOK ==
    /\ leader \in {"running", "exited", "reaped"} /\ code \in {0, 1} /\ silent \in BOOLEAN
    /\ kids \subseteq {"grouped", "escaped"}
    /\ failed \in BOOLEAN /\ open \in BOOLEAN
    /\ pipe \in Nat /\ written \in Nat /\ got \in Nat
    /\ reader \in {"looping", "reading", "done"}
    /\ main \in Waits \cup {"terminate", "close", "kill", "join", "ended"}
    /\ result \in {"none", "version", "failed"}

Init ==
    /\ leader = "running" /\ silent = FALSE /\ code = 0 /\ kids = {}
    /\ pipe = 0 /\ written = 0 /\ reader = "looping" /\ got = 0 /\ failed = FALSE
    /\ open = TRUE /\ main = "output" /\ result = "none"

-----------------------------------------------------------------------------
(* The probed program and the system. *)
Writers == (leader = "running" /\ ~silent) \/ kids # {}

Writes(n) ==
    /\ Writers /\ pipe + n <= PipeSize /\ written + n <= MaxBytes
    /\ pipe' = pipe + n /\ written' = written + n
    /\ UNCHANGED <<leader, silent, code, kids, reader, got, failed, caller>>

LeaderCloses ==
    /\ leader = "running" /\ silent' = TRUE
    /\ UNCHANGED <<leader, code, kids, written, thread, caller>>

LeaderExits ==
    /\ leader = "running" /\ leader' = "exited" /\ code' \in {0, 1}
    /\ UNCHANGED <<silent, kids, written, thread, caller>>

Spawns(where) ==
    /\ leader = "running" /\ ~silent /\ kids' = kids \cup {where}
    /\ UNCHANGED <<leader, silent, code, written, thread, caller>>

DescendantExits(where) ==
    /\ where \in kids /\ kids' = kids \ {where}
    /\ UNCHANGED <<leader, silent, code, written, thread, caller>>

-----------------------------------------------------------------------------
(* The reader thread, _read_stdout. *)
\* The loop condition, then fileno(), which raises once stdout is closed.
ReaderLoops ==
    /\ reader = "looping"
    /\ reader' = IF got > Limit \/ ~open THEN "done" ELSE "reading"
    /\ UNCHANGED <<got, failed, pipe, child, caller>>

\* What one read may still take.
Room == Limit + 1 - got

Reads(n) ==
    /\ reader = "reading" /\ n <= pipe /\ n <= Room
    /\ got' = got + n /\ pipe' = pipe - n /\ reader' = "looping"
    /\ UNCHANGED <<failed, child, caller>>

EndOfFile ==
    /\ reader = "reading" /\ pipe = 0 /\ ~Writers /\ reader' = "done"
    /\ UNCHANGED <<got, failed, pipe, child, caller>>

\* os.read raises: an input error, or the main thread has closed the stream.
ReadFails ==
    /\ reader = "reading" /\ reader' = "done" /\ failed' = TRUE
    /\ UNCHANGED <<got, pipe, child, caller>>

-----------------------------------------------------------------------------
(* The main thread. *)
\* Slip: a failed read counts as the end of the output.
Acceptable_Partial == got <= Limit

\* The output the probe goes on with.
Acceptable == got <= Limit /\ ~failed

OutputSeen ==
    /\ main = "output" /\ reader = "done"
    /\ IF Acceptable THEN main' = "exit" /\ UNCHANGED result
                     ELSE main' = "terminate" /\ result' = "failed"
    /\ UNCHANGED <<open, child, thread>>

TimesOut ==
    /\ main = "output" \/ (main = "exit" /\ leader = "running")
    /\ main' = "terminate" /\ result' = "failed"
    /\ UNCHANGED <<open, child, thread>>

\* process.wait(), which reaps the leader.
ExitSeen ==
    /\ main = "exit" /\ leader = "exited" /\ leader' = "reaped" /\ main' = "close"
    /\ result' = IF code = 0 THEN "version" ELSE "failed"
    /\ UNCHANGED <<silent, code, kids, written, open, thread>>

\* Slip: only the leader is killed.
Killed_Leader == UNCHANGED kids

\* Whom killpg takes besides the leader.
Killed == kids' = kids \ {"grouped"}

\* _terminate_probe_process_group: killpg on the leader's id, then the leader
\* is reaped.
TerminateGroup ==
    /\ Killed
    /\ leader' = "reaped" /\ code' = IF leader = "running" THEN 1 ELSE code
    /\ UNCHANGED <<silent, written, thread>>

Terminate == main = "terminate" /\ TerminateGroup /\ main' = "close" /\ UNCHANGED <<open, result>>

CloseStream ==
    /\ main = "close" /\ open' = FALSE /\ main' = "kill"
    /\ UNCHANGED <<result, child, thread>>

FinallyTerminate == main = "kill" /\ TerminateGroup /\ main' = "join" /\ UNCHANGED <<open, result>>

\* reader.join(timeout=1.0): the thread may stay behind.
Join ==
    /\ main = "join" /\ main' = "ended"
    /\ UNCHANGED <<open, result, child, thread>>

\* Slip: the exit of the leader is awaited without a deadline.
Caller_Patient ==
    \/ OutputSeen \/ (main = "output" /\ TimesOut) \/ ExitSeen \/ Terminate
    \/ CloseStream \/ FinallyTerminate \/ Join

\* The steps of the main thread.
Caller == OutputSeen \/ TimesOut \/ ExitSeen \/ Terminate \/ CloseStream \/ FinallyTerminate \/ Join

Next ==
    \/ \E n \in 1..MaxBytes : Writes(n) \/ Reads(n)
    \/ LeaderCloses \/ LeaderExits \/ ReaderLoops \/ EndOfFile \/ ReadFails
    \/ \E where \in {"grouped", "escaped"} : Spawns(where) \/ DescendantExits(where)
    \/ Caller

Spec == Init /\ [][Next]_vars
FairSpec == Spec /\ WF_vars(Caller)

-----------------------------------------------------------------------------
\* The inductive invariant of the proofs.
IInv ==
    /\ TypeOK
    /\ written = got + pipe /\ got <= Limit + 1
    /\ reader = "done" /\ ~failed /\ got <= Limit /\ open => pipe = 0 /\ ~Writers
    /\ main = "exit" => reader = "done" /\ ~failed /\ got <= Limit
    /\ main \in Waits \cup {"terminate", "close"} => open
    /\ main \in Waits => result = "none"
    /\ result = "version" =>
         reader = "done" /\ ~failed /\ got <= Limit /\ pipe = 0 /\ kids = {}
         /\ leader = "reaped" /\ code = 0
    /\ main = "join" \/ main = "ended" => leader = "reaped" /\ "grouped" \notin kids

\* Whatever the program writes, and however its writes are cut, the reader keeps
\* at most one byte more than the limit.
RetainsBounded == got <= Limit + 1

\* A version is taken only from all the output of a program that succeeded:
\* no timeout, failed read or descendant still writing leaves a part of it.
VersionIsWhole == result = "version" => code = 0 /\ got = written /\ got <= Limit

\* However the call ends, nothing of the probe's process group outlives it.
TreeIsDead == main = "ended" => leader = "reaped" /\ "grouped" \notin kids

\* The probe ends, even when a descendant holds the pipe for ever.
ProbeEnds == <>(main = "ended")
=============================================================================
