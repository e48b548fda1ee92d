--------------------------- MODULE MCBoundedInput ---------------------------
(***************************************************************************)
(* The bounded inputs of one process, for TLC: the version probe runs      *)
(* first, and only a process whose probe gave a version serves a request.  *)
(* What the probe left running goes on beside the request.                 *)
(***************************************************************************)
EXTENDS VersionProbe, RequestBody

Serving == main = "ended" /\ result = "version"

ProcessInit == Init /\ BodyInit
ProcessNext ==
    \/ Next /\ UNCHANGED bodyVars
    \/ Serving /\ BodyNext /\ UNCHANGED vars

ProcessSpec ==
    ProcessInit /\ [][ProcessNext]_<<vars, bodyVars>>
        /\ WF_<<vars, bodyVars>>(Caller /\ UNCHANGED bodyVars)
=============================================================================
