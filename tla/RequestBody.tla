---------------------------- MODULE RequestBody ----------------------------
(***************************************************************************)
(* RequestBodyLimitMiddleware of src/src/acp_proxy/direct_server.py: the   *)
(* body of one HTTP request is received whole, within the limit, before    *)
(* the application sees a byte of it, and is then replayed to it.          *)
(*                                                                         *)
(* A message is the number of body bytes it carries, or a disconnect.  The *)
(* client ends its body, goes on past the limit, or goes away.             *)
(***************************************************************************)
EXTENDS Integers, Sequences

CONSTANTS
    MaxRequestBytes,     \* limits.max_request_bytes
    ChunkSizes,   \* the sizes of the pieces the server hands over
    MaxMessages   \* bound: messages of one request

ASSUME RequestLimitIsNatural == MaxRequestBytes \in Nat
ASSUME ChunksAreNatural == ChunkSizes \subseteq Nat
ASSUME MessagesAreNatural == MaxMessages \in Nat

Disconnect == -1

VARIABLES
    phase,      \* receiving, replaying, refused
    messages,   \* the messages kept
    total,      \* their bytes
    index,      \* how many were replayed
    ended,      \* the client's last message was kept
    sent,       \* history: bytes the client has sent
    upto,       \* history: bytes kept up to each message
    seen        \* history: bytes the application has read

bodyVars == <<phase, messages, total, index, ended, sent, upto, seen>>

BodyTypeOK ==
    /\ phase \in {"receiving", "replaying", "refused"}
    /\ messages \in Seq(ChunkSizes \cup {Disconnect})
    /\ total \in Nat /\ index \in Nat /\ ended \in BOOLEAN
    /\ sent \in Nat /\ upto \in Seq(Nat) /\ seen \in Nat

BodyInit ==
    /\ phase = "receiving" /\ messages = <<>> /\ total = 0 /\ index = 0
    /\ ended = FALSE /\ sent = 0 /\ upto = <<>> /\ seen = 0

\* The piece would take the body past the limit.
Exceeds(n) == total + n > MaxRequestBytes

\* http.request: refused with 413 at once, or kept; the last piece ends the body.
Receive(n, more) ==
    /\ phase = "receiving" /\ Len(messages) < MaxMessages
    /\ sent' = sent + n
    /\ IF Exceeds(n)
       THEN phase' = "refused" /\ UNCHANGED <<messages, total, ended, upto>>
       ELSE /\ messages' = Append(messages, n)
            /\ total' = total + n /\ upto' = Append(upto, total + n)
            /\ phase' = IF more THEN "receiving" ELSE "replaying"
            /\ ended' = ~more
    /\ UNCHANGED <<index, seen>>

\* http.disconnect: kept, so the application meets it after the pieces before it.
Disconnected ==
    /\ phase = "receiving" /\ Len(messages) < MaxMessages
    /\ messages' = Append(messages, Disconnect) /\ upto' = Append(upto, total)
    /\ phase' = "replaying"
    /\ UNCHANGED <<total, index, ended, sent, seen>>

\* Slip: the first message is passed over.
NextMessage_Skips == index + 2

\* The position of the message replayed next.
NextMessage == index + 1

\* The application's receive(): the next message kept, then only disconnects.
Replay ==
    /\ phase = "replaying" /\ NextMessage <= Len(messages)
    /\ index' = NextMessage
    /\ seen' = IF messages[NextMessage] = Disconnect THEN seen
               ELSE seen + messages[NextMessage]
    /\ UNCHANGED <<phase, messages, total, ended, sent, upto>>

BodyNext ==
    \/ \E n \in ChunkSizes, more \in BOOLEAN : Receive(n, more)
    \/ Disconnected
    \/ Replay

BodySpec == BodyInit /\ [][BodyNext]_bodyVars

-----------------------------------------------------------------------------
\* What the bytes counted at each end have to do with the messages kept.
Bytes(m) == IF m = Disconnect THEN 0 ELSE m
At(counts, i) == IF i = 0 THEN 0 ELSE counts[i]

CountsAgree ==
    /\ Len(upto) = Len(messages) /\ index <= Len(messages)
    /\ \A i \in 1..Len(messages) : /\ upto[i] = At(upto, i - 1) + Bytes(messages[i])
                                  /\ upto[i] <= MaxRequestBytes
    /\ total = At(upto, Len(messages)) /\ seen = At(upto, index) /\ total <= MaxRequestBytes

PhaseAgrees ==
    /\ phase # "refused" => sent = total
    /\ phase # "replaying" => index = 0
    /\ phase = "replaying" =>
         Len(messages) > 0 /\ (~ended => messages[Len(messages)] = Disconnect)

\* The inductive invariant of the proofs.
BodyIInv == BodyTypeOK /\ CountsAgree /\ PhaseAgrees

\* However the body is cut into pieces, no more than the limit is ever held or
\* handed to the application.
BodyIsBounded == total <= MaxRequestBytes /\ seen <= MaxRequestBytes

\* An application that has replayed a body to its end has every byte the client
\* sent: a body is served whole or refused, never cut short.
BodyIsWhole ==
    phase = "replaying" /\ index = Len(messages) =>
        /\ ended => seen = sent
        /\ ~ended => messages[Len(messages)] = Disconnect

=============================================================================
