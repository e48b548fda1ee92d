------------------------- MODULE BoundedInputProofs -------------------------
(***************************************************************************)
(* Proofs about the two places that read what a stranger sends under a     *)
(* limit.  The body limit holds for every limit, every way to cut a body   *)
(* into pieces and any number of them.  One version probe is bounded,      *)
(* judges all of the output or none, and leaves no process of its group,   *)
(* for every limit and every program.                                      *)
(***************************************************************************)
EXTENDS RequestBody, VersionProbe, TLAPS

USE RequestLimitIsNatural, ChunksAreNatural, MessagesAreNatural, LimitIsNatural, SizesAreNatural

-----------------------------------------------------------------------------
(* RequestBody                                                             *)

LEMMA BodyInitInv == BodyInit => BodyIInv
<1> SUFFICES ASSUME BodyInit PROVE BodyIInv
  OBVIOUS
<1>1. Len(messages) = 0 /\ Len(upto) = 0
  BY DEF BodyInit
<1>2. BodyTypeOK
  <2>1. <<>> \in Seq(ChunkSizes \cup {Disconnect}) /\ <<>> \in Seq(Nat)
    OBVIOUS
  <2>2. messages \in Seq(ChunkSizes \cup {Disconnect}) /\ upto \in Seq(Nat)
    BY <2>1, Zenon DEF BodyInit
  <2> QED BY <2>2 DEF BodyInit, BodyTypeOK
<1>3. CountsAgree BY <1>1 DEF BodyInit, CountsAgree, At
<1>4. PhaseAgrees BY DEF BodyInit, PhaseAgrees
<1> QED BY <1>2, <1>3, <1>4 DEF BodyIInv

\* Keeping a message: what each action that appends one has to show.
LEMMA Kept ==
    ASSUME BodyIInv, NEW m \in ChunkSizes \cup {Disconnect},
           total + Bytes(m) <= MaxRequestBytes,
           messages' = Append(messages, m), total' = total + Bytes(m),
           upto' = Append(upto, total + Bytes(m)), UNCHANGED <<index, seen>>
    PROVE  /\ CountsAgree' /\ Len(messages') = Len(messages) + 1
           /\ messages'[Len(messages')] = m
           /\ messages' \in Seq(ChunkSizes \cup {Disconnect}) /\ total' \in Nat
           /\ upto' \in Seq(Nat)
<1> USE DEF Disconnect
<1>1. Bytes(m) \in Nat BY DEF Bytes
<1>2. /\ messages \in Seq(ChunkSizes \cup {Disconnect}) /\ upto \in Seq(Nat)
      /\ total \in Nat /\ index \in Nat /\ Len(upto) = Len(messages)
      /\ index <= Len(messages)
  BY DEF BodyIInv, BodyTypeOK, CountsAgree
<1>3. /\ messages' \in Seq(ChunkSizes \cup {Disconnect}) /\ upto' \in Seq(Nat)
      /\ total' \in Nat
      /\ Len(messages') = Len(messages) + 1 /\ Len(upto') = Len(upto) + 1
      /\ messages'[Len(messages) + 1] = m /\ upto'[Len(messages) + 1] = total + Bytes(m)
      /\ \A i \in 1..Len(messages) : messages'[i] = messages[i] /\ upto'[i] = upto[i]
  BY <1>1, <1>2
<1>4. total = At(upto, Len(messages)) /\ seen = At(upto, index)
  BY DEF BodyIInv, CountsAgree
<1>5. \A i \in 0..Len(messages) : At(upto', i) = At(upto, i)
  BY <1>2, <1>3 DEF At
<1>6. total' = At(upto', Len(messages) + 1)
  BY <1>2, <1>3 DEF At
<1>7. \A i \in 1..Len(messages) + 1 :
         upto'[i] = At(upto', i - 1) + Bytes(messages'[i]) /\ upto'[i] <= MaxRequestBytes
  <2> SUFFICES ASSUME NEW i \in 1..Len(messages) + 1
               PROVE  upto'[i] = At(upto', i - 1) + Bytes(messages'[i]) /\ upto'[i] <= MaxRequestBytes
    OBVIOUS
  <2>0. At(upto', i - 1) = At(upto, i - 1) BY <1>2, <1>5
  <2>1. CASE i = Len(messages) + 1
    BY <2>0, <2>1, <1>2, <1>3, <1>4
  <2>2. CASE i # Len(messages) + 1
    <3>1. i \in 1..Len(messages) BY <2>2, <1>2
    <3>2. upto[i] = At(upto, i - 1) + Bytes(messages[i]) /\ upto[i] <= MaxRequestBytes
      BY <3>1 DEF BodyIInv, CountsAgree
    <3> QED BY <3>1, <3>2, <2>0, <1>3
  <2> QED BY <2>1, <2>2
<1>8. seen' = At(upto', index')
  BY <1>2, <1>4, <1>5
<1>9. CountsAgree'
  BY <1>1, <1>2, <1>3, <1>6, <1>7, <1>8 DEF CountsAgree
<1> QED BY <1>3, <1>9

LEMMA ReceiveInv ==
    ASSUME BodyIInv, NEW n \in ChunkSizes, NEW more \in BOOLEAN, Receive(n, more)
    PROVE  BodyIInv'
<1> USE DEF Disconnect
<1>0. n \in Nat /\ Bytes(n) = n BY DEF Bytes
<1>1. CASE Exceeds(n)
  <2>1. /\ UNCHANGED <<messages, total, ended, index, upto, seen>> /\ phase' = "refused"
        /\ index = 0 /\ sent' \in Nat
    BY <1>0, <1>1 DEF Receive, BodyIInv, BodyTypeOK, PhaseAgrees
  <2> QED BY <2>1 DEF BodyIInv, BodyTypeOK, CountsAgree, PhaseAgrees, At, Bytes
<1>2. CASE ~Exceeds(n)
  <2>1. /\ total + Bytes(n) <= MaxRequestBytes /\ messages' = Append(messages, n)
        /\ total' = total + Bytes(n) /\ upto' = Append(upto, total + Bytes(n))
        /\ UNCHANGED <<index, seen>>
        /\ phase' = (IF more THEN "receiving" ELSE "replaying")
        /\ ended' = ~more /\ sent' = sent + n /\ phase = "receiving"
    BY <1>0, <1>2 DEF Receive, Exceeds, BodyIInv, BodyTypeOK
  <2>2. /\ CountsAgree' /\ Len(messages') = Len(messages) + 1
        /\ messages' \in Seq(ChunkSizes \cup {Disconnect}) /\ total' \in Nat
        /\ upto' \in Seq(Nat)
    BY <2>1, Kept
  <2>3. Len(messages) \in Nat /\ sent = total /\ index = 0 /\ sent \in Nat /\ total \in Nat
    BY <2>1 DEF BodyIInv, BodyTypeOK, PhaseAgrees
  <2>4. BodyTypeOK' BY <2>1, <2>2, <2>3, <1>0 DEF BodyIInv, BodyTypeOK
  <2>5. CASE more
    <3>1. phase' = "receiving" /\ index' = 0 /\ sent' = total'
      BY <2>1, <2>3, <2>5, <1>0
    <3> QED BY <3>1, <2>2, <2>4 DEF PhaseAgrees, BodyIInv
  <2>6. CASE ~more
    <3>1. ended'
      BY <2>1, <2>6, Zenon
    <3>2. phase' = "replaying" /\ sent' = total' /\ Len(messages') > 0
      BY <2>1, <2>2, <2>3, <2>6, <1>0
    <3> QED BY <3>1, <3>2, <2>2, <2>4 DEF PhaseAgrees, BodyIInv
  <2> QED BY <2>5, <2>6
<1> QED BY <1>1, <1>2

LEMMA DisconnectedInv == ASSUME BodyIInv, Disconnected PROVE BodyIInv'
<1> USE DEF Disconnect
<1>0. Bytes(Disconnect) = 0 BY DEF Bytes
<1>1. /\ total \in Nat /\ total <= MaxRequestBytes /\ Len(messages) \in Nat
      /\ sent = total /\ index = 0
  BY DEF Disconnected, BodyIInv, BodyTypeOK, CountsAgree, PhaseAgrees
<1>2. /\ messages' = Append(messages, Disconnect) /\ total' = total + Bytes(Disconnect)
      /\ upto' = Append(upto, total + Bytes(Disconnect))
      /\ UNCHANGED <<index, seen, ended, sent, total>> /\ phase' = "replaying"
  BY <1>0, <1>1 DEF Disconnected
<1>3. total + Bytes(Disconnect) <= MaxRequestBytes
  BY <1>0, <1>1
<1>4. /\ CountsAgree' /\ Len(messages') = Len(messages) + 1
      /\ messages'[Len(messages')] = Disconnect
      /\ messages' \in Seq(ChunkSizes \cup {Disconnect})
      /\ upto' \in Seq(Nat)
  BY <1>2, <1>3, Kept
<1>5. BodyTypeOK' BY <1>1, <1>2, <1>4 DEF BodyIInv, BodyTypeOK
<1>6. PhaseAgrees' BY <1>1, <1>2, <1>4 DEF PhaseAgrees
<1> QED BY <1>4, <1>5, <1>6 DEF BodyIInv

LEMMA ReplayInv == ASSUME BodyIInv, Replay PROVE BodyIInv'
<1> USE DEF Disconnect
<1>1. /\ index \in Nat /\ Len(messages) \in Nat /\ upto \in Seq(Nat) /\ Len(upto) = Len(messages)
      /\ messages \in Seq(ChunkSizes \cup {Disconnect}) /\ seen = At(upto, index)
  BY DEF BodyIInv, BodyTypeOK, CountsAgree
<1>2. /\ index' = index + 1 /\ index + 1 \in 1..Len(messages)
      /\ UNCHANGED <<phase, messages, total, ended, sent, upto>> /\ phase = "replaying"
  BY <1>1 DEF Replay, NextMessage
<1>3. seen' = seen + Bytes(messages[index + 1])
  <2>1. seen \in Nat BY DEF BodyIInv, BodyTypeOK
  <2> QED BY <2>1 DEF Replay, NextMessage, Bytes
<1>4. upto[index + 1] = At(upto, index) + Bytes(messages[index + 1])
  <2>1. (index + 1) - 1 = index BY <1>1
  <2> QED BY <1>2, <2>1 DEF BodyIInv, CountsAgree
<1>5. seen' = At(upto', index')
  BY <1>1, <1>2, <1>3, <1>4 DEF At
<1>6. seen' \in Nat
  BY <1>1, <1>2, <1>5 DEF At
<1>7. CountsAgree' BY <1>1, <1>2, <1>5 DEF BodyIInv, CountsAgree, At
<1>8. BodyTypeOK' BY <1>1, <1>2, <1>6 DEF BodyIInv, BodyTypeOK
<1>9. PhaseAgrees' BY <1>2 DEF BodyIInv, PhaseAgrees
<1> QED BY <1>7, <1>8, <1>9 DEF BodyIInv

LEMMA BodyNextInv == BodyIInv /\ [BodyNext]_bodyVars => BodyIInv'
<1> SUFFICES ASSUME BodyIInv, [BodyNext]_bodyVars PROVE BodyIInv'
  OBVIOUS
<1>1. ASSUME NEW n \in ChunkSizes, NEW more \in BOOLEAN, Receive(n, more) PROVE BodyIInv'
  BY <1>1, ReceiveInv
<1>2. CASE Disconnected BY <1>2, DisconnectedInv
<1>3. CASE Replay BY <1>3, ReplayInv
<1>4. CASE UNCHANGED bodyVars
  BY <1>4 DEF bodyVars, BodyIInv, BodyTypeOK, CountsAgree, PhaseAgrees, At, Bytes
<1> QED BY <1>1, <1>2, <1>3, <1>4 DEF BodyNext

\* The counts kept by __call__ and by its replay describe the messages kept.
THEOREM BodyInvariantHolds == BodySpec => []BodyIInv
BY BodyInitInv, BodyNextInv, PTL DEF BodySpec

\* No more than the negotiated limit is held, or reaches the application.
THEOREM BodyStaysBounded == BodySpec => []BodyIsBounded
<1>1. BodyIInv => BodyIsBounded
  <2> SUFFICES ASSUME BodyIInv PROVE BodyIsBounded OBVIOUS
  <2>1. index \in 0..Len(messages) BY DEF BodyIInv, BodyTypeOK, CountsAgree
  <2>2. CASE index = 0 BY <2>2 DEF BodyIInv, CountsAgree, BodyIsBounded, At
  <2>3. CASE index # 0
    <3>1. index \in 1..Len(messages) BY <2>1, <2>3
    <3> QED BY <3>1, <2>3 DEF BodyIInv, CountsAgree, BodyIsBounded, At
  <2> QED BY <2>2, <2>3
<1> QED BY <1>1, BodyInvariantHolds, PTL

\* A body is replayed whole or refused.
THEOREM BodyStaysWhole == BodySpec => []BodyIsWhole
<1>1. BodyIInv => BodyIsWhole
  BY DEF BodyIInv, CountsAgree, PhaseAgrees, BodyIsWhole
<1> QED BY <1>1, BodyInvariantHolds, PTL

-----------------------------------------------------------------------------
(* VersionProbe                                                            *)

LEMMA ProbeInitInv == Init => IInv
<1> SUFFICES ASSUME Init PROVE IInv
  OBVIOUS
<1>1. TypeOK BY DEF Init, TypeOK, Waits
<1> QED BY <1>1 DEF Init, IInv, Waits

\* The program and the system: output grows only while somebody holds the pipe.
LEMMA WritesInv == ASSUME IInv, NEW n \in 1..MaxBytes, Writes(n) PROVE IInv'
<1>1. n \in Nat BY SizesAreNatural
<1>2. TypeOK' BY <1>1 DEF Writes, IInv, TypeOK, thread, caller
<1>3. written' = got' + pipe' BY <1>1 DEF Writes, IInv, TypeOK
<1>4. result # "version" /\ ~(reader = "done" /\ ~failed /\ got <= Limit /\ open)
  BY DEF Writes, IInv, Writers
<1>5. UNCHANGED <<leader, silent, code, kids, reader, got, failed, caller>>
  BY DEF Writes
<1> QED BY <1>2, <1>3, <1>4, <1>5 DEF IInv, Waits, caller

LEMMA ProgramInv ==
    ASSUME IInv, LeaderCloses \/ LeaderExits PROVE IInv'
<1>1. CASE LeaderCloses
  BY <1>1 DEF LeaderCloses, IInv, TypeOK, Writers, Waits, thread, caller
<1>2. CASE LeaderExits
  BY <1>2 DEF LeaderExits, IInv, TypeOK, Writers, Waits, thread, caller
<1> QED BY <1>1, <1>2

LEMMA DescendantInv ==
    ASSUME IInv, NEW where \in {"grouped", "escaped"}, Spawns(where) \/ DescendantExits(where)
    PROVE  IInv'
<1>1. CASE Spawns(where)
  BY <1>1 DEF Spawns, IInv, TypeOK, Writers, Waits, thread, caller
<1>2. CASE DescendantExits(where)
  BY <1>2 DEF DescendantExits, IInv, TypeOK, Writers, Waits, thread, caller
<1> QED BY <1>1, <1>2

\* The reader thread: what it has kept and what is left make up what was written.
LEMMA ReadsInv == ASSUME IInv, NEW n \in 1..MaxBytes, Reads(n) PROVE IInv'
BY DEF Reads, Room, IInv, TypeOK, Writers, Waits, child, caller

LEMMA ThreadInv == ASSUME IInv, ReaderLoops \/ EndOfFile \/ ReadFails PROVE IInv'
<1>1. CASE ReaderLoops
  BY <1>1 DEF ReaderLoops, IInv, TypeOK, Writers, Waits, child, caller
<1>2. CASE EndOfFile
  BY <1>2 DEF EndOfFile, IInv, TypeOK, Writers, Waits, child, caller
<1>3. CASE ReadFails
  BY <1>3 DEF ReadFails, IInv, TypeOK, Writers, Waits, child, caller
<1> QED BY <1>1, <1>2, <1>3

\* The main thread: a group once taken down leaves no writer to a result.
LEMMA GroupInv ==
    ASSUME IInv, TerminateGroup
    PROVE  /\ leader' = "reaped" /\ kids' = kids \ {"grouped"} /\ code' \in {0, 1}
           /\ ~Writers => ~Writers'
           /\ leader # "running" => code' = code
           /\ UNCHANGED <<silent, written, thread>>
BY DEF TerminateGroup, Killed, IInv, TypeOK, Writers

LEMMA CallerInv == ASSUME IInv, Caller PROVE IInv'
<1>1. CASE OutputSeen
  BY <1>1 DEF OutputSeen, Acceptable, IInv, TypeOK, Writers, Waits, child, thread
<1>2. CASE TimesOut
  BY <1>2 DEF TimesOut, IInv, TypeOK, Writers, Waits, child, thread
<1>3. CASE ExitSeen
  BY <1>3 DEF ExitSeen, IInv, TypeOK, Writers, Waits, thread
<1>4. CASE Terminate
  <2>1. TerminateGroup /\ UNCHANGED <<open, result>> BY <1>4 DEF Terminate
  <2>2. /\ leader' = "reaped" /\ kids' = kids \ {"grouped"} /\ code' \in {0, 1}
        /\ ~Writers => ~Writers'
        /\ leader # "running" => code' = code
        /\ UNCHANGED <<silent, written, thread>>
    BY <2>1, GroupInv
  <2>3. TypeOK' BY <1>4, <2>1, <2>2 DEF Terminate, IInv, TypeOK, thread
  <2> QED BY <1>4, <2>1, <2>2, <2>3 DEF Terminate, IInv, Waits, thread
<1>5. CASE CloseStream
  BY <1>5 DEF CloseStream, IInv, TypeOK, Writers, Waits, child, thread
<1>6. CASE FinallyTerminate
  <2>1. TerminateGroup /\ UNCHANGED <<open, result>> BY <1>6 DEF FinallyTerminate
  <2>2. /\ leader' = "reaped" /\ kids' = kids \ {"grouped"} /\ code' \in {0, 1}
        /\ ~Writers => ~Writers'
        /\ leader # "running" => code' = code
        /\ UNCHANGED <<silent, written, thread>>
    BY <2>1, GroupInv
  <2>3. TypeOK' BY <1>6, <2>1, <2>2 DEF FinallyTerminate, IInv, TypeOK, thread
  <2> QED BY <1>6, <2>1, <2>2, <2>3 DEF FinallyTerminate, IInv, Waits, thread
<1>7. CASE Join
  BY <1>7 DEF Join, IInv, TypeOK, Writers, Waits, child, thread
<1> QED BY <1>1, <1>2, <1>3, <1>4, <1>5, <1>6, <1>7 DEF Caller

LEMMA ProbeNextInv == IInv /\ [Next]_vars => IInv'
<1> SUFFICES ASSUME IInv, [Next]_vars PROVE IInv'
  OBVIOUS
<1>1. ASSUME NEW n \in 1..MaxBytes, Writes(n) \/ Reads(n) PROVE IInv'
  BY <1>1, WritesInv, ReadsInv
<1>2. CASE LeaderCloses \/ LeaderExits BY <1>2, ProgramInv
<1>3. CASE ReaderLoops \/ EndOfFile \/ ReadFails BY <1>3, ThreadInv
<1>4. ASSUME NEW where \in {"grouped", "escaped"}, Spawns(where) \/ DescendantExits(where)
      PROVE  IInv'
  BY <1>4, DescendantInv
<1>5. CASE Caller BY <1>5, CallerInv
<1>6. CASE UNCHANGED vars
  BY <1>6 DEF vars, child, thread, caller, IInv, TypeOK, Writers, Waits
<1> QED BY <1>1, <1>2, <1>3, <1>4, <1>5, <1>6 DEF Next

\* What the threads of _read_bounded_version_output know of each other.
THEOREM ProbeInvariantHolds == Spec => []IInv
BY ProbeInitInv, ProbeNextInv, PTL DEF Spec

\* At most one byte beyond the limit is retained.
THEOREM OutputStaysBounded == Spec => []RetainsBounded
<1>1. IInv => RetainsBounded BY DEF IInv, RetainsBounded
<1> QED BY <1>1, ProbeInvariantHolds, PTL

\* A version is read from the whole output of a program that succeeded.
THEOREM VersionsAreWhole == Spec => []VersionIsWhole
<1>1. IInv => VersionIsWhole BY DEF IInv, TypeOK, VersionIsWhole
<1> QED BY <1>1, ProbeInvariantHolds, PTL

\* No process of the group survives the call.
THEOREM TreesAreKilled == Spec => []TreeIsDead
<1>1. IInv => TreeIsDead BY DEF IInv, TreeIsDead
<1> QED BY <1>1, ProbeInvariantHolds, PTL
=============================================================================
