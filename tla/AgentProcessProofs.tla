--------------------------- MODULE AgentProcessProofs ---------------------------
(***************************************************************************)
(* Proofs about AgentProcess: for any output alphabet, any credentials,    *)
(* caps and prompt, and whatever the agent's processes do, a session       *)
(* reports what happened, leaves nobody of the killed group, and puts no   *)
(* credential in a file.                                                   *)
(*                                                                         *)
(* The control: captured and piped bytes together are what was written,    *)
(* until a read overflows the cap; a stream leaves the selector only when  *)
(* it is drained and nobody can write it any more; a process that lost a   *)
(* pipe never gets it back.  There what RedactBytes computes is not looked *)
(* at; the second part says what it computes.                              *)
(***************************************************************************)
EXTENDS AgentProcess, SequenceTheorems, FiniteSetTheorems, WellFoundedInduction,
        TLAPS

\* Where run_session stands after _bounded_process has returned
Sealing == {"flush", "stdout", "stderr", "unlink", "receipt", "done"}
Killed == {"wall_clock_timeout", "output_limit_exceeded"}

Shape ==
  /\ TypeOK
  /\ pipe = [s \in Outputs |-> pipe[s]] /\ wrote = [s \in Outputs |-> wrote[s]]
  /\ chunks = [s \in Outputs |-> chunks[s]] /\ bin = [s \in Outputs |-> bin[s]]
  /\ \A s \in Outputs : wrote[s] \in Seq(Bytes[s])
  /\ failure \in FailureClass \cup {None}

\* What each control point says of the outcome so far.
Outcome ==
  /\ pc \in {"start", "select", "batch", "wait"} => failure = None
  /\ pc \in {"kill", "reap"} => failure \in Killed
  /\ pc \in Sealing /\ failure = None => code = 0 /\ "cli" \notin alive
  /\ pc # "batch" => batch = {}
  /\ pc \in {"start", "wait"} \cup Sealing /\ failure = None => reg = {}

\* A stream that select reported stays readable; one that is no longer
\* registered is drained for good.
Drains ==
  /\ \A s \in batch \cap Outputs : Readable(s)
  /\ failure = None =>
       \A s \in Outputs \ reg : pipe[s] = <<>> /\ hold[s] = {}

\* Nothing is lost but what overflows the cap.
Counted ==
  /\ Captured <= Cap
  /\ IF failure = "output_limit_exceeded"
     THEN /\ Captured = Cap
          /\ Len(wrote["stdout"]) + Len(wrote["stderr"]) > Cap
     ELSE \A s \in Outputs : wrote[s] = chunks[s] \o pipe[s]

\* The sealed streams are the redaction of what was captured.
Sealed ==
  /\ pc \in {"stderr", "unlink", "receipt", "done"} =>
       bin["stdout"] = RedactBytes(chunks["stdout"])
  /\ pc \in {"unlink", "receipt", "done"} =>
       bin["stderr"] = RedactBytes(chunks["stderr"])

\* The receipt says how the session ended.
Reported ==
  receipt # None =>
    /\ pc = "done"
    /\ receipt.status = "completed" => failure = None /\ receipt.exit = 0

\* After the kill of a group nobody of it is alive.
GroupGone ==
  pc \in {"reap"} \cup Sealing /\ failure \in Killed => alive \cap Group = {}

IndInv ==
  Shape /\ Outcome /\ Drains /\ Counted /\ Sealed /\ Reported /\ GroupGone

(***************************************************************************)
(* Operators                                                               *)
(***************************************************************************)
\* The smaller of two numbers
LEMMA MinOfTwo ==
  ASSUME NEW m \in Int, NEW n \in Int
  PROVE  Min({m, n}) = IF m <= n THEN m ELSE n
<1>1. \E x \in {m, n} : \A y \in {m, n} : x <= y
  OBVIOUS
<1> QED
  BY <1>1 DEF Min

\* Streams have lengths.
LEMMA CapturedTyped ==
  ASSUME Shape
  PROVE  /\ Captured \in Nat
         /\ \A s \in Outputs : /\ Len(chunks[s]) \in Nat /\ Len(pipe[s]) \in Nat
                               /\ Len(wrote[s]) \in Nat
BY LenProperties DEF Shape, TypeOK, Captured, Outputs

\* A byte is a stream.
LEMMA OneByte ==
  ASSUME NEW S, NEW x \in S
  PROVE  <<x>> \in Seq(S)
OBVIOUS

\* Streams that grow stay above the cap together.
LEMMA SumGrows ==
  ASSUME NEW k \in Nat, NEW l \in Nat, NEW m \in Nat, NEW n \in Nat,
         k >= m, l >= n, m + n > Cap
  PROVE  k + l > Cap
BY CapAssumption

\* What one read returns, and what it leaves in the pipe: nothing is returned only
\* if nothing is there.
LEMMA GotFacts ==
  ASSUME Shape, Counted, NEW s \in Outputs
  PROVE  /\ Got(s) \in Seq(Bytes[s]) /\ Len(Got(s)) \in 0 .. Len(pipe[s])
         /\ Got(s) = <<>> => pipe[s] = <<>>
         /\ SubSeq(pipe[s], Len(Got(s)) + 1, Len(pipe[s])) \in Seq(Bytes[s])
         /\ Got(s) \o SubSeq(pipe[s], Len(Got(s)) + 1, Len(pipe[s])) = pipe[s]
<1> DEFINE k == Min({Len(pipe[s]), ReadSize})
<1>1. /\ pipe[s] \in Seq(Bytes[s]) /\ Len(pipe[s]) \in Nat
      /\ Captured \in Nat /\ Captured <= Cap
  BY CapturedTyped DEF Shape, TypeOK, Counted
<1>2. ReadSize \in Nat /\ ReadSize > 0
  <2>1. Chunk \in Int /\ Cap - Captured + 1 \in Int
    BY <1>1, CapAssumption
  <2> QED
    BY <1>1, <2>1, MinOfTwo, CapAssumption DEF ReadSize
<1>3. /\ k \in 0 .. Len(pipe[s])
      /\ Len(pipe[s]) > 0 => k > 0
  BY <1>1, <1>2, MinOfTwo
<1> HIDE DEF k
<1>4. Got(s) = SubSeq(pipe[s], 1, k)
  BY DEF Got, k
<1>5. Got(s) \in Seq(Bytes[s]) /\ Len(Got(s)) = k
  <2>1. \A i \in 1 .. k : pipe[s][i] \in Bytes[s]
    BY <1>1, <1>3, LenProperties
  <2>2. 1 \in Int /\ k \in Int
    BY <1>1, <1>3
  <2>3. SubSeq(pipe[s], 1, k) \in Seq(Bytes[s])
    BY <2>1, <2>2, SubSeqProperties
  <2>4. Len(SubSeq(pipe[s], 1, k)) = IF 1 <= k THEN k - 1 + 1 ELSE 0
    BY <1>1, <1>3, <2>2
  <2> QED
    BY <1>1, <1>3, <1>4, <2>3, <2>4
<1>6. Got(s) \o SubSeq(pipe[s], k + 1, Len(pipe[s])) = pipe[s]
  <2>1. SubSeq(pipe[s], 1, k) \o SubSeq(pipe[s], k + 1, Len(pipe[s]))
          = SubSeq(pipe[s], 1, Len(pipe[s]))
    <3>1. /\ 1 \in 1 .. Len(pipe[s]) + 1 /\ k \in (1 - 1) .. Len(pipe[s])
          /\ Len(pipe[s]) \in k .. Len(pipe[s])
      BY <1>1, <1>3
    <3> QED
      BY <1>1, <3>1, ConcatAdjacentSubSeq
  <2> QED
    BY <1>1, <1>4, <2>1, SubSeqFull
<1>7. SubSeq(pipe[s], k + 1, Len(pipe[s])) \in Seq(Bytes[s])
  <2>1. \A i \in (k + 1) .. Len(pipe[s]) : pipe[s][i] \in Bytes[s]
    BY <1>1, <1>3, LenProperties
  <2>2. k + 1 \in Int /\ Len(pipe[s]) \in Int
    BY <1>1, <1>3
  <2> QED
    BY <2>1, <2>2, SubSeqProperties
<1>8. Got(s) = <<>> => pipe[s] = <<>>
  BY <1>1, <1>3, <1>5, EmptySeq, LenProperties
<1> QED
  BY <1>3, <1>5, <1>6, <1>7, <1>8

(***************************************************************************)
(* The agent's processes                                                   *)
(***************************************************************************)
\* What none of their steps touches
AgentFrame == UNCHANGED <<pc, reg, batch, offset, chunks, failure, pending, files>>

\* A drained stream stays so, and a readable one readable, whatever they do.
LEMMA AgentDrains ==
  ASSUME Drains, AgentFrame,
         \A s \in Outputs :
           /\ hold[s] = {} => hold'[s] = {} /\ pipe'[s] = pipe[s]
           /\ pipe[s] # <<>> => pipe'[s] # <<>>
  PROVE  Drains'
BY DEF Drains, AgentFrame, Readable

\* The CLI starts a descendant.
LEMMA ForkStep ==
  ASSUME IndInv, NEW p \in {"child", "detached"}, Fork(p)
  PROVE  IndInv'
<1>1. AgentFrame /\ UNCHANGED <<code, pipe, wrote, late, written>> /\ "cli" \in alive
  BY DEF Fork, AgentFrame, reading
<1>2. /\ alive' \subseteq Processes /\ hold' \in [Streams -> SUBSET Processes]
      /\ \A s \in Outputs : hold[s] = {} => hold'[s] = {}
  BY DEF Fork, IndInv, Shape, TypeOK, Processes, Group, Outputs, Streams
<1>3. Shape'
  BY <1>1, <1>2 DEF IndInv, Shape, TypeOK, AgentFrame, files
<1>4. Outcome'
  BY <1>1 DEF IndInv, Outcome, AgentFrame
<1>5. Drains'
  BY <1>1, <1>2, AgentDrains DEF IndInv
<1>6. Counted' /\ Sealed' /\ Reported'
  BY <1>1 DEF IndInv, Counted, Captured, Sealed, Reported, AgentFrame, files
<1>7. GroupGone'
  BY <1>1 DEF IndInv, GroupGone, AgentFrame, Group
<1> QED
  BY <1>3, <1>4, <1>5, <1>6, <1>7 DEF IndInv

\* A process writes.
LEMMA WriteStep ==
  ASSUME IndInv, NEW p, NEW s \in Outputs, NEW x \in Bytes[s], Write(p, s, x)
  PROVE  IndInv'
<1>1. /\ AgentFrame /\ UNCHANGED <<alive, code, hold, late>> /\ hold[s] # {}
      /\ pipe' = [pipe EXCEPT ![s] = Append(pipe[s], x)]
      /\ wrote' = [wrote EXCEPT ![s] = Append(wrote[s], x)]
  BY DEF Write, AgentFrame, reading
<1>2. /\ pipe'[s] = Append(pipe[s], x) /\ wrote'[s] = Append(wrote[s], x)
      /\ \A t \in Outputs : t # s => pipe'[t] = pipe[t] /\ wrote'[t] = wrote[t]
      /\ pipe' = [t \in Outputs |-> pipe'[t]] /\ wrote' = [t \in Outputs |-> wrote'[t]]
  BY <1>1 DEF IndInv, Shape
<1>3. /\ pipe[s] \in Seq(Bytes[s]) /\ wrote[s] \in Seq(Bytes[s])
      /\ chunks[s] \in Seq(Bytes[s])
  BY DEF IndInv, Shape, TypeOK
<1>4. /\ pipe'[s] \in Seq(Bytes[s]) /\ wrote'[s] \in Seq(Bytes[s])
      /\ pipe'[s] # <<>> /\ Len(wrote'[s]) = Len(wrote[s]) + 1
  <2>1. /\ Append(pipe[s], x) \in Seq(Bytes[s]) /\ Append(pipe[s], x) # <<>>
        /\ Append(wrote[s], x) \in Seq(Bytes[s])
        /\ Len(Append(wrote[s], x)) = Len(wrote[s]) + 1
    <3>1. \A S : \A q \in Seq(S) : \A e \in S :
            /\ Append(q, e) \in Seq(S) /\ Append(q, e) # <<>>
            /\ Len(Append(q, e)) = Len(q) + 1
      BY AppendProperties
    <3> QED
      BY <1>3, <3>1, Zenon
  <2> QED
    BY <1>2, <2>1
<1>5. Shape'
  BY <1>1, <1>2, <1>4 DEF IndInv, Shape, TypeOK, AgentFrame, files
<1>6. Outcome' /\ GroupGone' /\ Sealed' /\ Reported'
  BY <1>1 DEF IndInv, Outcome, GroupGone, Sealed, Reported, AgentFrame, files
<1>7. Drains'
  BY <1>1, <1>2, <1>4, AgentDrains DEF IndInv
<1>8. Counted'
  <2>1. Captured' = Captured
    BY <1>1 DEF Captured, AgentFrame
  <2>2. CASE failure = "output_limit_exceeded"
    <3>1. \A t \in Outputs : Len(wrote'[t]) >= Len(wrote[t]) /\ Len(wrote'[t]) \in Nat
      BY <1>2, <1>4, CapturedTyped DEF IndInv
    <3>4. /\ Len(wrote'["stdout"]) >= Len(wrote["stdout"])
          /\ Len(wrote'["stderr"]) >= Len(wrote["stderr"])
          /\ Len(wrote'["stdout"]) \in Nat /\ Len(wrote["stdout"]) \in Nat
          /\ Len(wrote'["stderr"]) \in Nat /\ Len(wrote["stderr"]) \in Nat
      BY <3>1, CapturedTyped DEF IndInv, Outputs
    <3>2. /\ Captured = Cap
          /\ Len(wrote["stdout"]) + Len(wrote["stderr"]) > Cap
          /\ failure' = failure
      BY <1>1, <2>2 DEF IndInv, Counted, AgentFrame
    <3>3. Len(wrote'["stdout"]) + Len(wrote'["stderr"]) > Cap
      BY <3>4, <3>2, SumGrows, Zenon
    <3>5. Cap <= Cap
      BY CapAssumption
    <3> QED
      BY <2>1, <2>2, <3>2, <3>3, <3>5, Zenon DEF Counted
  <2>3. CASE failure # "output_limit_exceeded"
    <3>1. wrote[s] = chunks[s] \o pipe[s]
      BY <2>3 DEF IndInv, Counted
    <3>2. Append(chunks[s] \o pipe[s], x) = chunks[s] \o Append(pipe[s], x)
      <4> DEFINE B == Bytes[s]
                 q == chunks[s]
                 r == pipe[s]
      <4>1. x \in B /\ q \in Seq(B) /\ r \in Seq(B)
        BY <1>3
      <4>2. Append(q \o r, x) = q \o Append(r, x)
        <5> HIDE DEF B, q, r
        <5>1. <<x>> \in Seq(B)
          BY <4>1, OneByte
        <5>2. (q \o r) \o <<x>> = q \o (r \o <<x>>)
          BY <4>1, <5>1, ConcatAssociative
        <5>3. q \o r \in Seq(B)
          BY <4>1, ConcatProperties
        <5>4. Append(r, x) = r \o <<x>>
          BY <4>1, AppendIsConcat
        <5>5. Append(q \o r, x) = (q \o r) \o <<x>>
          BY <4>1, <5>3, AppendIsConcat
        <5> QED  BY <5>2, <5>4, <5>5
      <4> QED
        BY <4>2
    <3> QED
      BY <1>1, <1>2, <2>1, <2>3, <3>1, <3>2 DEF IndInv, Counted, AgentFrame
  <2> QED
    BY <2>2, <2>3
<1> QED
  BY <1>5, <1>6, <1>7, <1>8 DEF IndInv

\* A process closes its pipes.
LEMMA CloseStep ==
  ASSUME IndInv, NEW p \in Processes, Close(p)
  PROVE  IndInv'
<1>1. AgentFrame /\ UNCHANGED <<alive, code, pipe, wrote, late, written>>
  BY DEF Close, AgentFrame, reading
<1>2. /\ hold' \in [Streams -> SUBSET Processes]
      /\ \A s \in Outputs : hold[s] = {} => hold'[s] = {}
  BY DEF Close, IndInv, Shape, TypeOK, Outputs, Streams
<1>3. Shape'
  BY <1>1, <1>2 DEF IndInv, Shape, TypeOK, AgentFrame, files
<1>4. Drains'
  BY <1>1, <1>2, AgentDrains DEF IndInv
<1>5. Outcome' /\ Counted' /\ Sealed' /\ Reported' /\ GroupGone'
  BY <1>1 DEF IndInv, Outcome, Counted, Captured, Sealed, Reported, GroupGone,
    AgentFrame, files
<1> QED
  BY <1>3, <1>4, <1>5 DEF IndInv

\* A process exits.
LEMMA ExitStep ==
  ASSUME IndInv, NEW p \in Processes, Exit(p)
  PROVE  IndInv'
<1>1. AgentFrame /\ UNCHANGED <<pipe, wrote, late, written>> /\ p \in alive
      /\ alive' = alive \ {p}
  BY DEF Exit, AgentFrame, reading
<1>2. /\ hold' \in [Streams -> SUBSET Processes]
      /\ \A s \in Outputs : hold[s] = {} => hold'[s] = {}
  BY DEF Exit, IndInv, Shape, TypeOK, Outputs, Streams
<1>3. /\ code' \in {0, 1, -9, None}
      /\ code' = code \/ p = "cli" \/ pc = "reap"
  BY DEF Exit, IndInv, Shape, TypeOK
<1>4. Shape'
  BY <1>1, <1>2, <1>3 DEF IndInv, Shape, TypeOK, AgentFrame, files
<1>5. Drains'
  BY <1>1, <1>2, AgentDrains DEF IndInv
<1>6. Counted' /\ Sealed' /\ Reported' /\ GroupGone'
  BY <1>1 DEF IndInv, Counted, Captured, Sealed, Reported, GroupGone,
    AgentFrame, files
<1>7. Outcome'
  BY <1>1, <1>3 DEF IndInv, Outcome, AgentFrame, Sealing
<1> QED
  BY <1>4, <1>5, <1>6, <1>7 DEF IndInv

(***************************************************************************)
(* run_session before and after the selector loop                          *)
(***************************************************************************)
\* What no step of run_session but a read touches
SessionFrame == UNCHANGED <<pipe, wrote, chunks, written>>

\* The count stays right when no byte moves.
LEMMA CountedKept ==
  ASSUME Counted, SessionFrame,
         \/ failure' = failure
         \/ /\ failure # "output_limit_exceeded"
            /\ failure' # "output_limit_exceeded"
  PROVE  Counted'
BY DEF Counted, Captured, SessionFrame

\* The session starts, or cannot.
LEMMA LaunchStep ==
  ASSUME IndInv, Launch \/ LaunchError
  PROVE  IndInv'
<1>1. /\ SessionFrame /\ UNCHANGED <<code, batch, offset, pending, late, bin, receipt>>
      /\ pc = "start" /\ failure = None /\ reg = {} /\ batch = {} /\ receipt = None
      /\ \A s \in Outputs : pipe[s] = <<>>
  BY DEF Launch, LaunchError, SessionFrame, process, IndInv, Outcome, Drains, Reported,
    Sealing
<1>2. CASE Launch
  <2>1. /\ alive' = {"cli"} /\ hold' = [s \in Streams |-> {"cli"}]
        /\ reg' = Streams /\ pc' = "select" /\ failure' = failure
    BY <1>2 DEF Launch
  <2>2. Shape'
    BY <1>1, <2>1 DEF IndInv, Shape, TypeOK, SessionFrame, Processes, Group
  <2>3. Outcome' /\ Sealed' /\ Reported' /\ GroupGone'
    BY <1>1, <2>1 DEF Outcome, Sealed, Reported, GroupGone, Sealing, IndInv
  <2>4. Drains'
    BY <1>1, <2>1 DEF Drains, Streams, Outputs
  <2>5. Counted'
    BY <1>1, <2>1, CountedKept DEF IndInv
  <2> QED
    BY <2>2, <2>3, <2>4, <2>5 DEF IndInv
<1>3. CASE LaunchError
  <2>1. /\ UNCHANGED <<alive, hold, reg>>
        /\ pc' = "flush" /\ failure' = "launch_error"
    BY <1>3 DEF LaunchError, process
  <2>2. Shape'
    BY <1>1, <2>1 DEF IndInv, Shape, TypeOK, SessionFrame, FailureClass
  <2>3. failure' # None /\ failure' # "output_limit_exceeded" /\ failure # "output_limit_exceeded"
    BY <1>1, <2>1, NoneAssumption DEF FailureClass
  <2>4. Outcome' /\ Sealed' /\ Reported' /\ GroupGone'
    BY <1>1, <2>1, <2>3 DEF Outcome, Sealed, Reported, GroupGone, Sealing, IndInv, Killed
  <2>5. Drains'
    BY <1>1, <2>1, <2>3 DEF Drains
  <2>6. Counted'
    BY <1>1, <2>3, CountedKept DEF IndInv
  <2> QED
    BY <2>2, <2>4, <2>5, <2>6 DEF IndInv
<1> QED
  BY <1>2, <1>3

\* Steps that only end the loop, with a failure class or without
LEMMA StopStep ==
  ASSUME IndInv, Expire \/ Drained \/ WaitTimeout \/ WaitExited
  PROVE  IndInv'
<1>1. /\ SessionFrame
      /\ UNCHANGED <<alive, code, hold, reg, batch, offset, pending, late, files>>
      /\ pc \in {"select", "wait"} /\ failure = None /\ batch = {} /\ receipt = None
  BY DEF Expire, Drained, WaitTimeout, WaitExited, SessionFrame, process, reading, files,
    IndInv, Outcome, Reported
<1>2. /\ \/ pc' = "kill" /\ failure' = "wall_clock_timeout"
         \/ pc' = "wait" /\ failure' = None /\ reg = {}
         \/ pc' = "flush" /\ failure' = "agent_exit_nonzero"
         \/ /\ pc' = "flush" /\ failure' = None /\ reg = {}
            /\ code = 0 /\ "cli" \notin alive
  <2>1. CASE Expire \/ Drained \/ WaitTimeout
    BY <1>1, <2>1 DEF Expire, Drained, WaitTimeout, reading
  <2>2. CASE WaitExited
    BY <1>1, <2>2 DEF WaitExited, IndInv, Outcome
  <2> QED
    BY <2>1, <2>2
<1>3. Shape'
  BY <1>1, <1>2 DEF IndInv, Shape, TypeOK, SessionFrame, files, FailureClass
<1>4. None \notin {"wall_clock_timeout", "agent_exit_nonzero"} /\ None # "output_limit_exceeded"
  BY NoneAssumption DEF FailureClass
<1>5. Outcome'
  BY <1>1, <1>2, <1>4 DEF IndInv, Outcome, Sealing, Killed
<1>6. Sealed' /\ Reported' /\ GroupGone'
  BY <1>1, <1>2, <1>4 DEF Sealed, Reported, GroupGone, Sealing, Killed, files
<1>7. Drains'
  BY <1>1, <1>2 DEF IndInv, Drains, SessionFrame
<1>8. Counted'
  BY <1>1, <1>2, <1>4, CountedKept DEF IndInv
<1> QED
  BY <1>3, <1>5, <1>6, <1>7, <1>8 DEF IndInv

\* The group is killed.
LEMMA KillStep ==
  ASSUME IndInv, Kill
  PROVE  IndInv'
<1>1. /\ SessionFrame /\ UNCHANGED <<reg, batch, offset, failure, pending, late, files>>
      /\ pc = "kill" /\ pc' = "reap" /\ failure \in Killed
      /\ hold' = [s \in Streams |-> hold[s] \ Group]
  BY DEF Kill, KillProcessGroup, SessionFrame, reading, IndInv, Outcome
<1>2. /\ alive' \subseteq Processes /\ alive' \cap Group = {}
      /\ code' \in {0, 1, -9, None}
  BY DEF Kill, KillProcessGroup, Processes, Group, IndInv, Shape, TypeOK
<1>3. failure # None /\ batch = {} /\ receipt = None
  BY <1>1, NoneAssumption DEF FailureClass, Killed, IndInv, Outcome, Reported
<1>4. Shape'
  BY <1>1, <1>2 DEF IndInv, Shape, TypeOK, SessionFrame, files
<1>5. Outcome' /\ Sealed' /\ Reported' /\ GroupGone'
  BY <1>1, <1>2, <1>3 DEF Outcome, Sealed, Reported, GroupGone, Sealing, files
<1>6. Drains'
  BY <1>1, <1>3 DEF Drains
<1>7. Counted'
  BY <1>1, CountedKept DEF IndInv
<1> QED
  BY <1>4, <1>5, <1>6, <1>7 DEF IndInv

\* The wait after the kill ends.
LEMMA ReapStep ==
  ASSUME IndInv, Reap
  PROVE  IndInv'
<1>1. /\ SessionFrame
      /\ UNCHANGED <<alive, code, hold, reg, batch, offset, failure, pending, late, files>>
      /\ pc = "reap" /\ pc' = "flush"
  BY DEF Reap, SessionFrame, process, reading
<1>2. failure # None /\ batch = {} /\ receipt = None
  BY <1>1, NoneAssumption DEF FailureClass, Killed, IndInv, Outcome, Reported
<1>3. Shape'
  BY <1>1 DEF IndInv, Shape, TypeOK, SessionFrame, files
<1>4. Outcome' /\ Drains' /\ Sealed' /\ Reported' /\ GroupGone'
  BY <1>1, <1>2 DEF IndInv, Outcome, Drains, Sealed, Reported, GroupGone, Sealing, files
<1>5. Counted'
  BY <1>1, CountedKept DEF IndInv
<1> QED
  BY <1>3, <1>4, <1>5 DEF IndInv

(***************************************************************************)
(* Sealing                                                                 *)
(***************************************************************************)
LEMMA FlushStep ==
  ASSUME IndInv, Flush
  PROVE  IndInv'
<1>1. /\ SessionFrame /\ UNCHANGED <<alive, code, batch, offset, failure, late, bin, receipt>>
      /\ pc = "flush" /\ pc' = "stdout" /\ reg' = {}
      /\ hold' = [s \in Streams |-> {}] /\ batch = {} /\ receipt = None
  BY DEF Flush, SessionFrame, IndInv, Outcome, Reported
<1>2. failure = None => reg = {}
  BY <1>1 DEF IndInv, Outcome, Sealing
<1>3. Shape'
  BY <1>1 DEF IndInv, Shape, TypeOK, SessionFrame, Outputs
<1>4. Outcome' /\ Sealed' /\ Reported' /\ GroupGone'
  BY <1>1 DEF IndInv, Outcome, Sealed, Reported, GroupGone, Sealing, Outputs
<1>5. Drains'
  BY <1>1, <1>2 DEF IndInv, Drains, SessionFrame, Streams
<1>6. Counted'
  BY <1>1, CountedKept DEF IndInv
<1> QED
  BY <1>3, <1>4, <1>5, <1>6 DEF IndInv

\* Steps after Flush change no more than a file each.
LEMMA SealStep ==
  ASSUME IndInv,
         \/ SealBin("stdout", "stderr") \/ SealBin("stderr", "unlink")
         \/ Unlink \/ WriteReceipt
  PROVE  IndInv'
<1>1. /\ SessionFrame
      /\ UNCHANGED <<alive, code, hold, reg, batch, offset, failure, pending, late>>
      /\ pc \in {"stdout", "stderr", "unlink", "receipt"}
      /\ pc' \in {"stderr", "unlink", "receipt", "done"}
  BY DEF SealBin, Unlink, WriteReceipt, SessionFrame, process, reading
<1>2. batch = {} /\ receipt = None
  BY <1>1 DEF IndInv, Outcome, Reported
<1>3. Drains' /\ Counted' /\ Outcome' /\ GroupGone'
  <2>1. Drains' /\ Outcome' /\ GroupGone'
    BY <1>1, <1>2 DEF IndInv, Drains, Outcome, GroupGone, Sealing, SessionFrame, Readable
  <2> QED
    BY <1>1, <2>1, CountedKept DEF IndInv
<1>4. CASE pc' # "done"
  <2>1. UNCHANGED receipt
    BY <1>4 DEF SealBin, Unlink, WriteReceipt
  <2>2. /\ bin' = [s \in Outputs |-> bin'[s]]
        /\ pc = "stdout" => pc' = "stderr" /\ bin'["stdout"] = RedactBytes(chunks["stdout"])
        /\ pc = "stderr" => /\ pc' = "unlink" /\ bin'["stdout"] = bin["stdout"]
                            /\ bin'["stderr"] = RedactBytes(chunks["stderr"])
        /\ pc \in {"unlink", "receipt"} => bin' = bin /\ pc = "unlink"
    BY <1>4 DEF SealBin, Unlink, WriteReceipt, IndInv, Shape, Outputs
  <2>3. Shape'
    <3>1. TypeOK'
      BY <1>1, <2>1 DEF IndInv, Shape, TypeOK, SessionFrame, Outputs
    <3> QED
      BY <1>1, <2>2, <3>1 DEF IndInv, Shape, SessionFrame
  <2>4. Sealed' /\ Reported'
    BY <1>1, <1>2, <2>1, <2>2, <1>4 DEF IndInv, Sealed, Reported, SessionFrame
  <2> QED
    BY <1>3, <2>3, <2>4 DEF IndInv
<1>5. CASE pc' = "done"
  <2>1. /\ bin' = bin /\ pc = "receipt"
        /\ receipt' = [status |-> IF failure = None THEN "completed" ELSE "failed",
                       failure |-> failure, exit |-> code]
    BY <1>1, <1>5 DEF SealBin, Unlink, WriteReceipt
  <2>2. Shape'
    BY <1>1, <1>5, <2>1 DEF IndInv, Shape, TypeOK, SessionFrame, Receipt
  <2>3. Sealed'
    BY <1>1, <1>5, <2>1 DEF IndInv, Sealed, SessionFrame
  <2>4. Reported'
    BY <1>1, <1>5, <2>1 DEF IndInv, Reported, Outcome, Sealing
  <2> QED
    BY <1>3, <2>2, <2>3, <2>4 DEF IndInv
<1> QED
  BY <1>4, <1>5

(***************************************************************************)
(* The selector loop                                                       *)
(***************************************************************************)
LEMMA SelectStep ==
  ASSUME IndInv, Select
  PROVE  IndInv'
<1>1. /\ SessionFrame
      /\ UNCHANGED <<alive, code, hold, reg, offset, failure, pending, late, files>>
      /\ pc = "select" /\ pc' = "batch" /\ batch' \subseteq reg
      /\ \A s \in Outputs : s \in batch' <=> s \in reg /\ Readable(s)
  BY DEF Select, SessionFrame, process
<1>2. Shape'
  BY <1>1 DEF IndInv, Shape, TypeOK, SessionFrame, files
<1>3. Outcome' /\ Sealed' /\ Reported' /\ GroupGone'
  BY <1>1 DEF IndInv, Outcome, Sealed, Reported, GroupGone, Sealing, files
<1>4. Drains'
  BY <1>1 DEF IndInv, Drains, SessionFrame, Readable
<1>5. Counted'
  BY <1>1, CountedKept DEF IndInv
<1> QED
  BY <1>2, <1>3, <1>4, <1>5 DEF IndInv

\* After a stream of the batch was handled the loop goes on.
LEMMA HandledStep ==
  ASSUME IndInv, pc = "batch", batch' \subseteq batch,
         pc' = IF batch' = {} THEN "select" ELSE "batch",
         UNCHANGED <<alive, failure, receipt>>
  PROVE  Outcome' /\ Sealed' /\ Reported' /\ GroupGone'
BY DEF IndInv, Outcome, Sealed, Reported, GroupGone, Sealing

\* The prompt is fed.
LEMMA WriteStdinStep ==
  ASSUME IndInv, WriteStdin
  PROVE  IndInv'
<1>1. PICK n \in 0 .. Prompt : Feeding(n)
  BY DEF WriteStdin
<1>2. /\ SessionFrame /\ UNCHANGED <<alive, code, failure, pending, late, files>>
      /\ pc = "batch" /\ batch' = batch \ {"stdin"} /\ reg' \in {reg, reg \ {"stdin"}}
      /\ hold' \in {hold, [hold EXCEPT !["stdin"] = {}]}
      /\ pc' = IF batch' = {} THEN "select" ELSE "batch"
  BY <1>1 DEF Feeding, WriteStdin, SessionFrame
<1>3. offset' \in 0 .. Prompt
  <2>1. offset \in 0 .. Prompt /\ Prompt \in Nat /\ Chunk \in Int /\ Prompt - offset \in Int
    BY CapAssumption DEF IndInv, Shape, TypeOK
  <2>2. n <= Prompt - offset
    BY <1>1, <2>1, MinOfTwo DEF Feeding
  <2> QED
    BY <1>1, <2>1, <2>2 DEF Feeding
<1>4. Shape'
  BY <1>2, <1>3 DEF IndInv, Shape, TypeOK, SessionFrame, files
<1>5. Outcome' /\ Sealed' /\ Reported' /\ GroupGone'
  BY <1>2, HandledStep DEF files
<1>6. "stdin" \notin Outputs /\ hold \in [Streams -> SUBSET Processes] /\ Outputs \subseteq Streams
  BY DEF Outputs, Streams, IndInv, Shape, TypeOK
<1>7. Drains'
  BY <1>2, <1>6 DEF IndInv, Drains, SessionFrame, Readable
<1>8. Counted'
  BY <1>2, CountedKept DEF IndInv
<1> QED
  BY <1>4, <1>5, <1>7, <1>8 DEF IndInv

\* Only here does a stream leave the selector, and it is drained: it was readable
\* and gave nothing.
LEMMA EndOfStreamStep ==
  ASSUME IndInv, NEW s \in Outputs, EndOfStream(s)
  PROVE  IndInv'
<1>1. /\ SessionFrame /\ UNCHANGED <<alive, code, hold, offset, failure, pending, late, files>>
      /\ pc = "batch" /\ s \in batch /\ batch' = batch \ {s} /\ reg' = reg \ {s}
      /\ pc' = IF batch' = {} THEN "select" ELSE "batch"
  BY DEF EndOfStream, SessionFrame, process
<1>2. pipe[s] = <<>> /\ hold[s] = {}
  BY <1>1, GotFacts DEF EndOfStream, IndInv, Drains, Readable
<1>3. Shape'
  BY <1>1 DEF IndInv, Shape, TypeOK, SessionFrame, files
<1>4. Outcome' /\ Sealed' /\ Reported' /\ GroupGone'
  BY <1>1, HandledStep DEF files
<1>5. Drains'
  BY <1>1, <1>2 DEF IndInv, Drains, SessionFrame, Readable
<1>6. Counted'
  BY <1>1, CountedKept DEF IndInv
<1> QED
  BY <1>3, <1>4, <1>5, <1>6 DEF IndInv

\* The bytes a read takes from the pipe of s, of which it keeps chunk
LEMMA KeepFacts ==
  ASSUME IndInv, NEW s \in Outputs, NEW chunk \in Seq(Bytes[s]), Keep(s, chunk)
  PROVE  /\ UNCHANGED <<alive, code, hold, wrote, offset, late, bin, receipt>>
         /\ chunks'[s] = chunks[s] \o chunk
         /\ pipe'[s] = SubSeq(pipe[s], Len(Got(s)) + 1, Len(pipe[s]))
         /\ chunks'[s] \in Seq(Bytes[s]) /\ pipe'[s] \in Seq(Bytes[s])
         /\ Len(chunk) \in Nat /\ Captured' = Captured + Len(chunk)
         /\ \A t \in Outputs \ {s} : chunks'[t] = chunks[t] /\ pipe'[t] = pipe[t]
         /\ pipe' = [t \in Outputs |-> pipe'[t]]
         /\ chunks' = [t \in Outputs |-> chunks'[t]]
<1>1. /\ chunks' = [chunks EXCEPT ![s] = chunks[s] \o chunk]
      /\ pipe' = [pipe EXCEPT ![s] = SubSeq(pipe[s], Len(Got(s)) + 1, Len(pipe[s]))]
      /\ UNCHANGED <<alive, code, hold, wrote, offset, late, bin, receipt>>
  BY DEF Keep
<1>2. /\ chunks'[s] = chunks[s] \o chunk
      /\ pipe'[s] = SubSeq(pipe[s], Len(Got(s)) + 1, Len(pipe[s]))
      /\ \A t \in Outputs \ {s} : chunks'[t] = chunks[t] /\ pipe'[t] = pipe[t]
      /\ pipe' = [t \in Outputs |-> pipe'[t]]
      /\ chunks' = [t \in Outputs |-> chunks'[t]]
  BY <1>1 DEF IndInv, Shape
<1>3. chunks[s] \in Seq(Bytes[s]) /\ Shape /\ Counted
  BY DEF IndInv, Shape, TypeOK
<1>4. /\ chunks[s] \o chunk \in Seq(Bytes[s])
      /\ Len(chunks[s] \o chunk) = Len(chunks[s]) + Len(chunk)
  BY <1>3, ConcatProperties
<1>5. Len(chunk) \in Nat
  BY LenProperties
<1>6. pipe'[s] \in Seq(Bytes[s])
  BY <1>2, <1>3, GotFacts
<1>7. Captured' = Captured + Len(chunk)
  <2>1. /\ Len(chunks["stdout"]) \in Nat /\ Len(chunks["stderr"]) \in Nat
        /\ s = "stdout" \/ s = "stderr"
    BY <1>3, CapturedTyped DEF Outputs
  <2>2. Len(chunks'[s]) = Len(chunks[s]) + Len(chunk)
    BY <1>2, <1>4
  <2> DEFINE k == Len(chunks["stdout"])
             l == Len(chunks["stderr"])
             m == Len(chunk)
             a == Len(chunks'["stdout"])
             b == Len(chunks'["stderr"])
  <2>3. k \in Nat /\ l \in Nat /\ m \in Nat
    BY <1>5, <2>1
  <2>4. (a = k + m /\ b = l) \/ (a = k /\ b = l + m)
    BY <1>2, <2>1, <2>2 DEF Outputs
  <2>5. Captured = k + l /\ Captured' = a + b
    BY DEF Captured
  <2> HIDE DEF k, l, m, a, b
  <2>6. Captured' = Captured + m
    BY <2>3, <2>4, <2>5
  <2> QED
    BY <2>6 DEF m
<1> QED
  BY <1>1, <1>2, <1>4, <1>5, <1>6, <1>7

\* A read within the cap
LEMMA ReadChunkStep ==
  ASSUME IndInv, NEW s \in Outputs, ReadChunk(s)
  PROVE  IndInv'
<1>1. /\ Keep(s, Got(s)) /\ UNCHANGED <<reg, failure>>
      /\ pc = "batch" /\ s \in batch /\ batch' = batch \ {s}
      /\ pc' = IF batch' = {} THEN "select" ELSE "batch"
      /\ Len(Got(s)) <= Cap - Captured
  BY DEF ReadChunk
<1>2. Shape /\ Counted /\ Outcome /\ failure = None /\ failure # "output_limit_exceeded"
  BY <1>1, NoneAssumption DEF IndInv, Outcome, FailureClass
<1>3. /\ Got(s) \in Seq(Bytes[s])
      /\ SubSeq(pipe[s], Len(Got(s)) + 1, Len(pipe[s])) \in Seq(Bytes[s])
      /\ Got(s) \o SubSeq(pipe[s], Len(Got(s)) + 1, Len(pipe[s])) = pipe[s]
  BY <1>2, GotFacts
<1>4. /\ UNCHANGED <<alive, code, hold, wrote, offset, late, bin, receipt>>
      /\ chunks'[s] = chunks[s] \o Got(s)
      /\ pipe'[s] = SubSeq(pipe[s], Len(Got(s)) + 1, Len(pipe[s]))
      /\ chunks'[s] \in Seq(Bytes[s]) /\ pipe'[s] \in Seq(Bytes[s])
      /\ Len(Got(s)) \in Nat /\ Captured' = Captured + Len(Got(s))
      /\ \A t \in Outputs \ {s} : chunks'[t] = chunks[t] /\ pipe'[t] = pipe[t]
      /\ pipe' = [t \in Outputs |-> pipe'[t]]
      /\ chunks' = [t \in Outputs |-> chunks'[t]]
  BY <1>1, <1>3, KeepFacts
<1>5. Shape'
  BY <1>1, <1>4 DEF IndInv, Shape, TypeOK
<1>6. Outcome' /\ Sealed' /\ Reported' /\ GroupGone'
  BY <1>1, <1>4, HandledStep
<1>7. Drains'
  BY <1>1, <1>4 DEF IndInv, Drains, Readable, Shape, TypeOK
<1>8. Counted'
  <2>1. Captured' <= Cap
    BY <1>1, <1>2, <1>4, CapturedTyped, CapAssumption
  <2>2. wrote'[s] = chunks'[s] \o pipe'[s]
    <3> DEFINE B == Bytes[s]
               q == chunks[s]
               g == Got(s)
               r == SubSeq(pipe[s], Len(Got(s)) + 1, Len(pipe[s]))
    <3>1. q \in Seq(B) /\ g \in Seq(B) /\ r \in Seq(B)
      BY <1>2, <1>3 DEF Shape, TypeOK
    <3>2. (q \o g) \o r = q \o (g \o r)
      <4> HIDE DEF B, q, g, r
      <4> QED  BY <3>1, ConcatAssociative
    <3>3. wrote[s] = q \o (g \o r)
      BY <1>2, <1>3 DEF Counted
    <3> HIDE DEF B, q, g, r
    <3>4. wrote'[s] = wrote[s] /\ chunks'[s] = q \o g /\ pipe'[s] = r
      BY <1>4 DEF q, g, r
    <3> QED
      BY <3>2, <3>3, <3>4
  <2>3. \A t \in Outputs \ {s} : wrote'[t] = chunks'[t] \o pipe'[t]
    BY <1>2, <1>4 DEF Counted
  <2> QED
    BY <1>1, <1>2, <2>1, <2>2, <2>3 DEF Counted
<1> QED
  BY <1>5, <1>6, <1>7, <1>8 DEF IndInv

\* Everything that was read beyond the cap was written beyond the cap.
LEMMA ReadOverflowStep ==
  ASSUME IndInv, NEW s \in Outputs, ReadOverflow(s)
  PROVE  IndInv'
<1> DEFINE chunk == SubSeq(Got(s), 1, Cap - Captured)
<1>1. /\ Keep(s, chunk) /\ UNCHANGED reg
      /\ failure' = "output_limit_exceeded"
      /\ pc = "batch" /\ s \in batch /\ batch' = {} /\ pc' = "kill"
      /\ Len(Got(s)) > Cap - Captured
  BY DEF ReadOverflow
<1>2. Shape /\ Counted /\ Outcome /\ failure = None /\ failure # "output_limit_exceeded"
  BY <1>1, NoneAssumption DEF IndInv, Outcome, FailureClass
<1>3. Got(s) \in Seq(Bytes[s]) /\ Len(Got(s)) \in 0 .. Len(pipe[s])
  BY <1>2, GotFacts
<1>4. Cap - Captured \in Nat /\ Captured \in Nat /\ Cap \in Nat
  BY <1>2, CapturedTyped, CapAssumption DEF Counted
<1>5. chunk \in Seq(Bytes[s]) /\ Len(chunk) = Cap - Captured
  <2>1. Len(Got(s)) \in Nat
    BY <1>3, LenProperties
  <2>2. \A i \in 1 .. Cap - Captured : Got(s)[i] \in Bytes[s]
    <3>1. \A i \in 1 .. Cap - Captured : i \in 1 .. Len(Got(s))
      BY <1>1, <1>4, <2>1
    <3> QED
      BY <1>3, <3>1, ElementOfSeq
  <2>3. 1 \in Int /\ Cap - Captured \in Int
    BY <1>4
  <2>4. SubSeq(Got(s), 1, Cap - Captured) \in Seq(Bytes[s])
    <3> DEFINE g == Got(s)
               k == Cap - Captured
               B == Bytes[s]
    <3>1. k \in Int /\ \A i \in 1 .. k : g[i] \in B
      BY <2>2, <2>3
    <3> HIDE DEF g, k, B
    <3>2. SubSeq(g, 1, k) \in Seq(B)
      BY <2>3, <3>1, SubSeqProperties
    <3> QED
      BY <3>2 DEF g, k, B
  <2>5. Len(SubSeq(Got(s), 1, Cap - Captured)) = Cap - Captured
    <3> DEFINE g == Got(s)
               k == Cap - Captured
               B == Bytes[s]
    <3>1. k \in Nat /\ \A i \in 1 .. k : g[i] \in B
      BY <1>4, <1>1, <2>1, <2>2
    <3> HIDE DEF g, k, B
    <3>2. Len(SubSeq(g, 1, k)) = IF 1 <= k THEN k - 1 + 1 ELSE 0
      BY <2>3, <3>1, SubSeqProperties
    <3>3. Len(SubSeq(g, 1, k)) = k
      BY <3>1, <3>2
    <3> QED
      BY <3>3 DEF g, k, B
  <2> QED
    BY <2>4, <2>5
<1> HIDE DEF chunk
<1>6. /\ UNCHANGED <<alive, code, hold, wrote, offset, late, bin, receipt>>
      /\ chunks'[s] \in Seq(Bytes[s]) /\ pipe'[s] \in Seq(Bytes[s])
      /\ Captured' = Captured + Len(chunk)
      /\ \A t \in Outputs \ {s} : chunks'[t] = chunks[t] /\ pipe'[t] = pipe[t]
      /\ pipe' = [t \in Outputs |-> pipe'[t]]
      /\ chunks' = [t \in Outputs |-> chunks'[t]]
  BY <1>1, <1>5, KeepFacts
<1>7. failure' # None /\ failure' \in Killed /\ failure' \in FailureClass
  BY <1>1, NoneAssumption DEF FailureClass, Killed
<1>8. Shape'
  BY <1>1, <1>6, <1>7 DEF IndInv, Shape, TypeOK
<1>9. Outcome' /\ Sealed' /\ Reported' /\ GroupGone' /\ Drains'
  <2>1. receipt = None
    BY <1>1 DEF IndInv, Reported
  <2> QED
    BY <1>1, <1>6, <1>7, <2>1 DEF Outcome, Sealed, Reported, GroupGone, Drains, Sealing
<1>10. Counted'
  <2>1. Captured' = Cap
    BY <1>4, <1>5, <1>6
  <2> DEFINE L(t) == Len(wrote[t])
             C(t) == Len(chunks[t])
             P(t) == Len(pipe[t])
             G == Len(Got(s))
  <2>2. \A t \in Outputs : L(t) = C(t) + P(t)
    <3> SUFFICES ASSUME NEW t \in Outputs PROVE L(t) = C(t) + P(t)
      OBVIOUS
    <3> DEFINE B == Bytes[t]
               q == chunks[t]
               r == pipe[t]
    <3>1. q \in Seq(B) /\ r \in Seq(B) /\ wrote[t] = q \o r
      BY <1>2 DEF Shape, TypeOK, Counted
    <3>2. Len(q \o r) = Len(q) + Len(r)
      <4> HIDE DEF B, q, r
      <4> QED  BY <3>1, ConcatProperties
    <3> QED
      BY <3>1, <3>2
  <2>3. /\ \A t \in Outputs : L(t) \in Nat /\ C(t) \in Nat /\ P(t) \in Nat
        /\ Captured = C("stdout") + C("stderr")
        /\ G \in 0 .. P(s) /\ G > Cap - Captured
        /\ Outputs = {"stdout", "stderr"}
    BY <1>1, <1>2, <1>3, CapturedTyped DEF Captured, Outputs
  <2> HIDE DEF L, C, P, G
  <2>4. L("stdout") + L("stderr") > Cap
    BY <1>4, <2>2, <2>3
  <2>5. Len(wrote'["stdout"]) + Len(wrote'["stderr"]) > Cap
    <3>1. wrote' = wrote
      BY <1>6
    <3>2. Len(wrote["stdout"]) + Len(wrote["stderr"]) > Cap
      BY <2>4 DEF L
    <3> QED
      BY <3>1, <3>2, Zenon
  <2>6. Cap <= Cap
    BY <1>4
  <2>7. failure' = "output_limit_exceeded"
    BY <1>1
  <2> QED
    BY <2>1, <2>5, <2>6, <2>7, Zenon DEF Counted
<1> QED
  BY <1>8, <1>9, <1>10 DEF IndInv

(***************************************************************************)
(* The theorems                                                            *)
(***************************************************************************)
LEMMA InitInv ==
  ASSUME Init
  PROVE  IndInv
<1>1. \A S : <<>> \in Seq(S) /\ Len(<<>>) = 0
  BY EmptySeq
<1>2. Shape
  <2>1. \A s \in Outputs : /\ pipe[s] = <<>> /\ chunks[s] = <<>> /\ wrote[s] = <<>>
    BY DEF Init, Empty
  <2>2. \A s \in Outputs : /\ pipe[s] \in Seq(Bytes[s]) /\ chunks[s] \in Seq(Bytes[s])
                           /\ wrote[s] \in Seq(Bytes[s])
    <3> SUFFICES ASSUME NEW s \in Outputs
                 PROVE  <<>> \in Seq(Bytes[s])
      BY <2>1
    <3> DEFINE B == Bytes[s]
    <3>1. <<>> \in Seq(B)
      <4> HIDE DEF B
      <4> QED  BY <1>1
    <3> QED
      BY <3>1
  <2>3. /\ pipe = [s \in Outputs |-> pipe[s]] /\ wrote = [s \in Outputs |-> wrote[s]]
        /\ chunks = [s \in Outputs |-> chunks[s]] /\ bin = [s \in Outputs |-> bin[s]]
    BY DEF Init, Empty, Nothing
  <2>4. /\ pc = "start" /\ alive = {} /\ code = None /\ hold = [s \in Streams |-> {}]
        /\ reg = {} /\ batch = {} /\ offset \in 0 .. Prompt /\ receipt = None
        /\ late = FALSE /\ failure = None
    BY CapAssumption DEF Init
  <2>5. TypeOK
    BY <2>2, <2>4 DEF TypeOK
  <2> QED
    BY <2>2, <2>3, <2>4, <2>5 DEF Shape
<1>3. Counted
  <2>1. \A s \in Outputs : wrote[s] = <<>> /\ chunks[s] = <<>> /\ pipe[s] = <<>>
    BY DEF Init, Empty
  <2>2. Captured = 0 /\ 0 <= Cap
    <3>1. Len(chunks["stdout"]) = Len(<<>>) /\ Len(chunks["stderr"]) = Len(<<>>)
      BY <2>1 DEF Outputs
    <3>2. Len(chunks["stdout"]) = 0 /\ Len(chunks["stderr"]) = 0
      BY <1>1, <3>1, Zenon
    <3> DEFINE a == Len(chunks["stdout"])
               b == Len(chunks["stderr"])
    <3>3. Captured = a + b /\ a = 0 /\ b = 0
      BY <3>2, Zenon DEF Captured
    <3> HIDE DEF a, b
    <3> QED
      BY <3>3, CapAssumption
  <2>3. failure # "output_limit_exceeded"
    BY NoneAssumption DEF Init, FailureClass
  <2>4. <<>> \o <<>> = <<>>
    BY <1>1, ConcatEmptySeq
  <2> QED
    BY <2>1, <2>2, <2>3, <2>4 DEF Counted
<1>4. Outcome /\ Drains /\ Sealed /\ Reported /\ GroupGone
  BY NoneAssumption DEF Init, Outcome, Drains, Sealed, Reported, GroupGone, Sealing, Empty,
    Streams, Outputs, Killed, FailureClass
<1> QED
  BY <1>2, <1>3, <1>4 DEF IndInv

\* What a step of nobody leaves alone
IdleFrame ==
  UNCHANGED <<pc, alive, code, hold, pipe, wrote, reg, batch, offset, chunks, failure,
              live, bin, receipt>>

\* Only the clock moves, or nothing.
LEMMA IdleStep ==
  ASSUME IndInv, IdleFrame, late' \in BOOLEAN
  PROVE  IndInv'
<1>1. Shape'
  <2>1. /\ TypeOK /\ \A s \in Outputs : wrote[s] \in Seq(Bytes[s])
        /\ failure \in FailureClass \cup {None}
        /\ pipe = [s \in Outputs |-> pipe[s]] /\ wrote = [s \in Outputs |-> wrote[s]]
        /\ chunks = [s \in Outputs |-> chunks[s]] /\ bin = [s \in Outputs |-> bin[s]]
    BY DEF IndInv, Shape
  <2>2. TypeOK'
    BY <2>1 DEF TypeOK, IdleFrame
  <2> QED
    BY <2>1, <2>2 DEF Shape, IdleFrame
<1>2. Counted'
  <2>1. Captured' = Captured
    BY DEF IdleFrame, Captured
  <2> QED
    BY <2>1, Zenon DEF IndInv, Counted, IdleFrame
<1>3. Outcome' /\ Sealed' /\ Reported' /\ GroupGone'
  BY DEF IndInv, Outcome, Sealed, Reported, GroupGone, IdleFrame
<1>4. Drains'
  BY DEF IndInv, Drains, Readable, IdleFrame
<1> QED
  BY <1>1, <1>2, <1>3, <1>4 DEF IndInv

\* Every step keeps the invariant.
LEMMA StepInv ==
  ASSUME IndInv, [Next]_vars
  PROVE  IndInv'
<1>1. CASE Agent
  <2>1. \A p \in {"child", "detached"} : Fork(p) => IndInv'
    BY ForkStep
  <2>2. \A p \in Processes : Exit(p) \/ Close(p) => IndInv'
    BY ExitStep, CloseStep
  <2>3. \A p \in Processes, s \in Outputs : \A x \in Bytes[s] : Write(p, s, x) => IndInv'
    BY WriteStep
  <2> QED
    BY <1>1, <2>1, <2>2, <2>3 DEF Agent
<1>2. CASE Deadline
  <2>1. late' = TRUE /\ IdleFrame
    BY <1>2 DEF Deadline, IdleFrame, process, reading, files
  <2> QED
    BY <2>1, IdleStep
<1>3. CASE Session
  <2>1. Launch \/ LaunchError => IndInv'
    BY LaunchStep
  <2>2. Select => IndInv'
    BY SelectStep
  <2>3. Expire \/ Drained \/ WaitTimeout \/ WaitExited => IndInv'
    BY StopStep
  <2>4. WriteStdin => IndInv'
    BY WriteStdinStep
  <2>5. \A s \in Outputs : EndOfStream(s) \/ ReadChunk(s) \/ ReadOverflow(s) => IndInv'
    BY EndOfStreamStep, ReadChunkStep, ReadOverflowStep
  <2>6. Kill \/ Reap \/ Flush => IndInv'
    BY KillStep, ReapStep, FlushStep
  <2>7. (SealBin("stdout", "stderr") \/ SealBin("stderr", "unlink") \/ Unlink \/ WriteReceipt)
          => IndInv'
    BY SealStep
  <2> QED
    BY <1>3, <2>1, <2>2, <2>3, <2>4, <2>5, <2>6, <2>7, Zenon DEF Session
<1>4. CASE UNCHANGED vars
  <2>1. late' = late /\ IdleFrame
    BY <1>4 DEF IdleFrame, vars, process, reading, files
  <2> QED
    BY <2>1, IdleStep DEF IndInv, Shape, TypeOK
<1> QED
  BY <1>1, <1>2, <1>3, <1>4 DEF Next

\* The invariant of a session, whatever its processes do
THEOREM Inductive == Spec => []IndInv
<1>1. Init => IndInv
  BY InitInv
<1>2. IndInv /\ [Next]_vars => IndInv'
  BY StepInv
<1> QED
  BY <1>1, <1>2, PTL DEF Spec

\* run_session: a session reported "completed" exited with 0 by itself and its
\* sealed streams are the redaction of everything its processes wrote; one
\* stopped at the output cap wrote more than it and keeps exactly that much.
THEOREM OutcomeAlwaysHonest == Spec => []OutcomeHonest
<1>1. IndInv => OutcomeHonest
  <2> SUFFICES ASSUME IndInv PROVE OutcomeHonest
    OBVIOUS
  <2>1. /\ TypeOK /\ Captured <= Cap
        /\ failure = "output_limit_exceeded" =>
             /\ Captured = Cap
             /\ Len(wrote["stdout"]) + Len(wrote["stderr"]) > Cap
    BY DEF IndInv, Shape, Counted
  <2>2. ASSUME receipt # None, receipt.status = "completed"
        PROVE  /\ receipt.exit = 0
               /\ \A s \in Outputs : chunks[s] = wrote[s] /\ bin[s] = RedactBytes(wrote[s])
    <3>1. pc = "done" /\ failure = None /\ receipt.exit = 0
      BY <2>2 DEF IndInv, Reported
    <3>2. reg = {} /\ failure # "output_limit_exceeded"
      BY <3>1, NoneAssumption DEF IndInv, Outcome, Sealing, FailureClass
    <3>3. \A s \in Outputs : pipe[s] = <<>> /\ wrote[s] = chunks[s] \o pipe[s]
      BY <3>1, <3>2 DEF IndInv, Drains, Counted
    <3>4. \A s \in Outputs : chunks[s] = wrote[s]
      <4> SUFFICES ASSUME NEW s \in Outputs PROVE chunks[s] = wrote[s]
        OBVIOUS
      <4> DEFINE B == Bytes[s]
                 q == chunks[s]
      <4>1. q \in Seq(B) /\ wrote[s] = q \o <<>>
        BY <3>3 DEF IndInv, Shape, TypeOK
      <4>2. q \o <<>> = q
        <5> HIDE DEF B, q
        <5> QED  BY <4>1, ConcatEmptySeq
      <4> QED
        BY <4>1, <4>2
    <3>5. \A s \in Outputs : bin[s] = RedactBytes(chunks[s])
      BY <3>1 DEF IndInv, Sealed, Outputs
    <3> QED
      BY <3>1, <3>4, <3>5
  <2> QED
    BY <2>1, <2>2 DEF OutcomeHonest
<1> QED
  BY <1>1, Inductive, PTL

\* killpg: when a session stopped at a bound writes its receipt, no process of
\* its group is left to write the work directory.
THEOREM AlwaysKilledTogether == Spec => []KilledTogether
<1>1. IndInv => KilledTogether
  BY DEF IndInv, GroupGone, KilledTogether, Sealing, Killed
<1> QED
  BY <1>1, Inductive, PTL

(***************************************************************************)
(* The redactor.  The scan is a recursive function of the position; what   *)
(* it computes from a position depends on later positions only, so a       *)
(* statement holds everywhere when it holds wherever it holds at all later *)
(* positions (Backwards).  Split: up to the tail that may start a secret,  *)
(* the same secrets stand in the data and in any continuation, so the scan *)
(* of the data and then of its tail with the continuation is the scan of   *)
(* the whole.  Clean: between two marks the output is the data, and a      *)
(* secret that stood there would have been replaced.                       *)
(***************************************************************************)
\* A nonempty set of naturals has a smallest element.
LEMMA SmallestExists ==
  ASSUME NEW T, T \subseteq Nat, T # {}
  PROVE  \E x \in T : \A y \in T : x <= y
<1> DEFINE R == OpToRel(<, Nat)
<1>1. \E x \in T : \A y \in T : ~(<<y, x>> \in R)
  <2>1. IsWellFoundedOn(R, Nat)
    BY NatLessThanWellFounded
  <2> HIDE DEF R
  <2> QED  BY <2>1, WFMin
<1>2. \A x, y \in T : ~(<<y, x>> \in R) => x <= y
  BY DEF OpToRel
<1> HIDE DEF R
<1> QED  BY <1>1, <1>2

\* What holds at a position whenever it holds at all later ones holds at all.
LEMMA Backwards ==
  ASSUME NEW n \in Nat, NEW T,
         \A i \in 1 .. n + 1 : (\A j \in i + 1 .. n + 1 : j \in T) => i \in T
  PROVE  \A i \in 1 .. n + 1 : i \in T
<1> DEFINE U == {k \in 0 .. n : n + 1 - k \notin T}
<1>1. SUFFICES ASSUME NEW i \in 1 .. n + 1, i \notin T  PROVE FALSE
  OBVIOUS
<1>2. n + 1 - i \in U
  BY <1>1
<1>3. U \subseteq Nat
  OBVIOUS
<1>4. PICK k \in U : \A l \in U : k <= l
  <2> HIDE DEF U
  <2> QED  BY <1>2, <1>3, SmallestExists
<1>5. ASSUME NEW j \in (n + 1 - k) + 1 .. n + 1
      PROVE  j \in T
  <2>1. n + 1 - j \in 0 .. n /\ n + 1 - j < k /\ n + 1 - (n + 1 - j) = j
    BY <1>4
  <2> QED  BY <1>4, <2>1
<1>6. n + 1 - k \in 1 .. n + 1
  BY <1>4
<1>7. n + 1 - k \in T
  BY <1>5, <1>6
<1> QED  BY <1>4, <1>7

\* A finite set of naturals has a largest element.
LEMMA LargestExists ==
  ASSUME NEW S, IsFiniteSet(S), S \subseteq Nat, S # {}
  PROVE  \E x \in S : \A y \in S : y <= x
<1> DEFINE Bounded(T) == \E x \in T : \A y \in T : y <= x
           U == {k \in Nat : \E T \in SUBSET Nat :
                   IsFiniteSet(T) /\ T # {} /\ Cardinality(T) = k /\ ~Bounded(T)}
<1>1. SUFFICES ASSUME ~Bounded(S)  PROVE FALSE
  OBVIOUS
<1>2. Cardinality(S) \in U
  BY <1>1, FS_CardinalityType
<1>3. PICK k \in U : \A l \in U : k <= l
  <2>1. U \subseteq Nat
    OBVIOUS
  <2> HIDE DEF U
  <2> QED  BY <1>2, <2>1, SmallestExists
<1>4. PICK T \in SUBSET Nat :
        IsFiniteSet(T) /\ T # {} /\ Cardinality(T) = k /\ ~Bounded(T)
  BY <1>3
<1>5. PICK x \in T : TRUE
  BY <1>4
<1>6. IsFiniteSet(T \ {x}) /\ Cardinality(T \ {x}) = k - 1
  BY <1>4, <1>5, FS_RemoveElement
<1>7. k \in Nat /\ k - 1 \in Nat
  BY <1>3, <1>6, FS_CardinalityType
<1>8. T \ {x} # {}
  BY <1>4, <1>5
<1>9. Bounded(T \ {x})
  <2>1. k - 1 \notin U
    BY <1>3, <1>7
  <2>2. T \ {x} \in SUBSET Nat
    OBVIOUS
  <2> QED  BY <1>6, <1>7, <1>8, <2>1, <2>2
<1>10. PICK y \in T \ {x} : \A z \in T \ {x} : z <= y
  BY <1>9
<1>11. Bounded(T)
  <2>1. x \in Nat /\ y \in Nat
    BY <1>4, <1>5, <1>10
  <2>2. CASE x <= y
    BY <1>10, <2>2
  <2>3. CASE y <= x
    <3>1. \A z \in T : z <= x
      <4> TAKE z \in T
      <4>1. CASE z = x
        BY <2>1, <4>1
      <4>2. CASE z # x
        BY <1>10, <2>1, <2>3, <4>2
      <4> QED  BY <4>1, <4>2
    <3> QED  BY <1>5, <3>1
  <2> QED  BY <2>1, <2>2, <2>3
<1> QED  BY <1>4, <1>11

\* A secret is a nonempty sequence without the replacement symbol.
LEMMA SecretShape ==
  ASSUME NEW x \in Secrets
  PROVE  /\ x \in Seq(Range(x)) /\ Len(x) \in Nat \ {0}
         /\ \A k \in 1 .. Len(x) : x[k] \in Range(x) /\ x[k] # Redaction
<1>1. x \in Seq(Range(x)) /\ Redaction \notin Range(x) /\ Len(x) >= MinSecret
  BY CredentialAssumption DEF Secrets
<1>2. Len(x) \in Nat \ {0}
  BY <1>1, LenProperties, CredentialAssumption
<1>3. \A k \in 1 .. Len(x) : x[k] \in Range(x)
  BY <1>1, ElementOfSeq
<1> QED  BY <1>1, <1>2, <1>3

\* x fits into d at position i, element by element.
Fits(x, d, i) ==
  /\ i + Len(x) - 1 <= Len(d)
  /\ \A k \in 1 .. Len(x) : d[i + k - 1] = x[k]

\* A secret stands where it fits.
LEMMA AtElements ==
  ASSUME NEW B, NEW d \in Seq(B), NEW i \in Nat \ {0}, NEW x \in Secrets
  PROVE  x \in At(d, i) <=> Fits(x, d, i)
<1>1. /\ x \in Seq(Range(x)) /\ Len(x) \in Nat \ {0}
      /\ \A k \in 1 .. Len(x) : x[k] \in Range(x)
  BY SecretShape
<1>2. Len(d) \in Nat /\ \A k \in 1 .. Len(d) : d[k] \in B
  BY LenProperties, ElementOfSeq
<1>3. ASSUME i + Len(x) - 1 <= Len(d)
      PROVE  StandsAt(x, d, i) <=> \A k \in 1 .. Len(x) : d[i + k - 1] = x[k]
  <2> DEFINE m == i + Len(x) - 1
             S == B \cup Range(x)
             t == SubSeq(d, i, m)
  <2>1. m \in Nat /\ i <= m /\ m <= Len(d) /\ m - i + 1 = Len(x)
    BY <1>1, <1>2, <1>3
  <2>2. \A k \in i .. m : d[k] \in S
    <3>1. ASSUME NEW k \in i .. m  PROVE k \in 1 .. Len(d)
      <4>1. i \in Nat \ {0} /\ k \in Int /\ i <= k /\ k <= m
        BY <2>1
      <4> HIDE DEF m
      <4> QED  BY <1>2, <2>1, <4>1
    <3> QED  BY <1>2, <3>1
  <2>3. /\ t \in Seq(S) /\ Len(t) = Len(x)
        /\ \A k \in 1 .. Len(x) : t[k] = d[i + k - 1]
    <3> HIDE DEF m, S
    <3>1. i \in Int /\ m \in Int
      BY <2>1
    <3> QED  BY <2>1, <2>2, <3>1, SubSeqProperties
  <2>4. x \in Seq(S)
    BY <1>1, SeqMonotonic
  <2>5. StandsAt(x, d, i) <=> t = x
    BY DEF StandsAt
  <2> HIDE DEF t, S
  <2>6. (\A k \in 1 .. Len(t) : t[k] = x[k]) => t = x
    BY <2>3, <2>4, SeqEqual
  <2>7. (\A k \in 1 .. Len(x) : d[i + k - 1] = x[k])
          <=> (\A k \in 1 .. Len(x) : t[k] = x[k])
    BY <2>3
  <2> QED  BY <2>3, <2>5, <2>6, <2>7
<1> QED  BY <1>3 DEF At, Fits

\* The longest of the secrets that stand somewhere is one of them.
LEMMA LongestStands ==
  ASSUME NEW B, NEW d \in Seq(B), NEW i \in 1 .. Len(d), At(d, i) # {}
  PROVE  Longest(At(d, i)) \in At(d, i)
<1> DEFINE S == {Len(x) : x \in At(d, i)}
<1>1. Len(d) \in Nat
  BY LenProperties
<1>2. S \subseteq 1 .. Len(d)
  BY <1>1, SecretShape DEF At
<1>3. IsFiniteSet(S)
  <2>1. IsFiniteSet(1 .. Len(d))
    BY <1>1, FS_Interval
  <2> QED  BY <1>2, <2>1, FS_Subset
<1>4. S \subseteq Nat
  BY SecretShape DEF At
<1>5. S # {}
  OBVIOUS
<1>6. PICK m \in S : \A n \in S : n <= m
  <2> HIDE DEF S
  <2> QED  BY <1>3, <1>4, <1>5, LargestExists
<1>7. PICK x \in At(d, i) : \A y \in At(d, i) : Len(y) <= Len(x)
  BY <1>6
<1> QED  BY <1>7 DEF Longest

\* It is not empty and it fits.
LEMMA LongestLength ==
  ASSUME NEW B, NEW d \in Seq(B), NEW i \in 1 .. Len(d), At(d, i) # {}
  PROVE  /\ Len(Longest(At(d, i))) \in Nat \ {0}
         /\ i + Len(Longest(At(d, i))) - 1 <= Len(d)
<1>1. PICK x \in Secrets : x = Longest(At(d, i)) /\ i + Len(x) - 1 <= Len(d)
  BY LongestStands DEF At
<1> QED  BY <1>1, SecretShape

\* The scan goes forward, by one symbol where no secret stands.
LEMMA AfterTyped ==
  ASSUME NEW B, NEW d \in Seq(B), NEW i \in 1 .. Len(d)
  PROVE  /\ After(d, i) \in i + 1 .. Len(d) + 1
         /\ At(d, i) = {} => After(d, i) = i + 1
<1>1. Len(d) \in Nat
  BY LenProperties
<1>2. CASE At(d, i) = {}
  BY <1>1, <1>2 DEF After
<1>3. CASE At(d, i) # {}
  <2> DEFINE l == Len(Longest(At(d, i)))
  <2>1. After(d, i) = i + l
    BY <1>3 DEF After
  <2>2. l \in Nat \ {0} /\ i + l - 1 <= Len(d)
    BY <1>3, LongestLength
  <2> HIDE DEF l
  <2> QED  BY <1>1, <1>3, <2>1, <2>2
<1> QED  BY <1>2, <1>3

\* No secret is longer than Maximum.
LEMMA MaximumBounds ==
  /\ Maximum \in Nat
  /\ \A x \in Secrets : Len(x) <= Maximum
<1> DEFINE S == {Len(x) : x \in Secrets}
           f == [x \in Secrets |-> Len(x)]
<1>1. S \subseteq Nat
  BY SecretShape
<1>2. IsFiniteSet(S)
  <2>1. IsFiniteSet(Secrets)
    BY CredentialAssumption, FS_Subset DEF Secrets
  <2>2. f \in Surjection(Secrets, S)
    BY DEF Surjection
  <2> HIDE DEF f, S
  <2> QED  BY <2>1, <2>2, FS_Surjection
<1>3. CASE Secrets = {}
  BY <1>3 DEF Maximum
<1>4. CASE Secrets # {}
  <2>1. S # {}
    BY <1>4
  <2>2. \E m \in S : \A n \in S : n <= m
    <3> HIDE DEF S
    <3> QED  BY <1>1, <1>2, <2>1, LargestExists
  <2>3. Maximum = Max(S)
    BY <1>4 DEF Maximum
  <2>4. Max(S) \in S /\ \A n \in S : n <= Max(S)
    <3> HIDE DEF S
    <3>1. \A m, n \in S : n <= m <=> m >= n
      BY <1>1
    <3> QED  BY <2>2, <3>1 DEF Max
  <2> QED  BY <1>1, <2>3, <2>4
<1> QED  BY <1>3, <1>4

\* The tail the redactor holds back is part of the data, and as long as any
\* suffix of it that starts a secret and does not end it.
LEMMA HeldFacts ==
  ASSUME NEW B, NEW d \in Seq(B)
  PROVE  /\ Held(d) \in 0 .. Len(d)
         /\ \A n \in 1 .. Len(d) : \A x \in Secrets :
              n < Len(x) /\ SubSeq(d, Len(d) - n + 1, Len(d)) = SubSeq(x, 1, n)
                => n <= Held(d)
<1> DEFINE m == Min({Maximum - 1, Len(d)})
           H == {0} \cup {n \in 1 .. m :
                  \E x \in Secrets : n <= Len(x)
                    /\ SubSeq(d, Len(d) - n + 1, Len(d)) = SubSeq(x, 1, n)}
<1>1. Len(d) \in Nat /\ Maximum \in Nat
  BY LenProperties, MaximumBounds
<1>2. m = IF Maximum - 1 <= Len(d) THEN Maximum - 1 ELSE Len(d)
  <2>1. Maximum - 1 \in Int /\ Len(d) \in Int
    BY <1>1
  <2> QED  BY <2>1, MinOfTwo
<1>3. Held(d) = Max(H)
  BY DEF Held
<1> HIDE DEF m
<1>4. H \subseteq 0 .. Len(d) /\ 0 \in H
  BY <1>1, <1>2
<1>5. Max(H) \in H /\ \A n \in H : n <= Max(H)
  <2> HIDE DEF H
  <2>1. IsFiniteSet(H) /\ H \subseteq Nat /\ H # {}
    <3>1. IsFiniteSet(0 .. Len(d))
      BY <1>1, FS_Interval
    <3>2. 0 .. Len(d) \subseteq Nat
      BY <1>1
    <3> QED  BY <1>4, <3>1, <3>2, FS_Subset
  <2>2. \E x \in H : \A y \in H : y <= x
    BY <2>1, LargestExists
  <2>3. \A x, y \in H : y <= x <=> x >= y
    BY <2>1
  <2> QED  BY <2>2, <2>3 DEF Max
<1>6. ASSUME NEW n \in 1 .. Len(d), NEW x \in Secrets, n < Len(x),
             SubSeq(d, Len(d) - n + 1, Len(d)) = SubSeq(x, 1, n)
      PROVE  n <= Held(d)
  <2>1. Len(x) <= Maximum /\ Len(x) \in Nat
    BY MaximumBounds, SecretShape
  <2>2. n \in 1 .. m
    BY <1>1, <1>2, <1>6, <2>1
  <2>3. n <= Len(x)
    BY <1>6, <2>1
  <2>4. n \in H
    BY <1>6, <2>2, <2>3
  <2> HIDE DEF H
  <2> QED  BY <1>3, <1>5, <2>4
<1>7. Held(d) \in 0 .. Len(d)
  <2> HIDE DEF H
  <2> QED  BY <1>3, <1>4, <1>5
<1> QED  BY <1>6, <1>7

\* Only the held tail depends on what is read next: before it the same
\* secrets stand in the data and in any continuation.
LEMMA AtExtended ==
  ASSUME NEW B, NEW d \in Seq(B), NEW e \in Seq(B),
         NEW i \in 1 .. Len(d), i <= Len(d) - Held(d)
  PROVE  At(d \o e, i) = At(d, i)
<1> DEFINE w == d \o e
           n == Len(d)
<1>1. /\ n \in Nat /\ Len(e) \in Nat /\ w \in Seq(B) /\ Len(w) = n + Len(e)
      /\ \A k \in 1 .. n : w[k] = d[k]
  BY LenProperties, ConcatProperties
<1>0. i \in Nat \ {0}
  BY <1>1
<1>2. \A x \in At(d, i) : x \in Secrets
  BY DEF At
<1>3. \A x \in At(w, i) : x \in Secrets
  BY DEF At
<1> HIDE DEF w
<1>4. ASSUME NEW x \in Secrets
      PROVE  x \in At(d, i) => x \in At(w, i)
  <2>1. Len(x) \in Nat \ {0}
    BY SecretShape
  <2>2. SUFFICES ASSUME x \in At(d, i)  PROVE x \in At(w, i)
    OBVIOUS
  <2>3. /\ i + Len(x) - 1 <= n
        /\ \A k \in 1 .. Len(x) : d[i + k - 1] = x[k]
    <3>1. Fits(x, d, i)
      BY <2>2, AtElements
    <3> QED  BY <3>1 DEF Fits
  <2>4. \A k \in 1 .. Len(x) : i + k - 1 \in 1 .. n
    BY <1>1, <2>1, <2>3
  <2>5. \A k \in 1 .. Len(x) : w[i + k - 1] = x[k]
    BY <1>1, <2>3, <2>4
  <2>6. i + Len(x) - 1 <= Len(w)
    BY <1>1, <2>1, <2>3
  <2>7. Fits(x, w, i)
    BY <2>5, <2>6 DEF Fits
  <2> QED  BY <1>0, <1>1, <2>7, AtElements
<1>5. ASSUME NEW x \in Secrets, x \in At(w, i)
      PROVE  x \in At(d, i)
  <2>1. Len(x) \in Nat \ {0} /\ x \in Seq(Range(x))
    BY SecretShape
  <2>2. /\ i + Len(x) - 1 <= Len(w)
        /\ \A k \in 1 .. Len(x) : w[i + k - 1] = x[k]
    <3>1. Fits(x, w, i)
      BY <1>0, <1>1, <1>5, AtElements
    <3> QED  BY <3>1 DEF Fits
  <2>3. CASE i + Len(x) - 1 <= n
    <3>1. \A k \in 1 .. Len(x) : i + k - 1 \in 1 .. n
      BY <1>1, <2>1, <2>3
    <3>2. \A k \in 1 .. Len(x) : d[i + k - 1] = x[k]
      BY <1>1, <2>2, <3>1
    <3>3. Fits(x, d, i)
      BY <2>3, <3>2 DEF Fits
    <3> QED  BY <1>0, <3>3, AtElements
  <2>4. CASE i + Len(x) - 1 > n
    <3> DEFINE l == n - i + 1
               p == SubSeq(d, n - l + 1, n)
               q == SubSeq(x, 1, l)
               S == B \cup Range(x)
    <3>1. l \in 1 .. n /\ l < Len(x) /\ n - l + 1 = i
      BY <1>1, <2>1, <2>4
    <3>2. p = SubSeq(d, i, n)
      BY <3>1
    <3>3. p \in Seq(S) /\ Len(p) = l /\ \A k \in 1 .. l : p[k] = d[i + k - 1]
      <4>1. \A k \in i .. n : d[k] \in S
        BY <1>1, ElementOfSeq
      <4>2. i \in Int /\ n \in Int /\ i <= n /\ n - i + 1 = l
        BY <1>1
      <4> HIDE DEF S, n, l, p
      <4> QED  BY <3>2, <4>1, <4>2, SubSeqProperties
    <3>4. q \in Seq(S) /\ Len(q) = l /\ \A k \in 1 .. l : q[k] = x[k]
      <4>1. \A k \in 1 .. l : x[k] \in S
        BY <2>1, <3>1, ElementOfSeq
      <4>2. 1 \in Int /\ l \in Int /\ 1 <= l /\ l - 1 + 1 = l
        BY <3>1
      <4>3. \A k \in 1 .. l : 1 + k - 1 = k
        OBVIOUS
      <4> HIDE DEF S, n, l
      <4> QED  BY <4>1, <4>2, <4>3, SubSeqProperties
    <3>5. \A k \in 1 .. l : d[i + k - 1] = x[k]
      <4>1. \A k \in 1 .. l : i + k - 1 \in 1 .. n /\ k \in 1 .. Len(x)
        BY <1>1, <2>1, <3>1
      <4> QED  BY <1>1, <2>2, <4>1
    <3>6. p = q
      <4> HIDE DEF S, n, l, p, q
      <4>1. \A k \in 1 .. Len(p) : p[k] = q[k]
        BY <3>3, <3>4, <3>5
      <4> QED  BY <3>3, <3>4, <4>1, SeqEqual
    <3>7. l <= Held(d)
      <4> HIDE DEF l
      <4> QED  BY <3>1, <3>6, HeldFacts
    <3> QED  BY <1>1, <3>7, HeldFacts
  <2>5. i + Len(x) - 1 \in Int
    BY <2>1
  <2> QED  BY <1>1, <2>3, <2>4, <2>5
<1>6. At(w, i) = At(d, i)
  BY <1>2, <1>3, <1>4, <1>5
<1> QED  BY <1>6 DEF w

\* What stands in a suffix stands in the whole.
LEMMA AtShifted ==
  ASSUME NEW B, NEW d \in Seq(B), NEW e \in Seq(B), NEW o \in Nat,
         Len(d) = o + Len(e), \A k \in 1 .. Len(e) : e[k] = d[o + k],
         NEW i \in 1 .. Len(e)
  PROVE  At(e, i) = At(d, o + i)
<1>1. Len(d) \in Nat /\ Len(e) \in Nat
  BY LenProperties
<1>2. At(e, i) \subseteq Secrets /\ At(d, o + i) \subseteq Secrets
  BY DEF At
<1>3. ASSUME NEW x \in Secrets
      PROVE  x \in At(e, i) <=> x \in At(d, o + i)
  <2>1. Len(x) \in Nat \ {0}
    BY SecretShape
  <2>2. o + i \in Nat \ {0} /\ i \in Nat \ {0}
    BY <1>1
  <2>3. i + Len(x) - 1 <= Len(e) <=> (o + i) + Len(x) - 1 <= Len(d)
    BY <1>1, <2>1
  <2>4. ASSUME i + Len(x) - 1 <= Len(e), NEW k \in 1 .. Len(x)
        PROVE  e[i + k - 1] = d[(o + i) + k - 1]
    <3>1. i + k - 1 \in 1 .. Len(e) /\ o + (i + k - 1) = (o + i) + k - 1
      BY <1>1, <2>1, <2>4
    <3> QED  BY <3>1
  <2>5. ASSUME x \in At(e, i)
        PROVE  x \in At(d, o + i)
    <3>1. /\ i + Len(x) - 1 <= Len(e)
          /\ \A k \in 1 .. Len(x) : e[i + k - 1] = x[k]
      <4>1. Fits(x, e, i)
        BY <2>2, <2>5, AtElements
      <4> QED  BY <4>1 DEF Fits
    <3>2. /\ (o + i) + Len(x) - 1 <= Len(d)
          /\ \A k \in 1 .. Len(x) : d[(o + i) + k - 1] = x[k]
      BY <2>3, <2>4, <3>1
    <3>3. Fits(x, d, o + i)
      BY <3>2 DEF Fits
    <3> QED  BY <2>2, <3>3, AtElements
  <2>6. ASSUME x \in At(d, o + i)
        PROVE  x \in At(e, i)
    <3>1. /\ (o + i) + Len(x) - 1 <= Len(d)
          /\ \A k \in 1 .. Len(x) : d[(o + i) + k - 1] = x[k]
      <4>1. Fits(x, d, o + i)
        BY <2>2, <2>6, AtElements
      <4> QED  BY <4>1 DEF Fits
    <3>2. /\ i + Len(x) - 1 <= Len(e)
          /\ \A k \in 1 .. Len(x) : e[i + k - 1] = x[k]
      BY <2>3, <2>4, <3>1
    <3>3. Fits(x, e, i)
      BY <3>2 DEF Fits
    <3> QED  BY <2>2, <3>3, AtElements
  <2> QED  BY <2>5, <2>6
<1> QED  BY <1>2, <1>3

\* Concatenations may be regrouped.
LEMMA ConcatRegroups ==
  \A S : \A p, q, r \in Seq(S) :
    (p \o q) \o r = p \o (q \o r) /\ q \o r \in Seq(S)
<1> TAKE S
<1> TAKE p, q, r \in Seq(S)
<1>1. (p \o q) \o r = p \o (q \o r)
  BY ConcatAssociative
<1>2. q \o r \in Seq(S)
  BY ConcatProperties
<1> QED  BY <1>1, <1>2

\* What the redactor may put out for bytes of B
Marked(B) == B \cup {Redaction}

\* One step of the scan, given the scan from the later positions.
ScanStep(g, d, limit, i) ==
  IF i > limit THEN [out |-> <<>>, next |-> i]
  ELSE [out |-> <<Symbol(d, i)>> \o g[After(d, i)].out, next |-> g[After(d, i)].next]

\* The scan is defined: it only looks at later positions.
LEMMA ScanExists ==
  ASSUME NEW B, NEW d \in Seq(B), NEW limit \in Int, limit <= Len(d)
  PROVE  \E g : g = [i \in 1 .. Len(d) + 1 |-> ScanStep(g, d, limit, i)]
<1> DEFINE n == Len(d)
           T == {m \in 1 .. n + 1 :
                  \E g : g = [i \in m .. n + 1 |-> ScanStep(g, d, limit, i)]}
<1>1. n \in Nat
  BY LenProperties
<1>2. ASSUME NEW m \in 1 .. n + 1, \A j \in m + 1 .. n + 1 : j \in T
      PROVE  m \in T
  <2>1. CASE m = n + 1
    <3> DEFINE g == [i \in m .. n + 1 |-> [out |-> <<>>, next |-> i]]
    <3>1. \A i \in m .. n + 1 : i > limit
      BY <1>1, <2>1
    <3>2. g = [i \in m .. n + 1 |-> ScanStep(g, d, limit, i)]
      <4> HIDE DEF n
      <4> QED  BY <3>1 DEF ScanStep
    <3> HIDE DEF g
    <3> QED  BY <3>2
  <2>2. CASE m \in 1 .. n
    <3>1. m + 1 \in T
      BY <1>1, <1>2, <2>2
    <3>2. PICK h : h = [i \in m + 1 .. n + 1 |-> ScanStep(h, d, limit, i)]
      BY <3>1
    <3> DEFINE g == [i \in m .. n + 1 |->
                      IF i = m THEN ScanStep(h, d, limit, m) ELSE h[i]]
    <3>3. ASSUME NEW i \in m .. n + 1
          PROVE  g[i] = ScanStep(h, d, limit, i)
      <4>1. CASE i = m
        BY <4>1
      <4>2. CASE i # m
        <5>1. i \in m + 1 .. n + 1
          BY <1>1, <2>2, <4>2
        <5>2. h[i] = ScanStep(h, d, limit, i)
          <6> HIDE DEF n
          <6> QED  BY <3>2, <5>1
        <5> QED  BY <4>2, <5>2
      <4> QED  BY <4>1, <4>2
    <3>4. ASSUME NEW i \in m .. n + 1
          PROVE  ScanStep(g, d, limit, i) = ScanStep(h, d, limit, i)
      <4>1. CASE i > limit
        BY <4>1 DEF ScanStep
      <4>2. CASE ~(i > limit)
        <5>1. i \in 1 .. Len(d) /\ m <= i
          BY <1>1, <2>2, <4>2
        <5>2. After(d, i) \in m + 1 .. n + 1
          <6>1. After(d, i) \in i + 1 .. Len(d) + 1
            BY <5>1, AfterTyped
          <6> QED  BY <1>1, <2>2, <5>1, <6>1
        <5>3. g[After(d, i)] = h[After(d, i)]
          <6> DEFINE a == After(d, i)
          <6>1. a \in m .. n + 1 /\ a # m
            BY <1>1, <2>2, <5>2
          <6> HIDE DEF a
          <6>2. g[a] = h[a]
            BY <6>1
          <6> QED  BY <6>2 DEF a
        <5> HIDE DEF g
        <5> QED  BY <4>2, <5>3 DEF ScanStep
      <4> QED  BY <4>1, <4>2
    <3>5. g = [i \in m .. n + 1 |-> g[i]]
      OBVIOUS
    <3> HIDE DEF g
    <3>6. \A i \in m .. n + 1 : g[i] = ScanStep(g, d, limit, i)
      BY <3>3, <3>4
    <3>7. g = [i \in m .. n + 1 |-> ScanStep(g, d, limit, i)]
      BY <3>5, <3>6
    <3> QED  BY <3>7
  <2> QED  BY <1>1, <2>1, <2>2
<1>3. \A i \in 1 .. n + 1 : i \in T
  <2> HIDE DEF n, T
  <2> QED  BY <1>1, <1>2, Backwards
<1>4. 1 \in T
  BY <1>1, <1>3
<1> QED  BY <1>4

\* So it satisfies its definition.
LEMMA ScanUnfold ==
  ASSUME NEW B, NEW d \in Seq(B), NEW limit \in Int, limit <= Len(d),
         NEW i \in 1 .. Len(d) + 1
  PROVE  ScanFrom(d, limit)[i] = ScanStep(ScanFrom(d, limit), d, limit, i)
<1> DEFINE F == ScanFrom(d, limit)
<1>1. F = CHOOSE g : g = [j \in 1 .. Len(d) + 1 |-> ScanStep(g, d, limit, j)]
  BY DEF ScanFrom, ScanStep
<1>2. F = [j \in 1 .. Len(d) + 1 |-> ScanStep(F, d, limit, j)]
  <2> HIDE DEF F
  <2> QED  BY <1>1, ScanExists
<1> HIDE DEF F
<1>3. F[i] = ScanStep(F, d, limit, i)
  BY <1>2
<1> QED  BY <1>3 DEF F

IsScan(F, d, limit) == F = ScanFrom(d, limit)

\* Past the limit the scan is over.
LEMMA ScanEnds ==
  ASSUME NEW B, NEW d \in Seq(B), NEW limit \in Int, limit <= Len(d),
         NEW F, IsScan(F, d, limit), NEW i \in 1 .. Len(d) + 1, i > limit
  PROVE  F[i].out = <<>> /\ F[i].next = i
<1>1. F[i] = ScanStep(F, d, limit, i)
  BY ScanUnfold DEF IsScan
<1> QED  BY <1>1 DEF ScanStep

\* Up to it the scan puts out a symbol and goes on.
LEMMA ScanGoesOn ==
  ASSUME NEW B, NEW d \in Seq(B), NEW limit \in Int, limit <= Len(d),
         NEW F, IsScan(F, d, limit), NEW i \in 1 .. Len(d) + 1, i <= limit
  PROVE  /\ i \in 1 .. Len(d) /\ After(d, i) \in i + 1 .. Len(d) + 1
         /\ F[i].out = <<Symbol(d, i)>> \o F[After(d, i)].out
         /\ F[i].next = F[After(d, i)].next
<1>1. F[i] = ScanStep(F, d, limit, i)
  BY ScanUnfold DEF IsScan
<1>2. Len(d) \in Nat
  BY LenProperties
<1>3. i \in 1 .. Len(d)
  BY <1>2
<1>4. After(d, i) \in i + 1 .. Len(d) + 1
  BY <1>3, AfterTyped
<1>5. ~(i > limit)
  OBVIOUS
<1> QED  BY <1>1, <1>3, <1>4, <1>5 DEF ScanStep

\* What the scan from a position returns.
LEMMA ScanTyped ==
  ASSUME NEW B, NEW d \in Seq(B), NEW limit \in Int, limit <= Len(d),
         NEW F, IsScan(F, d, limit)
  PROVE  \A i \in 1 .. Len(d) + 1 :
           F[i].out \in Seq(Marked(B)) /\ F[i].next \in 1 .. Len(d) + 1
<1> DEFINE n == Len(d)
           Typed(i) == F[i].out \in Seq(Marked(B)) /\ F[i].next \in 1 .. n + 1
           T == {i \in 1 .. n + 1 : Typed(i)}
<1>1. n \in Nat
  BY LenProperties
<1>2. ASSUME NEW i \in 1 .. n + 1, \A j \in i + 1 .. n + 1 : j \in T
      PROVE  i \in T
  <2>1. CASE i > limit
    <3>1. F[i].out = <<>> /\ F[i].next = i
      BY <2>1, ScanEnds
    <3>2. <<>> \in Seq(Marked(B))
      BY EmptySeq
    <3>3. Typed(i)
      BY <3>1, <3>2
    <3> HIDE DEF Typed
    <3> QED  BY <3>3
  <2>2. CASE i <= limit
    <3> DEFINE a == After(d, i)
    <3>1. /\ i \in 1 .. Len(d) /\ a \in i + 1 .. n + 1
          /\ F[i].out = <<Symbol(d, i)>> \o F[a].out /\ F[i].next = F[a].next
      BY <2>2, ScanGoesOn
    <3> HIDE DEF a
    <3>2. Typed(a)
      <4>1. a \in T
        BY <1>2, <3>1
      <4> HIDE DEF Typed
      <4> QED  BY <4>1
    <3>3. Symbol(d, i) \in Marked(B)
      BY <3>1, ElementOfSeq DEF Symbol, Marked
    <3>4. <<Symbol(d, i)>> \in Seq(Marked(B))
      BY <3>3, OneByte
    <3>5. <<Symbol(d, i)>> \o F[a].out \in Seq(Marked(B))
      BY <3>2, <3>4, ConcatProperties
    <3>6. Typed(i)
      BY <3>1, <3>2, <3>5
    <3> HIDE DEF Typed
    <3> QED  BY <3>6
  <2> QED  BY <1>1, <2>1, <2>2
<1>3. \A i \in 1 .. n + 1 : i \in T
  <2> HIDE DEF n, T
  <2> QED  BY <1>1, <1>2, Backwards
<1> QED  BY <1>3

\* The scan of a suffix is the scan of the whole from where it starts.
LEMMA ScanSuffix ==
  ASSUME NEW B, NEW d \in Seq(B), NEW e \in Seq(B), NEW o \in Nat,
         Len(d) = o + Len(e), \A k \in 1 .. Len(e) : e[k] = d[o + k]
  PROVE  RedactBytes(e) = ScanFrom(d, Len(d))[o + 1].out
<1> DEFINE n == Len(e)
           T(F, G) == {i \in 1 .. n + 1 : F[i].out = G[o + i].out}
<1>1. n \in Nat /\ Len(d) \in Nat
  BY LenProperties
<1>0. PICK F, G : IsScan(F, e, Len(e)) /\ IsScan(G, d, Len(d))
  BY DEF IsScan
<1>2. ASSUME NEW i \in 1 .. n + 1, \A j \in i + 1 .. n + 1 : j \in T(F, G)
      PROVE  i \in T(F, G)
  <2>1. o + i \in 1 .. Len(d) + 1 /\ Len(e) \in Int /\ Len(d) \in Int
    BY <1>1
  <2>2. CASE i = n + 1
    <3>1. F[i].out = <<>>
      <4>1. i > Len(e)
        BY <1>1, <2>2
      <4> QED  BY <1>0, <1>1, <2>1, <4>1, ScanEnds
    <3>2. o + i > Len(d)
      BY <1>1, <2>2
    <3>3. G[o + i].out = <<>>
      BY <1>0, <1>1, <2>1, <3>2, ScanEnds
    <3> QED  BY <3>1, <3>3
  <2>3. CASE i \in 1 .. n
    <3>1. At(e, i) = At(d, o + i)
      BY <2>3, AtShifted
    <3>2. e[i] = d[o + i]
      BY <2>3
    <3>3. Symbol(e, i) = Symbol(d, o + i)
      BY <3>1, <3>2 DEF Symbol
    <3>4. After(e, i) \in i + 1 .. n + 1
      BY <2>3, AfterTyped
    <3>5. After(d, o + i) = o + After(e, i)
      <4>1. CASE At(e, i) = {}
        <5>1. After(e, i) = i + 1 /\ After(d, o + i) = (o + i) + 1
          BY <3>1, <4>1 DEF After
        <5> QED  BY <1>1, <2>3, <5>1
      <4>2. CASE At(e, i) # {}
        <5> DEFINE l == Len(Longest(At(e, i)))
        <5>1. After(e, i) = i + l /\ After(d, o + i) = (o + i) + l
          BY <3>1, <4>2 DEF After
        <5>2. l \in Int
          <6>1. o + i \in 1 .. Len(d)
            BY <1>1, <2>3
          <6> QED  BY <2>3, <4>2, LongestLength
        <5> HIDE DEF l
        <5> QED  BY <1>1, <2>3, <5>1, <5>2
      <4> QED  BY <4>1, <4>2
    <3>6. F[i].out = <<Symbol(e, i)>> \o F[After(e, i)].out
      BY <1>0, <1>1, <2>1, <2>3, ScanGoesOn
    <3>7. G[o + i].out = <<Symbol(d, o + i)>> \o G[After(d, o + i)].out
      <4>1. o + i <= Len(d)
        BY <1>1, <2>3
      <4> QED  BY <1>0, <1>1, <2>1, <4>1, ScanGoesOn
    <3>8. After(e, i) \in T(F, G)
      <4> HIDE DEF T
      <4> QED  BY <1>2, <3>4
    <3>9. F[After(e, i)].out = G[o + After(e, i)].out
      BY <3>8
    <3>10. F[i].out = G[o + i].out
      BY <3>3, <3>5, <3>6, <3>7, <3>9
    <3> QED  BY <3>10
  <2> QED  BY <1>1, <2>2, <2>3
<1>3. \A i \in 1 .. n + 1 : i \in T(F, G)
  <2> HIDE DEF n, T
  <2> QED  BY <1>1, <1>2, Backwards
<1>4. 1 \in T(F, G)
  BY <1>1, <1>3
<1>5. F[1].out = G[o + 1].out
  BY <1>4
<1> QED  BY <1>0, <1>5 DEF RedactBytes, Scan, IsScan

\* The tail of a sequence from a position.
LEMMA TailFrom ==
  ASSUME NEW B, NEW d \in Seq(B), NEW i \in 1 .. Len(d) + 1
  PROVE  /\ SubSeq(d, i, Len(d)) \in Seq(B)
         /\ Len(SubSeq(d, i, Len(d))) = Len(d) + 1 - i
         /\ \A k \in 1 .. Len(d) + 1 - i :
              SubSeq(d, i, Len(d))[k] = d[(i - 1) + k]
<1> DEFINE n == Len(d)
<1>1. n \in Nat
  BY LenProperties
<1>2. \A k \in i .. n : d[k] \in B
  BY <1>1, ElementOfSeq
<1>3. i \in Int /\ n \in Int
  BY <1>1
<1> HIDE DEF n
<1>4. /\ SubSeq(d, i, n) \in Seq(B)
      /\ Len(SubSeq(d, i, n)) = IF i <= n THEN n - i + 1 ELSE 0
      /\ \A k \in 1 .. n - i + 1 : SubSeq(d, i, n)[k] = d[i + k - 1]
  BY <1>2, <1>3, SubSeqProperties
<1>5. (IF i <= n THEN n - i + 1 ELSE 0) = n + 1 - i
  BY <1>1 DEF n
<1>6. \A k \in 1 .. n + 1 - i : k \in 1 .. n - i + 1 /\ i + k - 1 = (i - 1) + k
  BY <1>1, <1>3
<1>7. \A k \in 1 .. n + 1 - i : SubSeq(d, i, n)[k] = d[(i - 1) + k]
  BY <1>4, <1>6
<1> QED  BY <1>4, <1>5, <1>7 DEF n

\* The scan up to the held tail, followed by the redaction of what it left over
\* and of any continuation, is the redaction of the whole.
LEMMA ScanSplit ==
  ASSUME NEW B, NEW d \in Seq(B), NEW e \in Seq(B)
  PROVE  LET scan == Scan(d, Len(d) - Held(d))
         IN  /\ scan.out \in Seq(Marked(B))
             /\ SubSeq(d, scan.next, Len(d)) \in Seq(B)
             /\ RedactBytes(d \o e) =
                  scan.out \o RedactBytes(SubSeq(d, scan.next, Len(d)) \o e)
<1> DEFINE n == Len(d)
           limit == n - Held(d)
           w == d \o e
           Rest(m) == RedactBytes(SubSeq(d, m, n) \o e)
           T(G, W) == {i \in 1 .. n + 1 : W[i].out = G[i].out \o Rest(G[i].next)}
<1>1. /\ n \in Nat /\ Len(e) \in Nat /\ w \in Seq(B) /\ Len(w) = n + Len(e)
      /\ \A k \in 1 .. n + Len(e) : w[k] = IF k <= n THEN d[k] ELSE e[k - n]
  BY LenProperties, ConcatProperties
<1>0. /\ w \in Seq(B) /\ Len(w) = n + Len(e) /\ Len(w) \in Nat
      /\ n \in Nat /\ Len(e) \in Nat
  BY <1>1
<1>2. limit \in Int /\ limit <= n /\ Len(w) \in Int /\ limit >= 0
  BY <1>0, HeldFacts
<1>3. PICK G : IsScan(G, d, limit)
  BY DEF IsScan
<1>4. PICK W : IsScan(W, w, Len(w))
  BY DEF IsScan
<1> HIDE DEF limit
<1>5. \A i \in 1 .. n + 1 :
        G[i].out \in Seq(Marked(B)) /\ G[i].next \in 1 .. n + 1
  BY <1>2, <1>3, ScanTyped
<1>6. \A m \in 1 .. n + 1 : W[m].out = Rest(m)
  <2> TAKE m \in 1 .. n + 1
  <2> DEFINE t == SubSeq(d, m, n)
  <2>1. /\ t \in Seq(B) /\ Len(t) = n + 1 - m
        /\ \A k \in 1 .. n + 1 - m : t[k] = d[(m - 1) + k]
    BY TailFrom
  <2> HIDE DEF t, n, w
  <2>2. /\ t \o e \in Seq(B) /\ Len(t \o e) = Len(t) + Len(e)
        /\ \A k \in 1 .. Len(t) + Len(e) :
             (t \o e)[k] = IF k <= Len(t) THEN t[k] ELSE e[k - Len(t)]
    BY <2>1, ConcatProperties
  <2>3. /\ m - 1 \in Nat /\ Len(w) = (m - 1) + Len(t \o e) /\ Len(t \o e) \in Nat
    BY <1>1, <2>1, <2>2
  <2>4. ASSUME NEW k \in 1 .. Len(t \o e)
        PROVE  (t \o e)[k] = w[(m - 1) + k]
    <3>0. Len(t \o e) = (n + 1 - m) + Len(e) /\ n \in Nat /\ Len(e) \in Nat
      BY <1>0, <2>1, <2>2
    <3>1. (m - 1) + k \in 1 .. n + Len(e)
      BY <3>0
    <3>2. CASE k <= Len(t)
      <4>1. k \in 1 .. n + 1 - m /\ (m - 1) + k <= n /\ k \in 1 .. Len(t) + Len(e)
        BY <1>1, <2>1, <2>2, <3>2
      <4> QED  BY <1>1, <2>1, <2>2, <3>1, <3>2, <4>1
    <3>3. CASE ~(k <= Len(t))
      <4>1. /\ ~((m - 1) + k <= n) /\ k \in 1 .. Len(t) + Len(e)
            /\ ((m - 1) + k) - n = k - Len(t)
        BY <1>1, <2>1, <2>2, <3>3
      <4> QED  BY <1>1, <2>2, <3>1, <3>3, <4>1
    <3> QED  BY <3>2, <3>3
  <2>5. RedactBytes(t \o e) = ScanFrom(w, Len(w))[(m - 1) + 1].out
    BY <1>1, <2>2, <2>3, <2>4, ScanSuffix
  <2>6. (m - 1) + 1 = m
    BY <1>1
  <2> QED  BY <1>4, <2>5, <2>6 DEF IsScan, t, n
<1>7. ASSUME NEW i \in 1 .. n + 1, \A j \in i + 1 .. n + 1 : j \in T(G, W)
      PROVE  i \in T(G, W)
  <2> DEFINE a == After(d, i)
  <2>1. CASE i > limit
    <3>1. G[i].out = <<>> /\ G[i].next = i
      BY <1>2, <1>3, <2>1, ScanEnds
    <3>2. W[i].out = Rest(i) /\ W[i].out \in Seq(Marked(B))
      <4> HIDE DEF w
      <4>1. i \in 1 .. Len(w) + 1
        BY <1>0
      <4>2. W[i].out \in Seq(Marked(B))
        BY <1>0, <1>2, <1>4, <4>1, ScanTyped
      <4> QED  BY <1>6, <4>2
    <3> HIDE DEF Rest, w
    <3>3. <<>> \o Rest(i) = Rest(i)
      BY <3>2, ConcatEmptySeq
    <3> QED  BY <3>1, <3>2, <3>3
  <2>2. CASE i <= limit
    <3>1. /\ i \in 1 .. n /\ a \in i + 1 .. n + 1
          /\ G[i].out = <<Symbol(d, i)>> \o G[a].out /\ G[i].next = G[a].next
      BY <1>2, <1>3, <2>2, ScanGoesOn
    <3>2. At(w, i) = At(d, i)
      BY <2>2, <3>1, AtExtended DEF limit
    <3>3. w[i] = d[i]
      <4> HIDE DEF w
      <4> QED  BY <1>1, <3>1
    <3>4. Symbol(w, i) = Symbol(d, i) /\ After(w, i) = a
      <4> HIDE DEF w
      <4> QED  BY <3>2, <3>3 DEF Symbol, After
    <3> HIDE DEF a, w, Rest
    <3>5. W[i].out = <<Symbol(d, i)>> \o W[a].out
      <4>1. i \in 1 .. Len(w) + 1 /\ i <= Len(w)
        BY <1>0, <3>1
      <4>2. W[i].out = <<Symbol(w, i)>> \o W[After(w, i)].out
        BY <1>0, <1>2, <1>4, <4>1, ScanGoesOn
      <4> QED  BY <3>4, <4>2
    <3>6. W[a].out = G[a].out \o Rest(G[a].next)
      BY <1>7, <3>1
    <3>7. /\ <<Symbol(d, i)>> \in Seq(Marked(B))
          /\ G[a].out \in Seq(Marked(B))
          /\ Rest(G[a].next) \in Seq(Marked(B))
      <4>1. Symbol(d, i) \in Marked(B)
        BY <3>1, ElementOfSeq DEF Symbol, Marked
      <4>2. a \in 1 .. n + 1
        BY <1>1, <3>1
      <4>3. G[a].next \in 1 .. n + 1
        BY <1>5, <4>2
      <4>4. G[a].next \in 1 .. Len(w) + 1
        BY <1>0, <4>3
      <4>5. W[G[a].next].out \in Seq(Marked(B))
        <5>1. \A m \in 1 .. Len(w) + 1 : W[m].out \in Seq(Marked(B))
          BY <1>0, <1>2, <1>4, ScanTyped, SMTT(30)
        <5> QED  BY <4>4, <5>1
      <4> QED  BY <1>5, <1>6, <4>1, <4>2, <4>3, <4>5, OneByte
    <3>8. W[i].out = G[i].out \o Rest(G[i].next)
      <4>1. (<<Symbol(d, i)>> \o G[a].out) \o Rest(G[a].next)
              = <<Symbol(d, i)>> \o (G[a].out \o Rest(G[a].next))
        <5>1. \A p, q, r \in Seq(Marked(B)) :
                (p \o q) \o r = p \o (q \o r) /\ q \o r \in Seq(Marked(B))
          BY ConcatRegroups, Zenon
        <5> QED  BY <3>7, <5>1, Zenon
      <4> QED  BY <3>1, <3>5, <3>6, <4>1, Zenon
    <3> QED  BY <3>8
  <2>3. i > limit \/ i <= limit
    BY <1>1, <1>2
  <2> QED  BY <2>1, <2>2, <2>3
<1>8. \A i \in 1 .. n + 1 : i \in T(G, W)
  <2> HIDE DEF n, T
  <2> QED  BY <1>1, <1>7, Backwards
<1>9. 1 \in 1 .. n + 1
  BY <1>1
<1>10. W[1].out = G[1].out \o Rest(G[1].next)
  <2> HIDE DEF Rest
  <2> QED  BY <1>8, <1>9
<1>11. SubSeq(d, G[1].next, n) \in Seq(B)
  BY <1>5, <1>9, TailFrom
<1>12. RedactBytes(w) = W[1].out
  BY <1>4 DEF RedactBytes, Scan, IsScan
<1>13. G[1] = Scan(d, Len(d) - Held(d))
  BY <1>3 DEF IsScan, Scan, limit
<1> QED  BY <1>5, <1>9, <1>10, <1>11, <1>12, <1>13

\* Up to its first mark, the output from position i is the data from there.
Plain(F, d, i) ==
  \A m \in 0 .. Len(F[i].out) :
    (\A k \in 1 .. m : F[i].out[k] # Redaction)
      => /\ i + m - 1 <= Len(d)
         /\ \A k \in 1 .. m : F[i].out[k] = d[i + k - 1]

\* What the scan puts out is the data itself as long as it is not a mark.
LEMMA OutputIsData ==
  ASSUME NEW B, NEW d \in Seq(B), NEW F, IsScan(F, d, Len(d))
  PROVE  \A i \in 1 .. Len(d) + 1 : Plain(F, d, i)
<1> DEFINE n == Len(d)
           T == {i \in 1 .. n + 1 : Plain(F, d, i)}
<1>1. n \in Nat /\ n \in Int
  BY LenProperties
<1>2. \A i \in 1 .. n + 1 : F[i].out \in Seq(Marked(B))
  BY <1>1, ScanTyped
<1>3. ASSUME NEW i \in 1 .. n + 1, \A j \in i + 1 .. n + 1 : j \in T
      PROVE  i \in T
  <2>1. CASE i > n
    <3>1. F[i].out = <<>>
      BY <1>1, <2>1, ScanEnds
    <3>2. Len(F[i].out) = 0
      BY <3>1, EmptySeq
    <3>3. Plain(F, d, i)
      BY <1>1, <3>2 DEF Plain
    <3> QED  BY <3>3
  <2>2. CASE i <= n
    <3> DEFINE a == After(d, i)
               r == F[a].out
    <3>1. /\ i \in 1 .. n /\ a \in i + 1 .. n + 1
          /\ F[i].out = <<Symbol(d, i)>> \o r
      BY <1>1, <2>2, ScanGoesOn
    <3>2. a \in 1 .. n + 1
      BY <1>1, <3>1
    <3> HIDE DEF a
    <3>3. Plain(F, d, a)
      <4>1. a \in T
        BY <1>3, <3>1
      <4> QED  BY <4>1
    <3>4. /\ Symbol(d, i) \in Marked(B) /\ <<Symbol(d, i)>> \in Seq(Marked(B))
          /\ r \in Seq(Marked(B)) /\ Len(r) \in Nat
      <4>1. Symbol(d, i) \in Marked(B)
        BY <3>1, ElementOfSeq DEF Symbol, Marked
      <4> QED  BY <1>2, <3>2, <4>1, OneByte, LenProperties
    <3>5. /\ Len(F[i].out) = 1 + Len(r)
          /\ F[i].out[1] = Symbol(d, i)
          /\ \A k \in 1 .. Len(r) : F[i].out[1 + k] = r[k]
      <4> HIDE DEF r
      <4>1. /\ Len(<<Symbol(d, i)>> \o r) = Len(<<Symbol(d, i)>>) + Len(r)
            /\ \A k \in 1 .. Len(<<Symbol(d, i)>>) + Len(r) :
                 (<<Symbol(d, i)>> \o r)[k] =
                   IF k <= Len(<<Symbol(d, i)>>) THEN <<Symbol(d, i)>>[k]
                   ELSE r[k - Len(<<Symbol(d, i)>>)]
        BY <3>4, ConcatProperties
      <4>2. Len(<<Symbol(d, i)>>) = 1 /\ <<Symbol(d, i)>>[1] = Symbol(d, i)
        OBVIOUS
      <4>3. ASSUME NEW k \in 1 .. Len(r)
            PROVE  F[i].out[1 + k] = r[k]
        <5>1. 1 + k \in 1 .. 1 + Len(r) /\ ~(1 + k <= 1) /\ (1 + k) - 1 = k
          BY <3>4
        <5> QED  BY <3>1, <4>1, <4>2, <5>1
      <4>4. 1 \in 1 .. 1 + Len(r) /\ 1 <= 1
        BY <3>4
      <4> QED  BY <3>1, <4>1, <4>2, <4>3, <4>4
    <3> HIDE DEF r
    <3>6. ASSUME NEW m \in 0 .. Len(F[i].out), \A k \in 1 .. m : F[i].out[k] # Redaction
          PROVE  /\ i + m - 1 <= Len(d)
                 /\ \A k \in 1 .. m : F[i].out[k] = d[i + k - 1]
      <4>1. CASE m = 0
        BY <1>1, <3>1, <4>1
      <4>2. CASE m # 0
        <5>1. m \in Nat \ {0} /\ m - 1 \in 0 .. Len(r) /\ 1 \in 1 .. m
          BY <3>4, <3>5, <4>2
        <5>2. Symbol(d, i) # Redaction
          BY <3>5, <3>6, <5>1
        <5>3. At(d, i) = {} /\ Symbol(d, i) = d[i]
          BY <5>2 DEF Symbol
        <5>4. a = i + 1
          BY <3>1, <5>3, AfterTyped DEF a
        <5>5. \A k \in 1 .. m - 1 : r[k] # Redaction
          <6> TAKE k \in 1 .. m - 1
          <6>1. 1 + k \in 1 .. m /\ k \in 1 .. Len(r)
            BY <3>4, <5>1
          <6> QED  BY <3>5, <3>6, <6>1
        <5>6. /\ a + (m - 1) - 1 <= Len(d)
              /\ \A k \in 1 .. m - 1 : r[k] = d[a + k - 1]
          BY <3>3, <5>1, <5>5 DEF r, Plain
        <5>7. ASSUME NEW k \in 1 .. m
              PROVE  F[i].out[k] = d[i + k - 1]
          <6>1. CASE k = 1
            BY <3>1, <3>5, <5>3, <6>1
          <6>2. CASE k # 1
            <7>1. /\ k - 1 \in 1 .. m - 1 /\ k - 1 \in 1 .. Len(r) /\ 1 + (k - 1) = k
                  /\ a + (k - 1) - 1 = i + k - 1
              BY <3>1, <5>1, <5>4, <6>2
            <7> QED  BY <3>5, <5>6, <7>1
          <6> QED  BY <6>1, <6>2
        <5>8. i + m - 1 <= Len(d)
          BY <3>1, <5>1, <5>4, <5>6
        <5> QED  BY <5>7, <5>8
      <4> QED  BY <4>1, <4>2
    <3>7. Plain(F, d, i)
      BY <3>6 DEF Plain
    <3> QED  BY <3>7
  <2> QED  BY <1>1, <2>1, <2>2
<1>4. \A i \in 1 .. n + 1 : i \in T
  <2> HIDE DEF n, T
  <2> QED  BY <1>1, <1>3, Backwards
<1>5. \A i \in 1 .. n + 1 : Plain(F, d, i)
  BY <1>4
<1> QED  BY <1>5

\* Where a secret stands in part of a sequence it stands in the sequence.
LEMMA CleanParts ==
  ASSUME NEW B, NEW p \in Seq(B), NEW q \in Seq(B), Clean(p \o q)
  PROVE  Clean(p) /\ Clean(q)
<1> DEFINE w == p \o q
<1>1. /\ Len(p) \in Nat /\ Len(q) \in Nat
      /\ w \in Seq(B) /\ Len(w) = Len(p) + Len(q)
      /\ \A k \in 1 .. Len(p) + Len(q) :
           w[k] = IF k <= Len(p) THEN p[k] ELSE q[k - Len(p)]
  BY LenProperties, ConcatProperties
<1>2. Clean(w)
  OBVIOUS
<1> HIDE DEF w
<1>3. ASSUME NEW i \in 1 .. Len(p), NEW x \in At(p, i)
      PROVE  FALSE
  <2>1. x \in Secrets /\ i \in Nat \ {0}
    BY <1>1, <1>3 DEF At
  <2>2. Len(x) \in Nat \ {0}
    BY <2>1, SecretShape
  <2>3. /\ i + Len(x) - 1 <= Len(p)
        /\ \A k \in 1 .. Len(x) : p[i + k - 1] = x[k]
    <3>1. Fits(x, p, i)
      BY <1>3, <2>1, AtElements
    <3> QED  BY <3>1 DEF Fits
  <2>4. i + Len(x) - 1 <= Len(w)
    BY <1>1, <2>2, <2>3
  <2>5. \A k \in 1 .. Len(x) : i + k - 1 \in 1 .. Len(p)
    BY <1>1, <2>2, <2>3
  <2>6. \A k \in 1 .. Len(x) : w[i + k - 1] = x[k]
    <3> TAKE k \in 1 .. Len(x)
    <3> DEFINE j == i + k - 1
    <3>1. j \in 1 .. Len(p) + Len(q) /\ j <= Len(p)
      BY <1>1, <2>5
    <3>2. p[j] = x[k]
      BY <2>3
    <3> HIDE DEF j
    <3>3. w[j] = x[k]
      BY <1>1, <3>1, <3>2
    <3> QED  BY <3>3 DEF j
  <2>7. x \in At(w, i)
    <3>1. Fits(x, w, i)
      BY <2>4, <2>6 DEF Fits
    <3> QED  BY <1>1, <2>1, <3>1, AtElements
  <2>8. i \in 1 .. Len(w)
    BY <1>1
  <2> QED  BY <1>2, <2>7, <2>8 DEF Clean
<1>4. ASSUME NEW i \in 1 .. Len(q), NEW x \in At(q, i)
      PROVE  FALSE
  <2>1. \A k \in 1 .. Len(q) : q[k] = w[Len(p) + k]
    <3> TAKE k \in 1 .. Len(q)
    <3>1. /\ Len(p) + k \in 1 .. Len(p) + Len(q) /\ ~(Len(p) + k <= Len(p))
          /\ (Len(p) + k) - Len(p) = k
      BY <1>1
    <3> QED  BY <1>1, <3>1
  <2>2. At(q, i) = At(w, Len(p) + i)
    BY <1>1, <2>1, AtShifted
  <2>3. Len(p) + i \in 1 .. Len(w)
    BY <1>1
  <2> QED  BY <1>2, <1>4, <2>2, <2>3 DEF Clean
<1> QED  BY <1>3, <1>4 DEF Clean

\* No secret stands in what the redactor puts out.
LEMMA RedactedIsClean ==
  ASSUME NEW B, NEW d \in Seq(B)
  PROVE  RedactBytes(d) \in Seq(Marked(B)) /\ Clean(RedactBytes(d))
<1> DEFINE n == Len(d)
           T(F) == {i \in 1 .. n + 1 : Clean(F[i].out)}
<1>1. n \in Nat /\ n \in Int
  BY LenProperties
<1>2. PICK F : IsScan(F, d, n)
  BY DEF IsScan
<1>3. \A i \in 1 .. n + 1 : F[i].out \in Seq(Marked(B))
  BY <1>1, <1>2, ScanTyped
<1>4. ASSUME NEW i \in 1 .. n + 1, \A j \in i + 1 .. n + 1 : j \in T(F)
      PROVE  i \in T(F)
  <2>1. CASE i > n
    <3>1. F[i].out = <<>>
      BY <1>1, <1>2, <2>1, ScanEnds
    <3>2. Len(F[i].out) = 0
      BY <3>1, EmptySeq
    <3> QED  BY <3>2 DEF Clean
  <2>2. CASE i <= n
    <3> DEFINE a == After(d, i)
               r == F[a].out
               s == F[i].out
    <3>1. /\ i \in 1 .. n /\ a \in i + 1 .. n + 1
          /\ s = <<Symbol(d, i)>> \o r
      BY <1>1, <1>2, <2>2, ScanGoesOn
    <3>2. a \in 1 .. n + 1
      BY <1>1, <3>1
    <3> HIDE DEF a
    <3>3. Clean(r)
      BY <1>4, <3>1
    <3>4. /\ Symbol(d, i) \in Marked(B) /\ <<Symbol(d, i)>> \in Seq(Marked(B))
          /\ r \in Seq(Marked(B)) /\ Len(r) \in Nat
      <4>1. Symbol(d, i) \in Marked(B)
        BY <3>1, ElementOfSeq DEF Symbol, Marked
      <4> QED  BY <1>3, <3>2, <4>1, OneByte, LenProperties
    <3> HIDE DEF r
    <3>5. /\ s \in Seq(Marked(B)) /\ Len(s) = 1 + Len(r)
          /\ s[1] = Symbol(d, i)
          /\ \A k \in 1 .. Len(r) : r[k] = s[1 + k]
      <4>1. /\ <<Symbol(d, i)>> \o r \in Seq(Marked(B))
            /\ Len(<<Symbol(d, i)>> \o r) = Len(<<Symbol(d, i)>>) + Len(r)
            /\ \A k \in 1 .. Len(<<Symbol(d, i)>>) + Len(r) :
                 (<<Symbol(d, i)>> \o r)[k] =
                   IF k <= Len(<<Symbol(d, i)>>) THEN <<Symbol(d, i)>>[k]
                   ELSE r[k - Len(<<Symbol(d, i)>>)]
        BY <3>4, ConcatProperties
      <4>2. Len(<<Symbol(d, i)>>) = 1 /\ <<Symbol(d, i)>>[1] = Symbol(d, i)
        OBVIOUS
      <4> HIDE DEF s
      <4>3. ASSUME NEW k \in 1 .. Len(r)
            PROVE  s[1 + k] = r[k]
        <5>1. 1 + k \in 1 .. 1 + Len(r) /\ ~(1 + k <= 1) /\ (1 + k) - 1 = k
          BY <3>4
        <5> QED  BY <3>1, <4>1, <4>2, <5>1
      <4>4. 1 \in 1 .. 1 + Len(r) /\ 1 <= 1
        BY <3>4
      <4> QED  BY <3>1, <4>1, <4>2, <4>3, <4>4
    <3>6. ASSUME NEW p \in 1 .. Len(s), NEW x \in At(s, p)
          PROVE  FALSE
      <4>1. x \in Secrets
        BY <3>6 DEF At
      <4>2. CASE p = 1
        <5>1. Len(x) \in Nat \ {0} /\ \A k \in 1 .. Len(x) : x[k] # Redaction
          BY <4>1, SecretShape
        <5>2. /\ 1 + Len(x) - 1 <= Len(s)
              /\ \A k \in 1 .. Len(x) : s[1 + k - 1] = x[k]
          <6>1. 1 \in Nat \ {0} /\ x \in At(s, 1)
            BY <3>6, <4>2
          <6> HIDE DEF s
          <6>2. Fits(x, s, 1)
            BY <3>5, <4>1, <6>1, AtElements
          <6> QED  BY <6>2 DEF Fits
        <5>3. \A k \in 1 .. Len(x) : 1 + k - 1 = k
          OBVIOUS
        <5>4. \A k \in 1 .. Len(x) : s[k] = x[k]
          BY <5>2, <5>3
        <5>5. Len(x) \in 0 .. Len(s) /\ \A k \in 1 .. Len(x) : s[k] # Redaction
          BY <3>4, <3>5, <5>1, <5>2, <5>4
        <5>6. /\ i + Len(x) - 1 <= Len(d)
              /\ \A k \in 1 .. Len(x) : s[k] = d[i + k - 1]
          <6>1. \A m \in 0 .. Len(s) :
                  (\A k \in 1 .. m : s[k] # Redaction)
                    => /\ i + m - 1 <= Len(d)
                       /\ \A k \in 1 .. m : s[k] = d[i + k - 1]
            <7>1. i \in 1 .. Len(d) + 1
              OBVIOUS
            <7>2. Plain(F, d, i)
              BY <1>2, <7>1, OutputIsData
            <7> QED  BY <7>2 DEF Plain
          <6> HIDE DEF s
          <6> QED  BY <5>5, <6>1
        <5>7. x \in At(d, i)
          <6>1. i \in Nat \ {0} /\ \A k \in 1 .. Len(x) : d[i + k - 1] = x[k]
            <7>1. i \in Nat \ {0}
              BY <1>1, <3>1
            <7>2. ASSUME NEW k \in 1 .. Len(x)
                  PROVE  d[i + k - 1] = x[k]
              <8>1. s[k] = x[k] /\ s[k] = d[i + k - 1]
                BY <5>4, <5>6
              <8> QED  BY <8>1
            <7> QED  BY <7>1, <7>2
          <6>2. Fits(x, d, i)
            BY <5>6, <6>1 DEF Fits
          <6> QED  BY <4>1, <6>1, <6>2, AtElements
        <5>8. s[1] = Redaction
          BY <3>5, <5>7 DEF Symbol
        <5> QED  BY <5>1, <5>5, <5>8
      <4>3. CASE p # 1
        <5>1. p - 1 \in 1 .. Len(r) /\ p = 1 + (p - 1) /\ 1 \in Nat
          BY <3>4, <3>5, <4>3
        <5>2. PICK j \in 1 .. Len(r) : p = 1 + j
          BY <5>1
        <5>3. At(r, j) = At(s, 1 + j)
          <6> HIDE DEF s
          <6>1. PICK o \in Nat : o = 1
            OBVIOUS
          <6>2. Len(s) = o + Len(r) /\ \A k \in 1 .. Len(r) : r[k] = s[o + k]
            BY <3>5, <6>1
          <6>3. At(r, j) = At(s, o + j)
            BY <3>4, <3>5, <6>2, AtShifted, SMTT(30)
          <6> QED  BY <6>1, <6>3
        <5> QED  BY <3>3, <3>6, <5>2, <5>3 DEF Clean
      <4> QED  BY <4>2, <4>3
    <3>7. Clean(s)
      BY <3>6 DEF Clean
    <3> QED  BY <3>7
  <2> QED  BY <1>1, <2>1, <2>2
<1>5. \A i \in 1 .. n + 1 : i \in T(F)
  <2> HIDE DEF n, T
  <2> QED  BY <1>1, <1>4, Backwards
<1>6. 1 \in 1 .. n + 1
  BY <1>1
<1>7. RedactBytes(d) = F[1].out
  BY <1>2 DEF RedactBytes, Scan, IsScan
<1> QED  BY <1>3, <1>5, <1>6, <1>7

\* The redaction of nothing is nothing.
LEMMA RedactedEmpty == RedactBytes(<<>>) = <<>>
<1>1. PICK d \in Seq({}) : d = <<>> /\ Len(d) = 0
  BY EmptySeq
<1>2. PICK F : IsScan(F, d, 0)
  BY DEF IsScan
<1>3. 0 \in Int /\ 0 <= Len(d) /\ 1 \in 1 .. Len(d) + 1 /\ 1 > 0
  BY <1>1
<1>4. F[1].out = <<>>
  BY <1>2, <1>3, ScanEnds
<1> QED  BY <1>1, <1>2, <1>4 DEF RedactBytes, Scan, IsScan

\* Whatever follows, what feed puts out now and the redaction of what it holds
\* back with what follows is the redaction of it all.
FeedsOn(B, held, chunk) ==
  /\ Feed(held, chunk).out \in Seq(Marked(B))
  /\ Feed(held, chunk).pending \in Seq(B)
  /\ \A e \in Seq(B) :
       RedactBytes(held \o (chunk \o e)) =
         Feed(held, chunk).out \o RedactBytes(Feed(held, chunk).pending \o e)

\* Every call of feed goes on that way.
LEMMA FeedFaithful ==
  ASSUME NEW B, NEW held \in Seq(B), NEW chunk \in Seq(B)
  PROVE  FeedsOn(B, held, chunk)
<1> DEFINE data == held \o chunk
           scan == Scan(data, Len(data) - Held(data))
           tail == SubSeq(data, scan.next, Len(data))
<1>1. data \in Seq(B)
  BY ConcatProperties
<1>2. /\ Feed(held, chunk).out = scan.out
      /\ Feed(held, chunk).pending = tail
  BY DEF Feed
<1>3. <<>> \in Seq(B)
  BY EmptySeq
<1> HIDE DEF data
<1>4. \A e \in Seq(B) :
        /\ scan.out \in Seq(Marked(B)) /\ tail \in Seq(B)
        /\ RedactBytes(data \o e) = scan.out \o RedactBytes(tail \o e)
  BY <1>1, ScanSplit
<1>5. \A e \in Seq(B) : data \o e = held \o (chunk \o e)
  BY ConcatAssociative DEF data
<1> HIDE DEF scan, tail
<1> QED  BY <1>2, <1>3, <1>4, <1>5 DEF FeedsOn

(***************************************************************************)
(* The files.  What each control point says of the live and the sealed     *)
(* files: while the session reads, whatever may still be captured.         *)
(***************************************************************************)
\* The live file, and then the redaction of what is held back and whatever may
\* come, is the redaction of all that is captured then.
Following(s) ==
  /\ pending[s] \in Seq(Bytes[s]) /\ live[s] \in Seq(Marked(Bytes[s]))
  /\ \A e \in Seq(Bytes[s]) :
       RedactBytes(chunks[s] \o e) = live[s] \o RedactBytes(pending[s] \o e)

Flushed(s) ==
  pending[s] = <<>> /\ live[s] = RedactBytes(chunks[s])

Reading == {"select", "batch", "kill", "reap", "wait", "flush"}

LiveAt ==
  /\ pending = [s \in Outputs |-> pending[s]] /\ live = [s \in Outputs |-> live[s]]
  /\ pc = "start" =>
       \A s \in Outputs : /\ chunks[s] = <<>> /\ pending[s] = <<>>
                          /\ live[s] \in Leftover \cup {None}
  /\ pc \in Reading => \A s \in Outputs : Following(s)
  /\ pc \in {"stdout", "stderr", "unlink"} => \A s \in Outputs : Flushed(s)
  /\ pc \in {"receipt", "done"} => \A s \in Outputs : live[s] = None

BinAt ==
  \A s \in Outputs :
    \/ bin[s] = None
    \/ pc \notin Reading \cup {"start"} /\ bin[s] = RedactBytes(chunks[s])

FilesInv == IndInv /\ LiveAt /\ BinAt

\* With nothing to follow, the rest is what the redactor would flush.
LEMMA FollowingNow ==
  ASSUME NEW s \in Outputs, chunks[s] \in Seq(Bytes[s]), Following(s)
  PROVE  live[s] \o FeedFinal(pending[s]) = RedactBytes(chunks[s])
<1>1. <<>> \in Seq(Bytes[s]) /\ pending[s] \in Seq(Bytes[s])
  BY EmptySeq DEF Following
<1>2. RedactBytes(chunks[s] \o <<>>) = live[s] \o RedactBytes(pending[s] \o <<>>)
  BY <1>1 DEF Following
<1>3. \A d \in Seq(Bytes[s]) : d \o <<>> = d
  BY ConcatEmptySeq
<1>4. FeedFinal(pending[s]) = RedactBytes(pending[s])
  BY DEF FeedFinal, RedactBytes
<1> QED  BY <1>1, <1>2, <1>3, <1>4

\* A step that leaves the streams and their files alone
LEMMA QuietStep ==
  ASSUME LiveAt, BinAt, UNCHANGED <<chunks, pending, live, bin>>,
         pc' = pc \/ (pc \in Reading /\ pc' \in Reading)
  PROVE  LiveAt' /\ BinAt'
<1>1. (\A s \in Outputs : Following(s)) => \A s \in Outputs : Following(s)'
  BY DEF Following
<1>2. (\A s \in Outputs : Flushed(s)) => \A s \in Outputs : Flushed(s)'
  BY DEF Flushed
<1>3. CASE pc' = pc
  BY <1>1, <1>2, <1>3 DEF LiveAt, BinAt
<1>4. CASE pc \in Reading /\ pc' \in Reading
  <2>1. pc' \notin {"start", "stdout", "stderr", "unlink", "receipt", "done"}
    BY <1>4 DEF Reading
  <2> QED  BY <1>1, <1>4, <2>1 DEF LiveAt, BinAt
<1> QED  BY <1>3, <1>4

\* Nothing has been captured yet: what comes is what follows.
LEMMA OpenedStep ==
  ASSUME LiveAt, BinAt, Launch \/ LaunchError
  PROVE  LiveAt' /\ BinAt'
<1>1. /\ pc = "start" /\ pc' \in {"select", "flush"}
      /\ live' = Empty /\ UNCHANGED <<chunks, pending, bin>>
  BY DEF Launch, LaunchError
<1>2. ASSUME NEW s \in Outputs
      PROVE  Following(s)'
  <2>1. chunks'[s] = <<>> /\ pending'[s] = <<>> /\ live'[s] = <<>>
    BY <1>1 DEF LiveAt, Empty
  <2>2. <<>> \in Seq(Bytes[s]) /\ <<>> \in Seq(Marked(Bytes[s]))
    BY EmptySeq
  <2>3. ASSUME NEW e \in Seq(Bytes[s])
        PROVE  RedactBytes(<<>> \o e) = <<>> \o RedactBytes(<<>> \o e)
    <3>1. <<>> \o e = e
      BY ConcatEmptySeq
    <3>2. RedactBytes(e) \in Seq(Marked(Bytes[s]))
      BY RedactedIsClean
    <3>3. <<>> \o RedactBytes(e) = RedactBytes(e)
      BY <3>2, ConcatEmptySeq
    <3> QED  BY <3>1, <3>3
  <2> QED  BY <2>1, <2>2, <2>3 DEF Following
<1>3. pc' \in Reading /\ pc' \notin {"start", "stdout", "stderr", "unlink", "receipt", "done"}
  BY <1>1 DEF Reading
<1>4. /\ live' = [s \in Outputs |-> live'[s]]
      /\ pending' = [s \in Outputs |-> pending'[s]]
  BY <1>1 DEF Empty, LiveAt
<1>5. \A s \in Outputs : bin'[s] = None
  BY <1>1 DEF BinAt
<1> QED  BY <1>2, <1>3, <1>4, <1>5 DEF LiveAt, BinAt

\* What is kept of a read goes through the redactor.
LEMMA KeptStep ==
  ASSUME IndInv, LiveAt, BinAt, pc = "batch", pc' \in Reading,
         NEW s \in Outputs, NEW chunk \in Seq(Bytes[s]), Keep(s, chunk)
  PROVE  LiveAt' /\ BinAt'
<1> DEFINE fed == Feed(pending[s], chunk)
<1>1. /\ pending' = [pending EXCEPT ![s] = fed.pending]
      /\ live' = [live EXCEPT ![s] = live[s] \o fed.out]
  BY DEF Keep
<1>2. /\ bin' = bin /\ chunks'[s] = chunks[s] \o chunk
      /\ \A t \in Outputs \ {s} : chunks'[t] = chunks[t]
  BY KeepFacts
<1>3. \A t \in Outputs : Following(t)
  BY DEF LiveAt, Reading
<1> HIDE DEF fed
<1>4. /\ pending'[s] = fed.pending /\ live'[s] = live[s] \o fed.out
      /\ \A t \in Outputs \ {s} : pending'[t] = pending[t] /\ live'[t] = live[t]
      /\ pending' = [t \in Outputs |-> pending'[t]]
      /\ live' = [t \in Outputs |-> live'[t]]
  BY <1>1 DEF LiveAt
<1>5. PICK B, held, c, l, out, left :
        /\ B = Bytes[s] /\ held = pending[s] /\ c = chunks[s] /\ l = live[s]
        /\ out = fed.out /\ left = fed.pending
  OBVIOUS
<1>6. /\ held \in Seq(B) /\ chunk \in Seq(B) /\ c \in Seq(B) /\ l \in Seq(Marked(B))
      /\ \A e \in Seq(B) : RedactBytes(c \o e) = l \o RedactBytes(held \o e)
  BY <1>3, <1>5 DEF Following, IndInv, Shape, TypeOK
<1>7. /\ out \in Seq(Marked(B)) /\ left \in Seq(B)
      /\ \A e \in Seq(B) :
           RedactBytes(held \o (chunk \o e)) = out \o RedactBytes(left \o e)
  <2>1. /\ Feed(held, chunk).out \in Seq(Marked(B))
        /\ Feed(held, chunk).pending \in Seq(B)
        /\ \A e \in Seq(B) :
             RedactBytes(held \o (chunk \o e)) =
               Feed(held, chunk).out \o RedactBytes(Feed(held, chunk).pending \o e)
    <3>1. FeedsOn(B, held, chunk)
      BY <1>6, FeedFaithful
    <3> QED  BY <3>1 DEF FeedsOn
  <2>2. fed = Feed(held, chunk)
    BY <1>5 DEF fed
  <2> QED  BY <1>5, <2>1, <2>2, Zenon
<1>8. l \o out \in Seq(Marked(B))
  BY <1>6, <1>7, ConcatProperties
<1>9. ASSUME NEW e \in Seq(B)
      PROVE  RedactBytes((c \o chunk) \o e) = (l \o out) \o RedactBytes(left \o e)
  <2>1. (c \o chunk) \o e = c \o (chunk \o e) /\ chunk \o e \in Seq(B)
    <3>1. \A p, q, r \in Seq(B) : (p \o q) \o r = p \o (q \o r) /\ q \o r \in Seq(B)
      BY ConcatRegroups, Zenon
    <3> QED  BY <1>6, <3>1, Zenon
  <2>2. RedactBytes(c \o (chunk \o e)) = l \o RedactBytes(held \o (chunk \o e))
    BY <1>6, <2>1
  <2>3. RedactBytes(left \o e) \in Seq(Marked(B))
    <3>1. left \o e \in Seq(B)
      BY <1>7, ConcatProperties
    <3> QED  BY <3>1, RedactedIsClean
  <2>4. PICK r \in Seq(Marked(B)) : r = RedactBytes(left \o e)
    BY <2>3
  <2>5. l \o (out \o r) = (l \o out) \o r
    <3>1. \A p, q, t \in Seq(Marked(B)) :
            (p \o q) \o t = p \o (q \o t) /\ q \o t \in Seq(Marked(B))
      BY ConcatRegroups, Zenon
    <3> QED  BY <1>6, <1>7, <3>1, Zenon
  <2>6. RedactBytes(held \o (chunk \o e)) = out \o r
    BY <1>7, <2>4
  <2> QED  BY <2>1, <2>2, <2>4, <2>5, <2>6, Zenon
<1>10. ASSUME NEW t \in Outputs
       PROVE  Following(t)'
  <2>1. CASE t = s
    <3>1. /\ pending'[t] = left /\ live'[t] = l \o out /\ chunks'[t] = c \o chunk
          /\ Bytes[t] = B
      BY <1>2, <1>4, <1>5, <2>1
    <3> QED  BY <1>7, <1>8, <1>9, <3>1 DEF Following
  <2>2. CASE t # s
    <3>1. /\ pending'[t] = pending[t] /\ live'[t] = live[t] /\ chunks'[t] = chunks[t]
      BY <1>2, <1>4, <2>2
    <3>2. Following(t)
      BY <1>3
    <3> QED  BY <3>1, <3>2 DEF Following
  <2> QED  BY <2>1, <2>2
<1>11. \A t \in Outputs : bin'[t] = None
  BY <1>2 DEF BinAt, Reading
<1>12. pc' \notin {"start", "stdout", "stderr", "unlink", "receipt", "done"}
  BY DEF Reading
<1> QED  BY <1>4, <1>10, <1>11, <1>12 DEF LiveAt, BinAt

\* The live files get what is still held back.
LEMMA FlushedStep ==
  ASSUME IndInv, LiveAt, BinAt, Flush
  PROVE  LiveAt' /\ BinAt'
<1>1. /\ pc = "flush" /\ pc' = "stdout" /\ UNCHANGED <<chunks, bin>>
      /\ live' = [s \in Outputs |-> live[s] \o FeedFinal(pending[s])]
      /\ pending' = Empty
  BY DEF Flush
<1>2. ASSUME NEW s \in Outputs
      PROVE  Flushed(s)'
  <2>1. /\ Following(s) /\ chunks[s] \in Seq(Bytes[s])
    BY <1>1 DEF LiveAt, Reading, IndInv, Shape, TypeOK
  <2>2. live[s] \o FeedFinal(pending[s]) = RedactBytes(chunks[s])
    BY <2>1, FollowingNow
  <2> QED  BY <1>1, <2>2 DEF Flushed, Empty
<1>3. live' = [s \in Outputs |-> live'[s]] /\ pending' = [s \in Outputs |-> pending'[s]]
  BY <1>1 DEF Empty
<1>4. \A s \in Outputs : bin'[s] = None
  BY <1>1 DEF BinAt, Reading
<1> QED  BY <1>1, <1>2, <1>3, <1>4 DEF LiveAt, BinAt, Reading

\* The streams are redacted, written, and the live files removed.
LEMMA SealedStep ==
  ASSUME IndInv, LiveAt, BinAt,
         \/ SealBin("stdout", "stderr") \/ SealBin("stderr", "unlink")
         \/ Unlink \/ WriteReceipt
  PROVE  LiveAt' /\ BinAt'
<1>1. CASE SealBin("stdout", "stderr") \/ SealBin("stderr", "unlink")
  <2>1. PICK s \in Outputs :
          /\ pc \in {"stdout", "stderr"} /\ pc' \in {"stderr", "unlink"}
          /\ bin' = [bin EXCEPT ![s] = RedactBytes(chunks[s])]
          /\ UNCHANGED <<chunks, pending, live>>
    BY <1>1 DEF SealBin, reading, Outputs
  <2>2. \A t \in Outputs : bin'[t] = bin[t] \/ bin'[t] = RedactBytes(chunks[t])
    BY <2>1 DEF IndInv, Shape
  <2>3. BinAt'
    BY <2>1, <2>2 DEF BinAt, Reading
  <2>4. \A t \in Outputs : Flushed(t)'
    BY <2>1 DEF LiveAt, Flushed
  <2> QED  BY <2>1, <2>3, <2>4 DEF LiveAt, Reading
<1>2. CASE Unlink
  <2>1. /\ pc = "unlink" /\ pc' = "receipt" /\ live' = Nothing
        /\ UNCHANGED <<chunks, pending, bin>>
    BY <1>2 DEF Unlink, reading
  <2> QED  BY <2>1 DEF LiveAt, BinAt, Reading, Nothing
<1>3. CASE WriteReceipt
  <2>1. /\ pc = "receipt" /\ pc' = "done"
        /\ UNCHANGED <<chunks, pending, live, bin>>
    BY <1>3 DEF WriteReceipt, reading
  <2> QED  BY <2>1 DEF LiveAt, BinAt, Reading
<1> QED  BY <1>1, <1>2, <1>3

\* What an earlier session may have left is all there is before the launch.
LEMMA InitFiles == Init => LiveAt /\ BinAt
<1> SUFFICES ASSUME Init  PROVE LiveAt /\ BinAt
  OBVIOUS
<1>1. /\ pc = "start" /\ chunks = Empty /\ pending = Empty /\ bin = Nothing
      /\ \E old \in Leftover \cup {None} : live = [s \in Outputs |-> old]
  BY DEF Init
<1> QED  BY <1>1 DEF LiveAt, BinAt, Empty, Nothing, Reading

\* Every step keeps what is said of the files.
LEMMA FilesStep ==
  ASSUME IndInv, LiveAt, BinAt, [Next]_vars
  PROVE  LiveAt' /\ BinAt'
<1> USE DEF process, reading, files
<1>1. CASE Agent
  <2>1. UNCHANGED <<chunks, pending, live, bin>> /\ pc' = pc
    BY <1>1 DEF Agent, Fork, Write, Close, Exit
  <2> QED  BY <2>1, QuietStep
<1>2. CASE Deadline
  <2>1. UNCHANGED <<chunks, pending, live, bin>> /\ pc' = pc
    BY <1>2 DEF Deadline
  <2> QED  BY <2>1, QuietStep
<1>3. CASE UNCHANGED vars
  <2>1. UNCHANGED <<chunks, pending, live, bin>> /\ pc' = pc
    BY <1>3 DEF vars
  <2> QED  BY <2>1, QuietStep
<1>4. CASE Select \/ Expire \/ Drained \/ WriteStdin
            \/ \E s \in Outputs : EndOfStream(s)
  <2>1. /\ UNCHANGED <<chunks, pending, live, bin>>
        /\ pc \in Reading /\ pc' \in Reading
    BY <1>4 DEF Select, Expire, Drained, WriteStdin, Feeding, EndOfStream, Reading
  <2> QED  BY <2>1, QuietStep
<1>5. CASE Kill \/ Reap \/ WaitExited \/ WaitTimeout
  <2>1. /\ UNCHANGED <<chunks, pending, live, bin>>
        /\ pc \in Reading /\ pc' \in Reading
    BY <1>5 DEF Kill, Reap, WaitExited, WaitTimeout, Reading
  <2> QED  BY <2>1, QuietStep
<1>6. CASE Launch \/ LaunchError
  BY <1>6, OpenedStep
<1>7. ASSUME NEW s \in Outputs, ReadChunk(s)
      PROVE  LiveAt' /\ BinAt'
  <2>1. /\ pc = "batch" /\ pc' \in Reading /\ Keep(s, Got(s))
    BY <1>7 DEF ReadChunk, Reading
  <2>2. Got(s) \in Seq(Bytes[s])
    BY GotFacts DEF IndInv
  <2> QED  BY <2>1, <2>2, KeptStep
<1>8. ASSUME NEW s \in Outputs, ReadOverflow(s)
      PROVE  LiveAt' /\ BinAt'
  <2> DEFINE m == Cap - Captured
             chunk == SubSeq(Got(s), 1, m)
  <2>1. /\ pc = "batch" /\ pc' \in Reading /\ Keep(s, chunk) /\ Len(Got(s)) > m
    BY <1>8 DEF ReadOverflow, Reading
  <2>2. Got(s) \in Seq(Bytes[s]) /\ Len(Got(s)) \in Nat /\ m \in Nat
    <3>1. Shape /\ Counted /\ Captured <= Cap
      BY DEF IndInv, Counted
    <3>2. Captured \in Nat /\ Cap \in Nat
      BY <3>1, CapturedTyped, CapAssumption
    <3>3. Got(s) \in Seq(Bytes[s])
      BY <3>1, GotFacts
    <3> QED  BY <3>1, <3>2, <3>3, LenProperties
  <2>3. chunk \in Seq(Bytes[s])
    <3>1. \A i \in 1 .. m : Got(s)[i] \in Bytes[s]
      BY <2>1, <2>2, ElementOfSeq
    <3>2. 1 \in Int /\ m \in Int
      BY <2>2
    <3> HIDE DEF m
    <3> QED  BY <3>1, <3>2, SubSeqProperties
  <2> QED  BY <2>1, <2>3, KeptStep
<1>9. CASE Flush
  BY <1>9, FlushedStep
<1>10. CASE \/ SealBin("stdout", "stderr") \/ SealBin("stderr", "unlink")
            \/ Unlink \/ WriteReceipt
  BY <1>10, SealedStep
<1> QED
  BY <1>1, <1>2, <1>3, <1>4, <1>5, <1>6, <1>7, <1>8, <1>9, <1>10, Zenon
     DEF Next, Session

\* run_session: at every step the live and the sealed files are the redaction of
\* what has been captured.
THEOREM FilesInductive == Spec => []FilesInv
<1>1. Init => FilesInv
  BY InitInv, InitFiles DEF FilesInv
<1>2. FilesInv /\ [Next]_vars => FilesInv'
  BY StepInv, FilesStep DEF FilesInv
<1> QED  BY <1>1, <1>2, PTL DEF Spec

\* _StreamingSecretRedactor: for any credentials and however the output is cut
\* into chunks, the live file and what the redactor would still flush are the
\* redaction of the bytes captured.
THEOREM AlwaysLiveFaithful == Spec => []LiveFaithful
<1>1. FilesInv => LiveFaithful
  <2> SUFFICES ASSUME FilesInv, pc # "start", NEW s \in Outputs, live[s] # None
               PROVE  live[s] \o FeedFinal(pending[s]) = RedactBytes(chunks[s])
    BY DEF LiveFaithful
  <2>1. /\ LiveAt /\ chunks[s] \in Seq(Bytes[s]) /\ TypeOK
    BY DEF FilesInv, IndInv, Shape, TypeOK
  <2>2. CASE pc \in Reading
    <3>1. Following(s)
      BY <2>1, <2>2 DEF LiveAt
    <3> QED  BY <2>1, <3>1, FollowingNow
  <2>3. CASE pc \in {"stdout", "stderr", "unlink"}
    <3>1. pending[s] = <<>> /\ live[s] = RedactBytes(chunks[s])
      BY <2>1, <2>3 DEF LiveAt, Flushed
    <3>2. FeedFinal(<<>>) = <<>>
      BY RedactedEmpty DEF RedactBytes, FeedFinal
    <3>3. RedactBytes(chunks[s]) \in Seq(Marked(Bytes[s]))
      BY <2>1, RedactedIsClean
    <3>4. RedactBytes(chunks[s]) \o <<>> = RedactBytes(chunks[s])
      BY <3>3, ConcatEmptySeq
    <3> QED  BY <3>1, <3>2, <3>4
  <2>4. CASE pc \in {"receipt", "done"}
    BY <2>1, <2>4 DEF LiveAt
  <2> QED  BY <2>1, <2>2, <2>3, <2>4 DEF TypeOK, Reading, Outputs
<1> QED  BY <1>1, FilesInductive, PTL

\* No credential of the minimum length stands in a live or a sealed file, not
\* even one that two reads share or that overlaps another.
THEOREM NeverCredential == Spec => []NoCredential
<1>1. FilesInv => NoCredential
  <2> SUFFICES ASSUME FilesInv, NEW s \in Outputs
               PROVE  /\ live[s] # None => Clean(live[s])
                      /\ bin[s] # None => Clean(bin[s])
    BY DEF NoCredential
  <2>1. LiveAt /\ BinAt /\ chunks[s] \in Seq(Bytes[s]) /\ TypeOK
    BY DEF FilesInv, IndInv, Shape, TypeOK
  <2>2. Clean(RedactBytes(chunks[s]))
    BY <2>1, RedactedIsClean
  <2>3. bin[s] # None => Clean(bin[s])
    BY <2>1, <2>2 DEF BinAt
  <2>4. CASE pc = "start"
    BY <2>1, <2>3, <2>4, LeftoverAssumption DEF LiveAt
  <2>5. CASE pc \in Reading
    <3>1. Following(s)
      BY <2>1, <2>5 DEF LiveAt
    <3>2. /\ live[s] \in Seq(Marked(Bytes[s]))
          /\ FeedFinal(pending[s]) \in Seq(Marked(Bytes[s]))
      BY <3>1, RedactedIsClean DEF Following, RedactBytes, FeedFinal
    <3>3. Clean(live[s] \o FeedFinal(pending[s]))
      BY <2>1, <2>2, <3>1, FollowingNow
    <3> QED  BY <2>3, <3>2, <3>3, CleanParts
  <2>6. CASE pc \in {"stdout", "stderr", "unlink"}
    BY <2>1, <2>2, <2>3, <2>6 DEF LiveAt, Flushed
  <2>7. CASE pc \in {"receipt", "done"}
    BY <2>1, <2>3, <2>7 DEF LiveAt
  <2> QED  BY <2>1, <2>4, <2>5, <2>6, <2>7 DEF TypeOK, Reading, Outputs
<1> QED  BY <1>1, FilesInductive, PTL
=============================================================================
