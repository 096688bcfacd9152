---------------------------- MODULE AgentProcess ----------------------------
(***************************************************************************)
(* One agent session as a process: agent_sessions.run_session around       *)
(* _bounded_process and _StreamingSecretRedactor.                          *)
(*                                                                         *)
(* The controller starts a CLI in a process group of its own, feeds it the *)
(* prompt, drains stdout and stderr through a selector, stops at a         *)
(* deadline or at an output cap by killing the group, and seals what it    *)
(* read.  The CLI, a descendant in its group and a descendant that left    *)
(* the group run concurrently: they write, close or inherit the pipes,     *)
(* and exit whenever they like.  The session directory may hold the live   *)
(* files of an earlier session whose controller died.  (Reuse of a         *)
(* finished session and the work directory are in AgenticFactory.)         *)
(*                                                                         *)
(* Bytes are members of a small alphabet.  A stream is the sequence of     *)
(* bytes in it; a credential is a short sequence; the text that replaces   *)
(* one is the single symbol Redaction.                                     *)
(***************************************************************************)
EXTENDS Integers, Sequences, SequencesExt, FiniteSets, FiniteSetsExt

CONSTANTS
  Bytes,         \* Bytes[s]: the alphabet of the agent's output on stream s
  Credentials,   \* values of the environment's KEY and TOKEN variables
  MinSecret,     \* length below which a value is not redacted (8 in the code)
  Redaction,     \* the replacement text
  Cap,           \* max_output_bytes
  Chunk,         \* bytes of one read or write (65536 in the code)
  Prompt,        \* length of the prompt on stdin
  MaxBytes,      \* bound: bytes the agents write in a behaviour
  Leftover,      \* what an earlier session may have left in a live file
  None

ASSUME CapAssumption ==
  Cap \in Nat \ {0} /\ Chunk \in Nat \ {0} /\ Prompt \in Nat
ASSUME CredentialAssumption ==
  /\ IsFiniteSet(Credentials) /\ MinSecret \in Nat \ {0}
  /\ \A x \in Credentials : x \in Seq(Range(x)) /\ Redaction \notin Range(x)

Outputs == {"stdout", "stderr"}
Streams == Outputs \cup {"stdin"}
Group == {"cli", "child"}             \* killed together by killpg
\* "detached" called setsid; "stuck" is a killed CLI in an uninterruptible wait
Processes == Group \cup {"detached", "stuck"}

VARIABLES
  pc,        \* where run_session is
  alive,     \* processes that run
  code,      \* the CLI's exit code, None while it runs
  hold,      \* hold[s]: the processes with the agent's end of pipe s open
  pipe,      \* pipe[s]: bytes written and not yet read
  wrote,     \* wrote[s]: every byte written in this session (history)
  reg,       \* streams registered with the selector
  batch,     \* streams select reported that are not handled yet
  offset,    \* input_offset
  chunks,    \* chunks[s]: bytes captured, joined
  failure,   \* failure class, None so far
  late,      \* the deadline has passed
  pending,   \* pending[s]: bytes the live redactor of s holds back
  live,      \* live[s]: stdout.live and stderr.live, None when absent
  bin,       \* bin[s]: stdout.bin and stderr.bin, None when absent
  receipt,   \* receipt.json, None when absent
  written    \* bytes written so far, for the bound

process == <<alive, code, hold, pipe, wrote>>
reading == <<reg, batch, offset, chunks, failure, pending>>
files == <<live, bin, receipt>>
vars == <<pc, process, reading, late, files, written>>

-----------------------------------------------------------------------------
(* The redactor *)

Secrets == {x \in Credentials : Len(x) >= MinSecret}

Maximum == IF Secrets = {} THEN 1 ELSE Max({Len(x) : x \in Secrets})

\* x stands in data at position i.
StandsAt(x, data, i) == SubSeq(data, i, i + Len(x) - 1) = x

\* The secrets data holds at position i, and the first the code would try:
\* they are sorted longest first.
At(data, i) ==
  {x \in Secrets : i + Len(x) - 1 <= Len(data) /\ StandsAt(x, data, i)}
Longest(S) == CHOOSE x \in S : \A y \in S : Len(y) <= Len(x)

\* No credential of the minimum length stands anywhere in data.
Clean(data) == \A i \in 1 .. Len(data) : At(data, i) = {}
ASSUME LeftoverAssumption == \A old \in Leftover : Clean(old)

\* Mutant: the live redactor keeps too short a tail.
HeldOneLess(data) ==
  Max({0} \cup {n \in 1 .. Min({Maximum - 2, Len(data)}) :
                 \E x \in Secrets : n <= Len(x)
                   /\ SubSeq(data, Len(data) - n + 1, Len(data)) = SubSeq(x, 1, n)})

\* The length of the longest suffix that may be the start of a secret.
Held(data) ==
  Max({0} \cup {n \in 1 .. Min({Maximum - 1, Len(data)}) :
                 \E x \in Secrets : n <= Len(x)
                   /\ SubSeq(data, Len(data) - n + 1, Len(data)) = SubSeq(x, 1, n)})

\* What stands for data at position i in the output, and where the scan goes on.
Symbol(data, i) == IF At(data, i) = {} THEN data[i] ELSE Redaction
After(data, i) ==
  LET found == At(data, i)
  IN  i + IF found = {} THEN 1 ELSE Len(Longest(found))

\* The scan of feed, from any position: every secret that starts at or before
\* limit is replaced; the last one may run past it.
ScanFrom(data, limit) ==
  LET from[i \in 1 .. Len(data) + 1] ==
        IF i > limit THEN [out |-> <<>>, next |-> i]
        ELSE LET rest == from[After(data, i)]
             IN  [out |-> <<Symbol(data, i)>> \o rest.out, next |-> rest.next]
  IN  from

Scan(data, limit) == ScanFrom(data, limit)[1]

Feed(held, chunk) ==
  LET data == held \o chunk
      scan == Scan(data, Len(data) - Held(data))
  IN  [out |-> scan.out, pending |-> SubSeq(data, scan.next, Len(data))]

FeedFinal(held) == Scan(held, Len(held)).out

RedactBytes(data) == Scan(data, Len(data)).out

-----------------------------------------------------------------------------
Empty == [s \in Outputs |-> <<>>]
Nothing == [s \in Outputs |-> None]

FailureClass == {"launch_error", "wall_clock_timeout", "output_limit_exceeded",
                 "agent_exit_nonzero"}

Receipt == [status : {"completed", "failed"}, failure : FailureClass \cup {None},
            exit : {0, 1, -9, None}]

ASSUME NoneAssumption == None \notin Receipt \cup FailureClass \cup {0, 1, -9}

Init ==
  /\ pc = "start"
  /\ alive = {} /\ code = None /\ hold = [s \in Streams |-> {}]
  /\ pipe = Empty /\ wrote = Empty
  /\ reg = {} /\ batch = {} /\ offset = 0 /\ chunks = Empty /\ failure = None
  /\ pending = Empty /\ late = FALSE
  /\ \E old \in Leftover \cup {None} : live = [s \in Outputs |-> old]
  /\ bin = Nothing /\ receipt = None /\ written = 0

(* The agent's processes *)

\* The CLI starts a descendant, which inherits the ends it has open.
Fork(p) ==
  /\ "cli" \in alive /\ alive \subseteq {"cli"}
  /\ alive' = alive \cup {p}
  /\ hold' = [s \in Streams |->
                IF "cli" \in hold[s] THEN hold[s] \cup {p} ELSE hold[s]]
  /\ UNCHANGED <<pc, code, pipe, wrote, reading, late, files, written>>

Write(p, s, x) ==
  /\ p \in hold[s] /\ written < MaxBytes
  /\ pipe' = [pipe EXCEPT ![s] = Append(@, x)]
  /\ wrote' = [wrote EXCEPT ![s] = Append(@, x)]
  /\ written' = written + 1
  /\ UNCHANGED <<pc, alive, code, hold, reading, late, files>>

\* A process closes its standard streams, as a daemon does, and runs on.
Close(p) ==
  /\ \E s \in Streams : p \in hold[s]
  /\ hold' = [s \in Streams |-> hold[s] \ {p}]
  /\ UNCHANGED <<pc, alive, code, pipe, wrote, reading, late, files, written>>

Exit(p) ==
  /\ p \in alive
  /\ alive' = alive \ {p}
  /\ hold' = [s \in Streams |-> hold[s] \ {p}]
  /\ code' \in CASE p = "cli" -> {0, 1}
               [] p = "stuck" /\ pc = "reap" -> {-9}
               [] OTHER -> {code}
  /\ UNCHANGED <<pc, pipe, wrote, reading, late, files, written>>

Agent ==
  \/ \E p \in {"child", "detached"} : Fork(p)
  \/ \E p \in Processes : Exit(p) \/ Close(p)
  \/ \E p \in Processes, s \in Outputs : \E x \in Bytes[s] : Write(p, s, x)

\* time.monotonic() reaches the deadline of the session.
Deadline ==
  /\ pc \notin {"start", "done"} /\ ~late
  /\ late' = TRUE
  /\ UNCHANGED <<pc, process, reading, files, written>>

-----------------------------------------------------------------------------
(* run_session: the launch *)

\* The live files are truncated, the redactors are new, the CLI starts as the
\* leader of a new process group.
Launch ==
  /\ pc = "start"
  /\ live' = Empty
  /\ alive' = {"cli"} /\ hold' = [s \in Streams |-> {"cli"}]
  /\ reg' = Streams
  /\ pc' = "select"
  /\ UNCHANGED <<code, pipe, wrote, batch, offset, chunks, failure, pending,
                 late, bin, receipt, written>>

LaunchError ==
  /\ pc = "start"
  /\ live' = Empty
  /\ failure' = "launch_error"
  /\ pc' = "flush"
  /\ UNCHANGED <<process, reg, batch, offset, chunks, pending, late, bin,
                 receipt, written>>

-----------------------------------------------------------------------------
(* _bounded_process: the selector loop *)

\* The pipe's write ends are closed or it holds bytes: a read will not block.
Readable(s) == pipe[s] # <<>> \/ hold[s] = {}

\* One iteration: the streams select reports.  Whether stdin is writable
\* depends on how much the CLI has read of it; the reader's end being closed
\* makes it writable.
Select ==
  /\ pc = "select" /\ reg # {} /\ ~late
  /\ batch' \in {B \in SUBSET reg :
                   /\ \A s \in Outputs : s \in B <=> s \in reg /\ Readable(s)
                   /\ "stdin" \in reg /\ hold["stdin"] = {} => "stdin" \in B}
  /\ batch' # {}
  /\ pc' = "batch"
  /\ UNCHANGED <<process, reg, offset, chunks, failure, pending, late, files,
                 written>>

Expire ==
  /\ pc = "select" /\ reg # {} /\ late
  /\ failure' = "wall_clock_timeout"
  /\ pc' = "kill"
  /\ UNCHANGED <<process, reg, batch, offset, chunks, pending, late, files,
                 written>>

Drained ==
  /\ pc = "select" /\ reg = {}
  /\ pc' = "wait"
  /\ UNCHANGED <<process, reading, late, files, written>>

\* os.write of the prompt, possibly in part; a broken pipe ends it.
Feeding(n) ==
  /\ "stdin" \in batch
  /\ n \in IF hold["stdin"] = {} THEN {Prompt - offset}
           ELSE 1 .. Min({Chunk, Prompt - offset})
  /\ offset' = offset + n
  /\ batch' = batch \ {"stdin"}
  /\ reg' = IF offset' >= Prompt THEN reg \ {"stdin"} ELSE reg
  /\ hold' = IF offset' >= Prompt THEN [hold EXCEPT !["stdin"] = {}] ELSE hold
  /\ pc' = IF batch' = {} THEN "select" ELSE "batch"
  /\ UNCHANGED <<alive, code, pipe, wrote, chunks, failure, pending,
                 late, files, written>>

WriteStdin == pc = "batch" /\ \E n \in 0 .. Prompt : Feeding(n)

Captured == Len(chunks["stdout"]) + Len(chunks["stderr"])
\* Mutant: reads exactly the room that is left, so a full buffer looks like the end.
ReadSizeNoSlack == Min({Chunk, Cap - Captured})

ReadSize == Min({Chunk, Cap - Captured + 1})

\* The bytes one os.read returns: <<>> is the end of the stream.
Got(s) == SubSeq(pipe[s], 1, Min({Len(pipe[s]), ReadSize}))

\* chunk is what is kept of the read: it goes to the list and, through the
\* redactor, to the live file.
Keep(s, chunk) ==
  /\ chunks' = [chunks EXCEPT ![s] = @ \o chunk]
  /\ LET fed == Feed(pending[s], chunk)
     IN  /\ pending' = [pending EXCEPT ![s] = fed.pending]
         /\ live' = [live EXCEPT ![s] = @ \o fed.out]
  /\ pipe' = [pipe EXCEPT ![s] = SubSeq(@, Len(Got(s)) + 1, Len(@))]
  /\ UNCHANGED <<alive, code, hold, wrote, offset, late, bin, receipt,
                 written>>

EndOfStream(s) ==
  /\ pc = "batch" /\ s \in batch
  /\ Got(s) = <<>>
  /\ reg' = reg \ {s} /\ batch' = batch \ {s}
  /\ pc' = IF batch' = {} THEN "select" ELSE "batch"
  /\ UNCHANGED <<process, offset, chunks, failure, pending, late, files,
                 written>>

ReadChunk(s) ==
  /\ pc = "batch" /\ s \in batch
  /\ Got(s) # <<>> /\ Len(Got(s)) <= Cap - Captured
  /\ Keep(s, Got(s))
  /\ batch' = batch \ {s}
  /\ pc' = IF batch' = {} THEN "select" ELSE "batch"
  /\ UNCHANGED <<reg, failure>>

ReadOverflow(s) ==
  /\ pc = "batch" /\ s \in batch
  /\ Len(Got(s)) > Cap - Captured
  /\ Keep(s, SubSeq(Got(s), 1, Cap - Captured))
  /\ failure' = "output_limit_exceeded"
  /\ batch' = {} /\ pc' = "kill"
  /\ UNCHANGED reg

-----------------------------------------------------------------------------
(* _bounded_process: the kill and the wait *)

\* Mutant: process.kill() instead of killpg.
KillCliOnly ==
  /\ hold' = [s \in Streams |-> hold[s] \ {"cli"}]
  /\ alive' = alive \ {"cli"}
  /\ code' = IF "cli" \in alive THEN -9 ELSE code
  /\ UNCHANGED <<pipe, wrote>>

\* os.killpg with SIGKILL.  A CLI in an uninterruptible wait executes nothing
\* more but is not gone before it leaves the wait.
KillProcessGroup ==
  /\ hold' = [s \in Streams |-> hold[s] \ Group]
  /\ \/ /\ alive' = alive \ Group
        /\ code' = IF "cli" \in alive THEN -9 ELSE code
     \/ /\ "cli" \in alive
        /\ alive' = (alive \ Group) \cup {"stuck"}
        /\ code' = None
  /\ UNCHANGED <<pipe, wrote>>

Kill ==
  /\ pc = "kill"
  /\ KillProcessGroup
  /\ pc' = "reap"
  /\ UNCHANGED <<reading, late, files, written>>

\* process.wait after a kill: the CLI has exited, or five seconds have passed.
Reap ==
  /\ pc = "reap"
  /\ pc' = "flush"
  /\ UNCHANGED <<process, reading, late, files, written>>

\* process.wait when both pipes ended.
WaitExited ==
  /\ pc = "wait" /\ "cli" \notin alive
  /\ failure' = IF code # 0 THEN "agent_exit_nonzero" ELSE None
  /\ pc' = "flush"
  /\ UNCHANGED <<process, reg, batch, offset, chunks, pending, late, files,
                 written>>

\* Mutant: the wait after the pipes ended has no timeout.
WaitForever ==
  /\ pc = "wait" /\ "cli" \in alive /\ late
  /\ UNCHANGED vars

WaitTimeout ==
  /\ pc = "wait" /\ "cli" \in alive /\ late
  /\ failure' = "wall_clock_timeout"
  /\ pc' = "kill"
  /\ UNCHANGED <<process, reg, batch, offset, chunks, pending, late, files,
                 written>>

-----------------------------------------------------------------------------
(* run_session: sealing *)

\* The pipes are closed, the live files get what the redactors still hold.
Flush ==
  /\ pc = "flush"
  /\ live' = [s \in Outputs |-> live[s] \o FeedFinal(pending[s])]
  /\ pending' = Empty
  /\ reg' = {} /\ hold' = [s \in Streams |-> {}]
  /\ pc' = "stdout"
  /\ UNCHANGED <<alive, code, pipe, wrote, batch, offset, chunks,
                 failure, late, bin, receipt, written>>

\* Mutant: the sealed streams are written before they are redacted.
SealBinRaw(s, next) ==
  /\ pc = s
  /\ bin' = [bin EXCEPT ![s] = chunks[s]]
  /\ pc' = next
  /\ UNCHANGED <<process, reading, late, live, receipt, written>>

SealBin(s, next) ==
  /\ pc = s
  /\ bin' = [bin EXCEPT ![s] = RedactBytes(chunks[s])]
  /\ pc' = next
  /\ UNCHANGED <<process, reading, late, live, receipt, written>>

\* The live files are removed.
Unlink ==
  /\ pc = "unlink"
  /\ live' = Nothing
  /\ pc' = "receipt"
  /\ UNCHANGED <<process, reading, late, bin, receipt, written>>

WriteReceipt ==
  /\ pc = "receipt"
  /\ receipt' = [status |-> IF failure = None THEN "completed" ELSE "failed",
                 failure |-> failure, exit |-> code]
  /\ pc' = "done"
  /\ UNCHANGED <<process, reading, late, live, bin, written>>

Session ==
  \/ Launch \/ LaunchError
  \/ Select \/ Expire \/ Drained \/ WriteStdin
  \/ \E s \in Outputs : EndOfStream(s) \/ ReadChunk(s) \/ ReadOverflow(s)
  \/ Kill \/ Reap \/ WaitExited \/ WaitTimeout
  \/ Flush \/ SealBin("stdout", "stderr") \/ SealBin("stderr", "unlink")
  \/ Unlink \/ WriteReceipt

Next == Agent \/ Deadline \/ Session

Spec == Init /\ [][Next]_vars

\* The controller runs and time passes; nothing is asked of the agent.
FairSpec == Spec /\ WF_vars(Session) /\ WF_vars(Deadline)

-----------------------------------------------------------------------------
TypeOK ==
  /\ pc \in {"start", "done", "select", "batch", "kill", "reap", "wait", "flush",
             "unlink", "receipt"} \cup Outputs
  /\ alive \subseteq Processes /\ code \in {0, 1, -9, None}
  /\ hold \in [Streams -> SUBSET Processes]
  /\ \A s \in Outputs : pipe[s] \in Seq(Bytes[s]) /\ chunks[s] \in Seq(Bytes[s])
  /\ batch \subseteq reg /\ reg \subseteq Streams /\ offset \in 0 .. Prompt
  /\ receipt = None \/ receipt \in Receipt
  /\ late \in BOOLEAN

\* The outcome a session reports is what happened.  "completed": the CLI exited
\* with 0 by itself and the sealed streams are the redaction of every byte that
\* it and its descendants wrote; no order of exits, closed pipes, reads at the
\* cap and deadlines lets _bounded_process return no failure for a session it
\* cut short.  "output_limit_exceeded": more than max_output_bytes was written,
\* and exactly that much is kept, as it is never exceeded.
OutcomeHonest ==
  /\ TypeOK
  /\ receipt # None /\ receipt.status = "completed" =>
       /\ receipt.exit = 0
       /\ \A s \in Outputs : chunks[s] = wrote[s] /\ bin[s] = RedactBytes(wrote[s])
  /\ Captured <= Cap
  /\ failure = "output_limit_exceeded" =>
       /\ Captured = Cap
       /\ Len(wrote["stdout"]) + Len(wrote["stderr"]) > Cap

\* A session stopped at a bound leaves no process of its group that can still
\* write the work directory when its receipt seals the tree.
KilledTogether ==
  pc \in {"unlink", "receipt"}
    /\ failure \in {"wall_clock_timeout", "output_limit_exceeded"} =>
      alive \cap Group = {}

\* However the output is cut into chunks, the live file followed by what the
\* redactor would still flush is the redaction of the bytes captured, so what
\* a monitor reads is never retracted by the sealed file.
LiveFaithful ==
  pc # "start" => \A s \in Outputs : live[s] # None =>
    live[s] \o FeedFinal(pending[s]) = RedactBytes(chunks[s])

\* No credential of the minimum length stands in a live or sealed file.
NoCredential ==
  \A s \in Outputs : \A f \in {live, bin} : f[s] # None => Clean(f[s])

\* Every session ends, whatever the agent's processes do: a CLI that ignores
\* its input, holds its pipes open, detaches a descendant or cannot be killed.
SessionEnds == <>(pc = "done")

=============================================================================
