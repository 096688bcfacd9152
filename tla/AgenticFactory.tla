---------------------------- MODULE AgenticFactory ----------------------------
(***************************************************************************)
(* The resumable control plane of the paper-to-benchmark factory           *)
(* (src/orbenchlab/agentic_factory.py) together with the part of the       *)
(* session runner it relies on (src/orbenchlab/agent_sessions.py).         *)
(*                                                                         *)
(* A plan is a DAG of agent stages.  A controller process takes the flock  *)
(* on the evidence root, loads factory-run.json, attaches an attempt       *)
(* receipt that a crashed predecessor left behind, and runs ready stages   *)
(* one attempt at a time:                                                  *)
(*                                                                         *)
(*   write run "running" -> snapshot outputs -> run or reuse the session   *)
(*   -> judge outputs -> write attempt receipt -> write run                *)
(*                                                                         *)
(* Every file write is an atomic replace, so a controller may crash        *)
(* between any two of these steps and another one resumes from the files.  *)
(*                                                                         *)
(* Data abstraction: a stage owns one required output (the conjunction of  *)
(* its output contracts); an output is its content, a content's digest is  *)
(* the content itself; everything under factory-input/ is one version      *)
(* number.                                                                 *)
(***************************************************************************)
EXTENDS Naturals, Sequences, FiniteSets

CONSTANTS
  Stages,         \* stage ids of the compiled plan
  Position,       \* place of each stage in the plan's stage list
  DependsOn,      \* depends_on of each stage
  MaxAttempts,    \* max_attempts of each stage
  Contents,       \* contents that satisfy the output contract
  Leaks,          \* the contents that carry the provider credential
  AgentOutputs,   \* what agents may leave at an output path
  ForeignWrites,  \* whether agents also write other stages' output paths
  Manifest,       \* whether the plan has a workspace_manifest
  Workers,        \* controller processes sharing one evidence root
  MaxCrashes,     \* bound on controller crashes
  None            \* null value

Absent    == "absent"
Malformed == "malformed"   \* present but violates its contract
Symlink   == "symlink"

Output == Contents \cup {Absent, Malformed, Symlink}

ASSUME PlanAssumption ==
  /\ IsFiniteSet(Stages) /\ Stages # {} /\ None \notin Stages
  /\ Position \in [Stages -> Nat]
  /\ \A s, t \in Stages : Position[s] = Position[t] => s = t
  /\ DependsOn \in [Stages -> SUBSET Stages]
  \* _assert_acyclic
  /\ \A T \in SUBSET Stages : T # {} => \E s \in T : DependsOn[s] \cap T = {}
  /\ MaxAttempts \in [Stages -> 1..5]

ASSUME EnvironmentAssumption ==
  /\ {Absent, Malformed, Symlink} \cap Contents = {}
  /\ Leaks \subseteq Contents
  /\ AgentOutputs \subseteq Output
  /\ ForeignWrites \in BOOLEAN /\ Manifest \in BOOLEAN
  /\ None \notin Workers
  /\ MaxCrashes \in Nat

VARIABLES
  run,       \* factory-run.json
  receipts,  \* stages/<id>/attempt-NNN.json, in order, for each stage
  session,   \* latest sessions/<id>/receipt.json of each stage
  output,    \* required output of each stage in the workspace
  inputs,    \* version of the factory-input/ tree
  lock,      \* holder of .factory.lock
  pc,        \* control point of each controller
  mem,       \* each controller's in-memory run
  att,       \* the attempt each controller is building
  orphans,   \* stages whose agent outlived its controller
  launches,  \* history: agent processes started for each stage
  crashes    \* history: controller crashes

disk      == <<run, receipts, session>>
workspace == <<output, inputs>>
control   == <<lock, pc, mem, att>>
history   == <<launches, crashes>>
vars      == <<disk, workspace, control, orphans, history>>

(***************************************************************************)
(* Types and null values                                                   *)
(***************************************************************************)
StageStatus == {"pending", "running", "completed", "failed"}
RunStatus   == {"active", "semantic-complete-e1", "quarantined"}
Terminal    == {"semantic-complete-e1", "quarantined"}
PC == {"idle", "initialise", "loop", "snapshot", "launch", "agent", "judge",
       "record", "commit"}

\* What a session receipt's sandbox contract binds: the input tree and the
\* completed outputs, by digest.
BindingType == [inputs : Nat, rows : [Stages -> Output]]
Receipt ==
  [status : {"completed", "failed"}, artifact : Output, retry_safe : BOOLEAN,
   session : {"none", "completed", "failed"}, snapshot : SUBSET Stages,
   binding : BindingType]
RunFile ==
  [status : RunStatus, quarantine : Stages \cup {None},
   st : [Stages -> StageStatus], attempts : [Stages -> Seq(Receipt)],
   artifact : [Stages -> Output]]
SessionReceipt ==
  [attempt : Nat, status : {"completed", "failed"}, binding : BindingType,
   tree : [Stages -> Output], inputs : Nat]
Attempt ==
  [stage : Stages \cup {None}, before : Output, snapshot : SUBSET Stages,
   session : {"none", "completed", "failed"}, reused : BOOLEAN,
   binding : BindingType, status : {"open", "completed", "failed"},
   artifact : Output, retry_safe : BOOLEAN, executed : BOOLEAN]

NoRun     == [status |-> "absent"]
NoSession == [attempt |-> 0]
Unbound   == [inputs |-> 0, rows |-> [t \in Stages |-> Absent]]
NoAttempt ==
  [stage |-> None, before |-> Absent, snapshot |-> {}, session |-> "none",
   reused |-> FALSE, binding |-> Unbound, status |-> "open",
   artifact |-> Absent, retry_safe |-> TRUE, executed |-> FALSE]

\* _new_run
NewRun ==
  [status |-> "active", quarantine |-> None,
   st |-> [s \in Stages |-> "pending"], attempts |-> [s \in Stages |-> <<>>],
   artifact |-> [s \in Stages |-> Absent]]

(***************************************************************************)
(* Validation                                                              *)
(***************************************************************************)
\* The digests _visibility_paths and _read_only_command bind for a session
\* that starts when the stages in snap are completed: the whole factory-input
\* tree and every completed output, visible or masked.  A plan without a
\* workspace manifest binds nothing.
BindingOf(snap) ==
  IF Manifest
  THEN [inputs |-> inputs,
        rows |-> [t \in Stages |-> IF t \in snap THEN output[t] ELSE Absent]]
  ELSE Unbound

\* _validate_session_receipt: the receipt of an attempt that has a session is
\* recomputed against the files as they are now.
SessionBound(rc) ==
  IF rc.session = "none" THEN rc.status = "failed"
  ELSE /\ rc.status = "completed" => rc.session = "completed"
       /\ rc.binding = BindingOf(rc.snapshot)

\* _validate_run_chain
ChainOK(r) ==
  \A s \in Stages :
    LET done == r.attempts[s] IN
    /\ Len(done) <= Len(receipts[s])
    /\ \A i \in 1..Len(done) : done[i] = receipts[s][i] /\ SessionBound(done[i])
    /\ r.st[s] = "completed" =>
         /\ done # <<>> /\ done[Len(done)].status = "completed"
         /\ r.artifact[s] = done[Len(done)].artifact
         /\ output[s] = r.artifact[s]
    /\ r.st[s] = "failed" =>
         done # <<>> /\ done[Len(done)].status = "failed"

\* _load_run: the state invariants of a persisted run, then its chain.
Loadable(r) ==
  /\ r.status = "semantic-complete-e1" =>
       (\A s \in Stages : r.st[s] = "completed") /\ r.quarantine = None
  /\ r.status = "quarantined" =>
       {s \in Stages : r.st[s] = "failed"} = {r.quarantine}
  /\ r.status = "active" =>
       (\A s \in Stages : r.st[s] # "failed") /\ r.quarantine = None
  /\ ChainOK(r)

\* _validate_workspace_limits refuses symlinks; the scan after a session also
\* refuses any file that holds a credential.
LimitsOK == \A s \in Stages : output[s] # Symlink
NoSecret == \A s \in Stages : output[s] \notin Leaks

(***************************************************************************)
(* Run-state functions                                                     *)
(***************************************************************************)
CompletedIn(r) == {s \in Stages : r.st[s] = "completed"}
AllCompleted(r) == \A s \in Stages : r.st[s] = "completed"

\* Mutant: dependencies are not consulted.
ReadyIgnoringDeps(r) == {s \in Stages : r.st[s] = "pending"}

\* ready_stages; the controller takes the first in plan order
Ready(r) ==
  {s \in Stages : r.st[s] = "pending" /\ DependsOn[s] \subseteq CompletedIn(r)}
FirstReady(r) ==
  CHOOSE s \in Ready(r) : \A t \in Ready(r) : Position[s] <= Position[t]

\* The attempt receipt of s that the run file does not mention yet
Orphaned(r, s) ==
  /\ r.st[s] \in {"pending", "running"}
  /\ Len(r.attempts[s]) < Len(receipts[s])
OrphanOf(r, s) == receipts[s][Len(r.attempts[s]) + 1]
Exhausted(r, s) ==
  /\ Orphaned(r, s) /\ OrphanOf(r, s).status = "failed"
  /\ Len(r.attempts[s]) + 1 >= MaxAttempts[s]

\* Mutant: a stage interrupted before its receipt stays "running".
ReconciledKeepsRunning(r, s) ==
  CASE Orphaned(r, s) /\ OrphanOf(r, s).status = "completed" -> "completed"
    [] Exhausted(r, s) -> "failed"
    [] Orphaned(r, s) /\ ~Exhausted(r, s)
         /\ OrphanOf(r, s).status = "failed" -> "pending"
    [] OTHER -> r.st[s]

ReconciledStatus(r, s) ==
  CASE Orphaned(r, s) /\ OrphanOf(r, s).status = "completed" -> "completed"
    [] Exhausted(r, s) -> "failed"
    [] Orphaned(r, s) /\ ~Exhausted(r, s)
         /\ OrphanOf(r, s).status = "failed" -> "pending"
    [] ~Orphaned(r, s) /\ r.st[s] = "running" -> "pending"
    [] OTHER -> r.st[s]

\* _reconcile_orphan_attempts
Reconcile(r) ==
  [status |-> IF \E s \in Stages : Exhausted(r, s)
              THEN "quarantined" ELSE r.status,
   quarantine |-> IF \E s \in Stages : Exhausted(r, s)
                  THEN CHOOSE s \in Stages : Exhausted(r, s)
                  ELSE r.quarantine,
   st |-> [s \in Stages |-> ReconciledStatus(r, s)],
   attempts |-> [s \in Stages |->
                   IF Orphaned(r, s)
                   THEN Append(r.attempts[s], OrphanOf(r, s))
                   ELSE r.attempts[s]],
   artifact |-> [s \in Stages |->
                   IF Orphaned(r, s) /\ OrphanOf(r, s).status = "completed"
                   THEN OrphanOf(r, s).artifact ELSE r.artifact[s]]]

(***************************************************************************)
(* Controller steps                                                        *)
(***************************************************************************)
Init ==
  /\ run = NoRun
  /\ receipts = [s \in Stages |-> <<>>]
  /\ session = [s \in Stages |-> NoSession]
  /\ output = [s \in Stages |-> Absent]
  /\ inputs = 0
  /\ lock = None
  /\ pc = [w \in Workers |-> "idle"]
  /\ mem = [w \in Workers |-> NoRun]
  /\ att = [w \in Workers |-> NoAttempt]
  /\ orphans = {}
  /\ launches = [s \in Stages |-> 0]
  /\ crashes = 0

Goto(w, label) == pc' = [pc EXCEPT ![w] = label]

\* run_factory returns or raises: the lock is released, locals are gone.
Leave(w) ==
  /\ Goto(w, "idle")
  /\ lock' = None
  /\ mem' = [mem EXCEPT ![w] = NoRun]
  /\ att' = [att EXCEPT ![w] = NoAttempt]

\* Mutant: the flock is not taken.
AcquireUnlocked(w) ==
  /\ pc[w] = "idle"
  /\ lock' = w
  /\ Goto(w, "initialise")
  /\ UNCHANGED <<disk, workspace, mem, att, orphans, history>>

\* _factory_lock
Acquire(w) ==
  /\ pc[w] = "idle" /\ lock = None
  /\ lock' = w
  /\ Goto(w, "initialise")
  /\ UNCHANGED <<disk, workspace, mem, att, orphans, history>>

\* Mutant: an existing run file is not looked for.
InitialiseAlwaysFresh(w) ==
  /\ pc[w] = "initialise" /\ LimitsOK
  /\ run' = NewRun
  /\ mem' = [mem EXCEPT ![w] = NewRun]
  /\ Goto(w, "loop")
  /\ UNCHANGED <<receipts, session, workspace, lock, att, orphans, history>>

\* initialise, no run file yet
InitialiseFresh(w) ==
  /\ pc[w] = "initialise" /\ LimitsOK
  /\ run = NoRun
  /\ run' = NewRun
  /\ mem' = [mem EXCEPT ![w] = NewRun]
  /\ Goto(w, "loop")
  /\ UNCHANGED <<receipts, session, workspace, lock, att, orphans, history>>

\* initialise, resuming: load, reconcile, validate, write; a terminal run is
\* returned as it is.
InitialiseResume(w) ==
  /\ pc[w] = "initialise" /\ LimitsOK
  /\ run # NoRun /\ Loadable(run) /\ ChainOK(Reconcile(run))
  /\ run' = Reconcile(run)
  /\ IF Reconcile(run).status \in Terminal
     THEN Leave(w)
     ELSE /\ mem' = [mem EXCEPT ![w] = Reconcile(run)]
          /\ Goto(w, "loop")
          /\ UNCHANGED <<lock, att>>
  /\ UNCHANGED <<receipts, session, workspace, orphans, history>>

\* A failed validation raises out of run_factory before anything is written.
InitialiseRefuse(w) ==
  /\ pc[w] = "initialise"
  /\ \/ ~LimitsOK
     \/ run # NoRun /\ ~(Loadable(run) /\ ChainOK(Reconcile(run)))
  /\ Leave(w)
  /\ UNCHANGED <<disk, workspace, orphans, history>>

BeginStage(w) ==
  /\ pc[w] = "loop" /\ Ready(mem[w]) # {}
  /\ ChainOK(mem[w]) /\ LimitsOK
  /\ LET s  == FirstReady(mem[w])
         r1 == [mem[w] EXCEPT !.st[s] = "running"]
     IN /\ run' = r1
        /\ mem' = [mem EXCEPT ![w] = r1]
        /\ att' = [att EXCEPT ![w] = [NoAttempt EXCEPT !.stage = s]]
  /\ Goto(w, "snapshot")
  /\ UNCHANGED <<receipts, session, workspace, lock, orphans, history>>

BeginRefuse(w) ==
  /\ pc[w] = "loop" /\ Ready(mem[w]) # {}
  /\ ~(ChainOK(mem[w]) /\ LimitsOK)
  /\ Leave(w)
  /\ UNCHANGED <<disk, workspace, orphans, history>>

\* before = _snapshot_outputs(...) and the completed-stage snapshot.  It runs
\* outside the try block: an output that is present but violates its contract
\* raises out of run_factory.
Snapshot(w) ==
  /\ pc[w] = "snapshot"
  /\ LET s == att[w].stage IN
     IF output[s] \in {Malformed, Symlink}
     THEN Leave(w)
     ELSE /\ att' = [att EXCEPT ![w].before = output[s],
                                ![w].snapshot = CompletedIn(mem[w])]
          /\ Goto(w, "launch")
          /\ UNCHANGED <<lock, mem>>
  /\ UNCHANGED <<disk, workspace, orphans, history>>

AttemptNumber(w) == Len(mem[w].attempts[att[w].stage]) + 1

\* _valid_reuse: same identity, completed, and the workspace tree unchanged
Reusable(w) ==
  LET rc == session[att[w].stage] IN
  /\ rc # NoSession
  /\ rc.attempt = AttemptNumber(w) /\ rc.status = "completed"
  /\ rc.binding = BindingOf(att[w].snapshot)
  /\ rc.tree = output /\ rc.inputs = inputs

ReuseSession(w) ==
  /\ pc[w] = "launch" /\ Reusable(w)
  /\ att' = [att EXCEPT ![w].session = "completed", ![w].reused = TRUE,
                        ![w].binding = BindingOf(att[w].snapshot)]
  /\ Goto(w, "judge")
  /\ UNCHANGED <<disk, workspace, lock, mem, orphans, history>>

\* The history counter saturates one above the bound LaunchesBounded states.
LaunchCap(s) == MaxAttempts[s] + MaxCrashes + 1

LaunchSession(w) ==
  /\ pc[w] = "launch" /\ ~Reusable(w)
  /\ att' = [att EXCEPT ![w].binding = BindingOf(att[w].snapshot)]
  /\ launches' = [launches EXCEPT ![att[w].stage] =
                    IF @ < LaunchCap(att[w].stage) THEN @ + 1 ELSE @]
  /\ Goto(w, "agent")
  /\ UNCHANGED <<disk, workspace, lock, mem, orphans, crashes>>

\* run_session raises before it starts a process (environment, executable,
\* sandbox or budget check): the attempt fails without a session receipt.
SessionRefused(w) ==
  /\ pc[w] = "launch" /\ ~Reusable(w)
  /\ Goto(w, "judge")
  /\ UNCHANGED <<disk, workspace, lock, mem, att, orphans, history>>

\* Mutant: completed outputs are not mounted read-only.
WritableAll(s, snap) == IF ForeignWrites THEN Stages ELSE {s}

\* Paths an agent can write: with a manifest, completed outputs are mounted
\* read-only and there is no Bash tool, so it can neither unlink nor symlink.
Writable(s, snap) ==
  (IF Manifest THEN Stages \ snap ELSE Stages)
    \cap (IF ForeignWrites THEN Stages ELSE {s})
Writes == IF Manifest THEN AgentOutputs \ {Absent, Symlink} ELSE AgentOutputs

AgentWrite(w) ==
  /\ pc[w] = "agent"
  /\ \E t \in Writable(att[w].stage, att[w].snapshot), v \in Writes :
       output' = [output EXCEPT ![t] = v]
  /\ UNCHANGED <<disk, inputs, control, orphans, history>>

\* The agent exits, hits its deadline or its output cap; run_session seals the
\* receipt with the tree digest it then finds.
EndSession(w) ==
  /\ pc[w] = "agent"
  /\ \E status \in {"completed", "failed"} :
       /\ session' = [session EXCEPT ![att[w].stage] =
            [attempt |-> AttemptNumber(w), status |-> status,
             binding |-> att[w].binding, tree |-> output, inputs |-> inputs]]
       /\ att' = [att EXCEPT ![w].session = status]
  /\ Goto(w, "judge")
  /\ UNCHANGED <<run, receipts, workspace, lock, mem, orphans, history>>

\* _validate_outputs and the checks before it in the try block
Accepted(w) ==
  LET s == att[w].stage IN
  /\ att[w].session = "completed"
  /\ att[w].binding = BindingOf(att[w].snapshot)
  /\ LimitsOK /\ NoSecret
  /\ output[s] \in Contents
  /\ output[s] # att[w].before

\* Success, or _quarantine_failed_outputs: the stage's own output is moved out
\* of the workspace (deleted if it holds a credential); a symlink is left and
\* makes the attempt unsafe to retry.
Judge(w) ==
  /\ pc[w] = "judge"
  /\ LET s == att[w].stage IN
     IF Accepted(w)
     THEN /\ att' = [att EXCEPT ![w].status = "completed",
                                ![w].artifact = output[s]]
          /\ UNCHANGED output
     ELSE /\ att' = [att EXCEPT ![w].status = "failed",
                                ![w].retry_safe = output[s] # Symlink]
          /\ output' = IF output[s] = Symlink THEN output
                       ELSE [output EXCEPT ![s] = Absent]
  /\ Goto(w, "record")
  /\ UNCHANGED <<disk, inputs, lock, mem, orphans, history>>

ReceiptOf(a) ==
  [status |-> a.status, artifact |-> a.artifact, retry_safe |-> a.retry_safe,
   session |-> a.session, snapshot |-> a.snapshot, binding |-> a.binding]

\* The run chain is revalidated, then _write_attempt refuses an existing path.
WriteAttempt(w) ==
  /\ pc[w] = "record"
  /\ LET s == att[w].stage IN
     IF ChainOK(mem[w]) /\ Len(receipts[s]) < AttemptNumber(w)
     THEN /\ receipts' = [receipts EXCEPT ![s] = Append(@, ReceiptOf(att[w]))]
          /\ Goto(w, "commit")
          /\ UNCHANGED <<lock, mem, att>>
     ELSE Leave(w) /\ UNCHANGED receipts
  /\ UNCHANGED <<run, session, workspace, orphans, history>>

\* Mutant: off by one, the attempt after max_attempts is still granted.
CommittedLate(r, a) ==
  LET s == a.stage
      n == Len(r.attempts[s]) + 1
      give_up == a.status = "failed" /\ (~a.retry_safe \/ n > MaxAttempts[s])
  IN [r EXCEPT !.attempts[s] = Append(@, ReceiptOf(a)),
               !.st[s] = IF a.status = "completed" THEN "completed"
                         ELSE IF give_up THEN "failed" ELSE "pending",
               !.artifact[s] = IF a.status = "completed" THEN a.artifact ELSE @,
               !.status = IF give_up THEN "quarantined" ELSE @,
               !.quarantine = IF give_up THEN s ELSE @]

\* The run as _write_run leaves it after an attempt of stage s
Committed(r, a) ==
  LET s == a.stage
      n == Len(r.attempts[s]) + 1
      give_up == a.status = "failed" /\ (~a.retry_safe \/ n >= MaxAttempts[s])
  IN [r EXCEPT !.attempts[s] = Append(@, ReceiptOf(a)),
               !.st[s] = IF a.status = "completed" THEN "completed"
                         ELSE IF give_up THEN "failed" ELSE "pending",
               !.artifact[s] = IF a.status = "completed" THEN a.artifact ELSE @,
               !.status = IF give_up THEN "quarantined" ELSE @,
               !.quarantine = IF give_up THEN s ELSE @]

CommitRun(w) ==
  /\ pc[w] = "commit"
  /\ LET r1 == Committed(mem[w], att[w]) IN
     /\ run' = r1
     /\ IF r1.status = "quarantined"
        THEN Leave(w)
        ELSE /\ mem' = [mem EXCEPT ![w] = r1]
             /\ att' = [att EXCEPT ![w] = [NoAttempt EXCEPT !.executed = TRUE]]
             /\ Goto(w, "loop")
             /\ UNCHANGED lock
  /\ UNCHANGED <<receipts, session, workspace, orphans, history>>

\* The loop ends with every stage completed: validate once more and finish.
CompleteRun(w) ==
  /\ pc[w] = "loop" /\ AllCompleted(mem[w])
  /\ run' = IF ChainOK(mem[w])
            THEN [mem[w] EXCEPT !.status = "semantic-complete-e1"] ELSE run
  /\ Leave(w)
  /\ UNCHANGED <<receipts, session, workspace, orphans, history>>

\* No stage is ready, or max_new_stages (at least one) is used up.
YieldRun(w) ==
  /\ pc[w] = "loop" /\ ~AllCompleted(mem[w])
  /\ Ready(mem[w]) # {} => att[w].executed
  /\ Leave(w)
  /\ UNCHANGED <<disk, workspace, orphans, history>>

(***************************************************************************)
(* Crashes                                                                 *)
(***************************************************************************)
\* The kernel drops the flock.  Under Bubblewrap the agent dies with its
\* parent; without a manifest there is no sandbox and the agent, started in
\* its own session, runs on.
Crash(w) ==
  /\ pc[w] # "idle" /\ crashes < MaxCrashes
  /\ crashes' = crashes + 1
  /\ orphans' = IF pc[w] = "agent" /\ ~Manifest
                THEN orphans \cup {att[w].stage} ELSE orphans
  /\ Leave(w)
  /\ UNCHANGED <<disk, workspace, launches>>

OrphanWrite(s) ==
  /\ s \in orphans
  /\ \E t \in Writable(s, {}), v \in Writes :
       output' = [output EXCEPT ![t] = v]
  /\ UNCHANGED <<disk, inputs, control, orphans, history>>

OrphanExit(s) ==
  /\ s \in orphans
  /\ orphans' = orphans \ {s}
  /\ UNCHANGED <<disk, workspace, control, history>>

(***************************************************************************)
(* Specification                                                           *)
(***************************************************************************)
\* What a controller does on its own; the agent's writes are not owed to it.
Controller(w) ==
  \/ Acquire(w) \/ InitialiseFresh(w) \/ InitialiseResume(w)
  \/ InitialiseRefuse(w) \/ BeginStage(w) \/ BeginRefuse(w) \/ Snapshot(w)
  \/ ReuseSession(w) \/ LaunchSession(w) \/ SessionRefused(w) \/ EndSession(w)
  \/ Judge(w) \/ WriteAttempt(w) \/ CommitRun(w) \/ CompleteRun(w)
  \/ YieldRun(w)

Next ==
  \/ \E w \in Workers : Controller(w) \/ AgentWrite(w) \/ Crash(w)
  \/ \E s \in Stages : OrphanWrite(s) \/ OrphanExit(s)

Spec == Init /\ [][Next]_vars

\* Some controller keeps being invoked and its steps are taken; sessions end
\* because _bounded_process enforces a deadline.  Nothing is assumed of agents.
FairSpec == Spec /\ WF_vars(\E w \in Workers : Controller(w))

(***************************************************************************)
(* Properties                                                              *)
(***************************************************************************)
LastOf(seq) == seq[Len(seq)]

\* The files and the controllers' locals have the shapes the code gives them.
TypeOK ==
  /\ run \in RunFile \cup {NoRun}
  /\ receipts \in [Stages -> Seq(Receipt)]
  /\ session \in [Stages -> SessionReceipt \cup {NoSession}]
  /\ output \in [Stages -> Output]
  /\ inputs \in Nat
  /\ lock \in Workers \cup {None}
  /\ pc \in [Workers -> PC]
  /\ mem \in [Workers -> RunFile \cup {NoRun}]
  /\ att \in [Workers -> Attempt]
  /\ orphans \subseteq Stages
  /\ launches \in [Stages -> Nat]
  /\ crashes \in Nat

\* Whatever step a controller crashed at, and whatever agents wrote, the next
\* initialise accepts the files: the persisted run passes _load_run, and what
\* _reconcile_orphan_attempts makes of it passes again.  (Sandboxed plans.)
RunAlwaysLoadable ==
  run # NoRun => Loadable(run) /\ Loadable(Reconcile(run))

\* A stage's agent is launched, and an attempt of it receipted, only after
\* every dependency has a completed receipt (ready_stages over persisted
\* state, across crashes and controllers).
DependencyOrder ==
  \A s \in Stages : launches[s] > 0 \/ receipts[s] # <<>> =>
    \A d \in DependsOn[s] :
      receipts[d] # <<>> /\ LastOf(receipts[d]).status = "completed"

\* Retry accounting: never more than max_attempts receipts, nothing is
\* attempted after success, and a stage is "failed" only when its retries are
\* used up or its last failure was unsafe to retry.
RetryAccounting ==
  \A s \in Stages :
    /\ Len(receipts[s]) <= MaxAttempts[s]
    /\ \A i \in 1..Len(receipts[s]) :
         receipts[s][i].status = "completed" => i = Len(receipts[s])
    /\ run # NoRun /\ run.st[s] = "failed" =>
         /\ LastOf(receipts[s]).status = "failed"
         /\ \/ Len(receipts[s]) = MaxAttempts[s]
            \/ ~LastOf(receipts[s]).retry_safe

\* Model liability: an agent process is started at most max_attempts times for
\* a stage, plus once for each controller crash.
LaunchesBounded ==
  \A s \in Stages : launches[s] <= MaxAttempts[s] + crashes

\* No write of factory-run.json loses progress: a completed stage stays
\* completed with the same artifact, attempts are only appended, and a terminal
\* run never changes again.
ProgressStep ==
  run # NoRun =>
    /\ run' # NoRun
    /\ run.status \in Terminal => run' = run
    /\ \A s \in Stages :
         /\ run.st[s] = "completed" =>
              run'.st[s] = "completed" /\ run'.artifact[s] = run.artifact[s]
         /\ Len(run.attempts[s]) <= Len(run'.attempts[s])
         /\ \A i \in 1..Len(run.attempts[s]) :
              run'.attempts[s][i] = run.attempts[s][i]
ProgressNeverLost == [][ProgressStep]_vars

\* The run file is terminal.
Finished == run # NoRun /\ run.status \in Terminal

\* An output that violates its contract is at the path of an unfinished stage.
Fouled ==
  run # NoRun /\ \E s \in Stages :
    run.st[s] # "completed" /\ output[s] \in {Malformed, Symlink}

\* Crash recovery: the factory ends in completion or in quarantine, unless an
\* unfinished stage stays fouled: _snapshot_outputs raises on every resume.
CrashRecovery == <>Finished \/ <>[]Fouled
=============================================================================
