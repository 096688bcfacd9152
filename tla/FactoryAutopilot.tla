--------------------------- MODULE FactoryAutopilot ---------------------------
(***************************************************************************)
(* The unattended driver of the factory (src/orbenchlab/                   *)
(* factory_autopilot.py) composed with AgenticFactory.                     *)
(*                                                                         *)
(* The autopilot calls agentic_factory.initialise itself, without the      *)
(* factory lock, to see which stage is next.  Before a barrier stage it    *)
(* obtains Harbor evidence and installs it as a trusted bundle under       *)
(* factory-input/; then it calls run_factory with max_new_stages = 1.      *)
(* That call is the worker Driver of AgenticFactory; any other worker is   *)
(* an operator's own "agent-factory run" on the same evidence root.        *)
(***************************************************************************)
EXTENDS AgenticFactory

CONSTANTS
  Driver,       \* the worker that is the autopilot's run_factory call
  BarrierOf     \* the trusted barrier a stage waits for, or None

ASSUME AutopilotAssumption ==
  /\ Driver \in Workers
  /\ DOMAIN BarrierOf = Stages

Barriers == {BarrierOf[s] : s \in Stages} \ {None}

VARIABLES
  apc,        \* control point of the autopilot process
  view,       \* factory_run as its own initialise returned it
  barriers,   \* barriers recorded in autopilot-state.json
  installed,  \* bundles present under factory-input/trusted/
  astatus     \* terminal status recorded in autopilot-state.json

autopilot == <<apc, view, barriers, installed, astatus>>
avars == <<vars, autopilot>>

APC == {"off", "top", "write", "decide", "harbor", "record", "call", "running"}

AInit ==
  /\ Init
  /\ apc = "off" /\ view = NoRun
  /\ barriers = {} /\ installed = {} /\ astatus = "active"

(***************************************************************************)
(* The autopilot loop                                                      *)
(***************************************************************************)
\* run: take .autopilot.lock and load or create the state file.
AStart ==
  /\ apc = "off" /\ pc[Driver] = "idle"
  /\ apc' = "top"
  /\ UNCHANGED <<vars, view, barriers, installed, astatus>>

\* _validate_barriers and the first half of initialise: load and reconcile.
\* A validation that fails raises out of run.
ALoad ==
  /\ apc = "top"
  /\ IF barriers \subseteq installed /\
          (run = NoRun \/ (Loadable(run) /\ ChainOK(Reconcile(run))))
     THEN /\ view' = IF run = NoRun THEN NewRun ELSE Reconcile(run)
          /\ apc' = "write"
     ELSE apc' = "off" /\ UNCHANGED view
  /\ UNCHANGED <<vars, barriers, installed, astatus>>

\* The second half of initialise: _write_run.
AWriteRun ==
  /\ apc = "write"
  /\ run' = view
  /\ apc' = "decide"
  /\ UNCHANGED <<receipts, session, workspace, control, orphans, history>>
  /\ UNCHANGED <<view, barriers, installed, astatus>>

NextBarrier == BarrierOf[FirstReady(view)]

\* A terminal run is reported; a completed one that lacks a barrier raises, and
\* so does a final summary that selects an unsafe task.
AFinish ==
  /\ apc = "decide" /\ view.status \in Terminal
  /\ \/ /\ view.status = "semantic-complete-e1" => barriers = Barriers
        /\ astatus' = view.status
     \/ UNCHANGED astatus
  /\ apc' = "off"
  /\ UNCHANGED <<vars, view, barriers, installed>>

\* Mutant: a recorded difficulty barrier is not required before its stage.
ADecideSkipsBarrier ==
  /\ apc = "decide" /\ view.status \notin Terminal
  /\ apc' = "call"
  /\ UNCHANGED <<vars, view, barriers, installed, astatus>>

ADecide ==
  /\ apc = "decide" /\ view.status \notin Terminal
  /\ apc' = IF Ready(view) = {} THEN "off"
            ELSE IF NextBarrier \in Barriers \ barriers THEN "harbor" ELSE "call"
  /\ UNCHANGED <<vars, view, barriers, installed, astatus>>

\* _ensure_baseline or _ensure_difficulty raises: Harbor failed, a receipt is
\* invalid, too many variants.
AHarborFails ==
  /\ apc = "harbor"
  /\ apc' = "off"
  /\ UNCHANGED <<vars, view, barriers, installed, astatus>>

\* install_trusted_bundle: the directory appears by os.replace and changes the
\* factory-input tree; an identical bundle found there is accepted.
AInstall ==
  /\ apc = "harbor"
  /\ installed' = installed \cup {NextBarrier}
  /\ inputs' = IF NextBarrier \in installed THEN inputs ELSE inputs + 1
  /\ apc' = "record"
  /\ UNCHANGED <<disk, output, control, orphans, history>>
  /\ UNCHANGED <<view, barriers, astatus>>

\* state["barriers"][...] = ...; _write_state
ARecordBarrier ==
  /\ apc = "record"
  /\ barriers' = barriers \cup {NextBarrier}
  /\ apc' = "call"
  /\ UNCHANGED <<vars, view, installed, astatus>>

ACall ==
  /\ apc = "call"
  /\ Acquire(Driver)
  /\ apc' = "running"
  /\ UNCHANGED <<view, barriers, installed, astatus>>

\* run_factory returned, and the loop goes on, or it raised, and run ends.
AReturn ==
  /\ apc = "running" /\ pc[Driver] = "idle"
  /\ apc' \in {"top", "off"}
  /\ UNCHANGED <<vars, view, barriers, installed, astatus>>

(***************************************************************************)
(* Composition                                                             *)
(***************************************************************************)
\* A step of run_factory.  The autopilot's call stops after one attempt.
FactoryStep(w) ==
  /\ Controller(w) \/ AgentWrite(w)
  /\ w = Driver => /\ ~(pc[w] = "idle")
                   /\ ~(pc[w] = "loop" /\ att[w].executed /\ pc'[w] = "snapshot")
  /\ UNCHANGED autopilot

\* A process dies: an operator's, or the autopilot's, inside or outside its
\* call of run_factory.
ACrash(w) ==
  /\ w = Driver => apc # "off"
  /\ IF pc[w] # "idle" THEN Crash(w)
     ELSE /\ w = Driver /\ crashes < MaxCrashes /\ crashes' = crashes + 1
          /\ UNCHANGED <<disk, workspace, control, orphans, launches>>
  /\ apc' = IF w = Driver THEN "off" ELSE apc
  /\ UNCHANGED <<view, barriers, installed, astatus>>

AgentsLeftBehind(s) == (OrphanWrite(s) \/ OrphanExit(s)) /\ UNCHANGED autopilot

ANext ==
  \/ AStart \/ ALoad \/ AWriteRun \/ AFinish \/ ADecide \/ AHarborFails
  \/ AInstall \/ ARecordBarrier \/ ACall \/ AReturn
  \/ \E w \in Workers : FactoryStep(w) \/ ACrash(w)
  \/ \E s \in Stages : AgentsLeftBehind(s)

ASpec == AInit /\ [][ANext]_avars

(***************************************************************************)
(* Properties                                                              *)
(***************************************************************************)
\* The autopilot's variables have the shapes run gives them.
ATypeOK ==
  /\ TypeOK
  /\ apc \in APC
  /\ view \in RunFile \cup {NoRun}
  /\ barriers \subseteq Barriers /\ installed \subseteq Barriers
  /\ astatus \in RunStatus

\* An agent of a barrier stage is started only when the barrier's evidence is
\* installed and recorded, across crashes between the two.
BarrierBeforeStage ==
  ATypeOK /\ \A s \in Stages : launches[s] > 0 /\ BarrierOf[s] # None =>
    BarrierOf[s] \in barriers /\ BarrierOf[s] \in installed

\* No write of factory-run.json, by the autopilot or by run_factory, loses
\* progress.
AProgressNeverLost == [][ProgressStep]_avars
=============================================================================
