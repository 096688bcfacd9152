-------------------------- MODULE FactorySupervisor --------------------------
(***************************************************************************)
(* The unattended control plane that follows a completed agent factory     *)
(* (src/orbenchlab/factory_supervisor.py: run; factory_finalize.py:        *)
(* build_receipt).  One pass walks the stages static, semantic, harbor,    *)
(* calibration, cards and finalize; every stage leaves one receipt file,   *)
(* which a later pass reuses, and supervisor-state.json holds the digest   *)
(* and the reserved attempts of each stage.                                *)
(*                                                                         *)
(* The flock on the output root serialises passes, so one control point    *)
(* stands for all invocations.  A builtin worker is forked, inherits the   *)
(* locked file descriptor and keeps the lock if the supervisor dies; an    *)
(* adapter is a separate program that outlives a crash without the lock;   *)
(* the Harbor launcher runs inside the supervisor and dies with it.        *)
(*                                                                         *)
(* Data abstraction: a receipt is the attempt that wrote it and whether it *)
(* is torn (its non-atomic write was cut), passes its gate, or does not;   *)
(* its digest is that content.                                             *)
(***************************************************************************)
EXTENDS Naturals, FiniteSets

CONSTANTS
  Configurations,       \* how the external stages may be executed
  MaxExternalAttempts,  \* max_external_attempts
  MaxCrashes,           \* bound on supervisor crashes
  None                  \* null value

External == {"semantic", "harbor", "calibration"}
Stage    == {"static"} \cup External

ASSUME SupervisorAssumption ==
  /\ Configurations \subseteq [External -> {"builtin", "adapter", "launcher"}]
  /\ MaxExternalAttempts \in 1..5
  /\ MaxCrashes \in Nat

VARIABLES
  how,       \* how each external stage is executed, fixed by identity_digest
  file,      \* receipt file of each stage
  cards,     \* cards/task-cards.json
  final,     \* final/factory-finalization.json
  state,     \* supervisor-state.json: attempts and output_digest of each stage
  cardsRec,  \* supervisor-state.json: output_digest of the cards
  pc,        \* control point of the pass
  at,        \* its current stage
  passed,    \* static_passed, then semantic_passed
  result,    \* how the attached worker ended
  procs,     \* live workers, attached or left behind
  launches,  \* history: workers ever started for each external stage
  ended,     \* history: whether some pass returned
  crashes    \* history: supervisor crashes

files   == <<file, cards, final>>
saved   == <<how, state, cardsRec>>
local   == <<pc, at, passed, result>>
history == <<launches, ended, crashes>>
vars    == <<files, saved, local, procs, history>>

Content   == [n : 0..MaxExternalAttempts, q : {"torn", "good", "bad"}]
NoRecord  == [attempts |-> 0, digest |-> None]
Cards     == [whole : BOOLEAN, harbor : Content \cup {None},
              calibration : Content \cup {None}]
Worker    == [stage : External, n : 1..MaxExternalAttempts,
              phase : {"working", "writing", "wrote"}]
Final     == [promoted : BOOLEAN, bound : [Stage -> Content \cup {None}]]
PC == {"idle", "stage", "write", "launch", "wait", "read", "cards", "bind",
       "final", "finish"}

\* A missing file is no content.
ASSUME NoneAssumption == None \notin Content \cup Cards \cup Final

Init ==
  /\ how \in Configurations
  /\ file = [s \in Stage |-> None] /\ cards = None /\ final = None
  /\ state = [s \in Stage |-> NoRecord] /\ cardsRec = None
  /\ pc = "idle" /\ at = "static" /\ passed = TRUE /\ result = "none"
  /\ procs = {}
  /\ launches = [s \in External |-> 0] /\ ended = FALSE /\ crashes = 0

\* run returns, raises or crashes; what it knew is gone.
Leave == pc' = "idle" /\ at' = "static" /\ passed' = TRUE /\ result' = "none"

\* The statements after stage s: the gate is read after static and semantic.
After(s) ==
  /\ result' = "none"
  /\ CASE s \in {"static", "semantic"} -> pc' = "read" /\ UNCHANGED at
       [] s = "harbor" -> pc' = "stage" /\ at' = "calibration"
       [] s = "calibration" -> pc' = "cards" /\ UNCHANGED at

(***************************************************************************)
(* A pass                                                                  *)
(***************************************************************************)
\* Mutant: a forked worker does not keep the lock.
LockHeldNever == FALSE

\* The flock lives as long as some process has the descriptor open.
LockHeld == \E p \in procs : how[p.stage] = "builtin"

Start ==
  /\ pc = "idle" /\ ~LockHeld
  /\ pc' = "stage"
  /\ UNCHANGED <<files, saved, at, passed, result, procs, history>>

\* write_receipt of the static review is a plain write_text.
StaticWrite ==
  /\ pc = "stage" /\ at = "static" /\ file["static"] = None
  /\ file' = [file EXCEPT !["static"] = [n |-> 0, q |-> "torn"]]
  /\ pc' = "write"
  /\ UNCHANGED <<cards, final, saved, at, passed, result, procs, history>>

StaticDone ==
  /\ pc = "write"
  /\ \E q \in {"good", "bad"} :
       /\ file' = [file EXCEPT !["static"] = [n |-> 0, q |-> q]]
       /\ state' = [state EXCEPT !["static"].digest = [n |-> 0, q |-> q]]
  /\ After("static")
  /\ UNCHANGED <<cards, final, how, cardsRec, passed, procs, history>>

\* reuse: the digest, if one was recorded, must be that of the file.
Reuse ==
  /\ pc = "stage" /\ file[at] # None
  /\ IF state[at].digest \in {None, file[at]}
     THEN /\ state' = [state EXCEPT ![at].digest = file[at]]
          /\ After(at) /\ UNCHANGED passed
     ELSE Leave /\ UNCHANGED state
  /\ UNCHANGED <<files, how, cardsRec, procs, history>>

\* json.loads of the static or semantic receipt; a torn one raises.
Read ==
  /\ pc = "read"
  /\ IF file[at] # None /\ file[at].q = "torn"
     THEN Leave
     ELSE /\ passed' = (file[at] # None /\ file[at].q = "good")
          /\ at' = IF at = "static" THEN "semantic" ELSE "harbor"
          /\ pc' = "stage" /\ UNCHANGED result
  /\ UNCHANGED <<files, saved, procs, history>>

Due == pc = "stage" /\ at \in External /\ file[at] = None

\* upstream_static_blocked, upstream_semantic_blocked: the new record carries
\* no attempts.
Blocked ==
  /\ Due /\ ~passed
  /\ state' = [state EXCEPT ![at] = NoRecord]
  /\ After(at)
  /\ UNCHANGED <<files, how, cardsRec, passed, procs, history>>

\* Mutant: the exhausted record starts a new list of attempts.
RecordExhaustedFresh ==
  /\ Due /\ passed /\ state[at].attempts >= MaxExternalAttempts
  /\ state' = [state EXCEPT ![at] = NoRecord]
  /\ After(at)
  /\ UNCHANGED <<files, how, cardsRec, passed, procs, history>>

\* Mutant: the attempt cap raises, as it does inside reserve_attempt.
RecordExhaustedRaises ==
  /\ Due /\ passed /\ state[at].attempts >= MaxExternalAttempts
  /\ Leave
  /\ UNCHANGED <<files, saved, procs, history>>

\* record_exhausted
RecordExhausted ==
  /\ Due /\ passed /\ state[at].attempts >= MaxExternalAttempts
  /\ state' = [state EXCEPT ![at].digest = None]
  /\ After(at)
  /\ UNCHANGED <<files, how, cardsRec, passed, procs, history>>

\* reserve_attempt: charged in the state file before anything starts.
ReserveAttempt ==
  /\ Due /\ passed /\ state[at].attempts < MaxExternalAttempts
  /\ state' = [state EXCEPT ![at] = [attempts |-> @.attempts + 1, digest |-> None]]
  /\ pc' = "launch"
  /\ UNCHANGED <<files, how, cardsRec, at, passed, result, procs, history>>

\* _run_builtin_process, _command or launch_controls begins.
Launch ==
  /\ pc = "launch"
  /\ procs' = procs \cup
       {[stage |-> at, n |-> state[at].attempts, phase |-> "working"]}
  /\ launches' = [launches EXCEPT ![at] = @ + 1]
  /\ pc' = "wait"
  /\ UNCHANGED <<files, saved, at, passed, result, ended, crashes>>

\* An adapter that is not configured, or Harbor inputs that are missing: the
\* reserved attempt is blocked without a process.
LaunchMissing ==
  /\ pc = "launch" /\ how[at] = "adapter"
  /\ result' = "failed" /\ pc' = "wait"
  /\ UNCHANGED <<files, saved, at, passed, procs, history>>

Attached(p) == pc = "wait" /\ p.stage = at /\ p.n = state[at].attempts

\* The whole-stage deadline kills the worker.
Timeout(p) ==
  /\ Attached(p)
  /\ procs' = procs \ {p} /\ result' = "failed"
  /\ UNCHANGED <<files, saved, pc, at, passed, history>>

\* launch_controls raises something other than HarborLauncherError.
LauncherRaises(p) ==
  /\ Attached(p) /\ how[at] = "launcher"
  /\ procs' = procs \ {p} /\ Leave
  /\ UNCHANGED <<files, saved, history>>

\* complete_attempt: a builtin's digest is recorded only if it succeeded,
\* another's whenever its receipt is there.
CompleteAttempt ==
  /\ pc = "wait" /\ result # "none"
  /\ state' = [state EXCEPT ![at].digest =
       IF how[at] = "builtin" /\ result = "failed" THEN None ELSE file[at]]
  /\ After(at)
  /\ UNCHANGED <<files, how, cardsRec, passed, procs, history>>

\* pipeline.run over the evidence that exists now; it parses that evidence and
\* writes the cards with write_text.
CardsWrite ==
  /\ pc = "cards" /\ cards = None
  /\ IF \E s \in {"harbor", "calibration"} : file[s] # None /\ file[s].q = "torn"
     THEN Leave /\ UNCHANGED cards
     ELSE /\ cards' = [whole |-> FALSE, harbor |-> file["harbor"],
                       calibration |-> file["calibration"]]
          /\ pc' = "bind" /\ UNCHANGED <<at, passed, result>>
  /\ UNCHANGED <<file, final, saved, procs, history>>

CardsDone ==
  /\ pc = "bind"
  /\ cards' = [cards EXCEPT !.whole = TRUE]
  /\ cardsRec' = cards'
  /\ pc' = "final"
  /\ UNCHANGED <<file, final, how, state, at, passed, result, procs, history>>

CardsReuse ==
  /\ pc = "cards" /\ cards # None
  /\ IF cardsRec \in {None, cards}
     THEN cardsRec' = cards /\ pc' = "final" /\ UNCHANGED <<at, passed, result>>
     ELSE Leave /\ UNCHANGED cardsRec
  /\ UNCHANGED <<files, how, state, procs, history>>

\* Mutant: the summary gate does not compare the evidence digests.
PromotableUnbound ==
  /\ \A s \in Stage : file[s] # None /\ file[s].q = "good"
  /\ cards # None /\ cards.whole

\* build_receipt: every gate passes, and the cards bind this Harbor receipt and
\* this calibration report.
Promotable ==
  /\ \A s \in Stage : file[s] # None /\ file[s].q = "good"
  /\ cards # None /\ cards.whole
  /\ cards.harbor = file["harbor"] /\ cards.calibration = file["calibration"]

Finalize ==
  /\ pc = "final"
  /\ final' = [promoted |-> Promotable, bound |-> file]
  /\ pc' = "finish"
  /\ UNCHANGED <<file, cards, saved, at, passed, result, procs, history>>

Finish ==
  /\ pc = "finish"
  /\ ended' = TRUE
  /\ Leave
  /\ UNCHANGED <<files, saved, procs, launches, crashes>>

(***************************************************************************)
(* Workers and crashes                                                     *)
(***************************************************************************)
\* A worker opens its receipt for writing (write_text truncates), completes it
\* and ends; it may end early at any point.
WorkerOpen(p) ==
  /\ p.phase = "working"
  /\ procs' = (procs \ {p}) \cup {[p EXCEPT !.phase = "writing"]}
  /\ file' = [file EXCEPT ![p.stage] = [n |-> p.n, q |-> "torn"]]
  /\ UNCHANGED <<cards, final, saved, local, history>>

WorkerWrite(p) ==
  /\ p.phase = "writing"
  /\ procs' = (procs \ {p}) \cup {[p EXCEPT !.phase = "wrote"]}
  /\ \E q \in {"good", "bad"} :
       file' = [file EXCEPT ![p.stage] = [n |-> p.n, q |-> q]]
  /\ UNCHANGED <<cards, final, saved, local, history>>

\* An adapter may also exit 0 without a receipt.
WorkerExit(p) ==
  /\ procs' = procs \ {p}
  /\ \E r \in {"ok", "failed"} :
       /\ r = "ok" => \/ p.phase = "wrote"
                      \/ p.phase = "working" /\ how[p.stage] = "adapter"
       /\ result' = IF Attached(p) THEN r ELSE result
  /\ UNCHANGED <<files, saved, pc, at, passed, history>>

Crash ==
  /\ pc # "idle" /\ crashes < MaxCrashes
  /\ crashes' = crashes + 1
  /\ procs' = {p \in procs : how[p.stage] # "launcher"}
  /\ Leave
  /\ UNCHANGED <<files, saved, launches, ended>>

(***************************************************************************)
(* Specification                                                           *)
(***************************************************************************)
Supervisor ==
  \/ Start \/ StaticWrite \/ StaticDone \/ Reuse \/ Read \/ Blocked
  \/ RecordExhausted \/ ReserveAttempt \/ Launch \/ LaunchMissing
  \/ CompleteAttempt \/ CardsWrite \/ CardsDone \/ CardsReuse \/ Finalize
  \/ Finish

Next ==
  \/ Supervisor \/ Crash
  \/ \E p \in procs :
       \/ Timeout(p) \/ LauncherRaises(p)
       \/ WorkerOpen(p) \/ WorkerWrite(p) \/ WorkerExit(p)

Spec == Init /\ [][Next]_vars

\* Passes keep being started and take their steps, and workers end: an attached
\* one at the whole-stage deadline, one left behind by its own request timeouts.
FairSpec ==
  /\ Spec /\ WF_vars(Supervisor)
  /\ WF_vars(\E p \in procs : WorkerExit(p))

(***************************************************************************)
(* Properties                                                              *)
(***************************************************************************)
\* The files, the state file and the locals have the shapes the code gives them.
TypeOK ==
  /\ how \in Configurations
  /\ file \in [Stage -> Content \cup {None}]
  /\ cards \in Cards \cup {None} /\ cardsRec \in Cards \cup {None}
  /\ final \in Final \cup {None}
  /\ state \in [Stage -> [attempts : 0..MaxExternalAttempts,
                          digest : Content \cup {None}]]
  /\ pc \in PC /\ at \in Stage /\ passed \in BOOLEAN
  /\ result \in {"none", "ok", "failed"}
  /\ procs \subseteq Worker
  /\ launches \in [External -> Nat]
  /\ ended \in BOOLEAN /\ crashes \in Nat

\* No adapter program: nothing writes receipts without holding the lock.
Serialised == \A s \in External : how[s] # "adapter"

\* Provider liability: whatever crashes, a stage's worker is never started more
\* often than max_external_attempts, and without adapters the persisted budget
\* debits every worker ever started (provider_budget_status counts the attempts
\* of the state file), so recovery restores no budget.
LiabilityCapped ==
  TypeOK /\ \A s \in External :
    /\ launches[s] <= MaxExternalAttempts
    /\ Serialised => launches[s] <= state[s].attempts

\* A promoted finalization binds four passing receipts, the ones on disk, and
\* task cards built from the same Harbor and calibration evidence.
PromotionSound ==
  Serialised /\ final # None /\ final.promoted =>
    /\ \A s \in Stage : final.bound[s] = file[s] /\ file[s].q = "good"
    /\ cards.whole /\ cards.harbor = file["harbor"]
    /\ cards.calibration = file["calibration"]

\* Promotion is stable: no later pass, resumed or crashed, takes it back.
PromotionStable ==
  [][Serialised /\ final # None /\ final.promoted =>
       final' # None /\ final'.promoted]_vars

\* A crash or a kill has left a receipt half written.
Torn == \/ \E s \in Stage : file[s] # None /\ file[s].q = "torn"
        \/ cards # None /\ ~cards.whole

\* Adapters that outlive a crash have changed a receipt after it was recorded.
Overwritten == \E s \in Stage : state[s].digest \notin {None, file[s]}

\* Some pass returns, unless a receipt stays half written, which json.loads
\* refuses, or stays different from its record, which reuse refuses.
Resumable == <>ended \/ <>[]Torn \/ <>[]Overwritten
=============================================================================
