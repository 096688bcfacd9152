----------------------- MODULE FactorySupervisorProofs -----------------------
(***************************************************************************)
(* Proofs about FactorySupervisor, for every configuration of the external *)
(* stages, every max_external_attempts and any number of crashes.          *)
(*                                                                         *)
(* Without adapters the lock serialises everything: a worker is alone with *)
(* its receipt, a passing receipt is final, and so is a promotion.         *)
(*                                                                         *)
(* With adapters a semantic receipt can change between its reuse and its   *)
(* reading, a gate can fall, and upstream_semantic_blocked then drops the  *)
(* attempts of a later stage.  That the cap on starts holds nevertheless   *)
(* rests on the recorded digest: every worker writes its own content, so   *)
(* an overwritten receipt never has the recorded digest again, and reuse   *)
(* lets no later pass beyond it.                                           *)
(***************************************************************************)
EXTENDS FactorySupervisor, TLAPS

Good(s) == file[s] # None /\ file[s].q = "good"

\* What each control point knows.
Control ==
  /\ pc = "idle" => at = "static"
  /\ pc = "write" =>
       at = "static" /\ file["static"] # None /\ file["static"].q = "torn"
  /\ pc = "read" => at \in {"static", "semantic"}
  /\ pc \in {"launch", "wait"} =>
       /\ at \in External /\ passed
       /\ state[at].attempts >= 1 /\ state[at].digest = None
  /\ pc \in {"cards", "bind", "final", "finish"} => at = "calibration"
  /\ pc = "bind" => cards # None
  /\ result # "none" => pc = "wait"

\* The static receipt is final once it is complete; the semantic stage runs
\* only behind a passing one and every run of it is debited.
SemanticInv ==
  /\ at = "semantic" /\ pc \in {"stage", "launch", "wait"} =>
       (passed <=> Good("static"))
  /\ state["semantic"].attempts > 0 => Good("static")
  /\ launches["semantic"] <= state["semantic"].attempts
  /\ pc = "launch" /\ at = "semantic" =>
       launches["semantic"] < state["semantic"].attempts

\* Semantic workers have numbers of their own, and one that has still to write
\* has left no content that is complete, on disk or in the record.
NumberInv ==
  LET A == state["semantic"].attempts
      F == file["semantic"]
      D == state["semantic"].digest
  IN
  /\ F # None => F.n \in 1..A
  /\ D # None => F # None
  /\ \A p \in procs : p.stage = "semantic" =>
       /\ p.n <= A
       /\ pc = "launch" /\ at = "semantic" => p.n < A
       /\ p.phase = "working" =>
            (F # None => F.n # p.n) /\ (D # None => D.n # p.n)
       /\ p.phase = "writing" =>
            /\ F # None /\ F.n = p.n => F.q = "torn"
            /\ D # None /\ D.n = p.n => D.q = "torn"
       /\ \A q \in procs : q.stage = "semantic" /\ q.n = p.n => p = q
  /\ pc = "launch" /\ at = "semantic" => (F # None => F.n < A)

\* The recorded digest is that of the semantic receipt.
Fresh == /\ state["semantic"].digest # None
         /\ file["semantic"] = state["semantic"].digest

Gated == at \in {"harbor", "calibration"}

\* This pass may still start a worker of stage s.
Pending(s) == \/ at = s /\ pc \in {"stage", "launch"}
              \/ at = "harbor" /\ s = "calibration"

\* The semantic receipt of this pass has been accepted, its gate not yet read.
Reading == at = "semantic" /\ pc = "read"

\* The gate that a pass goes by, as far as the record explains it.
GateInv ==
  LET F == file["semantic"]
      D == state["semantic"].digest
  IN
  /\ Gated /\ Fresh => (passed <=> D.q = "good")
  /\ Gated /\ passed /\ D = None =>
       F # None /\ (F.q = "good" \/ state["semantic"].attempts >= 2)

\* Before the semantic receipt is recorded a later stage starts once; while a
\* passing record is fresh its starts are debited; behind another record it
\* starts once more at most.
CapInv(s) ==
  LET A == state["semantic"].attempts
      F == file["semantic"]
      D == state["semantic"].digest
      L == launches[s]
      a == state[s].attempts
  IN
  /\ L <= MaxExternalAttempts
  /\ L > 0 => F # None
  /\ D = None =>
       /\ L <= 1 /\ L <= a
       /\ L = 1 => F.q = "good" \/ A >= 2
       /\ (at = "semantic" /\ pc \in {"launch", "wait", "read"}) \/ Pending(s) =>
            L = 0
  /\ D # None /\ (Fresh \/ Reading \/ Pending(s)) =>
       IF D.q = "good"
       THEN L <= a /\ (pc = "launch" /\ at = s => L < a)
       ELSE L <= 1 /\ (L = 1 => MaxExternalAttempts >= 2)

(***************************************************************************)
(* Without adapters                                                        *)
(***************************************************************************)
\* There is one worker at most: the attached one, or a builtin that keeps the
\* lock; it alone writes its receipt, which was not there.
SoloInv ==
  /\ \A p, q \in procs : p = q
  /\ \A p \in procs :
       /\ \/ pc = "idle" /\ how[p.stage] = "builtin"
          \/ pc = "wait" /\ at = p.stage /\ p.n = state[at].attempts
             /\ result = "none"
       /\ p.phase = "working" => file[p.stage] = None
       /\ p.phase = "writing" => file[p.stage] # None /\ file[p.stage].q = "torn"
  /\ pc = "launch" => file[at] = None

\* The gate stands, and every start behind it is debited.
DebitInv(s) ==
  /\ launches[s] > 0 => Good("semantic")
  /\ launches[s] <= state[s].attempts
  /\ pc = "launch" /\ at = s => launches[s] < state[s].attempts

\* The gate of the semantic stage stands, and starts behind it are debited.
StandInv ==
  /\ Gated /\ pc \in {"stage", "launch", "wait"} => (passed <=> Good("semantic"))
  /\ \A s \in {"harbor", "calibration"} : DebitInv(s)

Promoted == final # None /\ final.promoted

\* A promotion rests on what is on disk.
SerialInv ==
  /\ SoloInv /\ StandInv
  /\ Promoted => Promotable /\ final.bound = file

IndInv ==
  /\ TypeOK /\ Control /\ SemanticInv /\ NumberInv /\ GateInv
  /\ \A s \in {"harbor", "calibration"} : CapInv(s)
  /\ Serialised => SerialInv

(***************************************************************************)
(* Types                                                                   *)
(***************************************************************************)
\* Where the statements after a stage lead.
LEMMA AfterLeads ==
  ASSUME NEW s \in Stage, After(s)
  PROVE  /\ result' = "none"
         /\ s \in {"static", "semantic"} => pc' = "read" /\ at' = at
         /\ s = "harbor" => pc' = "stage" /\ at' = "calibration"
         /\ s = "calibration" => pc' = "cards" /\ at' = at
BY DEF After, Stage, External

\* Its results are in the types.
LEMMA AfterTyped ==
  ASSUME TypeOK, NEW s \in Stage, After(s)
  PROVE  pc' \in PC /\ at' \in Stage /\ result' \in {"none", "ok", "failed"}
BY AfterLeads DEF TypeOK, PC, Stage, External

LEMMA LeaveTyped ==
  ASSUME Leave
  PROVE  /\ pc' \in PC /\ at' \in Stage /\ passed' \in BOOLEAN
         /\ result' \in {"none", "ok", "failed"}
BY DEF Leave, PC, Stage

\* The cards that a pass writes.
LEMMA CardsTyped ==
  ASSUME TypeOK
  PROVE  [whole |-> FALSE, harbor |-> file["harbor"],
          calibration |-> file["calibration"]] \in Cards
BY DEF Cards, TypeOK, Stage, External

\* Every step of a pass keeps the types.
LEMMA TypeSupervisor ==
  ASSUME TypeOK, Control, Supervisor
  PROVE  TypeOK'
<1> USE SupervisorAssumption
<1>0. MaxExternalAttempts \in Nat /\ 0 \in 0..MaxExternalAttempts
  OBVIOUS
<1>1. CASE Start
  BY <1>1 DEF Start, TypeOK, PC, files, saved, history
<1>2. CASE StaticWrite
  BY <1>0, <1>2 DEF StaticWrite, TypeOK, PC, Content, Stage, saved, history
<1>3. CASE StaticDone
  <2>1. PICK q \in {"good", "bad"} :
          /\ file' = [file EXCEPT !["static"] = [n |-> 0, q |-> q]]
          /\ state' = [state EXCEPT !["static"].digest = [n |-> 0, q |-> q]]
    BY <1>3 DEF StaticDone
  <2>2. [n |-> 0, q |-> q] \in Content
    BY <1>0 DEF Content
  <2> QED  BY <1>3, <2>1, <2>2, AfterTyped DEF StaticDone, TypeOK, Stage, history
<1>4. CASE Reuse
  BY <1>4, AfterTyped, LeaveTyped DEF Reuse, TypeOK, files, history
<1>5. CASE Read
  BY <1>5, LeaveTyped DEF Read, TypeOK, PC, Stage, External, files, saved, history
<1>6. CASE Blocked
  BY <1>0, <1>6, AfterTyped
  DEF Blocked, Due, NoRecord, TypeOK, files, history
<1>7. CASE RecordExhausted
  BY <1>7, AfterTyped DEF RecordExhausted, Due, TypeOK, files, history
<1>8. CASE ReserveAttempt
  <2>1. state[at].attempts + 1 \in 0..MaxExternalAttempts
    BY <1>8 DEF ReserveAttempt, TypeOK
  <2> QED
    BY <1>8, <2>1 DEF ReserveAttempt, TypeOK, PC, files, history
<1>9. CASE Launch
  <2>1. at \in External /\ state[at].attempts \in 1..MaxExternalAttempts
    BY <1>9 DEF Launch, Control, TypeOK
  <2>2. [stage |-> at, n |-> state[at].attempts, phase |-> "working"] \in Worker
    BY <2>1 DEF Worker
  <2>3. launches' \in [External -> Nat]
    BY <1>9, <2>1 DEF Launch, TypeOK
  <2> QED
    BY <1>9, <2>2, <2>3 DEF Launch, TypeOK, PC, files, saved
<1>10. CASE LaunchMissing
  BY <1>10 DEF LaunchMissing, TypeOK, PC, files, saved, history
<1>11. CASE CompleteAttempt
  BY <1>11, AfterTyped DEF CompleteAttempt, TypeOK, files, history
<1>12. CASE CardsWrite
  <2> QED
    BY <1>12, CardsTyped, LeaveTyped DEF CardsWrite, TypeOK, PC, saved, history
<1>13. CASE CardsDone
  <2>1. cards \in Cards
    BY <1>13 DEF CardsDone, Control, TypeOK
  <2>2. cards' \in Cards
    BY <1>13, <2>1 DEF CardsDone, Cards
  <2> QED  BY <1>13, <2>2 DEF CardsDone, TypeOK, PC, history
<1>14. CASE CardsReuse
  BY <1>14, LeaveTyped DEF CardsReuse, TypeOK, PC, files, history
<1>15. CASE Finalize
  <2>1. final' \in Final
    BY <1>15 DEF Finalize, Final, Promotable, TypeOK
  <2> QED  BY <1>15, <2>1 DEF Finalize, TypeOK, PC, saved, history
<1>16. CASE Finish
  BY <1>16, LeaveTyped DEF Finish, TypeOK, files, saved
<1> QED
  BY <1>1, <1>2, <1>3, <1>4, <1>5, <1>6, <1>7, <1>8, <1>9, <1>10, <1>11,
     <1>12, <1>13, <1>14, <1>15, <1>16 DEF Supervisor

\* So does every step of a worker and every crash.
WorkerStep(p) ==
  \/ Timeout(p) \/ LauncherRaises(p)
  \/ WorkerOpen(p) \/ WorkerWrite(p) \/ WorkerExit(p)

LEMMA TypeWorker ==
  ASSUME TypeOK, NEW p \in procs, WorkerStep(p)
  PROVE  TypeOK'
<1>0. p \in Worker /\ p.n \in 0..MaxExternalAttempts /\ p.stage \in Stage
  BY SupervisorAssumption DEF TypeOK, Worker, Stage
<1>1. CASE Timeout(p)
  BY <1>1 DEF Timeout, TypeOK, files, saved, history
<1>2. CASE LauncherRaises(p)
  BY <1>2, LeaveTyped DEF LauncherRaises, TypeOK, files, saved, history
<1>3. CASE WorkerOpen(p)
  <2>1. [p EXCEPT !.phase = "writing"] \in Worker
    BY <1>0 DEF Worker
  <2>2. [n |-> p.n, q |-> "torn"] \in Content
    BY <1>0 DEF Content
  <2> QED
    BY <1>0, <1>3, <2>1, <2>2 DEF WorkerOpen, TypeOK, saved, local, history
<1>4. CASE WorkerWrite(p)
  <2>1. [p EXCEPT !.phase = "wrote"] \in Worker
    BY <1>0 DEF Worker
  <2>2. \A q \in {"good", "bad"} : [n |-> p.n, q |-> q] \in Content
    BY <1>0 DEF Content
  <2> QED
    BY <1>0, <1>4, <2>1, <2>2 DEF WorkerWrite, TypeOK, saved, local, history
<1>5. CASE WorkerExit(p)
  BY <1>5 DEF WorkerExit, TypeOK, files, saved, history
<1> QED  BY <1>1, <1>2, <1>3, <1>4, <1>5 DEF WorkerStep

LEMMA TypeCrash ==
  ASSUME TypeOK, Crash
  PROVE  TypeOK'
BY LeaveTyped DEF Crash, TypeOK, files, saved

(***************************************************************************)
(* Control, the static gate and the numbers of semantic workers            *)
(***************************************************************************)
\* What the control points know stays true.
LEMMA ControlSupervisor ==
  ASSUME TypeOK, Control, Supervisor
  PROVE  Control'
<1> USE DEF Control
<1>1. CASE Start \/ Finalize \/ CardsDone
  BY <1>1 DEF Start, Finalize, CardsDone, files, saved
<1>11. CASE StaticWrite
  <2>1. [n |-> 0, q |-> "torn"] # None
    BY NoneAssumption, SupervisorAssumption DEF Content
  <2> QED  BY <1>11, <2>1 DEF StaticWrite, TypeOK, Stage, saved
<1>2. CASE StaticDone
  BY <1>2, AfterLeads DEF StaticDone, Stage
<1>3. CASE Reuse
  BY <1>3, AfterLeads DEF Reuse, Leave, TypeOK, Stage, External
<1>4. CASE Read
  BY <1>4 DEF Read, Leave
<1>5. CASE Blocked \/ RecordExhausted
  BY <1>5, AfterLeads DEF Blocked, RecordExhausted, Due, Stage, External
<1>6. CASE ReserveAttempt
  BY <1>6 DEF ReserveAttempt, Due, TypeOK, Stage, External
<1>7. CASE Launch \/ LaunchMissing
  BY <1>7 DEF Launch, LaunchMissing, files, saved
<1>8. CASE CompleteAttempt
  BY <1>8, AfterLeads DEF CompleteAttempt, Stage, External
<1>9. CASE CardsWrite
  <2>1. [whole |-> FALSE, harbor |-> file["harbor"],
         calibration |-> file["calibration"]] # None
    BY CardsTyped, NoneAssumption
  <2> QED  BY <1>9, <2>1 DEF CardsWrite, Leave
<1>10. CASE CardsReuse \/ Finish
  BY <1>10 DEF CardsReuse, Finish, Leave
<1> QED
  BY <1>1, <1>2, <1>3, <1>4, <1>5, <1>6, <1>7, <1>8, <1>9, <1>10, <1>11
  DEF Supervisor

LEMMA ControlWorker ==
  ASSUME TypeOK, Control, NEW p \in procs, WorkerStep(p)
  PROVE  Control'
<1>1. p.stage \in External
  BY DEF TypeOK, Worker
<1>2. CASE Timeout(p) \/ WorkerExit(p)
  BY <1>2 DEF Timeout, WorkerExit, Attached, Control, files, saved
<1>3. CASE LauncherRaises(p)
  BY <1>3 DEF LauncherRaises, Leave, Control
<1>4. CASE WorkerOpen(p) \/ WorkerWrite(p)
  BY <1>1, <1>4 DEF WorkerOpen, WorkerWrite, Control, TypeOK, saved, local, External, Stage
<1> QED  BY <1>2, <1>3, <1>4 DEF WorkerStep

LEMMA ControlCrash ==
  ASSUME Control, Crash
  PROVE  Control'
BY DEF Crash, Leave, Control

\* The semantic stage stays behind its gate, and debited.
LEMMA SemanticSupervisor ==
  ASSUME TypeOK, Control, SemanticInv, Supervisor
  PROVE  SemanticInv'
<1> USE DEF SemanticInv, Good
<1>0. /\ launches["semantic"] \in Nat /\ state["semantic"].attempts \in Nat
      /\ DOMAIN state = Stage /\ DOMAIN file = Stage /\ DOMAIN launches = External
      /\ \A s \in Stage : DOMAIN state[s] = {"attempts", "digest"}
  BY SupervisorAssumption DEF TypeOK, Stage, External
<1>1. CASE Start \/ Finalize \/ CardsDone \/ CardsWrite \/ CardsReuse \/ Finish
  BY <1>1 DEF Start, Finalize, CardsDone, CardsWrite, CardsReuse, Finish, Leave,
    Control, files, saved, history
<1>2. CASE StaticWrite
  BY <1>0, <1>2 DEF StaticWrite, saved, history, Stage, External
<1>3. CASE StaticDone
  BY <1>0, <1>3, AfterLeads DEF StaticDone, Control, history, Stage, External
<1>4. CASE Reuse
  BY <1>0, <1>4, AfterLeads DEF Reuse, Leave, Control, TypeOK, files, history, Stage, External
<1>5. CASE Read
  BY <1>5 DEF Read, Leave, Control, files, saved, history
<1>6. CASE Blocked
  <2>1. CASE at = "semantic"
    <3>1. /\ launches["semantic"] = 0 /\ state["semantic"].attempts = 0
          /\ state'["semantic"].attempts = 0
      BY <1>0, <1>6, <2>1 DEF Blocked, Due, NoRecord, Stage, External
    <3> QED
      BY <1>6, <2>1, <3>1, AfterLeads DEF Blocked, files, history, Stage, External
  <2>2. CASE at # "semantic"
    <3>1. state'["semantic"] = state["semantic"]
      BY <1>0, <1>6, <2>2 DEF Blocked
    <3> QED
      BY <1>6, <2>2, <3>1, AfterLeads
      DEF Blocked, Due, files, history, Stage, External
  <2> QED  BY <2>1, <2>2
<1>7. CASE RecordExhausted
  BY <1>0, <1>7, AfterLeads DEF RecordExhausted, Due, files, history, Stage, External
<1>8. CASE ReserveAttempt
  <2>1. CASE at = "semantic"
    <3>1. state'["semantic"].attempts = state["semantic"].attempts + 1
      BY <1>0, <1>8, <2>1 DEF ReserveAttempt, Stage, External
    <3> QED
      BY <1>0, <1>8, <2>1, <3>1 DEF ReserveAttempt, Due, files, history
  <2>2. CASE at # "semantic"
    BY <1>0, <1>8, <2>2 DEF ReserveAttempt, files, history
  <2> QED  BY <2>1, <2>2
<1>9. CASE Launch
  <2>1. CASE at = "semantic"
    <3>1. launches'["semantic"] = launches["semantic"] + 1
      BY <1>0, <1>9, <2>1 DEF Launch, External
    <3> QED
      BY <1>0, <1>9, <2>1, <3>1 DEF Launch, Control, files, saved
  <2>2. CASE at # "semantic"
    BY <1>0, <1>9, <2>2 DEF Launch, Control, files, saved
  <2> QED  BY <2>1, <2>2
<1>10. CASE LaunchMissing
  BY <1>10 DEF LaunchMissing, Control, files, saved, history
<1>11. CASE CompleteAttempt
  BY <1>0, <1>11, AfterLeads DEF CompleteAttempt, Control, TypeOK, files, history, Stage, External
<1> QED
  BY <1>1, <1>2, <1>3, <1>4, <1>5, <1>6, <1>7, <1>8, <1>9, <1>10, <1>11
  DEF Supervisor

LEMMA SemanticWorker ==
  ASSUME TypeOK, Control, SemanticInv, NEW p \in procs, WorkerStep(p)
  PROVE  SemanticInv'
<1>1. p.stage \in External
  BY DEF TypeOK, Worker
<1>2. CASE Timeout(p) \/ WorkerExit(p) \/ LauncherRaises(p)
  BY <1>2 DEF Timeout, WorkerExit, LauncherRaises, Leave, Attached, SemanticInv,
    Good, files, saved, history
<1>3. CASE WorkerOpen(p) \/ WorkerWrite(p)
  <2>1. file'["static"] = file["static"]
    BY <1>1, <1>3 DEF WorkerOpen, WorkerWrite, TypeOK, Stage, External
  <2> QED
    BY <1>3, <2>1 DEF WorkerOpen, WorkerWrite, SemanticInv, Good, saved, local, history
<1> QED  BY <1>2, <1>3 DEF WorkerStep

LEMMA SemanticCrash ==
  ASSUME SemanticInv, Crash
  PROVE  SemanticInv'
BY DEF Crash, Leave, SemanticInv, Good, files, saved

\* The attempts of the semantic stage change only when one is reserved.
LEMMA SemanticAttempts ==
  ASSUME TypeOK, Control, SemanticInv, Supervisor
  PROVE  \/ state'["semantic"].attempts = state["semantic"].attempts
         \/ ReserveAttempt /\ at = "semantic"
<1>0. /\ "semantic" \in Stage /\ DOMAIN state = Stage
      /\ \A s \in Stage : DOMAIN state[s] = {"attempts", "digest"}
      /\ state["semantic"].attempts \in Nat
  BY SupervisorAssumption DEF TypeOK, Stage, External
<1>1. CASE Start \/ StaticWrite \/ Read \/ Launch \/ LaunchMissing \/ CardsWrite
           \/ CardsDone \/ CardsReuse \/ Finalize \/ Finish
  BY <1>1 DEF Start, StaticWrite, Read, Launch, LaunchMissing, CardsWrite,
    CardsDone, CardsReuse, Finalize, Finish, saved
<1>2. CASE StaticDone \/ Reuse \/ RecordExhausted \/ CompleteAttempt
  BY <1>0, <1>2 DEF StaticDone, Reuse, RecordExhausted, CompleteAttempt
<1>3. CASE Blocked
  <2>1. CASE at = "semantic"
    BY <1>0, <1>3, <2>1 DEF Blocked, Due, NoRecord, SemanticInv
  <2>2. CASE at # "semantic"
    BY <1>0, <1>3, <2>2 DEF Blocked
  <2> QED  BY <2>1, <2>2
<1>4. CASE ReserveAttempt
  BY <1>0, <1>4 DEF ReserveAttempt
<1> QED  BY <1>1, <1>2, <1>3, <1>4 DEF Supervisor

\* The semantic record is dropped, kept or becomes the digest of the receipt,
\* and only the semantic stage touches it.
LEMMA SemanticDigest ==
  ASSUME TypeOK, Supervisor
  PROVE  /\ state'["semantic"].digest \in
              {None, state["semantic"].digest, file["semantic"]}
         /\ at # "semantic" => state'["semantic"] = state["semantic"]
<1>0. /\ "semantic" \in Stage /\ DOMAIN state = Stage
      /\ \A s \in Stage : DOMAIN state[s] = {"attempts", "digest"}
  BY DEF TypeOK, Stage, External
<1>1. CASE Start \/ StaticWrite \/ Read \/ Launch \/ LaunchMissing \/ CardsWrite
           \/ CardsDone \/ CardsReuse \/ Finalize \/ Finish
  BY <1>1 DEF Start, StaticWrite, Read, Launch, LaunchMissing, CardsWrite,
    CardsDone, CardsReuse, Finalize, Finish, saved
<1>2. CASE StaticDone
  BY <1>0, <1>2 DEF StaticDone
<1>3. CASE Reuse \/ RecordExhausted \/ CompleteAttempt \/ Blocked
           \/ ReserveAttempt
  BY <1>0, <1>3 DEF Reuse, RecordExhausted, CompleteAttempt, Blocked,
    ReserveAttempt, NoRecord
<1> QED  BY <1>1, <1>2, <1>3 DEF Supervisor

\* No step of a pass touches a receipt but that of the static review.
LEMMA PassKeepsReceipts ==
  ASSUME TypeOK, Control, Supervisor, NEW s \in External
  PROVE  file'[s] = file[s]
BY DEF Supervisor, Start, StaticWrite, StaticDone, Reuse, Read, Blocked,
  RecordExhausted, ReserveAttempt, Launch, LaunchMissing, CompleteAttempt,
  CardsWrite, CardsDone, CardsReuse, Finalize, Finish, files, TypeOK, Stage,
  External

\* A pass reaches the launch of a stage only by reserving an attempt.
LEMMA LaunchReserved ==
  ASSUME TypeOK, Control, Supervisor, pc' = "launch"
  PROVE  ReserveAttempt
BY AfterLeads DEF Supervisor, Start, StaticWrite, StaticDone, Reuse, Read, Blocked,
  RecordExhausted, Launch, LaunchMissing, CompleteAttempt, Due,
  CardsWrite, CardsDone, CardsReuse, Finalize, Finish, Leave, Stage, External,
  Control, TypeOK

\* The workers of a pass are started by Launch alone.
LEMMA PassKeepsWorkers ==
  ASSUME Supervisor
  PROVE  Launch \/ (procs' = procs /\ launches' = launches)
<1>1. CASE Start \/ StaticWrite \/ StaticDone \/ Reuse \/ Read
  BY <1>1 DEF Start, StaticWrite, StaticDone, Reuse, Read, history
<1>2. CASE Blocked \/ RecordExhausted \/ ReserveAttempt
  BY <1>2 DEF Blocked, RecordExhausted, ReserveAttempt, history
<1>3. CASE LaunchMissing \/ CompleteAttempt \/ CardsWrite \/ CardsDone
  BY <1>3 DEF LaunchMissing, CompleteAttempt, CardsWrite, CardsDone, history
<1>4. CASE CardsReuse \/ Finalize \/ Finish
  BY <1>4 DEF CardsReuse, Finalize, Finish, history
<1> QED  BY <1>1, <1>2, <1>3, <1>4 DEF Supervisor

\* Numbers stay apart while a pass runs.
LEMMA NumberSupervisor ==
  ASSUME TypeOK, Control, SemanticInv, NumberInv, Supervisor
  PROVE  NumberInv'
<1> DEFINE A == state["semantic"].attempts
           F == file["semantic"]
           D == state["semantic"].digest
<1>0. A \in Nat /\ F' = F /\ D' \in {None, D, F}
  BY PassKeepsReceipts, SemanticDigest, SupervisorAssumption
  DEF TypeOK, Stage, External
<1>1. CASE ReserveAttempt /\ at = "semantic"
  <2>1. A' = A + 1 /\ D' = None /\ F = None /\ procs' = procs
    BY <1>1 DEF ReserveAttempt, Due, TypeOK, Stage, External, history
  <2> HIDE DEF A, F, D
  <2>2. \A p \in procs : p.stage = "semantic" => p.n \in Nat /\ p.n <= A
    BY SupervisorAssumption DEF NumberInv, TypeOK, Worker, A
  <2> QED
    BY <1>0, <2>1, <2>2 DEF NumberInv, A, F, D
<1>2. CASE Launch /\ at = "semantic"
  <2>1. /\ A' = A /\ D' = D /\ D = None /\ pc' = "wait"
        /\ procs' = procs \cup
             {[stage |-> "semantic", n |-> A, phase |-> "working"]}
    BY <1>2 DEF Launch, Control, saved
  <2>2. \A p \in procs : p.stage = "semantic" => p.n < A /\ p.n # A
    BY <1>0, <1>2, SupervisorAssumption
    DEF Launch, NumberInv, TypeOK, Worker
  <2>3. F # None => F.n # A
    BY <1>0, <1>2, SupervisorAssumption
    DEF Launch, NumberInv, TypeOK, Content, Stage
  <2> HIDE DEF A, F, D
  <2> QED
    BY <1>0, <2>1, <2>2, <2>3 DEF NumberInv, A, F, D
<1>3. CASE ~(ReserveAttempt /\ at = "semantic") /\ ~(Launch /\ at = "semantic")
  <2>1. A' = A
    BY <1>3, SemanticAttempts
  <2>2. ~(pc' = "launch" /\ at' = "semantic")
    BY <1>3, LaunchReserved DEF ReserveAttempt
  <2>3. \A p \in procs' : p.stage = "semantic" => p \in procs
    BY <1>3, PassKeepsWorkers DEF Launch
  <2> HIDE DEF A, F, D
  <2> QED
    BY <1>0, <2>1, <2>2, <2>3 DEF NumberInv, A, F, D
<1> QED  BY <1>1, <1>2, <1>3

\* A worker writes what nobody has written, and is a worker of the same number
\* afterwards.
LEMMA NumberWorker ==
  ASSUME TypeOK, Control, NumberInv, NEW p \in procs, WorkerStep(p)
  PROVE  NumberInv'
<1> DEFINE A == state["semantic"].attempts
           F == file["semantic"]
           D == state["semantic"].digest
<1>0. /\ A \in Nat /\ A' = A /\ D' = D /\ p \in Worker /\ "semantic" \in Stage
      /\ (pc' = pc /\ at' = at) \/ pc' = "idle"
      /\ DOMAIN file = Stage /\ p.n \in Nat \ {0}
  BY SupervisorAssumption DEF WorkerStep, Timeout, LauncherRaises, WorkerOpen, WorkerWrite,
    WorkerExit, Leave, saved, local, TypeOK, Stage, External, Worker
<1>1. CASE Timeout(p) \/ LauncherRaises(p) \/ WorkerExit(p)
  <2>1. F' = F /\ procs' = procs \ {p}
    BY <1>1 DEF Timeout, LauncherRaises, WorkerExit, files
  <2> HIDE DEF A, F, D
  <2> QED
    BY <1>0, <2>1 DEF NumberInv, A, F, D
<1>2. CASE WorkerOpen(p) \/ WorkerWrite(p)
  <2>1. PICK r :
          /\ r.n = p.n /\ r.stage = p.stage
          /\ procs' = (procs \ {p}) \cup {r}
          /\ \/ /\ p.phase = "working" /\ r.phase = "writing"
                /\ file' = [file EXCEPT ![p.stage] = [n |-> p.n, q |-> "torn"]]
             \/ /\ p.phase = "writing" /\ r.phase = "wrote"
                /\ \E q \in {"good", "bad"} :
                     file' = [file EXCEPT ![p.stage] = [n |-> p.n, q |-> q]]
    <3>1. CASE WorkerOpen(p)
      <4> DEFINE o == [p EXCEPT !.phase = "writing"]
      <4>1. o.n = p.n /\ o.stage = p.stage /\ o.phase = "writing"
        BY <1>0 DEF Worker
      <4>2. /\ p.phase = "working" /\ procs' = (procs \ {p}) \cup {o}
            /\ file' = [file EXCEPT ![p.stage] = [n |-> p.n, q |-> "torn"]]
        BY <3>1 DEF WorkerOpen
      <4> HIDE DEF o
      <4> QED  BY <4>1, <4>2
    <3>2. CASE WorkerWrite(p)
      <4> DEFINE o == [p EXCEPT !.phase = "wrote"]
      <4>1. o.n = p.n /\ o.stage = p.stage /\ o.phase = "wrote"
        BY <1>0 DEF Worker
      <4>2. /\ p.phase = "writing" /\ procs' = (procs \ {p}) \cup {o}
            /\ \E q \in {"good", "bad"} :
                 file' = [file EXCEPT ![p.stage] = [n |-> p.n, q |-> q]]
        BY <3>2 DEF WorkerWrite
      <4> HIDE DEF o
      <4> QED  BY <4>1, <4>2
    <3> QED  BY <1>2, <3>1, <3>2
  <2>2. CASE p.stage # "semantic"
    <3>1. F' = F
      BY <1>0, <2>1, <2>2
    <3> HIDE DEF A, F, D
    <3> QED
      BY <1>0, <2>1, <2>2, <3>1 DEF NumberInv, A, F, D
  <2>3. CASE p.stage = "semantic"
    <3>1. F'.n = p.n /\ (r.phase = "writing" => F'.q = "torn") /\ F' # None
      <4>1. \A q \in {"torn", "good", "bad"} : [n |-> p.n, q |-> q] # None
        BY <1>0, NoneAssumption DEF Content, Worker
      <4> QED  BY <1>0, <2>1, <2>3, <4>1
    <3>2. p.n <= A /\ (pc = "launch" /\ at = "semantic" => p.n < A)
      BY <2>3 DEF NumberInv
    <3>3. r.phase = "writing" => (D # None => D.n # p.n)
      BY <2>1, <2>3 DEF NumberInv
    <3>4. \A q \in procs \ {p} : q.stage = "semantic" => q.n # p.n
      BY <2>3 DEF NumberInv
    <3>5. \A q \in procs \ {p} : q.stage = "semantic" =>
            /\ q.n <= A
            /\ pc = "launch" /\ at = "semantic" => q.n < A
            /\ q.phase = "working" => (D # None => D.n # q.n)
            /\ q.phase = "writing" => (D # None /\ D.n = q.n => D.q = "torn")
            /\ \A o \in procs : o.stage = "semantic" /\ o.n = q.n => q = o
      BY DEF NumberInv
    <3> HIDE DEF A, F, D
    <3> QED
      BY <1>0, <2>1, <2>3, <3>1, <3>2, <3>3, <3>4, <3>5 DEF NumberInv, A, F, D
  <2> QED  BY <2>2, <2>3
<1> QED  BY <1>1, <1>2 DEF WorkerStep

LEMMA NumberCrash ==
  ASSUME NumberInv, Crash
  PROVE  NumberInv'
BY DEF Crash, Leave, NumberInv, files, saved

(***************************************************************************)
(* The gate and the cap                                                    *)
(***************************************************************************)
\* What a worker's write does to the semantic receipt: it never has the
\* recorded digest afterwards, and it shows that two attempts were reserved if
\* the receipt was passing.
LEMMA WriteStales ==
  ASSUME TypeOK, NumberInv, NEW p \in procs, WorkerStep(p),
         file'["semantic"] # file["semantic"]
  PROVE  /\ file'["semantic"] # None
         /\ ~Fresh'
         /\ Good("semantic") => state["semantic"].attempts >= 2
<1> DEFINE A == state["semantic"].attempts
           F == file["semantic"]
           D == state["semantic"].digest
<1>0. /\ A \in Nat /\ "semantic" \in Stage
      /\ D' = D /\ DOMAIN file = Stage
      /\ p.n \in 1..MaxExternalAttempts
      /\ F # None => F.n \in Nat
  BY SupervisorAssumption DEF WorkerStep, Timeout, LauncherRaises, WorkerOpen, WorkerWrite,
    WorkerExit, saved, TypeOK, Stage, External, Worker, Content
<1>1. /\ p.stage = "semantic"
      /\ \/ p.phase = "working" /\ F' = [n |-> p.n, q |-> "torn"]
         \/ /\ p.phase = "writing"
            /\ \E q \in {"good", "bad"} : F' = [n |-> p.n, q |-> q]
  BY <1>0 DEF WorkerStep, Timeout, LauncherRaises, WorkerOpen, WorkerWrite,
    WorkerExit, files
<1>2. F' # None
  BY <1>0, <1>1, NoneAssumption, SupervisorAssumption DEF Content
<1>3. ~Fresh'
  <2>1. D # None => F' # D
    BY <1>1 DEF NumberInv
  <2> QED  BY <1>0, <2>1 DEF Fresh
<1>4. Good("semantic") => A >= 2
  <2>1. Good("semantic") => F.n # p.n /\ F.n \in 1..A /\ p.n <= A
    BY <1>1 DEF NumberInv, Good
  <2> QED  BY <1>0, <2>1
<1> QED  BY <1>2, <1>3, <1>4

LEMMA GateSupervisor ==
  ASSUME TypeOK, Control, NumberInv, GateInv, Supervisor
  PROVE  GateInv'
<1> DEFINE A == state["semantic"].attempts
           F == file["semantic"]
           D == state["semantic"].digest
<1>0. /\ F' = F /\ "semantic" \in Stage /\ passed \in BOOLEAN
      /\ at # "semantic" => A' = A /\ D' = D
  BY PassKeepsReceipts, SemanticDigest DEF TypeOK, Stage, External
<1>1. CASE Read
  BY <1>0, <1>1 DEF Read, Leave, GateInv, Gated, Fresh, Good, saved, Control
<1>2. CASE ~Read
  <2>1. (passed' = passed /\ at # "semantic" /\ Gated) \/ ~Gated'
    <3>1. CASE Start \/ StaticWrite \/ StaticDone \/ Finalize \/ Finish
      BY <3>1, AfterLeads DEF Start, StaticWrite, StaticDone, Finalize, Finish,
        Leave, Control, Gated, Stage, External
    <3>2. CASE Reuse
      BY <3>2, AfterLeads DEF Reuse, Leave, Gated, TypeOK, Stage, External
    <3>3. CASE Blocked \/ RecordExhausted \/ CompleteAttempt
      BY <3>3, AfterLeads DEF Blocked, RecordExhausted, CompleteAttempt, Due,
        Control, Gated, Stage, External
    <3>4. CASE ReserveAttempt \/ Launch \/ LaunchMissing
      BY <3>4 DEF ReserveAttempt, Launch, LaunchMissing, Gated
    <3>5. CASE CardsWrite \/ CardsDone \/ CardsReuse
      BY <3>5 DEF CardsWrite, CardsDone, CardsReuse, Leave, Control, Gated
    <3> QED
      BY <1>2, <3>1, <3>2, <3>3, <3>4, <3>5 DEF Supervisor
  <2> HIDE DEF A, F, D
  <2> QED
    BY <1>0, <2>1 DEF GateInv, Fresh, A, F, D
<1> QED  BY <1>1, <1>2

LEMMA GateWorker ==
  ASSUME TypeOK, NumberInv, GateInv, NEW p \in procs, WorkerStep(p)
  PROVE  GateInv'
<1>1. /\ UNCHANGED state
      /\ UNCHANGED <<at, passed>> \/ at' = "static"
  BY DEF WorkerStep, Timeout, LauncherRaises, WorkerOpen, WorkerWrite,
    WorkerExit, Leave, saved, local
<1>2. CASE file'["semantic"] = file["semantic"]
  BY <1>1, <1>2 DEF GateInv, Gated, Fresh
<1>3. CASE file'["semantic"] # file["semantic"]
  BY <1>1, <1>3, WriteStales DEF GateInv, Gated, Good
<1> QED  BY <1>2, <1>3

LEMMA GateCrash ==
  ASSUME Crash
  PROVE  GateInv'
BY DEF Crash, Leave, GateInv, Gated

\* The account of a stage that a step neither starts nor debits.
LEMMA CapKept ==
  ASSUME NEW s \in {"harbor", "calibration"}, CapInv(s),
         UNCHANGED <<launches[s], state[s].attempts, state["semantic"],
                     file["semantic"]>>,
         Pending(s)' => Pending(s),
         Reading' => Reading,
         at' = "semantic" /\ pc' \in {"launch", "wait", "read"} =>
           at = "semantic" /\ pc \in {"launch", "wait", "read"},
         ~(pc' = "launch" /\ at' = s)
  PROVE  CapInv(s)'
<1> DEFINE A == state["semantic"].attempts
           F == file["semantic"]
           D == state["semantic"].digest
           L == launches[s]
           a == state[s].attempts
           R == at = "semantic" /\ pc \in {"launch", "wait", "read"}
<1>1. A' = A /\ F' = F /\ D' = D /\ L' = L /\ a' = a /\ (R' => R)
      /\ (Fresh' => Fresh)
  BY DEF Fresh
<1> HIDE DEF A, F, D, L, a, R
<1> QED  BY <1>1 DEF CapInv, A, F, D, L, a, R

LEMMA CapSupervisor ==
  ASSUME TypeOK, Control, NumberInv, GateInv,
         NEW s \in {"harbor", "calibration"}, CapInv(s), Supervisor
  PROVE  CapInv(s)'
<1> DEFINE A == state["semantic"].attempts
           F == file["semantic"]
           D == state["semantic"].digest
           L == launches[s]
           a == state[s].attempts
<1>0. /\ F' = F /\ s \in External /\ s \in Stage /\ "semantic" \in Stage /\ s # "semantic"
      /\ A \in Nat /\ A <= MaxExternalAttempts /\ L \in Nat /\ a \in Nat
      /\ a <= MaxExternalAttempts
      /\ MaxExternalAttempts \in Nat /\ MaxExternalAttempts >= 1
      /\ DOMAIN state = Stage /\ DOMAIN launches = External
      /\ DOMAIN state[s] = {"attempts", "digest"} /\ passed \in BOOLEAN
      /\ DOMAIN state["semantic"] = {"attempts", "digest"}
  BY PassKeepsReceipts, SupervisorAssumption DEF TypeOK, Stage, External
<1>1. CASE Launch
  <2>0. A' = A /\ D' = D /\ a' = a /\ pc' = "wait" /\ at' = at /\ passed
        /\ at \in External
    BY <1>1 DEF Launch, Control, saved
  <2>1. CASE at = s
    <3>1. L' = L + 1 /\ a >= 1 /\ Pending(s)
          /\ ~Pending(s)' /\ ~Reading' /\ Gated /\ (Fresh' = Fresh)
      BY <1>0, <1>1, <2>0, <2>1 DEF Launch, Control, Pending, Reading, Gated, Fresh
    <3>2. D # None => F # None
      BY DEF NumberInv
    <3>3. D = None => F # None /\ (F.q = "good" \/ A >= 2)
      BY <2>0, <3>1 DEF GateInv
    <3>4. Fresh => D.q = "good"
      BY <2>0, <3>1 DEF GateInv
    <3>5. D = None => L = 0
      BY <3>1 DEF CapInv
    <3>6. D # None => IF D.q = "good" THEN L < a
                      ELSE L <= 1 /\ (L = 1 => MaxExternalAttempts >= 2)
      BY <1>1, <2>1, <3>1 DEF CapInv, Launch
    <3>7. Fresh => D # None
      BY DEF Fresh
    <3> HIDE DEF A, F, D, L, a
    <3> QED
      BY <1>0, <2>0, <2>1, <3>1, <3>2, <3>3, <3>4, <3>5, <3>6, <3>7
      DEF CapInv, A, F, D, L, a
  <2>2. CASE at # s
    <3>1. L' = L
      BY <1>0, <1>1, <2>2 DEF Launch, TypeOK
    <3> QED
      BY <1>0, <1>1, <2>0, <2>2, <3>1, CapKept DEF Launch, Pending, Reading, saved
  <2> QED  BY <2>1, <2>2
<1>2. CASE at = "semantic" /\ (ReserveAttempt \/ Blocked \/ RecordExhausted)
  <2>1. F = None /\ D' = None /\ L' = L /\ a' = a
    BY <1>0, <1>2 DEF ReserveAttempt, Blocked, RecordExhausted, Due, NoRecord, history
  <2>2. L = 0
    BY <1>0, <2>1 DEF CapInv
  <2> HIDE DEF A, F, D, L, a
  <2> QED  BY <1>0, <2>1, <2>2 DEF CapInv, A, F, D, L, a
<1>3. CASE at = "semantic" /\ CompleteAttempt
  <2>1. D' \in {None, F} /\ L' = L /\ a' = a /\ pc = "wait" /\ D = None /\ A' = A
    BY <1>0, <1>3 DEF CompleteAttempt, Control, history
  <2>2. L = 0
    BY <1>3, <2>1 DEF CapInv
  <2>3. L' = 0 /\ MaxExternalAttempts >= 0 /\ a' >= 0
    BY <1>0, <2>1, <2>2
  <2>4. pc' # "launch"
    BY <1>3, AfterLeads, <1>0 DEF CompleteAttempt
  <2> HIDE DEF A, F, D, L, a
  <2> QED  BY <1>0, <2>3, <2>4 DEF CapInv, A, F, D, L, a
<1>4. CASE at = "semantic" /\ Reuse
  <2>1. L' = L /\ a' = a /\ A' = A
    BY <1>0, <1>4 DEF Reuse, history
  <2>2. CASE D \in {None, F}
    <3>1. D' = F /\ pc' = "read" /\ at' = "semantic" /\ F # None
      BY <1>0, <1>4, <2>2, AfterLeads DEF Reuse
    <3>2. D = None => L <= 1 /\ L <= a /\ (L = 1 => F.q = "good" \/ A >= 2)
      BY DEF CapInv
    <3>3. D # None => IF D.q = "good" THEN L <= a
                      ELSE L <= 1 /\ (L = 1 => MaxExternalAttempts >= 2)
      BY <2>2 DEF CapInv, Fresh
    <3>4. L <= MaxExternalAttempts
      BY DEF CapInv
    <3> HIDE DEF A, F, D, L, a
    <3> QED
      BY <1>0, <2>1, <2>2, <3>1, <3>2, <3>3, <3>4 DEF CapInv, A, F, D, L, a
  <2>3. CASE D \notin {None, F}
    <3>1. Leave /\ UNCHANGED state
      BY <1>4, <2>3 DEF Reuse
    <3> QED
      BY <1>0, <2>1, <3>1, CapKept DEF Leave, Pending, Reading
  <2> QED  BY <2>2, <2>3
<1>5. CASE Read
  <2>1. L' = L /\ a' = a /\ A' = A /\ D' = D
    BY <1>5 DEF Read, saved, history
  <2>2. CASE Reading /\ at' = "harbor"
    <3>1. pc' = "stage" /\ (Fresh' = Fresh)
      BY <1>0, <1>5, <2>1, <2>2 DEF Read, Fresh, Reading, Leave
    <3> HIDE DEF A, F, D, L, a
    <3> QED
      BY <1>0, <2>1, <2>2, <3>1 DEF CapInv, Reading, A, F, D, L, a
  <2>3. CASE ~(Reading /\ at' = "harbor")
    BY <1>0, <1>5, <2>1, <2>3, CapKept
    DEF Read, Leave, Control, Pending, Reading, saved
  <2> QED  BY <2>2, <2>3
<1>6. CASE ReserveAttempt /\ at = s
  <2>1. /\ L' = L /\ a' = a + 1 /\ A' = A /\ D' = D
        /\ Pending(s) /\ at' = s /\ Fresh' = Fresh
    BY <1>0, <1>6
    DEF ReserveAttempt, Due, Pending, Fresh, history
  <2> HIDE DEF A, F, D, L, a
  <2> QED
    BY <1>0, <2>1 DEF CapInv, Reading, A, F, D, L, a
<1>7. CASE Blocked /\ at = s
  <2>1. /\ L' = L /\ A' = A /\ D' = D /\ a' = 0 /\ ~passed
        /\ Pending(s) /\ Fresh' = Fresh
    BY <1>0, <1>7 DEF Blocked, Due, NoRecord, Pending, Fresh, history
  <2>2. ~Pending(s)' /\ ~Reading' /\ at' # "semantic"
    BY <1>0, <1>7, AfterLeads DEF Blocked, Pending, Reading
  <2>3. Fresh => D.q # "good"
    BY <1>7, <2>1 DEF GateInv, Gated
  <2>4. D = None => L = 0
    BY <2>1 DEF CapInv
  <2> HIDE DEF A, F, D, L, a
  <2> QED
    BY <1>0, <2>1, <2>2, <2>3, <2>4 DEF CapInv, A, F, D, L, a
<1>8. CASE /\ at # "semantic"
           /\ \/ (ReserveAttempt \/ Blocked) /\ at # s
              \/ RecordExhausted \/ CompleteAttempt \/ Reuse
  <2>1. L' = L /\ a' = a /\ state'["semantic"] = state["semantic"]
    BY <1>0, <1>8 DEF ReserveAttempt, Blocked, RecordExhausted, CompleteAttempt,
      Reuse, history
  <2>2. /\ Pending(s)' => Pending(s)
        /\ at' # "semantic" /\ ~(pc' = "launch" /\ at' = s)
    BY <1>8, AfterLeads DEF ReserveAttempt, Blocked, RecordExhausted,
      CompleteAttempt, Reuse, Due, Leave, Pending, TypeOK, Stage, External, Control
  <2> QED  BY <1>0, <2>1, <2>2, CapKept DEF Reading
<1>9. CASE Start \/ StaticWrite \/ StaticDone \/ LaunchMissing \/ CardsWrite
           \/ CardsDone \/ CardsReuse \/ Finalize \/ Finish
  <2>1. L' = L /\ state'["semantic"] = state["semantic"] /\ state'[s] = state[s]
    BY <1>0, <1>9 DEF Start, StaticWrite, StaticDone, LaunchMissing, CardsWrite,
      CardsDone, CardsReuse, Finalize, Finish, saved, history
  <2>2. \/ at' # "semantic" /\ ~Pending(s)'
        \/ pc \in {"launch"} /\ pc' = "wait" /\ at' = at
        \/ pc = "write" /\ pc' = "read" /\ at = "static" /\ at' = at
        \/ pc' \notin {"launch", "wait", "read"} /\ ~Pending(s)'
    BY <1>9, <1>0, AfterLeads DEF Start, StaticWrite, StaticDone, LaunchMissing, CardsWrite,
      CardsDone, CardsReuse, Finalize, Finish, Control, Leave, Pending, Stage
  <2> QED  BY <1>0, <2>1, <2>2, CapKept DEF Reading, Pending
<1> QED
  BY <1>1, <1>2, <1>3, <1>4, <1>5, <1>6, <1>7, <1>8, <1>9 DEF Supervisor

LEMMA CapWorker ==
  ASSUME TypeOK, NumberInv, NEW s \in {"harbor", "calibration"}, CapInv(s),
         NEW p \in procs, WorkerStep(p)
  PROVE  CapInv(s)'
<1>1. /\ UNCHANGED <<state, launches>>
      /\ UNCHANGED <<pc, at>> \/ (pc' = "idle" /\ at' = "static")
  BY DEF WorkerStep, Timeout, LauncherRaises, WorkerOpen, WorkerWrite,
    WorkerExit, Leave, saved, local, history
<1>2. CASE file'["semantic"] = file["semantic"]
  BY <1>1, <1>2 DEF CapInv, Pending, Reading, Fresh
<1>3. CASE file'["semantic"] # file["semantic"]
  BY <1>1, <1>3, WriteStales DEF CapInv, Pending, Reading, Good
<1> QED  BY <1>2, <1>3

LEMMA CapCrash ==
  ASSUME NEW s \in {"harbor", "calibration"}, CapInv(s), Crash
  PROVE  CapInv(s)'
BY DEF Crash, Leave, CapInv, Pending, Reading, Fresh, files, saved

(***************************************************************************)
(* Without adapters                                                        *)
(***************************************************************************)
\* A pass runs without workers, but for the one it waits for.
LEMMA SoloSupervisor ==
  ASSUME TypeOK, Control, Serialised, SoloInv, Supervisor
  PROVE  SoloInv'
<1>0. /\ \A p \in procs : p.stage \in External /\ how[p.stage] \in {"builtin", "launcher"}
      /\ how' = how
  <2>1. how \in [External -> {"builtin", "adapter", "launcher"}]
    BY SupervisorAssumption DEF TypeOK
  <2>2. how' = how
    BY DEF Supervisor, Start, StaticWrite, StaticDone, Reuse, Read, Blocked,
      RecordExhausted, ReserveAttempt, Launch, LaunchMissing, CompleteAttempt,
      CardsWrite, CardsDone, CardsReuse, Finalize, Finish, saved
  <2> QED  BY <2>1, <2>2 DEF TypeOK, Worker, Serialised
<1>1. CASE Launch
  <2>1. procs = {}
    BY <1>1 DEF Launch, SoloInv
  <2>2. procs' = {[stage |-> at, n |-> state[at].attempts, phase |-> "working"]}
    BY <1>1, <2>1 DEF Launch
  <2>3. file[at] = None /\ result = "none"
    BY <1>1 DEF Launch, SoloInv, Control
  <2> QED  BY <1>1, <2>2, <2>3 DEF Launch, SoloInv, files, saved
<1>2. CASE ~Launch
  <2>1. procs' = procs
    BY <1>2, PassKeepsWorkers
  <2>2. procs = {}
    <3>1. CASE Start
      BY <1>0, <3>1 DEF Start, SoloInv, LockHeld
    <3>2. CASE CompleteAttempt
      BY <3>2 DEF CompleteAttempt, SoloInv
    <3>3. CASE ~Start /\ ~CompleteAttempt
      <4>1. pc \notin {"idle", "wait"}
        BY <1>2, <3>3 DEF Supervisor, StaticWrite, StaticDone, Reuse, Read, Blocked,
          RecordExhausted, ReserveAttempt, LaunchMissing, Due,
          CardsWrite, CardsDone, CardsReuse, Finalize, Finish
      <4> QED  BY <4>1 DEF SoloInv
    <3> QED  BY <3>1, <3>2, <3>3
  <2>3. pc' = "launch" => file'[at'] = None
    BY LaunchReserved DEF ReserveAttempt, Due, files
  <2> QED  BY <2>1, <2>2, <2>3 DEF SoloInv
<1> QED  BY <1>1, <1>2

LEMMA SoloWorker ==
  ASSUME TypeOK, Control, SoloInv, NEW p \in procs, WorkerStep(p)
  PROVE  SoloInv'
<1>0. procs = {p} /\ how' = how /\ p \in Worker /\ state' = state
      /\ pc # "launch" /\ p.stage \in Stage
  BY DEF SoloInv, WorkerStep, Timeout, LauncherRaises, WorkerOpen, WorkerWrite,
    WorkerExit, saved, TypeOK, Worker, Stage
<1>1. CASE Timeout(p) \/ LauncherRaises(p) \/ WorkerExit(p)
  <2>1. procs' = {} /\ pc' # "launch"
    BY <1>0, <1>1 DEF Timeout, LauncherRaises, WorkerExit, Leave
  <2> QED  BY <2>1 DEF SoloInv
<1>2. CASE WorkerOpen(p)
  <2> DEFINE o == [p EXCEPT !.phase = "writing"]
  <2>1. o.n = p.n /\ o.stage = p.stage /\ o.phase = "writing"
    BY <1>0 DEF Worker
  <2>2. procs' = {o} /\ UNCHANGED <<pc, at, result>>
    BY <1>0, <1>2 DEF WorkerOpen, local
  <2>3. file'[p.stage] # None /\ file'[p.stage].q = "torn"
    <3>1. [n |-> p.n, q |-> "torn"] # None
      BY <1>0, NoneAssumption DEF Content, Worker
    <3> QED  BY <1>0, <1>2, <3>1 DEF WorkerOpen, TypeOK
  <2> HIDE DEF o
  <2> QED  BY <1>0, <2>1, <2>2, <2>3 DEF SoloInv
<1>3. CASE WorkerWrite(p)
  <2> DEFINE o == [p EXCEPT !.phase = "wrote"]
  <2>1. o.n = p.n /\ o.stage = p.stage /\ o.phase = "wrote"
    BY <1>0 DEF Worker
  <2>2. procs' = {o} /\ UNCHANGED <<pc, at, result>>
    BY <1>0, <1>3 DEF WorkerWrite, local
  <2> HIDE DEF o
  <2> QED  BY <1>0, <2>1, <2>2 DEF SoloInv
<1> QED  BY <1>1, <1>2, <1>3 DEF WorkerStep

LEMMA SoloCrash ==
  ASSUME TypeOK, Serialised, SoloInv, Crash
  PROVE  SoloInv'
<1>1. \A p \in procs : how[p.stage] \in {"builtin", "launcher"}
  <2>1. how \in [External -> {"builtin", "adapter", "launcher"}]
    BY SupervisorAssumption DEF TypeOK
  <2> QED  BY <2>1 DEF TypeOK, Worker, Serialised
<1>2. /\ procs' \subseteq procs /\ \A p \in procs' : how[p.stage] = "builtin"
      /\ UNCHANGED <<how, file>> /\ pc' = "idle"
  BY <1>1 DEF Crash, Leave, files, saved
<1> QED  BY <1>2 DEF SoloInv

\* A passing receipt is final.
LEMMA GoodStays ==
  ASSUME TypeOK, Control, Serialised, SoloInv, Next, NEW s \in Stage, Good(s)
  PROVE  file'[s] = file[s]
<1>1. CASE Supervisor
  BY <1>1, PassKeepsReceipts
  DEF Supervisor, Start, StaticWrite, StaticDone, Reuse, Read, Blocked,
    RecordExhausted, ReserveAttempt, Launch, LaunchMissing, CompleteAttempt,
    CardsWrite, CardsDone, CardsReuse, Finalize, Finish, files, Good, TypeOK,
    Control
<1>2. ASSUME NEW p \in procs, WorkerStep(p)
      PROVE  file'[s] = file[s]
  <2>1. p.phase \in {"working", "writing"} => ~Good(p.stage)
    BY DEF SoloInv, Good
  <2> QED
    BY <1>2, <2>1 DEF WorkerStep, Timeout, LauncherRaises, WorkerOpen,
      WorkerWrite, WorkerExit, files, TypeOK
<1>3. CASE Crash
  BY <1>3 DEF Crash, files
<1> QED  BY <1>1, <1>2, <1>3 DEF Next, WorkerStep

\* The gate is read from the receipt that stands.
LEMMA StandGate ==
  ASSUME TypeOK, Control, StandInv, Supervisor
  PROVE  Gated' /\ pc' \in {"stage", "launch", "wait"} =>
           (passed' <=> Good("semantic")')
<1>0. Good("semantic")' <=> Good("semantic")
  BY PassKeepsReceipts DEF Good, External
<1>1. CASE Read
  BY <1>0, <1>1 DEF Read, Leave, Gated, Good, Control
<1>2. CASE ~Read
  <2>1. \/ passed' = passed /\ Gated /\ pc \in {"stage", "launch", "wait"}
        \/ ~(Gated' /\ pc' \in {"stage", "launch", "wait"})
    <3>1. CASE Start \/ StaticWrite \/ StaticDone \/ Finalize \/ Finish
      BY <3>1, AfterLeads DEF Start, StaticWrite, StaticDone, Finalize, Finish,
        Leave, Control, Gated, Stage, External
    <3>2. CASE Reuse
      BY <3>2, AfterLeads DEF Reuse, Leave, Gated, TypeOK, Stage, External
    <3>3. CASE Blocked \/ RecordExhausted \/ CompleteAttempt
      BY <3>3, AfterLeads DEF Blocked, RecordExhausted, CompleteAttempt, Due,
        Control, Gated, Stage, External
    <3>4. CASE ReserveAttempt \/ Launch \/ LaunchMissing
      BY <3>4 DEF ReserveAttempt, Launch, LaunchMissing, Gated, Due
    <3>5. CASE CardsWrite \/ CardsDone \/ CardsReuse
      BY <3>5 DEF CardsWrite, CardsDone, CardsReuse, Leave, Control, Gated
    <3> QED
      BY <1>2, <3>1, <3>2, <3>3, <3>4, <3>5 DEF Supervisor
  <2>2. passed' = passed /\ Gated /\ pc \in {"stage", "launch", "wait"} =>
          (passed' <=> Good("semantic")')
    BY <1>0 DEF StandInv
  <2> QED  BY <2>1, <2>2
<1> QED  BY <1>1, <1>2

LEMMA StandDebit ==
  ASSUME TypeOK, Control, StandInv, Supervisor, NEW s \in {"harbor", "calibration"}
  PROVE  DebitInv(s)'
<1> DEFINE L == launches[s]
           a == state[s].attempts
<1>0. /\ s \in External /\ s \in Stage /\ L \in Nat /\ a \in Nat
      /\ DOMAIN state = Stage /\ DOMAIN launches = External
      /\ DOMAIN state[s] = {"attempts", "digest"} /\ passed \in BOOLEAN
      /\ DebitInv(s)
      /\ (Good("semantic")' <=> Good("semantic"))
  BY PassKeepsReceipts, SupervisorAssumption
  DEF TypeOK, Stage, External, StandInv, Good
<1>1. CASE Launch /\ at = s
  <2>1. L' = L + 1 /\ a' = a /\ pc' = "wait" /\ L < a
    BY <1>0, <1>1 DEF Launch, DebitInv, saved
  <2>2. Good("semantic")
    BY <1>1 DEF Launch, Control, StandInv, Gated
  <2> HIDE DEF L, a
  <2> QED  BY <1>0, <2>1, <2>2 DEF DebitInv, L, a
<1>2. CASE ReserveAttempt /\ at = s
  <2>1. L' = L /\ a' = a + 1
    BY <1>0, <1>2 DEF ReserveAttempt, Due, history
  <2> HIDE DEF L, a
  <2> QED  BY <1>0, <2>1 DEF DebitInv, L, a
<1>3. CASE Blocked /\ at = s
  <2>1. L' = L /\ a' = 0 /\ ~Good("semantic")
    BY <1>0, <1>3 DEF Blocked, Due, NoRecord, StandInv, Gated, history
  <2>2. ~(pc' = "launch")
    BY <1>3, LaunchReserved DEF Blocked, ReserveAttempt
  <2> HIDE DEF L, a
  <2> QED  BY <1>0, <2>1, <2>2 DEF DebitInv, L, a
<1>4. CASE ~(at = s /\ (Launch \/ ReserveAttempt \/ Blocked))
  <2>1. L' = L
    BY <1>0, <1>4, PassKeepsWorkers DEF Launch
  <2>2. a' = a
    <3>1. CASE Start \/ StaticWrite \/ Read \/ Launch \/ LaunchMissing \/ CardsWrite
               \/ CardsDone \/ CardsReuse \/ Finalize \/ Finish
      BY <3>1 DEF Start, StaticWrite, Read, Launch, LaunchMissing, CardsWrite,
        CardsDone, CardsReuse, Finalize, Finish, saved
    <3>2. CASE StaticDone
      BY <1>0, <3>2 DEF StaticDone
    <3>3. CASE Reuse \/ RecordExhausted \/ CompleteAttempt
      BY <1>0, <3>3 DEF Reuse, RecordExhausted, CompleteAttempt
    <3>4. CASE Blocked \/ ReserveAttempt
      BY <1>0, <1>4, <3>4 DEF Blocked, ReserveAttempt
    <3> QED  BY <3>1, <3>2, <3>3, <3>4 DEF Supervisor
  <2>3. ~(pc' = "launch" /\ at' = s)
    BY <1>4, LaunchReserved DEF ReserveAttempt
  <2> HIDE DEF L, a
  <2> QED  BY <1>0, <2>1, <2>2, <2>3 DEF DebitInv, L, a
<1> QED  BY <1>1, <1>2, <1>3, <1>4

LEMMA StandWorker ==
  ASSUME TypeOK, Control, Serialised, SoloInv, StandInv,
         NEW p \in procs, WorkerStep(p)
  PROVE  StandInv'
<1>1. /\ UNCHANGED <<state, launches>>
      /\ UNCHANGED <<pc, at, passed>> \/ (pc' = "idle" /\ at' = "static")
  BY DEF WorkerStep, Timeout, LauncherRaises, WorkerOpen, WorkerWrite,
    WorkerExit, Leave, saved, local, history
<1>2. Good("semantic") => Good("semantic")'
  BY GoodStays DEF Next, WorkerStep, Good, Stage, External
<1>3. Gated /\ pc \in {"stage", "launch", "wait"} =>
        file'["semantic"] = file["semantic"]
  <2>1. Gated /\ pc \in {"stage", "launch", "wait"} => p.stage # "semantic"
    BY DEF SoloInv, Gated
  <2> QED
    BY <2>1 DEF WorkerStep, Timeout, LauncherRaises, WorkerOpen, WorkerWrite,
      WorkerExit, files, TypeOK, Stage, External
<1> QED
  BY <1>1, <1>2, <1>3 DEF StandInv, DebitInv, Gated, Good

LEMMA StandCrash ==
  ASSUME StandInv, Crash
  PROVE  StandInv'
BY DEF Crash, Leave, StandInv, DebitInv, Gated, Good, files, saved

\* A promotion rests on what is on disk, and stays.
LEMMA PromotionStays ==
  ASSUME TypeOK, Control, Serialised, SoloInv, Next,
         Promoted => Promotable /\ final.bound = file
  PROVE  /\ Promoted => Promoted'
         /\ Promoted' => Promotable' /\ final'.bound = file'
<1>1. CASE Finalize
  <2>1. final' = [promoted |-> Promotable, bound |-> file]
    BY <1>1 DEF Finalize
  <2>2. final' \in Final
    BY <2>1 DEF Final, Promotable, TypeOK
  <2>3. final' # None
    BY <2>2, NoneAssumption
  <2>4. Promotable' <=> Promotable
    BY <1>1 DEF Finalize, Promotable
  <2>5. final'.promoted <=> Promotable
    BY <2>1
  <2>6. final'.bound = file'
    BY <1>1, <2>1 DEF Finalize
  <2> QED  BY <2>3, <2>4, <2>5, <2>6 DEF Promoted
<1>2. CASE ~Finalize
  <2>1. final' = final
    BY <1>2 DEF Next, Supervisor, Start, StaticWrite, StaticDone, Reuse, Read,
      Blocked, RecordExhausted, ReserveAttempt, Launch, LaunchMissing,
      CompleteAttempt, CardsWrite, CardsDone, CardsReuse, Finish, Crash, Timeout,
      LauncherRaises, WorkerOpen, WorkerWrite, WorkerExit, files
  <2>2. ASSUME Promoted
        PROVE  file' = file
    <3>1. \A s \in Stage : Good(s)
      BY <2>2 DEF Promotable, Good
    <3>2. \A s \in Stage : file'[s] = file[s]
      BY <3>1, GoodStays
    <3>3. file' \in [Stage -> Content \cup {None}]
      <4>1. CASE Supervisor
        BY <4>1, TypeSupervisor DEF TypeOK
      <4>2. ASSUME NEW p \in procs, WorkerStep(p) PROVE TypeOK'
        BY <4>2, TypeWorker
      <4>3. CASE Crash
        BY <4>3, TypeCrash DEF TypeOK
      <4> QED  BY <4>1, <4>2, <4>3 DEF Next, WorkerStep, TypeOK
    <3> QED  BY <3>2, <3>3 DEF TypeOK
  <2>3. ASSUME Promoted
        PROVE  cards' = cards
    BY <1>2, <2>3 DEF Next, Supervisor, Start, StaticWrite, StaticDone, Reuse,
      Read, Blocked, RecordExhausted, ReserveAttempt, Launch, LaunchMissing,
      CompleteAttempt, CardsWrite, CardsDone, CardsReuse, Finish, Crash, Timeout,
      LauncherRaises, WorkerOpen, WorkerWrite, WorkerExit, files, Promotable,
      TypeOK, Cards
  <2> QED  BY <2>1, <2>2, <2>3 DEF Promoted, Promotable
<1> QED  BY <1>1, <1>2

(***************************************************************************)
(* The theorems                                                            *)
(***************************************************************************)
LEMMA InductiveInit ==
  ASSUME Init
  PROVE  IndInv
<1>0. MaxExternalAttempts \in Nat /\ 0 \in 0..MaxExternalAttempts
  BY SupervisorAssumption
<1>1. TypeOK
  <2>1. NoRecord \in [attempts : 0..MaxExternalAttempts, digest : Content \cup {None}]
    BY <1>0 DEF NoRecord
  <2> QED
    BY <1>0, <2>1 DEF Init, TypeOK, PC, Stage
<1>2. /\ file["semantic"] = None /\ state["semantic"] = NoRecord
      /\ \A s \in External : launches[s] = 0 /\ state[s] = NoRecord
  BY DEF Init, Stage, External
<1>3. Control /\ SemanticInv /\ NumberInv /\ GateInv
  BY <1>2 DEF Init, Control, SemanticInv, NumberInv, GateInv, Gated, External,
    NoRecord
<1>4. \A s \in {"harbor", "calibration"} : CapInv(s)
  BY <1>0, <1>2 DEF Init, CapInv, Fresh, Reading, Pending, External, NoRecord
<1>5. SerialInv
  BY <1>2 DEF Init, SerialInv, SoloInv, StandInv, DebitInv, Gated, Promoted,
    External, NoRecord
<1> QED  BY <1>1, <1>3, <1>4, <1>5 DEF IndInv

LEMMA InductiveStep ==
  ASSUME IndInv, Next
  PROVE  IndInv'
<1>0. /\ TypeOK /\ Control /\ SemanticInv /\ NumberInv /\ GateInv
      /\ \A s \in {"harbor", "calibration"} : CapInv(s)
      /\ Serialised => SoloInv /\ StandInv
      /\ Serialised => (Promoted => Promotable /\ final.bound = file)
  BY DEF IndInv, SerialInv
<1>1. Serialised' => Serialised
  <2>1. how' = how
    BY DEF Next, Supervisor, Start, StaticWrite, StaticDone, Reuse, Read, Blocked,
      RecordExhausted, ReserveAttempt, Launch, LaunchMissing, CompleteAttempt,
      CardsWrite, CardsDone, CardsReuse, Finalize, Finish, Crash, Timeout,
      LauncherRaises, WorkerOpen, WorkerWrite, WorkerExit, saved
  <2> QED  BY <2>1 DEF Serialised
<1>2. Serialised => (Promoted' => Promotable' /\ final'.bound = file')
  BY <1>0, PromotionStays
<1>3. CASE Supervisor
  <2>1. TypeOK' /\ Control' /\ SemanticInv' /\ NumberInv' /\ GateInv'
    BY <1>0, <1>3, TypeSupervisor, ControlSupervisor, SemanticSupervisor,
       NumberSupervisor, GateSupervisor
  <2>2. \A s \in {"harbor", "calibration"} : CapInv(s)'
    BY <1>0, <1>3, CapSupervisor
  <2>3. Serialised => SoloInv' /\ StandInv'
    BY <1>0, <1>3, SoloSupervisor, StandGate, StandDebit DEF StandInv
  <2> QED  BY <1>1, <1>2, <2>1, <2>2, <2>3 DEF IndInv, SerialInv
<1>4. ASSUME NEW p \in procs, WorkerStep(p)
      PROVE  IndInv'
  <2>1. TypeOK' /\ Control' /\ SemanticInv' /\ NumberInv' /\ GateInv'
    BY <1>0, <1>4, TypeWorker, ControlWorker, SemanticWorker, NumberWorker,
       GateWorker
  <2>2. \A s \in {"harbor", "calibration"} : CapInv(s)'
    BY <1>0, <1>4, CapWorker
  <2>3. Serialised => SoloInv' /\ StandInv'
    BY <1>0, <1>4, SoloWorker, StandWorker
  <2> QED  BY <1>1, <1>2, <2>1, <2>2, <2>3 DEF IndInv, SerialInv
<1>5. CASE Crash
  <2>1. TypeOK' /\ Control' /\ SemanticInv' /\ NumberInv' /\ GateInv'
    BY <1>0, <1>5, TypeCrash, ControlCrash, SemanticCrash, NumberCrash, GateCrash
  <2>2. \A s \in {"harbor", "calibration"} : CapInv(s)'
    BY <1>0, <1>5, CapCrash
  <2>3. Serialised => SoloInv' /\ StandInv'
    BY <1>0, <1>5, SoloCrash, StandCrash
  <2> QED  BY <1>1, <1>2, <2>1, <2>2, <2>3 DEF IndInv, SerialInv
<1> QED  BY <1>3, <1>4, <1>5 DEF Next, WorkerStep

LEMMA InductiveStutter ==
  ASSUME IndInv, UNCHANGED vars
  PROVE  IndInv'
<1>1. UNCHANGED <<how, file, cards, final, state, cardsRec, pc, at, passed,
                  result, procs, launches, ended, crashes>>
  BY DEF vars, files, saved, local, history
<1>2. TypeOK' /\ Control' /\ SemanticInv' /\ NumberInv' /\ GateInv'
  BY <1>1 DEF IndInv, TypeOK, Control, SemanticInv, NumberInv, GateInv, Good,
    Gated, Fresh
<1>3. \A s \in {"harbor", "calibration"} : CapInv(s)'
  BY <1>1 DEF IndInv, CapInv, Fresh, Reading, Pending
<1>4. Serialised' => SerialInv'
  BY <1>1 DEF IndInv, Serialised, SerialInv, SoloInv, StandInv, DebitInv, Good,
    Gated, Promoted, Promotable
<1> QED  BY <1>2, <1>3, <1>4 DEF IndInv

\* The inductive invariant: types, what control points and workers know, the
\* accounts of the stages, and without adapters exclusive and final receipts.
THEOREM Inductive == Spec => []IndInv
<1>1. Init => IndInv
  BY InductiveInit
<1>2. IndInv /\ [Next]_vars => IndInv'
  BY InductiveStep, InductiveStutter
<1> QED  BY <1>1, <1>2, PTL DEF Spec

\* Provider liability (reserve_attempt, record_exhausted): no crash, orphaned
\* worker or falling gate makes a stage start its worker more often than
\* max_external_attempts, and without adapters every start is debited.
THEOREM LiabilityAlwaysCapped == Spec => []LiabilityCapped
<1>1. IndInv => LiabilityCapped
  <2> SUFFICES ASSUME IndInv, NEW s \in External
               PROVE  /\ launches[s] <= MaxExternalAttempts
                      /\ Serialised => launches[s] <= state[s].attempts
    BY DEF LiabilityCapped, IndInv
  <2>1. CASE s = "semantic"
    <3>1. launches[s] <= state[s].attempts
      BY <2>1 DEF IndInv, SemanticInv
    <3>2. state[s].attempts \in 0..MaxExternalAttempts /\ launches[s] \in Nat
      BY DEF IndInv, TypeOK, Stage
    <3> QED  BY <3>1, <3>2, SupervisorAssumption
  <2>2. CASE s \in {"harbor", "calibration"}
    BY <2>2 DEF IndInv, CapInv, SerialInv, StandInv, DebitInv
  <2> QED  BY <2>1, <2>2 DEF External
<1> QED  BY <1>1, Inductive, PTL

\* Promotion (build_receipt, _summary_validator): without adapters a promoted
\* finalization binds the four passing receipts on disk and cards built from
\* that evidence, whatever crashes and whichever worker outlives its supervisor.
THEOREM PromotionAlwaysSound == Spec => []PromotionSound
<1>1. IndInv => PromotionSound
  BY DEF IndInv, SerialInv, Promoted, Promotable, PromotionSound
<1> QED  BY <1>1, Inductive, PTL

\* No later pass, resumed or crashed, takes a promotion back.
THEOREM PromotionNeverTakenBack == Spec => PromotionStable
<1>1. IndInv /\ [Next]_vars =>
        [Serialised /\ final # None /\ final.promoted =>
           final' # None /\ final'.promoted]_vars
  <2>1. ASSUME IndInv, Next, Serialised, Promoted
        PROVE  Promoted'
    BY <2>1, PromotionStays DEF IndInv, SerialInv
  <2> QED  BY <2>1 DEF Promoted
<1> QED  BY <1>1, Inductive, PTL DEF Spec, PromotionStable
=============================================================================
