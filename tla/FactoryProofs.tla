---------------------------- MODULE FactoryProofs ----------------------------
(***************************************************************************)
(* Proofs about AgenticFactory, for every plan, every set of controllers,  *)
(* any agents (sandboxed or not) and any number of crashes, and about      *)
(* FactoryAutopilot when no operator runs the factory beside it.           *)
(*                                                                         *)
(* The argument for the factory: the lock makes one controller's in-memory *)
(* run a copy of the run file.  The attempts the run file records for a    *)
(* stage are then the stage's attempt receipts, except for at most one     *)
(* receipt a crash left unrecorded, and that one is always the stage's     *)
(* next attempt.                                                           *)
(*                                                                         *)
(* The argument for the autopilot: between its own initialise and the end  *)
(* of its call nothing else writes the run file, so the stage it looked at *)
(* is the one run_factory begins, and max_new_stages = 1 keeps run_factory *)
(* from beginning another.                                                 *)
(***************************************************************************)
EXTENDS FactoryAutopilot, WellFoundedInduction, SequenceTheorems, TLAPS

\* Control points between the choice of a stage and the commit of its attempt
Busy == {"snapshot", "launch", "agent", "judge", "record", "commit"}

\* What the run file says of a stage and what its receipts say agree, up to
\* one receipt that is not recorded yet.
StageLedger(r, s) ==
  LET done == r.attempts[s] IN
  /\ Len(done) <= Len(receipts[s]) /\ Len(receipts[s]) <= Len(done) + 1
  /\ Len(done) <= MaxAttempts[s]
  /\ \A i \in 1..Len(done) :
       /\ done[i] = receipts[s][i]
       /\ done[i].status = "completed" => i = Len(done) /\ r.st[s] = "completed"
  /\ r.st[s] \in {"pending", "running"} => Len(done) < MaxAttempts[s]
  /\ r.st[s] \in {"completed", "failed"} =>
       /\ Len(done) > 0 /\ Len(receipts[s]) = Len(done)
       /\ done[Len(done)].status = r.st[s]
  /\ r.st[s] = "failed" =>
       Len(done) = MaxAttempts[s] \/ ~done[Len(done)].retry_safe

\* Nothing of the stage is in progress or unrecorded.
Settled(r, s) ==
  r.st[s] # "running" /\ Len(receipts[s]) = Len(r.attempts[s])

LedgerInv ==
  /\ run = NoRun => \A s \in Stages : receipts[s] = <<>>
  /\ run # NoRun => \A s \in Stages : StageLedger(run, s)
  /\ run # NoRun /\ run.status # "active" =>
       \A s \in Stages : Settled(run, s)

\* A controller past initialise holds the lock and a copy of the run file.
ControlAt(w) ==
  /\ pc[w] # "idle" => lock = w
  /\ pc[w] \notin {"idle", "initialise"} =>
       run # NoRun /\ mem[w] = run /\ run.status = "active"
  /\ pc[w] = "loop" => \A s \in Stages : Settled(run, s)

\* A controller with an attempt works on the one stage that is not settled;
\* the stage's next receipt is missing until "commit".
AttemptAt(w) ==
  LET s == att[w].stage IN
  /\ pc[w] \in Busy =>
       /\ s \in Stages /\ run.st[s] = "running"
       /\ DependsOn[s] \subseteq CompletedIn(run)
       /\ \A t \in Stages \ {s} : Settled(run, t)
  /\ pc[w] \in Busy \ {"commit"} => Len(receipts[s]) = Len(run.attempts[s])
  /\ pc[w] \in {"record", "commit"} => att[w].status # "open"
  /\ pc[w] = "commit" =>
       /\ Len(receipts[s]) = Len(run.attempts[s]) + 1
       /\ LastOf(receipts[s]) = ReceiptOf(att[w])

ControlInv == \A w \in Workers : ControlAt(w) /\ AttemptAt(w)

IndInv == TypeOK /\ LedgerInv /\ ControlInv /\ DependencyOrder

(***************************************************************************)
(* Operators                                                               *)
(***************************************************************************)
\* A nonempty set of naturals has a smallest element.
LEMMA SmallestExists ==
  ASSUME NEW T, T \subseteq Nat, T # {}
  PROVE  \E x \in T : \A y \in T : x <= y
<1> DEFINE R == OpToRel(<, Nat)
<1>1. \E x \in T : \A y \in T : ~(<<y, x>> \in R)
  <2>1. IsWellFoundedOn(R, Nat)
    BY NatLessThanWellFounded
  <2> HIDE DEF R
  <2> QED  BY <2>1, WFMin
<1>2. \A x, y \in T : ~(<<y, x>> \in R) => x <= y
  BY DEF OpToRel
<1> HIDE DEF R
<1> QED  BY <1>1, <1>2

\* The controller takes a stage that ready_stages lists.
LEMMA FirstReadyIsReady ==
  ASSUME NEW r, Ready(r) # {}
  PROVE  FirstReady(r) \in Ready(r)
<1> DEFINE T == {Position[s] : s \in Ready(r)}
<1>1. Ready(r) \subseteq Stages
  BY DEF Ready
<1>2. T \subseteq Nat /\ T # {}
  BY <1>1, PlanAssumption
<1>3. PICK x \in T : \A y \in T : x <= y
  <2> HIDE DEF T
  <2> QED  BY <1>2, SmallestExists
<1>4. \E s \in Ready(r) : \A t \in Ready(r) : Position[s] <= Position[t]
  BY <1>3
<1> QED  BY <1>4 DEF FirstReady

\* A run is a run file or it is absent, never both.
LEMMA RunFileNotNoRun ==
  ASSUME NEW r
  PROVE  /\ r \in RunFile => r # NoRun
         /\ r \in RunFile \cup {NoRun} /\ r # NoRun => r \in RunFile
BY DEF RunFile, NoRun, RunStatus

\* _new_run makes a run file whose stages have no attempt.
LEMMA NewRunShape ==
  /\ NewRun \in RunFile /\ NewRun.status = "active"
  /\ \A s \in Stages : NewRun.st[s] = "pending" /\ NewRun.attempts[s] = <<>>
BY DEF NewRun, RunFile, RunStatus, StageStatus, Output

\* The digests bound to a session have their type.
LEMMA BindingShape ==
  ASSUME TypeOK, NEW snap
  PROVE  BindingOf(snap) \in BindingType
<1>1. Absent \in Output
  BY DEF Output
<1> QED  BY <1>1 DEF BindingOf, BindingType, Unbound, TypeOK

\* What an idle controller remembers has its type.
LEMMA NoAttemptShape ==
  NoAttempt \in Attempt
BY DEF NoAttempt, Attempt, Unbound, BindingType, Output

\* A closed attempt gives a well-formed receipt.
LEMMA ReceiptShape ==
  ASSUME NEW a \in Attempt, a.status # "open"
  PROVE  ReceiptOf(a) \in Receipt
BY DEF ReceiptOf, Receipt, Attempt

\* Marking a stage as running changes nothing else of the run file.
LEMMA RunningShape ==
  ASSUME NEW r \in RunFile, NEW s \in Stages
  PROVE  LET r1 == [r EXCEPT !.st[s] = "running"] IN
         /\ r1 \in RunFile /\ r1.status = r.status
         /\ r1.attempts = r.attempts /\ r1.artifact = r.artifact
         /\ r1.st = [r.st EXCEPT ![s] = "running"]
BY DEF RunFile, StageStatus

(***************************************************************************)
(* _reconcile_orphan_attempts                                              *)
(***************************************************************************)
\* The receipt that is not recorded yet is one of the stage's receipts.
LEMMA OrphanShape ==
  ASSUME TypeOK, run \in RunFile, NEW s \in Stages, Orphaned(run, s)
  PROVE  OrphanOf(run, s) \in Receipt
BY DEF TypeOK, RunFile, Orphaned, OrphanOf

\* Reconciliation makes a run file.
LEMMA ReconcileShape ==
  ASSUME TypeOK, run \in RunFile
  PROVE  Reconcile(run) \in RunFile
<1> DEFINE r == Reconcile(run)
<1>1. \A s \in Stages : ReconciledStatus(run, s) \in StageStatus
  BY DEF ReconciledStatus, StageStatus, RunFile
<1>2. \A s \in Stages : Orphaned(run, s) =>
        /\ Append(run.attempts[s], OrphanOf(run, s)) \in Seq(Receipt)
        /\ OrphanOf(run, s).artifact \in Output
  <2> SUFFICES ASSUME NEW s \in Stages, Orphaned(run, s)
               PROVE  /\ Append(run.attempts[s], OrphanOf(run, s))
                           \in Seq(Receipt)
                      /\ OrphanOf(run, s).artifact \in Output
    OBVIOUS
  <2>1. OrphanOf(run, s) \in Receipt
    BY OrphanShape
  <2>2. run.attempts[s] \in Seq(Receipt)
    BY DEF RunFile
  <2>3. OrphanOf(run, s).artifact \in Output
    BY <2>1 DEF Receipt
  <2> QED  BY <2>1, <2>2, <2>3
<1>3. run.attempts \in [Stages -> Seq(Receipt)]
      /\ run.artifact \in [Stages -> Output]
  BY DEF RunFile
<1>4. r.st \in [Stages -> StageStatus]
  BY <1>1 DEF Reconcile
<1>5. r.attempts \in [Stages -> Seq(Receipt)]
  BY <1>2, <1>3 DEF Reconcile
<1>6. r.artifact \in [Stages -> Output]
  BY <1>2, <1>3 DEF Reconcile
<1>7. r.status \in RunStatus /\ r.quarantine \in Stages \cup {None}
  BY DEF Reconcile, RunFile, RunStatus
<1> QED  BY <1>4, <1>5, <1>6, <1>7 DEF Reconcile, RunFile

\* Reconciliation records the receipt a crash left behind, and leaves every
\* stage settled.
LEMMA ReconcileLedger ==
  ASSUME TypeOK, run \in RunFile, NEW s \in Stages, StageLedger(run, s)
  PROVE  StageLedger(Reconcile(run), s) /\ Settled(Reconcile(run), s)
<1> DEFINE r == Reconcile(run)
           done == run.attempts[s]
<1>1. /\ done \in Seq(Receipt) /\ receipts[s] \in Seq(Receipt)
      /\ run.st[s] \in StageStatus /\ MaxAttempts[s] \in Nat
  <2>1. MaxAttempts[s] \in Nat
    BY PlanAssumption
  <2>2. receipts[s] \in Seq(Receipt)
    BY DEF TypeOK
  <2>3. done \in Seq(Receipt) /\ run.st[s] \in StageStatus
    BY DEF RunFile
  <2> QED  BY <2>1, <2>2, <2>3
<1>2. r.st[s] = ReconciledStatus(run, s)
  BY DEF Reconcile
<1>3. r.attempts[s] = IF Orphaned(run, s)
                      THEN Append(done, OrphanOf(run, s)) ELSE done
  BY DEF Reconcile
<1>4. CASE Orphaned(run, s)
  <2> DEFINE o == OrphanOf(run, s)
  <2>1. o.status \in {"completed", "failed"}
    BY <1>4, OrphanShape DEF Receipt
  <2>2. /\ Len(receipts[s]) = Len(done) + 1 /\ o = receipts[s][Len(done) + 1]
        /\ Len(done) < MaxAttempts[s]
        /\ \A i \in 1..Len(done) :
             done[i] = receipts[s][i] /\ done[i].status # "completed"
    BY <1>1, <1>4 DEF StageLedger, Orphaned, OrphanOf
  <2>3. /\ Len(r.attempts[s]) = Len(done) + 1
        /\ r.attempts[s][Len(done) + 1] = o
        /\ \A i \in 1..Len(done) : r.attempts[s][i] = done[i]
    BY <1>1, <1>3, <1>4
  <2>4. /\ o.status = "completed" => r.st[s] = "completed"
        /\ o.status = "failed" =>
             r.st[s] = IF Len(done) + 1 >= MaxAttempts[s]
                       THEN "failed" ELSE "pending"
    BY <1>2, <1>4, <2>1 DEF ReconciledStatus, Exhausted
  <2> HIDE DEF o, done, r
  <2>5. Settled(r, s)
    BY <1>1, <2>1, <2>2, <2>3, <2>4 DEF Settled
  <2>6. StageLedger(r, s)
    BY <1>1, <2>1, <2>2, <2>3, <2>4 DEF StageLedger
  <2> QED  BY <2>5, <2>6 DEF r
<1>5. CASE ~Orphaned(run, s)
  <2>1. r.attempts[s] = done
    BY <1>3, <1>5
  <2>2. r.st[s] = IF run.st[s] = "running" THEN "pending" ELSE run.st[s]
    BY <1>2, <1>5 DEF ReconciledStatus, Exhausted
  <2>3. Len(receipts[s]) = Len(done)
    BY <1>1, <1>5 DEF StageLedger, Orphaned, StageStatus
  <2> HIDE DEF r
  <2> QED  BY <1>1, <2>1, <2>2, <2>3 DEF StageLedger, Settled, r
<1> QED  BY <1>4, <1>5

\* Reconciliation changes nothing of a run whose stages are all settled.
LEMMA ReconcileSettled ==
  ASSUME TypeOK, run \in RunFile, \A s \in Stages : Settled(run, s)
  PROVE  Reconcile(run) = run
<1>1. \A s \in Stages : ~Orphaned(run, s) /\ ~Exhausted(run, s)
  BY DEF Orphaned, Exhausted, Settled
<1>2. \A s \in Stages : ReconciledStatus(run, s) = run.st[s]
  BY <1>1 DEF ReconciledStatus, Settled
<1>3. /\ run.st = [s \in Stages |-> run.st[s]]
      /\ run.attempts = [s \in Stages |-> run.attempts[s]]
      /\ run.artifact = [s \in Stages |-> run.artifact[s]]
      /\ run = [status |-> run.status, quarantine |-> run.quarantine,
                st |-> run.st, attempts |-> run.attempts,
                artifact |-> run.artifact]
  BY DEF RunFile
<1>4. Reconcile(run) =
        [status |-> run.status, quarantine |-> run.quarantine,
         st |-> [s \in Stages |-> run.st[s]],
         attempts |-> [s \in Stages |-> run.attempts[s]],
         artifact |-> [s \in Stages |-> run.artifact[s]]]
  BY <1>1, <1>2 DEF Reconcile
<1> QED  BY <1>3, <1>4

(***************************************************************************)
(* The run after an attempt                                                *)
(***************************************************************************)
\* _write_run after an attempt of stage s changes what it records of s only.
LEMMA CommittedShape ==
  ASSUME NEW r \in RunFile, NEW a \in Attempt, a.stage \in Stages,
         a.status # "open"
  PROVE  LET s  == a.stage
             r1 == Committed(r, a)
             give_up == /\ a.status = "failed"
                        /\ ~a.retry_safe \/ Len(r.attempts[s]) + 1 >= MaxAttempts[s]
         IN
         /\ r1 \in RunFile
         /\ r1.status = IF give_up THEN "quarantined" ELSE r.status
         /\ \A t \in Stages \ {s} :
              /\ r1.st[t] = r.st[t] /\ r1.attempts[t] = r.attempts[t]
              /\ r1.artifact[t] = r.artifact[t]
         /\ r1.attempts[s] = Append(r.attempts[s], ReceiptOf(a))
         /\ r1.st[s] = IF a.status = "completed" THEN "completed"
                       ELSE IF give_up THEN "failed" ELSE "pending"
<1> DEFINE s == a.stage
           r1 == Committed(r, a)
<1>1. ReceiptOf(a) \in Receipt
  BY ReceiptShape
<1>2. /\ r.attempts \in [Stages -> Seq(Receipt)] /\ r.st \in [Stages -> StageStatus]
      /\ r.artifact \in [Stages -> Output] /\ r.status \in RunStatus
      /\ r.quarantine \in Stages \cup {None}
      /\ a.artifact \in Output /\ a.status \in {"completed", "failed"}
  BY DEF RunFile, Attempt
<1> DEFINE give_up == /\ a.status = "failed"
                      /\ ~a.retry_safe \/ Len(r.attempts[s]) + 1 >= MaxAttempts[s]
           st1 == [r.st EXCEPT ![s] = IF a.status = "completed" THEN "completed"
                                      ELSE IF give_up THEN "failed" ELSE "pending"]
           attempts1 == [r.attempts EXCEPT ![s] = Append(@, ReceiptOf(a))]
           artifact1 == [r.artifact EXCEPT ![s] =
                           IF a.status = "completed" THEN a.artifact ELSE @]
           status1 == IF give_up THEN "quarantined" ELSE r.status
           quarantine1 == IF give_up THEN s ELSE r.quarantine
<1>3. r1 = [r EXCEPT !.attempts = attempts1, !.st = st1, !.artifact = artifact1,
                     !.status = status1, !.quarantine = quarantine1]
  BY DEF Committed, RunFile
<1>4. /\ st1 \in [Stages -> StageStatus] /\ attempts1 \in [Stages -> Seq(Receipt)]
      /\ artifact1 \in [Stages -> Output] /\ status1 \in RunStatus
      /\ quarantine1 \in Stages \cup {None}
  <2>1. attempts1 \in [Stages -> Seq(Receipt)]
    BY <1>1, <1>2
  <2>2. st1 \in [Stages -> StageStatus]
    BY <1>2 DEF StageStatus
  <2>3. artifact1 \in [Stages -> Output]
    BY <1>2
  <2>4. status1 \in RunStatus /\ quarantine1 \in Stages \cup {None}
    BY <1>2 DEF RunStatus
  <2> QED  BY <2>1, <2>2, <2>3, <2>4
<1> HIDE DEF st1, attempts1, artifact1, status1, quarantine1
<1>5. /\ r1 \in RunFile /\ r1.st = st1 /\ r1.attempts = attempts1
      /\ r1.artifact = artifact1 /\ r1.status = status1
  BY <1>3, <1>4 DEF RunFile
<1>6. /\ \A t \in Stages \ {s} :
           /\ st1[t] = r.st[t] /\ attempts1[t] = r.attempts[t]
           /\ artifact1[t] = r.artifact[t]
      /\ attempts1[s] = Append(r.attempts[s], ReceiptOf(a))
      /\ st1[s] = IF a.status = "completed" THEN "completed"
                  ELSE IF give_up THEN "failed" ELSE "pending"
  BY <1>2 DEF st1, attempts1, artifact1
<1> QED  BY <1>5, <1>6 DEF status1

\* The commit of an attempt whose receipt is written records that receipt and
\* settles the stage.
LEMMA CommittedLedger ==
  ASSUME TypeOK, run \in RunFile, NEW a \in Attempt, a.status # "open",
         NEW s \in Stages, a.stage = s, StageLedger(run, s),
         run.st[s] = "running",
         Len(receipts[s]) = Len(run.attempts[s]) + 1,
         LastOf(receipts[s]) = ReceiptOf(a)
  PROVE  StageLedger(Committed(run, a), s) /\ Settled(Committed(run, a), s)
<1> DEFINE r == Committed(run, a)
           done == run.attempts[s]
<1>1. /\ done \in Seq(Receipt) /\ receipts[s] \in Seq(Receipt)
      /\ MaxAttempts[s] \in Nat /\ a.status \in {"completed", "failed"}
  <2>1. MaxAttempts[s] \in Nat
    BY PlanAssumption
  <2>2. receipts[s] \in Seq(Receipt)
    BY DEF TypeOK
  <2>3. done \in Seq(Receipt) /\ a.status \in {"completed", "failed"}
    BY DEF RunFile, Attempt
  <2> QED  BY <2>1, <2>2, <2>3
<1> DEFINE o == ReceiptOf(a)
<1>2. o.status = a.status /\ o.retry_safe = a.retry_safe
  BY DEF ReceiptOf
<1>3. /\ r.attempts[s] = Append(done, o)
      /\ r.st[s] = IF a.status = "completed" THEN "completed"
                   ELSE IF /\ a.status = "failed"
                           /\ ~a.retry_safe \/ Len(done) + 1 >= MaxAttempts[s]
                   THEN "failed" ELSE "pending"
  BY CommittedShape
<1>4. /\ receipts[s][Len(done) + 1] = o /\ Len(done) < MaxAttempts[s]
      /\ \A i \in 1..Len(done) :
           done[i] = receipts[s][i] /\ done[i].status # "completed"
  BY <1>1 DEF StageLedger, LastOf
<1> HIDE DEF r, done, o
<1>5. /\ Len(r.attempts[s]) = Len(done) + 1
      /\ r.attempts[s][Len(done) + 1] = o
      /\ \A i \in 1..Len(done) : r.attempts[s][i] = done[i]
  BY <1>1, <1>3
<1>6. Settled(r, s)
  BY <1>1, <1>3, <1>5 DEF Settled, done
<1>7. StageLedger(r, s)
  BY <1>1, <1>2, <1>3, <1>4, <1>5 DEF StageLedger, done
<1> QED  BY <1>6, <1>7 DEF r

(***************************************************************************)
(* Type correctness                                                        *)
(***************************************************************************)
\* The initial state satisfies the invariant.
LEMMA InitHolds ==
  ASSUME Init
  PROVE  IndInv
<1>1. TypeOK
  <2>1. Absent \in Output
    BY DEF Output
  <2>2. <<>> \in Seq(Receipt)
    OBVIOUS
  <2> QED  BY <2>1, <2>2, NoAttemptShape DEF Init, TypeOK, PC
<1>2. LedgerInv
  BY DEF Init, LedgerInv
<1>3. ControlInv
  BY DEF Init, ControlInv, ControlAt, AttemptAt, Busy
<1>4. DependencyOrder
  BY DEF Init, DependencyOrder
<1> QED  BY <1>1, <1>2, <1>3, <1>4 DEF IndInv

\* A controller past initialise has a run file in memory; one with an attempt
\* has a stage.
LEMMA ControllerState ==
  ASSUME IndInv, NEW w \in Workers, pc[w] \notin {"idle", "initialise"}
  PROVE  /\ mem[w] = run /\ run \in RunFile /\ run.status = "active"
         /\ lock = w /\ att[w] \in Attempt
         /\ pc[w] \in Busy => att[w].stage \in Stages
BY RunFileNotNoRun DEF IndInv, TypeOK, ControlInv, ControlAt, AttemptAt

\* Leaving keeps the controllers' variables in their types.
LEMMA LeaveShape ==
  ASSUME TypeOK, NEW w \in Workers, Leave(w)
  PROVE  /\ lock' \in Workers \cup {None} /\ pc' \in [Workers -> PC]
         /\ mem' \in [Workers -> RunFile \cup {NoRun}]
         /\ att' \in [Workers -> Attempt]
BY NoAttemptShape DEF TypeOK, Leave, Goto, PC

\* So does a move to another control point.
LEMMA GotoShape ==
  ASSUME TypeOK, NEW w \in Workers, NEW label \in PC, Goto(w, label)
  PROVE  pc' \in [Workers -> PC]
BY DEF TypeOK, Goto

\* Steps of initialise and of the loop keep the types.
LEMMA TypeControl ==
  ASSUME IndInv, NEW w \in Workers,
         \/ Acquire(w) \/ InitialiseFresh(w) \/ InitialiseResume(w)
         \/ InitialiseRefuse(w) \/ BeginStage(w) \/ BeginRefuse(w)
         \/ CommitRun(w) \/ CompleteRun(w) \/ YieldRun(w) \/ Crash(w)
  PROVE  TypeOK'
<1>0. TypeOK
  BY DEF IndInv
<1>1. CASE Acquire(w)
  BY <1>0, <1>1, GotoShape DEF Acquire, TypeOK, PC, disk, workspace, history
<1>2. CASE InitialiseFresh(w)
  BY <1>0, <1>2, GotoShape, NewRunShape
  DEF InitialiseFresh, TypeOK, PC, workspace, history
<1>3. CASE InitialiseResume(w)
  <2>1. run \in RunFile
    BY <1>0, <1>3, RunFileNotNoRun DEF InitialiseResume, TypeOK
  <2>2. Reconcile(run) \in RunFile
    BY <1>0, <2>1, ReconcileShape
  <2>3. CASE Leave(w) /\ run' = Reconcile(run)
    BY <1>0, <1>3, <2>2, <2>3, LeaveShape
    DEF InitialiseResume, TypeOK, workspace, history
  <2>4. CASE /\ run' = Reconcile(run) /\ mem' = [mem EXCEPT ![w] = Reconcile(run)]
             /\ Goto(w, "loop") /\ UNCHANGED <<lock, att>>
    BY <1>0, <1>3, <2>2, <2>4, GotoShape
    DEF InitialiseResume, TypeOK, PC, workspace, history
  <2> QED  BY <1>3, <2>3, <2>4 DEF InitialiseResume
<1>4. CASE InitialiseRefuse(w)
  BY <1>0, <1>4, LeaveShape DEF InitialiseRefuse, TypeOK, disk, workspace, history
<1>5. CASE BeginStage(w)
  <2> DEFINE s == FirstReady(mem[w])
             r1 == [mem[w] EXCEPT !.st[s] = "running"]
  <2>1. s \in Stages
    BY <1>5, FirstReadyIsReady DEF BeginStage, Ready
  <2>2. mem[w] \in RunFile
    BY <1>5, ControllerState DEF BeginStage
  <2>3. r1 \in RunFile
    BY <2>1, <2>2, RunningShape
  <2>4. [NoAttempt EXCEPT !.stage = s] \in Attempt
    BY <2>1, NoAttemptShape DEF Attempt
  <2>5. /\ run' = r1 /\ mem' = [mem EXCEPT ![w] = r1]
        /\ att' = [att EXCEPT ![w] = [NoAttempt EXCEPT !.stage = s]]
    BY <1>5 DEF BeginStage
  <2>6. /\ Goto(w, "snapshot")
        /\ UNCHANGED <<receipts, session, workspace, lock, orphans, history>>
    BY <1>5 DEF BeginStage
  <2> HIDE DEF s, r1
  <2>7. /\ run' \in RunFile /\ mem' \in [Workers -> RunFile \cup {NoRun}]
        /\ att' \in [Workers -> Attempt]
    BY <1>0, <2>3, <2>4, <2>5 DEF TypeOK
  <2> QED  BY <1>0, <2>6, <2>7, GotoShape DEF TypeOK, PC, workspace, history
<1>6. CASE BeginRefuse(w)
  BY <1>0, <1>6, LeaveShape DEF BeginRefuse, TypeOK, disk, workspace, history
<1>7. CASE CommitRun(w)
  <2> DEFINE r1 == Committed(mem[w], att[w])
  <2>1. /\ mem[w] \in RunFile /\ att[w] \in Attempt /\ att[w].stage \in Stages
        /\ att[w].status # "open"
    BY <1>7, ControllerState DEF CommitRun, IndInv, ControlInv, AttemptAt, Busy
  <2>2. r1 \in RunFile
    BY <2>1, CommittedShape
  <2>3. [NoAttempt EXCEPT !.executed = TRUE] \in Attempt
    BY NoAttemptShape DEF Attempt
  <2>4. CASE Leave(w)
    BY <1>0, <1>7, <2>2, <2>4, LeaveShape DEF CommitRun, TypeOK, workspace, history
  <2>5. CASE /\ mem' = [mem EXCEPT ![w] = r1] /\ Goto(w, "loop")
             /\ att' = [att EXCEPT ![w] = [NoAttempt EXCEPT !.executed = TRUE]]
             /\ UNCHANGED lock
    BY <1>0, <1>7, <2>2, <2>3, <2>5, GotoShape
    DEF CommitRun, TypeOK, PC, workspace, history
  <2> QED  BY <1>7, <2>4, <2>5 DEF CommitRun
<1>8. CASE CompleteRun(w)
  <2>1. mem[w] \in RunFile
    BY <1>8, ControllerState DEF CompleteRun
  <2>2. [mem[w] EXCEPT !.status = "semantic-complete-e1"] \in RunFile
    BY <2>1 DEF RunFile, RunStatus
  <2> QED  BY <1>0, <1>8, <2>2, LeaveShape DEF CompleteRun, TypeOK, workspace, history
<1>9. CASE YieldRun(w)
  BY <1>0, <1>9, LeaveShape DEF YieldRun, TypeOK, disk, workspace, history
<1>10. CASE Crash(w)
  <2>1. pc[w] = "agent" => att[w].stage \in Stages
    BY ControllerState DEF Busy
  <2>2. orphans' \subseteq Stages /\ crashes' \in Nat
    BY <1>0, <1>10, <2>1 DEF Crash, TypeOK
  <2> QED  BY <1>0, <1>10, <2>2, LeaveShape DEF Crash, TypeOK, disk, workspace
<1> QED  BY <1>1, <1>2, <1>3, <1>4, <1>5, <1>6, <1>7, <1>8, <1>9, <1>10

\* Steps of an attempt keep the types.
LEMMA TypeAttempt ==
  ASSUME IndInv, NEW w \in Workers,
         \/ Snapshot(w) \/ ReuseSession(w) \/ LaunchSession(w)
         \/ SessionRefused(w) \/ EndSession(w) \/ Judge(w) \/ WriteAttempt(w)
         \/ AgentWrite(w)
  PROVE  TypeOK'
<1>0. TypeOK /\ pc[w] \in Busy /\ pc[w] \notin {"idle", "initialise"}
  BY DEF IndInv, Snapshot, ReuseSession, LaunchSession, SessionRefused,
         EndSession, Judge, WriteAttempt, AgentWrite, Busy
<1> DEFINE s == att[w].stage
<1>1. /\ att[w] \in Attempt /\ s \in Stages /\ mem[w] \in RunFile
      /\ BindingOf(att[w].snapshot) \in BindingType /\ output[s] \in Output
      /\ AttemptNumber(w) \in Nat
  <2>1. att[w] \in Attempt /\ s \in Stages /\ mem[w] \in RunFile
    BY <1>0, ControllerState
  <2>2. mem[w].attempts[s] \in Seq(Receipt)
    BY <2>1 DEF RunFile
  <2>3. AttemptNumber(w) \in Nat
    <3> DEFINE n == Len(mem[w].attempts[s])
    <3>1. n \in Nat
      BY <2>2, LenProperties
    <3>2. AttemptNumber(w) = n + 1
      BY DEF AttemptNumber
    <3> HIDE DEF n
    <3> QED  BY <3>1, <3>2
  <2>4. output[s] \in Output
    BY <1>0, <2>1 DEF TypeOK
  <2> QED  BY <1>0, <2>1, <2>3, <2>4, BindingShape
<1>2. CASE Snapshot(w)
  <2>1. CompletedIn(mem[w]) \subseteq Stages
    BY DEF CompletedIn
  <2>2. CASE Leave(w)
    BY <1>0, <1>2, <2>2, LeaveShape
    DEF Snapshot, TypeOK, disk, workspace, history
  <2>3. CASE /\ att' = [att EXCEPT ![w].before = output[s],
                                   ![w].snapshot = CompletedIn(mem[w])]
             /\ Goto(w, "launch") /\ UNCHANGED <<lock, mem>>
    <3>1. att' \in [Workers -> Attempt]
      BY <1>0, <1>1, <2>1, <2>3 DEF TypeOK, Attempt
    <3> QED  BY <1>0, <1>2, <2>3, <3>1, GotoShape
             DEF Snapshot, TypeOK, PC, disk, workspace, history
  <2> QED  BY <1>2, <2>2, <2>3 DEF Snapshot
<1>3. CASE ReuseSession(w)
  <2>1. att' \in [Workers -> Attempt]
    BY <1>0, <1>1, <1>3 DEF ReuseSession, TypeOK, Attempt
  <2> QED  BY <1>0, <1>3, <2>1, GotoShape
           DEF ReuseSession, TypeOK, PC, disk, workspace, history
<1>4. CASE LaunchSession(w)
  <2>1. att' \in [Workers -> Attempt]
    BY <1>0, <1>1, <1>4 DEF LaunchSession, TypeOK, Attempt
  <2>2. launches' \in [Stages -> Nat]
    BY <1>0, <1>1, <1>4 DEF LaunchSession, TypeOK
  <2> QED  BY <1>0, <1>4, <2>1, <2>2, GotoShape
           DEF LaunchSession, TypeOK, PC, disk, workspace
<1>5. CASE SessionRefused(w)
  BY <1>0, <1>5, GotoShape
  DEF SessionRefused, TypeOK, PC, disk, workspace, history
<1>6. CASE EndSession(w)
  <2>1. PICK status \in {"completed", "failed"} :
          /\ session' = [session EXCEPT ![s] =
               [attempt |-> AttemptNumber(w), status |-> status,
                binding |-> att[w].binding, tree |-> output, inputs |-> inputs]]
          /\ att' = [att EXCEPT ![w].session = status]
    BY <1>6 DEF EndSession
  <2>2. att' \in [Workers -> Attempt]
    BY <1>0, <1>1, <2>1 DEF TypeOK, Attempt
  <2>3. att[w].binding \in BindingType
    BY <1>1 DEF Attempt
  <2>4. [attempt |-> AttemptNumber(w), status |-> status,
         binding |-> att[w].binding, tree |-> output, inputs |-> inputs]
           \in SessionReceipt
    BY <1>0, <1>1, <2>1, <2>3 DEF TypeOK, SessionReceipt
  <2>5. session' \in [Stages -> SessionReceipt \cup {NoSession}]
    BY <1>0, <1>1, <2>1, <2>4 DEF TypeOK
  <2> QED  BY <1>0, <1>6, <2>2, <2>5, GotoShape
           DEF EndSession, TypeOK, PC, workspace, history
<1>7. CASE Judge(w)
  <2>1. att' \in [Workers -> Attempt]
    <3>1. CASE att' = [att EXCEPT ![w].status = "completed",
                                  ![w].artifact = output[s]]
      BY <1>0, <1>1, <3>1 DEF TypeOK, Attempt
    <3>2. CASE att' = [att EXCEPT ![w].status = "failed",
                                  ![w].retry_safe = output[s] # Symlink]
      BY <1>0, <1>1, <3>2 DEF TypeOK, Attempt
    <3> QED  BY <1>7, <3>1, <3>2 DEF Judge
  <2>2. output' \in [Stages -> Output]
    BY <1>0, <1>1, <1>7 DEF Judge, TypeOK, Output
  <2> QED  BY <1>0, <1>7, <2>1, <2>2, GotoShape
           DEF Judge, TypeOK, PC, disk, history
<1>8. CASE WriteAttempt(w)
  <2>1. ReceiptOf(att[w]) \in Receipt
    BY <1>1, <1>8, ReceiptShape DEF WriteAttempt, IndInv, ControlInv, AttemptAt
  <2>2. receipts[s] \in Seq(Receipt)
    BY <1>0, <1>1 DEF TypeOK
  <2>3. Append(receipts[s], ReceiptOf(att[w])) \in Seq(Receipt)
    BY <2>1, <2>2
  <2>4. CASE Leave(w) /\ UNCHANGED receipts
    BY <1>0, <1>8, <2>4, LeaveShape DEF WriteAttempt, TypeOK, workspace, history
  <2>5. CASE /\ receipts' = [receipts EXCEPT ![s] = Append(@, ReceiptOf(att[w]))]
             /\ Goto(w, "commit") /\ UNCHANGED <<lock, mem, att>>
    <3>1. receipts' \in [Stages -> Seq(Receipt)]
      BY <1>0, <2>3, <2>5 DEF TypeOK
    <3> QED  BY <1>0, <1>8, <2>5, <3>1, GotoShape
             DEF WriteAttempt, TypeOK, PC, workspace, history
  <2> QED  BY <1>8, <2>4, <2>5 DEF WriteAttempt
<1>9. CASE AgentWrite(w)
  <2>1. Writes \subseteq Output
    BY EnvironmentAssumption DEF Writes
  <2>2. output' \in [Stages -> Output]
    BY <1>0, <1>9, <2>1 DEF AgentWrite, TypeOK, Writable
  <2> QED  BY <1>0, <1>9, <2>2 DEF AgentWrite, TypeOK, disk, control, history
<1> QED  BY <1>2, <1>3, <1>4, <1>5, <1>6, <1>7, <1>8, <1>9

\* So do the steps of agents that outlived their controller.
LEMMA TypeOrphan ==
  ASSUME TypeOK, NEW s \in Stages, OrphanWrite(s) \/ OrphanExit(s)
  PROVE  TypeOK'
<1>1. CASE OrphanWrite(s)
  <2>1. Writes \subseteq Output
    BY EnvironmentAssumption DEF Writes
  <2>2. output' \in [Stages -> Output]
    BY <1>1, <2>1 DEF OrphanWrite, TypeOK, Writable
  <2> QED  BY <1>1, <2>2 DEF OrphanWrite, TypeOK, disk, control, history
<1>2. CASE OrphanExit(s)
  BY <1>2 DEF OrphanExit, TypeOK, disk, workspace, control, history
<1> QED  BY <1>1, <1>2

(***************************************************************************)
(* The run file and the receipts                                           *)
(***************************************************************************)
\* Every step keeps the run file and the receipts in agreement.
LEMMA LedgerStep ==
  ASSUME IndInv, [Next]_vars
  PROVE  LedgerInv'
<1>0. TypeOK /\ LedgerInv
  BY DEF IndInv
<1>1. CASE UNCHANGED <<run, receipts>>
  BY <1>0, <1>1 DEF LedgerInv, StageLedger, Settled
<1>2. ASSUME NEW w \in Workers, InitialiseFresh(w)
      PROVE  LedgerInv'
  <2>1. /\ run' = NewRun /\ receipts' = receipts
        /\ \A s \in Stages : receipts[s] = <<>>
    BY <1>0, <1>2 DEF InitialiseFresh, LedgerInv
  <2>2. \A s \in Stages : MaxAttempts[s] \in Nat /\ 0 < MaxAttempts[s]
    BY PlanAssumption
  <2>3. \A s \in Stages : StageLedger(run, s)'
    BY <2>1, <2>2, NewRunShape DEF StageLedger
  <2> QED  BY <2>1, <2>3, NewRunShape, RunFileNotNoRun DEF LedgerInv
<1>3. ASSUME NEW w \in Workers, InitialiseResume(w)
      PROVE  LedgerInv'
  <2>1. /\ run \in RunFile /\ run' = Reconcile(run) /\ receipts' = receipts
        /\ \A s \in Stages : StageLedger(run, s)
    BY <1>0, <1>3, RunFileNotNoRun DEF InitialiseResume, TypeOK, LedgerInv
  <2>2. run' # NoRun
    BY <1>0, <2>1, ReconcileShape, RunFileNotNoRun
  <2>3. \A s \in Stages :
          StageLedger(Reconcile(run), s) /\ Settled(Reconcile(run), s)
    BY <1>0, <2>1, ReconcileLedger
  <2> QED  BY <2>1, <2>2, <2>3 DEF LedgerInv, StageLedger, Settled
<1>4. ASSUME NEW w \in Workers, BeginStage(w)
      PROVE  LedgerInv'
  <2> DEFINE s == FirstReady(run)
  <2>1. /\ run \in RunFile /\ run.status = "active" /\ receipts' = receipts
        /\ run' = [run EXCEPT !.st[s] = "running"] /\ s \in Ready(run)
    BY <1>4, ControllerState, FirstReadyIsReady DEF BeginStage
  <2>2. s \in Stages /\ run.st[s] = "pending"
    BY <2>1 DEF Ready
  <2> HIDE DEF s
  <2>3. /\ run' \in RunFile /\ run'.status = "active"
        /\ run'.attempts = run.attempts
        /\ run'.st = [run.st EXCEPT ![s] = "running"]
    BY <2>1, <2>2, RunningShape
  <2>4. run.st \in [Stages -> StageStatus]
    BY <2>1 DEF RunFile
  <2>5. \A t \in Stages : StageLedger(run, t)
    BY <1>0, <2>1, RunFileNotNoRun DEF LedgerInv
  <2>6. \A t \in Stages : StageLedger(run, t)'
    BY <2>1, <2>2, <2>3, <2>4, <2>5 DEF StageLedger
  <2> QED  BY <2>3, <2>6, RunFileNotNoRun DEF LedgerInv
<1>5. ASSUME NEW w \in Workers, WriteAttempt(w)
      PROVE  LedgerInv'
  <2> DEFINE s == att[w].stage
  <2>1. /\ run' = run /\ run \in RunFile /\ run.status = "active" /\ s \in Stages
        /\ run.st[s] = "running" /\ Len(receipts[s]) = Len(run.attempts[s])
    BY <1>5, ControllerState
    DEF WriteAttempt, Busy, IndInv, ControlInv, AttemptAt
  <2>2. CASE receipts' = [receipts EXCEPT ![s] = Append(@, ReceiptOf(att[w]))]
    <3>1. \A t \in Stages : StageLedger(run, t)
      BY <1>0, <2>1, RunFileNotNoRun DEF LedgerInv
    <3>2. /\ receipts \in [Stages -> Seq(Receipt)]
          /\ run.attempts[s] \in Seq(Receipt)
      BY <1>0, <2>1 DEF TypeOK, RunFile
    <3>3. ASSUME NEW t \in Stages
          PROVE  StageLedger(run, t)'
      <4>1. CASE t # s
        BY <2>1, <2>2, <3>1, <3>2, <4>1 DEF StageLedger
      <4>2. CASE t = s
        <5> DEFINE rec == receipts[s]
                   o == ReceiptOf(att[w])
        <5>1. rec \in Seq(Receipt) /\ receipts'[s] = Append(rec, o)
          BY <2>1, <2>2, <3>2
        <5> HIDE DEF o
        <5>2. /\ Len(receipts'[s]) = Len(rec) + 1
              /\ \A i \in 1..Len(rec) : receipts'[s][i] = rec[i]
          BY <5>1
        <5>3. StageLedger(run, s)
          BY <2>1, <3>1
        <5> QED  BY <2>1, <3>2, <4>2, <5>1, <5>2, <5>3 DEF StageLedger
      <4> QED  BY <4>1, <4>2
    <3> QED  BY <2>1, <3>3, RunFileNotNoRun DEF LedgerInv
  <2>3. CASE UNCHANGED receipts
    BY <1>1, <2>1, <2>3
  <2> QED  BY <1>5, <2>2, <2>3 DEF WriteAttempt
<1>6. ASSUME NEW w \in Workers, CommitRun(w)
      PROVE  LedgerInv'
  <2>0. PICK s \in Stages : s = att[w].stage
    BY <1>6, ControllerState DEF CommitRun, Busy
  <2>1. /\ run \in RunFile /\ run' = Committed(run, att[w]) /\ receipts' = receipts
        /\ att[w] \in Attempt
    BY <1>6, ControllerState DEF CommitRun
  <2>2. /\ run.st[s] = "running" /\ att[w].status # "open"
        /\ Len(receipts[s]) = Len(run.attempts[s]) + 1
        /\ LastOf(receipts[s]) = ReceiptOf(att[w])
        /\ \A t \in Stages \ {s} : Settled(run, t)
    BY <1>6, <2>0 DEF CommitRun, IndInv, ControlInv, AttemptAt, Busy
  <2>3. \A t \in Stages : StageLedger(run, t)
    BY <1>0, <2>1, RunFileNotNoRun DEF LedgerInv
  <2>4. StageLedger(Committed(run, att[w]), s) /\ Settled(Committed(run, att[w]), s)
    BY <1>0, <2>0, <2>1, <2>2, <2>3, CommittedLedger
  <2>5. /\ Committed(run, att[w]) \in RunFile
        /\ \A t \in Stages \ {s} :
             /\ Committed(run, att[w]).st[t] = run.st[t]
             /\ Committed(run, att[w]).attempts[t] = run.attempts[t]
    BY <2>0, <2>1, <2>2, CommittedShape
  <2>6. StageLedger(run, s)' /\ Settled(run, s)'
    BY <2>1, <2>4 DEF StageLedger, Settled
  <2>7. ASSUME NEW t \in Stages \ {s}
        PROVE  StageLedger(run, t)' /\ Settled(run, t)'
    <3>1. StageLedger(run, t) /\ Settled(run, t)
      BY <2>2, <2>3
    <3>2. run'.st[t] = run.st[t] /\ run'.attempts[t] = run.attempts[t]
      BY <2>1, <2>5
    <3> QED  BY <2>1, <3>1, <3>2 DEF StageLedger, Settled
  <2> QED  BY <2>1, <2>5, <2>6, <2>7, RunFileNotNoRun DEF LedgerInv
<1>7. ASSUME NEW w \in Workers, CompleteRun(w)
      PROVE  LedgerInv'
  <2>1. /\ run \in RunFile /\ receipts' = receipts
        /\ \A t \in Stages : StageLedger(run, t) /\ Settled(run, t)
    BY <1>0, <1>7, ControllerState, RunFileNotNoRun
    DEF CompleteRun, LedgerInv, IndInv, ControlInv, ControlAt
  <2>2. \/ run' = run
        \/ run' = [run EXCEPT !.status = "semantic-complete-e1"]
    BY <1>7, ControllerState DEF CompleteRun
  <2>3. run' \in RunFile /\ run'.st = run.st /\ run'.attempts = run.attempts
    BY <2>1, <2>2 DEF RunFile, RunStatus
  <2> QED  BY <2>1, <2>3, RunFileNotNoRun DEF LedgerInv, StageLedger, Settled
<1> QED
  BY <1>1, <1>2, <1>3, <1>4, <1>5, <1>6, <1>7
  DEF Next, Controller, vars, disk, Acquire, InitialiseRefuse, BeginRefuse,
      Snapshot, ReuseSession, LaunchSession, SessionRefused, EndSession, Judge,
      YieldRun, AgentWrite, Crash, OrphanWrite, OrphanExit

(***************************************************************************)
(* The controllers                                                         *)
(***************************************************************************)
\* While one controller acts the others are idle (_factory_lock).
LEMMA OneActor ==
  ASSUME IndInv, NEW w \in Workers, pc[w] # "idle" \/ lock = None,
         \A v \in Workers \ {w} : pc'[v] = pc[v],
         ControlAt(w)', AttemptAt(w)'
  PROVE  ControlInv'
<1>1. \A v \in Workers : pc[v] # "idle" => lock = v
  BY DEF IndInv, ControlInv, ControlAt
<1>2. \A v \in Workers \ {w} : pc'[v] = "idle"
  BY <1>1, EnvironmentAssumption
<1>3. \A v \in Workers \ {w} : ControlAt(v)' /\ AttemptAt(v)'
  BY <1>2 DEF ControlAt, AttemptAt, Busy
<1> QED  BY <1>3 DEF ControlInv

\* Leaving, normally or by a crash, leaves every controller idle.
LEMMA LeaveControl ==
  ASSUME IndInv, NEW w \in Workers, pc[w] # "idle", Leave(w)
  PROVE  ControlInv'
<1>1. pc'[w] = "idle" /\ \A v \in Workers \ {w} : pc'[v] = pc[v]
  BY DEF Leave, Goto, IndInv, TypeOK
<1>2. ControlAt(w)' /\ AttemptAt(w)'
  BY <1>1 DEF ControlAt, AttemptAt, Busy
<1> QED  BY <1>1, <1>2, OneActor

\* An attempt that goes on works on the same stage over the same files.
LEMMA AttemptContinues ==
  ASSUME IndInv, NEW w \in Workers, pc[w] \in Busy \ {"commit"},
         NEW label \in Busy \ {"commit"}, Goto(w, label),
         att'[w].stage = att[w].stage,
         label = "record" => att'[w].status # "open",
         UNCHANGED <<run, receipts, mem, lock>>
  PROVE  ControlInv'
<1>1. pc'[w] = label /\ \A v \in Workers \ {w} : pc'[v] = pc[v]
  BY DEF Goto, IndInv, TypeOK
<1>2. /\ pc[w] \notin {"idle", "initialise", "loop"}
      /\ label \notin {"idle", "initialise", "loop", "commit"}
  BY DEF Busy
<1>3. ControlAt(w) /\ AttemptAt(w)
  BY DEF IndInv, ControlInv
<1>4. ControlAt(w)'
  BY <1>1, <1>2, <1>3 DEF ControlAt
<1>5. AttemptAt(w)'
  BY <1>1, <1>2, <1>3 DEF AttemptAt, CompletedIn, Settled
<1> QED  BY <1>1, <1>2, <1>4, <1>5, OneActor

\* Every step keeps the one active controller in agreement with the files.
LEMMA ControlStep ==
  ASSUME IndInv, [Next]_vars
  PROVE  ControlInv'
<1>0. TypeOK /\ LedgerInv /\ ControlInv
  BY DEF IndInv
<1>1. CASE UNCHANGED <<run, receipts, control>>
  BY <1>0, <1>1
  DEF ControlInv, ControlAt, AttemptAt, CompletedIn, Settled, control
<1>2. ASSUME NEW w \in Workers, pc[w] # "idle", Leave(w)
      PROVE  ControlInv'
  BY <1>2, LeaveControl
<1>3. ASSUME NEW w \in Workers, Acquire(w)
      PROVE  ControlInv'
  <2>1. pc'[w] = "initialise" /\ \A v \in Workers \ {w} : pc'[v] = pc[v]
    BY <1>0, <1>3 DEF Acquire, Goto, TypeOK
  <2>2. ControlAt(w)' /\ AttemptAt(w)'
    BY <1>3, <2>1 DEF Acquire, ControlAt, AttemptAt, Busy
  <2> QED  BY <1>3, <2>1, <2>2, OneActor DEF Acquire
<1>4. ASSUME NEW w \in Workers, InitialiseFresh(w)
      PROVE  ControlInv'
  <2>1. pc'[w] = "loop" /\ \A v \in Workers \ {w} : pc'[v] = pc[v]
    BY <1>0, <1>4 DEF InitialiseFresh, Goto, TypeOK
  <2>2. /\ lock' = w /\ run' = NewRun /\ mem'[w] = NewRun
        /\ \A s \in Stages : receipts'[s] = <<>>
    BY <1>0, <1>4
    DEF InitialiseFresh, ControlInv, ControlAt, LedgerInv, TypeOK
  <2>3. \A s \in Stages : Settled(run, s)'
    BY <2>2, NewRunShape DEF Settled
  <2>4. ControlAt(w)' /\ AttemptAt(w)'
    BY <2>1, <2>2, <2>3, NewRunShape, RunFileNotNoRun
    DEF ControlAt, AttemptAt, Busy
  <2> QED  BY <1>4, <2>1, <2>4, OneActor DEF InitialiseFresh
<1>5. ASSUME NEW w \in Workers, InitialiseResume(w), ~Leave(w)
      PROVE  ControlInv'
  <2> DEFINE r == Reconcile(run)
  <2>1. /\ run' = r /\ mem' = [mem EXCEPT ![w] = r] /\ Goto(w, "loop")
        /\ lock' = lock /\ receipts' = receipts /\ r.status \notin Terminal
        /\ pc[w] = "initialise" /\ run \in RunFile
    BY <1>0, <1>5, RunFileNotNoRun DEF InitialiseResume, TypeOK
  <2>2. r \in RunFile /\ r.status = "active"
    <3>1. r \in RunFile
      BY <1>0, <2>1, ReconcileShape
    <3>2. r.status \in RunStatus
      BY <3>1 DEF RunFile
    <3> QED  BY <2>1, <3>1, <3>2 DEF RunStatus, Terminal
  <2>3. \A s \in Stages : Settled(r, s)
    BY <1>0, <2>1, ReconcileLedger, RunFileNotNoRun DEF LedgerInv
  <2> HIDE DEF r
  <2>4. pc'[w] = "loop" /\ \A v \in Workers \ {w} : pc'[v] = pc[v]
    BY <1>0, <2>1 DEF Goto, TypeOK
  <2>5. lock' = w /\ mem'[w] = run' /\ run' # NoRun
    BY <1>0, <2>1, <2>2, RunFileNotNoRun DEF ControlInv, ControlAt, TypeOK
  <2>6. \A s \in Stages : Settled(run, s)'
    BY <2>1, <2>3 DEF Settled
  <2>7. ControlAt(w)' /\ AttemptAt(w)'
    BY <2>1, <2>2, <2>4, <2>5, <2>6 DEF ControlAt, AttemptAt, Busy
  <2> QED  BY <2>1, <2>4, <2>7, OneActor
<1>6. ASSUME NEW w \in Workers, BeginStage(w)
      PROVE  ControlInv'
  <2>0. /\ mem[w] = run /\ run \in RunFile /\ run.status = "active" /\ lock = w
        /\ pc[w] = "loop" /\ Ready(run) # {}
    BY <1>6, ControllerState DEF BeginStage
  <2>1. PICK s \in Stages : s = FirstReady(run) /\ s \in Ready(run)
    BY <2>0, FirstReadyIsReady DEF Ready
  <2> DEFINE r1 == [run EXCEPT !.st[s] = "running"]
  <2>2. /\ run' = r1 /\ mem' = [mem EXCEPT ![w] = r1] /\ lock' = w
        /\ att' = [att EXCEPT ![w] = [NoAttempt EXCEPT !.stage = s]]
        /\ Goto(w, "snapshot") /\ receipts' = receipts
    BY <1>6, <2>0, <2>1 DEF BeginStage
  <2>3. /\ r1 \in RunFile /\ r1.status = "active" /\ r1.attempts = run.attempts
        /\ r1.st = [run.st EXCEPT ![s] = "running"]
    BY <2>0, RunningShape
  <2> HIDE DEF r1
  <2>4. pc'[w] = "snapshot" /\ \A v \in Workers \ {w} : pc'[v] = pc[v]
    BY <1>0, <2>2 DEF Goto, TypeOK
  <2>5. att'[w].stage = s /\ mem'[w] = r1
    BY <1>0, <2>2 DEF TypeOK, NoAttempt
  <2>6. ControlAt(w)'
    BY <2>2, <2>3, <2>4, <2>5, RunFileNotNoRun DEF ControlAt
  <2>7. \A t \in Stages : Settled(run, t)
    BY <1>0, <2>0 DEF ControlInv, ControlAt
  <2>8. run.st \in [Stages -> StageStatus]
    BY <2>0 DEF RunFile
  <2>9. DependsOn[s] \subseteq CompletedIn(run')
    BY <2>1, <2>2, <2>3, <2>8 DEF Ready, CompletedIn
  <2>10. /\ run'.st[s] = "running"
         /\ Len(receipts'[s]) = Len(run'.attempts[s])
         /\ \A t \in Stages \ {s} : Settled(run, t)'
    BY <2>2, <2>3, <2>7, <2>8 DEF Settled
  <2>11. AttemptAt(w)'
    BY <2>4, <2>5, <2>9, <2>10 DEF AttemptAt, CompletedIn
  <2> QED  BY <2>0, <2>4, <2>6, <2>11, OneActor
<1>7. ASSUME NEW w \in Workers,
             \/ Snapshot(w) \/ ReuseSession(w) \/ LaunchSession(w)
             \/ SessionRefused(w) \/ EndSession(w),
             ~Leave(w)
      PROVE  ControlInv'
  <2>1. pc[w] \in Busy \ {"commit"} /\ UNCHANGED <<run, receipts, mem, lock>>
    BY <1>7 DEF Snapshot, ReuseSession, LaunchSession, SessionRefused,
                EndSession, Busy, disk
  <2>2. att[w] \in Attempt
    BY <1>0 DEF TypeOK
  <2>3. att'[w].stage = att[w].stage
    BY <1>0, <1>7, <2>2 DEF Snapshot, ReuseSession, LaunchSession,
                            SessionRefused, EndSession, TypeOK, Attempt
  <2>4. \E label \in {"launch", "agent", "judge"} : Goto(w, label)
    BY <1>7 DEF Snapshot, ReuseSession, LaunchSession, SessionRefused, EndSession
  <2> QED  BY <2>1, <2>3, <2>4, AttemptContinues DEF Busy
<1>8. ASSUME NEW w \in Workers, Judge(w)
      PROVE  ControlInv'
  <2>1. /\ pc[w] \in Busy \ {"commit"} /\ UNCHANGED <<run, receipts, mem, lock>>
        /\ Goto(w, "record")
    BY <1>8 DEF Judge, Busy, disk
  <2>2. att[w] \in Attempt
    BY <1>0 DEF TypeOK
  <2>3. att'[w].stage = att[w].stage /\ att'[w].status # "open"
    BY <1>0, <1>8, <2>2 DEF Judge, TypeOK, Attempt
  <2> QED  BY <2>1, <2>3, AttemptContinues DEF Busy
<1>9. ASSUME NEW w \in Workers, WriteAttempt(w), ~Leave(w)
      PROVE  ControlInv'
  <2>0. PICK s \in Stages : s = att[w].stage
    BY <1>9, ControllerState DEF WriteAttempt, Busy
  <2>1. /\ receipts' = [receipts EXCEPT ![s] = Append(@, ReceiptOf(att[w]))]
        /\ Goto(w, "commit") /\ UNCHANGED <<run, lock, mem, att>>
        /\ pc[w] = "record"
    BY <1>9, <2>0 DEF WriteAttempt
  <2>2. pc'[w] = "commit" /\ \A v \in Workers \ {w} : pc'[v] = pc[v]
    BY <1>0, <2>1 DEF Goto, TypeOK
  <2>3. ControlAt(w) /\ AttemptAt(w)
    BY <1>0 DEF ControlInv
  <2>4. ControlAt(w)'
    BY <2>1, <2>2, <2>3 DEF ControlAt
  <2>5. /\ receipts \in [Stages -> Seq(Receipt)]
        /\ \A t \in Stages \ {s} : receipts'[t] = receipts[t]
        /\ receipts'[s] = Append(receipts[s], ReceiptOf(att[w]))
    BY <1>0, <2>1 DEF TypeOK
  <2> DEFINE o == ReceiptOf(att[w])
  <2>6. receipts[s] \in Seq(Receipt) /\ receipts'[s] = Append(receipts[s], o)
    BY <2>5
  <2> HIDE DEF o
  <2>7. /\ Len(receipts'[s]) = Len(receipts[s]) + 1
        /\ receipts'[s][Len(receipts'[s])] = o
    BY <2>6
  <2>8. /\ run.st[s] = "running" /\ DependsOn[s] \subseteq CompletedIn(run)
        /\ \A t \in Stages \ {s} : Settled(run, t)
        /\ att[w].status # "open" /\ Len(receipts[s]) = Len(run.attempts[s])
    BY <2>0, <2>1, <2>3 DEF AttemptAt, Busy
  <2>9. \A t \in Stages \ {s} : Settled(run, t)'
    BY <2>1, <2>5, <2>8 DEF Settled
  <2>10. LastOf(receipts[s])' = ReceiptOf(att[w])'
    BY <2>1, <2>7 DEF LastOf, ReceiptOf, o
  <2>11. AttemptAt(w)'
    BY <2>0, <2>1, <2>2, <2>7, <2>8, <2>9, <2>10
    DEF AttemptAt, CompletedIn
  <2> QED  BY <2>1, <2>2, <2>4, <2>11, OneActor
<1>10. ASSUME NEW w \in Workers, CommitRun(w), ~Leave(w)
       PROVE  ControlInv'
  <2>0. PICK s \in Stages : s = att[w].stage
    BY <1>10, ControllerState DEF CommitRun, Busy
  <2> DEFINE r1 == Committed(run, att[w])
  <2>1. /\ mem[w] = run /\ run \in RunFile /\ run.status = "active" /\ lock = w
        /\ att[w] \in Attempt /\ pc[w] = "commit"
    BY <1>10, ControllerState DEF CommitRun
  <2>2. /\ run' = r1 /\ mem' = [mem EXCEPT ![w] = r1] /\ Goto(w, "loop")
        /\ lock' = lock /\ receipts' = receipts /\ r1.status # "quarantined"
    BY <1>10, <2>1 DEF CommitRun
  <2>3. /\ run.st[s] = "running" /\ att[w].status # "open"
        /\ Len(receipts[s]) = Len(run.attempts[s]) + 1
        /\ LastOf(receipts[s]) = ReceiptOf(att[w])
        /\ \A t \in Stages \ {s} : Settled(run, t)
    BY <1>0, <2>0, <2>1 DEF ControlInv, AttemptAt, Busy
  <2>4. StageLedger(run, s)
    BY <1>0, <2>1, RunFileNotNoRun DEF LedgerInv
  <2>5. Settled(r1, s)
    BY <1>0, <2>0, <2>1, <2>3, <2>4, CommittedLedger
  <2>6. /\ r1 \in RunFile /\ r1.status \in {"quarantined", run.status}
        /\ \A t \in Stages \ {s} :
             r1.st[t] = run.st[t] /\ r1.attempts[t] = run.attempts[t]
    BY <2>0, <2>1, <2>3, CommittedShape
  <2> HIDE DEF r1
  <2>7. \A t \in Stages : Settled(run, t)'
    BY <2>2, <2>3, <2>5, <2>6 DEF Settled
  <2>8. pc'[w] = "loop" /\ \A v \in Workers \ {w} : pc'[v] = pc[v]
    BY <1>0, <2>2 DEF Goto, TypeOK
  <2>9. mem'[w] = r1
    BY <1>0, <2>2 DEF TypeOK
  <2>10. ControlAt(w)' /\ AttemptAt(w)'
    BY <2>1, <2>2, <2>6, <2>7, <2>8, <2>9, RunFileNotNoRun
    DEF ControlAt, AttemptAt, Busy
  <2> QED  BY <2>1, <2>8, <2>10, OneActor
<1>11. ASSUME NEW w \in Workers,
              \/ InitialiseRefuse(w) \/ BeginRefuse(w) \/ CompleteRun(w)
              \/ YieldRun(w) \/ Crash(w)
       PROVE  ControlInv'
  BY <1>2, <1>11
  DEF InitialiseRefuse, BeginRefuse, CompleteRun, YieldRun, Crash
<1>12. ASSUME NEW w \in Workers,
              \/ InitialiseResume(w) \/ Snapshot(w) \/ ReuseSession(w)
              \/ LaunchSession(w) \/ SessionRefused(w) \/ EndSession(w)
              \/ WriteAttempt(w) \/ CommitRun(w)
       PROVE  ControlInv'
  <2>1. pc[w] # "idle"
    BY <1>12 DEF InitialiseResume, Snapshot, ReuseSession, LaunchSession,
                 SessionRefused, EndSession, WriteAttempt, CommitRun
  <2>2. CASE Leave(w)
    BY <1>2, <2>1, <2>2
  <2>3. CASE ~Leave(w)
    BY <1>5, <1>7, <1>9, <1>10, <1>12, <2>3
  <2> QED  BY <2>2, <2>3
<1>13. ASSUME NEW w \in Workers, AgentWrite(w)
       PROVE  ControlInv'
  BY <1>1, <1>13 DEF AgentWrite, disk
<1>14. ASSUME NEW s \in Stages, OrphanWrite(s) \/ OrphanExit(s)
       PROVE  ControlInv'
  BY <1>1, <1>14 DEF OrphanWrite, OrphanExit, disk
<1>15. CASE UNCHANGED vars
  BY <1>1, <1>15 DEF vars, disk
<1> QED
  BY <1>3, <1>4, <1>6, <1>8, <1>11, <1>12, <1>13, <1>14, <1>15
  DEF Next, Controller

(***************************************************************************)
(* Dependency order                                                        *)
(***************************************************************************)
\* A stage the run file calls completed ends in a completed receipt.
LEMMA CompletedReceipt ==
  ASSUME TypeOK, LedgerInv, run \in RunFile, NEW d \in CompletedIn(run)
  PROVE  receipts[d] # <<>> /\ LastOf(receipts[d]).status = "completed"
<1>1. d \in Stages /\ run.st[d] = "completed"
  BY DEF CompletedIn
<1>2. StageLedger(run, d)
  BY <1>1, RunFileNotNoRun DEF LedgerInv
<1>3. receipts[d] \in Seq(Receipt) /\ run.attempts[d] \in Seq(Receipt)
  BY <1>1 DEF TypeOK, RunFile
<1> QED  BY <1>1, <1>2, <1>3 DEF StageLedger, LastOf

\* Every step keeps the dependency order.
LEMMA DependencyStep ==
  ASSUME IndInv, [Next]_vars
  PROVE  DependencyOrder'
<1>0. TypeOK /\ LedgerInv /\ ControlInv /\ DependencyOrder
  BY DEF IndInv
<1>1. CASE UNCHANGED <<receipts, launches>>
  BY <1>0, <1>1 DEF DependencyOrder, LastOf
<1>2. ASSUME NEW w \in Workers, pc[w] \in Busy
      PROVE  /\ att[w].stage \in Stages /\ run \in RunFile
             /\ run.st[att[w].stage] = "running"
             /\ \A d \in DependsOn[att[w].stage] :
                  receipts[d] # <<>> /\ LastOf(receipts[d]).status = "completed"
  <2>1. run \in RunFile
    BY <1>2, ControllerState DEF Busy
  <2>2. /\ att[w].stage \in Stages /\ run.st[att[w].stage] = "running"
        /\ DependsOn[att[w].stage] \subseteq CompletedIn(run)
    BY <1>0, <1>2 DEF ControlInv, AttemptAt
  <2> QED  BY <1>0, <2>1, <2>2, CompletedReceipt
<1>3. ASSUME NEW w \in Workers, LaunchSession(w)
      PROVE  DependencyOrder'
  <2>0. PICK s \in Stages : s = att[w].stage
    BY <1>2, <1>3 DEF LaunchSession, Busy
  <2>1. /\ receipts' = receipts
        /\ \A t \in Stages \ {s} : launches'[t] = launches[t]
    BY <1>0, <1>3, <2>0 DEF LaunchSession, disk, TypeOK
  <2>2. \A d \in DependsOn[s] :
          receipts[d] # <<>> /\ LastOf(receipts[d]).status = "completed"
    BY <1>2, <1>3, <2>0 DEF LaunchSession, Busy
  <2> QED  BY <1>0, <2>1, <2>2 DEF DependencyOrder, LastOf
<1>4. ASSUME NEW w \in Workers, WriteAttempt(w), receipts' # receipts
      PROVE  DependencyOrder'
  <2>0. PICK s \in Stages : s = att[w].stage
    BY <1>2, <1>4 DEF WriteAttempt, Busy
  <2>1. /\ launches' = launches /\ pc[w] = "record"
        /\ receipts' = [receipts EXCEPT ![s] = Append(@, ReceiptOf(att[w]))]
    BY <1>4, <2>0 DEF WriteAttempt, history
  <2>2. \A t \in Stages \ {s} : receipts'[t] = receipts[t]
    BY <1>0, <2>1 DEF TypeOK
  <2>3. /\ run \in RunFile /\ run.st[s] = "running"
        /\ \A d \in DependsOn[s] :
             receipts[d] # <<>> /\ LastOf(receipts[d]).status = "completed"
    BY <1>2, <2>0, <2>1 DEF Busy
  <2>4. ~(receipts[s] # <<>> /\ LastOf(receipts[s]).status = "completed")
    <3>1. StageLedger(run, s)
      BY <1>0, <2>3, RunFileNotNoRun DEF LedgerInv
    <3>2. Len(receipts[s]) = Len(run.attempts[s])
      BY <1>0, <2>0, <2>1 DEF ControlInv, AttemptAt, Busy
    <3>3. receipts[s] \in Seq(Receipt) /\ run.attempts[s] \in Seq(Receipt)
      BY <1>0, <2>3 DEF TypeOK, RunFile
    <3> QED  BY <2>3, <3>1, <3>2, <3>3 DEF StageLedger, LastOf
  <2>5. DependsOn \in [Stages -> SUBSET Stages]
    BY PlanAssumption
  <2> QED  BY <1>0, <2>1, <2>2, <2>3, <2>4, <2>5 DEF DependencyOrder, LastOf
<1> QED
  BY <1>1, <1>3, <1>4
  DEF Next, Controller, vars, disk, history, Acquire, InitialiseFresh,
      InitialiseResume, InitialiseRefuse, BeginStage, BeginRefuse, Snapshot,
      ReuseSession, SessionRefused, EndSession, Judge, WriteAttempt, CommitRun,
      CompleteRun, YieldRun, AgentWrite, Crash, OrphanWrite, OrphanExit

(***************************************************************************)
(* Progress                                                                *)
(***************************************************************************)
\* _reconcile_orphan_attempts loses no progress that the run file records.
LEMMA ReconcileProgress ==
  ASSUME IndInv, run # NoRun, run' = Reconcile(run)
  PROVE  ProgressStep
<1>0. TypeOK /\ LedgerInv /\ run \in RunFile
  BY DEF IndInv, TypeOK
<1>1. Reconcile(run) # NoRun
  BY <1>0, ReconcileShape, RunFileNotNoRun
<1>2. run.status \in Terminal => Reconcile(run) = run
  BY <1>0, ReconcileSettled DEF LedgerInv, Terminal
<1>3. ASSUME NEW s \in Stages
      PROVE  /\ run.st[s] = "completed" =>
                  /\ Reconcile(run).st[s] = "completed"
                  /\ Reconcile(run).artifact[s] = run.artifact[s]
             /\ Len(run.attempts[s]) <= Len(Reconcile(run).attempts[s])
             /\ \A i \in 1..Len(run.attempts[s]) :
                  Reconcile(run).attempts[s][i] = run.attempts[s][i]
  <2> DEFINE done == run.attempts[s]
             o == OrphanOf(run, s)
  <2>1. run.st[s] = "completed" => ~Orphaned(run, s) /\ ~Exhausted(run, s)
    BY DEF Orphaned, Exhausted
  <2>2. run.st[s] = "completed" => ReconciledStatus(run, s) = "completed"
    BY <2>1 DEF ReconciledStatus
  <2>3. run.st[s] = "completed" =>
          /\ Reconcile(run).st[s] = "completed"
          /\ Reconcile(run).artifact[s] = run.artifact[s]
    BY <2>1, <2>2 DEF Reconcile
  <2>4. done \in Seq(Receipt)
    BY <1>0 DEF RunFile
  <2>5. Reconcile(run).attempts[s] \in {done, Append(done, o)}
    BY DEF Reconcile
  <2> HIDE DEF o
  <2>6. Len(Append(done, o)) = Len(done) + 1
        /\ \A i \in 1..Len(done) : Append(done, o)[i] = done[i]
    BY <2>4
  <2> DEFINE after == Reconcile(run).attempts[s]
  <2>7. after \in {done, Append(done, o)}
    BY <2>5
  <2>8. Len(done) \in Nat
    BY <2>4, LenProperties
  <2> HIDE DEF after, done
  <2>9. Len(done) <= Len(after) /\ \A i \in 1..Len(done) : after[i] = done[i]
    BY <2>6, <2>7, <2>8
  <2> QED  BY <2>3, <2>9 DEF after, done
<1> QED  BY <1>1, <1>2, <1>3 DEF ProgressStep

\* No step loses progress that the run file records.
LEMMA ProgressKept ==
  ASSUME IndInv, [Next]_vars
  PROVE  ProgressStep
<1> SUFFICES ASSUME run # NoRun
             PROVE  ProgressStep
  BY DEF ProgressStep
<1>0. TypeOK /\ LedgerInv /\ ControlInv /\ run \in RunFile
  BY RunFileNotNoRun DEF IndInv, TypeOK
<1>1. CASE UNCHANGED run
  BY <1>0, <1>1 DEF ProgressStep, RunFile
<1>2. ASSUME NEW w \in Workers, InitialiseResume(w)
      PROVE  ProgressStep
  <2>1. run' = Reconcile(run)
    BY <1>2 DEF InitialiseResume
  <2> QED  BY <2>1, ReconcileProgress
<1>3. ASSUME NEW w \in Workers, BeginStage(w)
      PROVE  ProgressStep
  <2>0. /\ mem[w] = run /\ run.status = "active" /\ Ready(run) # {}
    BY <1>3, ControllerState DEF BeginStage
  <2>1. PICK s \in Stages : s = FirstReady(run) /\ s \in Ready(run)
    BY <2>0, FirstReadyIsReady DEF Ready
  <2>2. run' = [run EXCEPT !.st[s] = "running"]
    BY <1>3, <2>0, <2>1 DEF BeginStage
  <2>3. /\ run' \in RunFile /\ run'.attempts = run.attempts
        /\ run'.artifact = run.artifact
        /\ run'.st = [run.st EXCEPT ![s] = "running"]
    BY <1>0, <2>2, RunningShape
  <2>4. run.st[s] = "pending" /\ run.st \in [Stages -> StageStatus]
        /\ \A t \in Stages : Len(run.attempts[t]) <= Len(run.attempts[t])
    BY <1>0, <2>1 DEF Ready, RunFile
  <2> QED  BY <2>0, <2>3, <2>4, RunFileNotNoRun DEF ProgressStep, Terminal
<1>4. ASSUME NEW w \in Workers, CommitRun(w)
      PROVE  ProgressStep
  <2>0. PICK s \in Stages : s = att[w].stage
    BY <1>4, ControllerState DEF CommitRun, Busy
  <2> DEFINE r1 == Committed(run, att[w])
             o == ReceiptOf(att[w])
             done == run.attempts[s]
  <2>1. run' = r1 /\ run.status = "active" /\ att[w] \in Attempt
    BY <1>4, ControllerState DEF CommitRun
  <2>2. run.st[s] = "running" /\ att[w].status # "open"
    BY <1>0, <1>4, <2>0 DEF CommitRun, ControlInv, AttemptAt, Busy
  <2>3. /\ r1 \in RunFile /\ r1.attempts[s] = Append(done, o)
        /\ \A t \in Stages \ {s} :
             /\ r1.st[t] = run.st[t] /\ r1.attempts[t] = run.attempts[t]
             /\ r1.artifact[t] = run.artifact[t]
    BY <1>0, <2>0, <2>1, <2>2, CommittedShape
  <2>4. \A t \in Stages : run.attempts[t] \in Seq(Receipt)
    BY <1>0 DEF RunFile
  <2> HIDE DEF r1, o
  <2>5. /\ Len(r1.attempts[s]) = Len(done) + 1
        /\ \A i \in 1..Len(done) : r1.attempts[s][i] = done[i]
    BY <2>3, <2>4
  <2> QED  BY <2>1, <2>2, <2>3, <2>4, <2>5, RunFileNotNoRun
           DEF ProgressStep, Terminal
<1>5. ASSUME NEW w \in Workers, CompleteRun(w)
      PROVE  ProgressStep
  <2>1. run.status = "active"
        /\ \/ run' = run
           \/ run' = [run EXCEPT !.status = "semantic-complete-e1"]
    BY <1>5, ControllerState DEF CompleteRun
  <2>2. /\ run' \in RunFile /\ run'.st = run.st /\ run'.attempts = run.attempts
        /\ run'.artifact = run.artifact
    BY <1>0, <2>1 DEF RunFile, RunStatus
  <2>3. \A t \in Stages : Len(run.attempts[t]) <= Len(run.attempts[t])
    BY <1>0 DEF RunFile
  <2> QED  BY <2>1, <2>2, <2>3, RunFileNotNoRun DEF ProgressStep, Terminal
<1> QED
  BY <1>1, <1>2, <1>3, <1>4, <1>5
  DEF Next, Controller, vars, disk, Acquire, InitialiseFresh,
      InitialiseRefuse, BeginRefuse, Snapshot, ReuseSession, LaunchSession,
      SessionRefused, EndSession, Judge, WriteAttempt, YieldRun, AgentWrite,
      Crash, OrphanWrite, OrphanExit

(***************************************************************************)
(* Theorems                                                                *)
(***************************************************************************)
\* Every step keeps the controllers in agreement with the run file, and the run
\* file with the attempt receipts.
LEMMA IndStep ==
  ASSUME IndInv, [Next]_vars
  PROVE  IndInv'
<1>1. TypeOK'
  <2>1. CASE UNCHANGED vars
    BY <2>1 DEF IndInv, TypeOK, vars, disk, workspace, control, history
  <2>2. TypeOK
    BY DEF IndInv
  <2> QED  BY <2>1, <2>2, TypeControl, TypeAttempt, TypeOrphan
           DEF Next, Controller
<1> QED  BY <1>1, LedgerStep, ControlStep, DependencyStep DEF IndInv

\* The invariant that the other theorems rest on: the active controller agrees
\* with the run file, and the run file with the attempt receipts.
THEOREM Inductive == Spec => []IndInv
<1>1. Init => IndInv
  BY InitHolds
<1>2. IndInv /\ [Next]_vars => IndInv'
  BY IndStep
<1> QED  BY <1>1, <1>2, PTL DEF Spec

\* The files and the controllers' locals have the shapes the code gives them,
\* for every plan, agent behaviour and number of controllers and crashes.
THEOREM TypeCorrect == Spec => []TypeOK
<1>1. IndInv => TypeOK
  BY DEF IndInv
<1> QED  BY <1>1, Inductive, PTL

\* A stage's agent is launched, and its attempts receipted, only after every
\* dependency has a completed receipt, whoever crashed in between.
THEOREM DependenciesFirst == Spec => []DependencyOrder
<1>1. IndInv => DependencyOrder
  BY DEF IndInv
<1> QED  BY <1>1, Inductive, PTL

\* Retry accounting: never more than max_attempts receipts, none after a
\* success, and "failed" only when retrying is over.
THEOREM AttemptsAccounted == Spec => []RetryAccounting
<1>1. IndInv => RetryAccounting
  <2> SUFFICES ASSUME IndInv, NEW s \in Stages
               PROVE  /\ Len(receipts[s]) <= MaxAttempts[s]
                      /\ \A i \in 1..Len(receipts[s]) :
                           receipts[s][i].status = "completed" =>
                             i = Len(receipts[s])
                      /\ run # NoRun /\ run.st[s] = "failed" =>
                           /\ LastOf(receipts[s]).status = "failed"
                           /\ \/ Len(receipts[s]) = MaxAttempts[s]
                              \/ ~LastOf(receipts[s]).retry_safe
    BY DEF RetryAccounting
  <2>1. receipts[s] \in Seq(Receipt) /\ run \in RunFile \cup {NoRun}
    BY DEF IndInv, TypeOK
  <2>2. MaxAttempts[s] \in Nat
    BY PlanAssumption
  <2>3. CASE run = NoRun
    BY <2>2, <2>3 DEF IndInv, LedgerInv
  <2>4. CASE run # NoRun
    <3>1. StageLedger(run, s)
      BY <2>4 DEF IndInv, LedgerInv
    <3>2. run.attempts[s] \in Seq(Receipt) /\ run.st[s] \in StageStatus
      BY <2>1, <2>4 DEF RunFile
    <3>3. Len(receipts[s]) <= MaxAttempts[s]
      BY <2>1, <2>2, <3>1, <3>2 DEF StageLedger, StageStatus
    <3>4. \A i \in 1..Len(receipts[s]) :
            receipts[s][i].status = "completed" => i = Len(receipts[s])
      BY <2>1, <3>1, <3>2 DEF StageLedger
    <3>5. run.st[s] = "failed" =>
            /\ LastOf(receipts[s]).status = "failed"
            /\ \/ Len(receipts[s]) = MaxAttempts[s]
               \/ ~LastOf(receipts[s]).retry_safe
      BY <2>1, <3>1, <3>2 DEF StageLedger, LastOf
    <3> QED  BY <3>3, <3>4, <3>5
  <2> QED  BY <2>3, <2>4
<1> QED  BY <1>1, Inductive, PTL

\* No write of factory-run.json loses progress: completed stages stay completed
\* with their artifacts, attempts are only appended, terminal runs are final.
THEOREM NothingLost == Spec => ProgressNeverLost
<1>1. IndInv /\ [Next]_vars => [ProgressStep]_vars
  BY ProgressKept
<1> QED  BY <1>1, Inductive, PTL DEF Spec, ProgressNeverLost

(***************************************************************************)
(* Sandboxed plans                                                         *)
(*                                                                         *)
(* With a workspace manifest an agent cannot write a completed output and  *)
(* dies with its controller.  What the receipts bind is therefore still    *)
(* there whenever a controller looks: no check refuses a run that crashes  *)
(* have left, and no attempt is lost but to a crash.                       *)
(***************************************************************************)
\* BindingOf, of a given workspace
BindOn(out, inp, snap) ==
  IF Manifest
  THEN [inputs |-> inp,
        rows |-> [t \in Stages |-> IF t \in snap THEN out[t] ELSE Absent]]
  ELSE Unbound

\* A receipt's session contract is that of a workspace in which the stages of
\* done are completed.
ReceiptTo(rc, done, out, inp) ==
  /\ rc.session = "none" => rc.status = "failed"
  /\ rc.status = "completed" => rc.session = "completed"
  /\ rc.session # "none" =>
       rc.snapshot \subseteq done /\ rc.binding = BindOn(out, inp, rc.snapshot)

StageBound(s) ==
  /\ \A i \in 1..Len(receipts[s]) :
       ReceiptTo(receipts[s][i], CompletedIn(run), output, inputs)
  /\ run.st[s] = "completed" =>
       output[s] = run.artifact[s] /\ LastOf(run.attempts[s]).artifact = output[s]
  /\ Orphaned(run, s) /\ OrphanOf(run, s).status = "completed" =>
       output[s] = OrphanOf(run, s).artifact

\* The status of a run is that of its stages, and one stage at most is open.
StatusOK(r) ==
  /\ r.status = "semantic-complete-e1" =>
       (\A s \in Stages : r.st[s] = "completed") /\ r.quarantine = None
  /\ r.status = "quarantined" =>
       {s \in Stages : r.st[s] = "failed"} = {r.quarantine}
  /\ r.status = "active" =>
       (\A s \in Stages : r.st[s] # "failed") /\ r.quarantine = None
OneOpen == \A s, t \in Stages : ~Settled(run, s) /\ ~Settled(run, t) => s = t

\* The attempt in progress is bound to the same workspace.
SandboxAt(w) ==
  /\ pc[w] \in {"snapshot", "launch", "agent"} => att[w].session = "none"
  /\ pc[w] \in Busy \ {"snapshot"} =>
       /\ att[w].snapshot = CompletedIn(run)
       /\ pc[w] = "agent" \/ att[w].session # "none" =>
            att[w].binding = BindOn(output, inputs, att[w].snapshot)
  /\ pc[w] \in {"record", "commit"} /\ att[w].status = "completed" =>
       /\ att[w].session = "completed"
       /\ output[att[w].stage] = att[w].artifact

\* Every launch is accounted for by a receipt, a crash or the attempt that is
\* in progress.
InFlight(s) ==
  \E w \in Workers : pc[w] \in {"agent", "judge", "record"} /\ att[w].stage = s
LaunchInv(s) ==
  launches[s] <= Len(receipts[s]) + crashes + (IF InFlight(s) THEN 1 ELSE 0)

SandInv ==
  /\ orphans = {}
  /\ run # NoRun =>
       StatusOK(run) /\ OneOpen /\ \A s \in Stages : StageBound(s)
  /\ \A w \in Workers : SandboxAt(w)
  /\ \A s \in Stages : LaunchInv(s)

\* Bindings and receipts outlive every change that keeps the completed outputs.
LEMMA BindingIsBindOn ==
  \A snap : BindingOf(snap) = BindOn(output, inputs, snap)
BY DEF BindingOf, BindOn

LEMMA BindOnKept ==
  ASSUME NEW out, NEW out2, NEW inp, NEW snap,
         \A t \in Stages : t \in snap => out2[t] = out[t]
  PROVE  BindOn(out2, inp, snap) = BindOn(out, inp, snap)
<1>1. [t \in Stages |-> IF t \in snap THEN out2[t] ELSE Absent]
        = [t \in Stages |-> IF t \in snap THEN out[t] ELSE Absent]
  OBVIOUS
<1> QED  BY <1>1 DEF BindOn

LEMMA ReceiptKept ==
  ASSUME NEW rc, NEW done, NEW done2, NEW out, NEW out2, NEW inp,
         ReceiptTo(rc, done, out, inp), done \subseteq done2,
         \A t \in Stages : t \in done => out2[t] = out[t]
  PROVE  ReceiptTo(rc, done2, out2, inp)
<1>1. rc.session # "none" =>
        BindOn(out2, inp, rc.snapshot) = BindOn(out, inp, rc.snapshot)
  BY BindOnKept DEF ReceiptTo
<1> QED  BY <1>1 DEF ReceiptTo

\* A run that is in agreement with its receipts and its workspace passes the
\* validation of its chain.
LEMMA BoundChain ==
  ASSUME NEW r, NEW s \in Stages, StageLedger(r, s),
         receipts[s] \in Seq(Receipt), r.attempts[s] \in Seq(Receipt),
         \A i \in 1..Len(receipts[s]) :
           ReceiptTo(receipts[s][i], CompletedIn(run), output, inputs),
         r.st[s] = "completed" =>
           output[s] = r.artifact[s] /\ LastOf(r.attempts[s]).artifact = output[s]
  PROVE  LET done == r.attempts[s] IN
         /\ Len(done) <= Len(receipts[s])
         /\ \A i \in 1..Len(done) : done[i] = receipts[s][i] /\ SessionBound(done[i])
         /\ r.st[s] = "completed" =>
              /\ done # <<>> /\ done[Len(done)].status = "completed"
              /\ r.artifact[s] = done[Len(done)].artifact
              /\ output[s] = r.artifact[s]
         /\ r.st[s] = "failed" =>
              done # <<>> /\ done[Len(done)].status = "failed"
<1> DEFINE done == r.attempts[s]
<1>1. Len(done) \in Nat /\ Len(receipts[s]) \in Nat /\ Len(done) <= Len(receipts[s])
  BY DEF StageLedger
<1>2. ASSUME NEW i \in 1..Len(done)
      PROVE  done[i] = receipts[s][i] /\ SessionBound(done[i])
  <2>1. done[i] = receipts[s][i] /\ i \in 1..Len(receipts[s])
    BY <1>1, <1>2 DEF StageLedger
  <2>2. ReceiptTo(done[i], CompletedIn(run), output, inputs)
    BY <2>1
  <2> QED  BY <2>1, <2>2, BindingIsBindOn DEF SessionBound, ReceiptTo
<1>3. r.st[s] \in {"completed", "failed"} =>
        done # <<>> /\ done[Len(done)].status = r.st[s]
  BY DEF StageLedger
<1> QED  BY <1>1, <1>2, <1>3 DEF LastOf

\* A controller's own steps touch the workspace only to judge an attempt.
LEMMA ControllerFrame ==
  ASSUME NEW w \in Workers, Controller(w)
  PROVE  /\ inputs' = inputs /\ orphans' = orphans
         /\ ~Judge(w) => output' = output
<1>1. CASE Acquire(w) \/ InitialiseFresh(w) \/ InitialiseResume(w) \/ InitialiseRefuse(w)
  BY <1>1 DEF Acquire, InitialiseFresh, InitialiseResume, InitialiseRefuse, workspace
<1>2. CASE BeginStage(w) \/ BeginRefuse(w) \/ Snapshot(w) \/ ReuseSession(w)
  BY <1>2 DEF BeginStage, BeginRefuse, Snapshot, ReuseSession, workspace
<1>3. CASE LaunchSession(w) \/ SessionRefused(w) \/ EndSession(w) \/ Judge(w)
  BY <1>3 DEF LaunchSession, SessionRefused, EndSession, Judge, workspace
<1>4. CASE WriteAttempt(w) \/ CommitRun(w) \/ CompleteRun(w) \/ YieldRun(w)
  BY <1>4 DEF WriteAttempt, CommitRun, CompleteRun, YieldRun, workspace
<1> QED  BY <1>1, <1>2, <1>3, <1>4 DEF Controller

\* No step touches a completed output, and no agent is left behind.
LEMMA OutputKept ==
  ASSUME Manifest, IndInv, SandInv, [Next]_vars
  PROVE  /\ orphans' = {} /\ inputs' = inputs
         /\ run # NoRun =>
              \A t \in Stages : t \in CompletedIn(run) => output'[t] = output[t]
<1>0. TypeOK /\ ControlInv /\ orphans = {}
  BY DEF IndInv, SandInv
<1>1. ASSUME NEW w \in Workers, AgentWrite(w)
      PROVE  \A t \in Stages : t \in CompletedIn(run) => output'[t] = output[t]
  <2>1. att[w].snapshot = CompletedIn(run)
    BY <1>1 DEF AgentWrite, SandInv, SandboxAt, Busy
  <2>2. PICK t \in Writable(att[w].stage, att[w].snapshot), v \in Writes :
          output' = [output EXCEPT ![t] = v]
    BY <1>1 DEF AgentWrite
  <2>3. t \notin CompletedIn(run)
    BY <2>1, <2>2 DEF Writable
  <2> QED  BY <1>0, <2>2, <2>3 DEF TypeOK
<1>2. ASSUME NEW w \in Workers, Judge(w)
      PROVE  \A t \in Stages : t \in CompletedIn(run) => output'[t] = output[t]
  <2>1. att[w].stage \notin CompletedIn(run)
    BY <1>0, <1>2 DEF Judge, ControlInv, AttemptAt, CompletedIn, Busy
  <2> QED  BY <1>0, <1>2, <2>1 DEF Judge, TypeOK
<1>3. /\ inputs' = inputs /\ orphans' = {}
      /\ (\A w \in Workers : ~AgentWrite(w) /\ ~Judge(w)) => output' = output
  BY <1>0, ControllerFrame
  DEF Next, vars, workspace, AgentWrite, Crash, OrphanWrite, OrphanExit
<1> QED  BY <1>1, <1>2, <1>3

\* Reconciliation keeps the status of a run that of its stages.
LEMMA ReconcileStatusOK ==
  ASSUME TypeOK, run \in RunFile, StatusOK(run), OneOpen, LedgerInv
  PROVE  StatusOK(Reconcile(run))
<1> DEFINE r == Reconcile(run)
<1>0. run # NoRun
  BY RunFileNotNoRun
<1>1. \A s, t \in Stages : Exhausted(run, s) /\ Exhausted(run, t) => s = t
  BY DEF Exhausted, Orphaned, Settled, OneOpen
<1>2. \A s \in Stages :
        /\ r.st[s] = ReconciledStatus(run, s)
        /\ ReconciledStatus(run, s) = "failed" <=>
             Exhausted(run, s) \/ run.st[s] = "failed"
  <2>1. \A s \in Stages : r.st[s] = ReconciledStatus(run, s)
    BY DEF Reconcile
  <2>2. ASSUME NEW s \in Stages
        PROVE  ReconciledStatus(run, s) = "failed" <=>
                 Exhausted(run, s) \/ run.st[s] = "failed"
    BY DEF ReconciledStatus, Exhausted, Orphaned
  <2> QED  BY <2>1, <2>2
<1>3. CASE run.status # "active"
  <2>1. r = run
    BY <1>0, <1>3, ReconcileSettled DEF LedgerInv
  <2> QED  BY <2>1
<1>4. CASE run.status = "active" /\ \E s \in Stages : Exhausted(run, s)
  <2>1. PICK s \in Stages : Exhausted(run, s)
    BY <1>4
  <2>2. r.status = "quarantined" /\ r.quarantine = s
    BY <1>1, <2>1 DEF Reconcile
  <2>3. \A t \in Stages : run.st[t] # "failed"
    BY <1>4 DEF StatusOK
  <2>4. {t \in Stages : r.st[t] = "failed"} = {s}
    BY <1>1, <1>2, <2>1, <2>3
  <2> HIDE DEF r
  <2> QED  BY <2>2, <2>4 DEF StatusOK, r
<1>5. CASE run.status = "active" /\ ~\E s \in Stages : Exhausted(run, s)
  <2>1. r.status = "active" /\ r.quarantine = None
    BY <1>5 DEF Reconcile, StatusOK
  <2>2. \A t \in Stages : r.st[t] # "failed"
    BY <1>2, <1>5 DEF StatusOK
  <2> HIDE DEF r
  <2> QED  BY <2>1, <2>2 DEF StatusOK, r
<1> QED  BY <1>3, <1>4, <1>5

\* What else the commit of an attempt records.
LEMMA CommittedRest ==
  ASSUME NEW r \in RunFile, NEW a \in Attempt, NEW s \in Stages, a.stage = s
  PROVE  LET r1 == Committed(r, a)
             give_up == /\ a.status = "failed"
                        /\ ~a.retry_safe \/ Len(r.attempts[s]) + 1 >= MaxAttempts[s]
         IN
         /\ r1.quarantine = IF give_up THEN s ELSE r.quarantine
         /\ a.status = "completed" => r1.artifact[s] = a.artifact
<1>1. /\ DOMAIN r = {"status", "quarantine", "st", "attempts", "artifact"}
      /\ DOMAIN r.artifact = Stages
  BY DEF RunFile
<1> QED  BY <1>1 DEF Committed

\* Every step keeps the status of a run that of its stages, and one stage open.
LEMMA StatusStep ==
  ASSUME IndInv, [Next]_vars, LedgerInv', run # NoRun => StatusOK(run) /\ OneOpen
  PROVE  run' # NoRun => StatusOK(run)' /\ OneOpen'
<1>0. TypeOK /\ LedgerInv /\ ControlInv
  BY DEF IndInv
<1>1. CASE UNCHANGED <<run, receipts>>
  BY <1>1 DEF StatusOK, OneOpen, Settled
<1>2. ASSUME NEW w \in Workers, InitialiseFresh(w)
      PROVE  StatusOK(run)' /\ OneOpen'
  <2>1. run' = NewRun /\ \A s \in Stages : receipts'[s] = <<>>
    BY <1>0, <1>2 DEF InitialiseFresh, LedgerInv
  <2>2. NewRun.quarantine = None
    BY DEF NewRun
  <2>3. \A s \in Stages : Settled(run, s)'
    BY <2>1, NewRunShape DEF Settled
  <2> QED  BY <2>1, <2>2, <2>3, NewRunShape DEF StatusOK, OneOpen
<1>3. ASSUME NEW w \in Workers, InitialiseResume(w)
      PROVE  StatusOK(run)' /\ OneOpen'
  <2>1. /\ run \in RunFile /\ run' = Reconcile(run) /\ receipts' = receipts
        /\ run # NoRun
    BY <1>0, <1>3, RunFileNotNoRun DEF InitialiseResume, TypeOK
  <2>2. \A s \in Stages : Settled(Reconcile(run), s)
    BY <1>0, <2>1, ReconcileLedger DEF LedgerInv
  <2>3. \A s \in Stages : Settled(run, s)'
    BY <2>1, <2>2 DEF Settled
  <2>4. StatusOK(Reconcile(run))
    BY <1>0, <2>1, ReconcileStatusOK
  <2> QED  BY <2>1, <2>3, <2>4 DEF StatusOK, OneOpen
<1>4. ASSUME NEW w \in Workers, BeginStage(w)
      PROVE  StatusOK(run)' /\ OneOpen'
  <2>1. /\ run \in RunFile /\ run.status = "active" /\ receipts' = receipts
        /\ run # NoRun /\ Ready(run) # {} /\ mem[w] = run
    BY <1>4, ControllerState, RunFileNotNoRun DEF BeginStage
  <2>2. PICK s \in Stages : s = FirstReady(run) /\ s \in Ready(run)
    BY <2>1, FirstReadyIsReady DEF Ready
  <2>3. run' = [run EXCEPT !.st[s] = "running"]
    BY <1>4, <2>1, <2>2 DEF BeginStage
  <2>4. /\ run'.status = "active" /\ run'.attempts = run.attempts
        /\ run'.st = [run.st EXCEPT ![s] = "running"]
        /\ run'.quarantine = run.quarantine
        /\ run.st \in [Stages -> StageStatus]
    BY <2>1, <2>3, RunningShape DEF RunFile
  <2>5. \A t \in Stages : Settled(run, t)
    BY <1>0, <1>4 DEF BeginStage, ControlInv, ControlAt
  <2>6. \A t \in Stages : t # s => Settled(run, t)'
    BY <2>1, <2>4, <2>5 DEF Settled
  <2> QED  BY <2>1, <2>4, <2>6 DEF StatusOK, OneOpen
<1>5. ASSUME NEW w \in Workers, WriteAttempt(w)
      PROVE  StatusOK(run)' /\ OneOpen'
  <2>1. /\ run' = run /\ run # NoRun /\ att[w].stage \in Stages
        /\ \A t \in Stages \ {att[w].stage} : Settled(run, t)
    BY <1>0, <1>5, ControllerState, RunFileNotNoRun
    DEF WriteAttempt, ControlInv, AttemptAt, Busy
  <2>2. \A t \in Stages : t # att[w].stage => receipts'[t] = receipts[t]
    BY <1>0, <1>5, <2>1 DEF WriteAttempt, TypeOK
  <2>3. \A t \in Stages : t # att[w].stage => Settled(run, t)'
    BY <2>1, <2>2 DEF Settled
  <2> QED  BY <2>1, <2>3 DEF StatusOK, OneOpen
<1>6. ASSUME NEW w \in Workers, CommitRun(w)
      PROVE  StatusOK(run)' /\ OneOpen'
  <2>0. PICK s \in Stages : s = att[w].stage
    BY <1>6, ControllerState DEF CommitRun, Busy
  <2> DEFINE r1 == Committed(run, att[w])
             give_up == /\ att[w].status = "failed"
                        /\ \/ ~att[w].retry_safe
                           \/ Len(run.attempts[s]) + 1 >= MaxAttempts[s]
  <2>1. /\ run \in RunFile /\ run' = r1 /\ receipts' = receipts
        /\ att[w] \in Attempt /\ run.status = "active" /\ run # NoRun
    BY <1>6, ControllerState, RunFileNotNoRun DEF CommitRun
  <2>2. /\ run.st[s] = "running" /\ att[w].status # "open"
        /\ Len(receipts[s]) = Len(run.attempts[s]) + 1
        /\ LastOf(receipts[s]) = ReceiptOf(att[w])
        /\ \A t \in Stages \ {s} : Settled(run, t)
    BY <1>0, <1>6, <2>0 DEF CommitRun, ControlInv, AttemptAt, Busy
  <2>3. /\ r1.status = IF give_up THEN "quarantined" ELSE run.status
        /\ \A t \in Stages \ {s} :
             r1.st[t] = run.st[t] /\ r1.attempts[t] = run.attempts[t]
        /\ r1.st[s] = IF att[w].status = "completed" THEN "completed"
                      ELSE IF give_up THEN "failed" ELSE "pending"
    <3>1. r1.status = IF give_up THEN "quarantined" ELSE run.status
      BY <2>0, <2>1, <2>2, CommittedShape
    <3>2. \A t \in Stages \ {s} :
            r1.st[t] = run.st[t] /\ r1.attempts[t] = run.attempts[t]
      BY <2>0, <2>1, <2>2, CommittedShape
    <3>3. r1.st[s] = IF att[w].status = "completed" THEN "completed"
                     ELSE IF give_up THEN "failed" ELSE "pending"
      BY <2>0, <2>1, <2>2, CommittedShape
    <3> QED  BY <3>1, <3>2, <3>3
  <2>4. r1.quarantine = IF give_up THEN s ELSE run.quarantine
    BY <2>0, <2>1, CommittedRest
  <2>5. run.quarantine = None /\ \A t \in Stages : run.st[t] # "failed"
    BY <2>1 DEF StatusOK
  <2>6. \A t \in Stages : t # s => Settled(run, t)'
    BY <2>1, <2>2, <2>3 DEF Settled
  <2>7. StatusOK(r1)
    <3>1. CASE give_up
      <4>1. {t \in Stages : r1.st[t] = "failed"} = {s}
        <5> HIDE DEF r1
        <5> QED  BY <2>3, <2>5, <3>1
      <4> HIDE DEF r1
      <4> QED  BY <2>3, <2>4, <3>1, <4>1 DEF StatusOK
    <3>2. CASE ~give_up
      <4>1. /\ r1.status = "active" /\ r1.quarantine = None
            /\ \A t \in Stages : r1.st[t] # "failed"
        <5> HIDE DEF r1, give_up
        <5> QED  BY <2>1, <2>3, <2>4, <2>5, <3>2
      <4> HIDE DEF r1
      <4> QED  BY <4>1 DEF StatusOK
    <3> QED  BY <3>1, <3>2
  <2> HIDE DEF r1
  <2> QED  BY <2>1, <2>6, <2>7 DEF StatusOK, OneOpen
<1>7. ASSUME NEW w \in Workers, CompleteRun(w)
      PROVE  StatusOK(run)' /\ OneOpen'
  <2>1. /\ run \in RunFile /\ receipts' = receipts /\ mem[w] = run /\ run # NoRun
        /\ \A t \in Stages : run.st[t] = "completed"
        /\ run.status = "active"
    BY <1>0, <1>7, ControllerState, RunFileNotNoRun
    DEF CompleteRun, AllCompleted
  <2>2. \/ run' = run
        \/ run' = [run EXCEPT !.status = "semantic-complete-e1"]
    BY <1>7, <2>1 DEF CompleteRun
  <2>3. /\ run'.st = run.st /\ run'.attempts = run.attempts
        /\ run'.quarantine = run.quarantine
        /\ run'.status \in {"active", "semantic-complete-e1"}
    BY <2>1, <2>2 DEF RunFile
  <2> QED  BY <2>1, <2>3 DEF StatusOK, OneOpen, Settled
<1> QED
  BY <1>1, <1>2, <1>3, <1>4, <1>5, <1>6, <1>7
  DEF Next, Controller, vars, disk, Acquire, InitialiseRefuse, BeginRefuse,
      Snapshot, ReuseSession, LaunchSession, SessionRefused, EndSession, Judge,
      YieldRun, AgentWrite, Crash, OrphanWrite, OrphanExit

\* Attempt receipts appear by _write_attempt only, and only for the stage in
\* progress.
LEMMA OnlyWriteAttempt ==
  ASSUME IndInv, [Next]_vars
  PROVE  receipts' = receipts \/
         \E w \in Workers, s \in Stages :
           /\ WriteAttempt(w) /\ s = att[w].stage /\ pc[w] = "record"
           /\ run' = run /\ run # NoRun /\ output' = output /\ inputs' = inputs
           /\ Len(receipts[s]) = Len(run.attempts[s])
           /\ receipts'[s] = Append(receipts[s], ReceiptOf(att[w]))
           /\ att[w] \in Attempt /\ att[w].status # "open"
           /\ ReceiptOf(att[w]) \in Receipt
           /\ \A t \in Stages : t # s =>
                receipts'[t] = receipts[t] /\ Settled(run, t)
<1>1. ASSUME NEW w \in Workers, WriteAttempt(w), receipts' # receipts
      PROVE  \E s \in Stages :
               /\ s = att[w].stage /\ pc[w] = "record"
               /\ run' = run /\ run # NoRun /\ output' = output /\ inputs' = inputs
               /\ Len(receipts[s]) = Len(run.attempts[s])
               /\ receipts'[s] = Append(receipts[s], ReceiptOf(att[w]))
               /\ att[w] \in Attempt /\ att[w].status # "open"
               /\ ReceiptOf(att[w]) \in Receipt
               /\ \A t \in Stages : t # s =>
                    receipts'[t] = receipts[t] /\ Settled(run, t)
  <2>0. PICK s \in Stages : s = att[w].stage
    BY <1>1, ControllerState DEF WriteAttempt, Busy
  <2>1. /\ pc[w] = "record" /\ run' = run /\ output' = output /\ inputs' = inputs
        /\ receipts' = [receipts EXCEPT ![s] = Append(@, ReceiptOf(att[w]))]
    BY <1>1, <2>0 DEF WriteAttempt, workspace
  <2>2. run # NoRun /\ att[w] \in Attempt
    BY <2>1, ControllerState, RunFileNotNoRun
  <2>3. /\ Len(receipts[s]) = Len(run.attempts[s]) /\ att[w].status # "open"
        /\ \A t \in Stages \ {s} : Settled(run, t)
    BY <2>0, <2>1 DEF IndInv, ControlInv, AttemptAt, Busy
  <2>4. /\ receipts'[s] = Append(receipts[s], ReceiptOf(att[w]))
        /\ \A t \in Stages : t # s => receipts'[t] = receipts[t]
    BY <2>1 DEF IndInv, TypeOK
  <2>5. ReceiptOf(att[w]) \in Receipt
    BY <2>2, <2>3, ReceiptShape
  <2> QED  BY <2>0, <2>1, <2>2, <2>3, <2>4, <2>5
<1>2. \/ receipts' = receipts
      \/ \E w \in Workers : WriteAttempt(w)
  <2>1. CASE \E w \in Workers : Controller(w)
    <3>1. PICK w \in Workers : Controller(w)
      BY <2>1
    <3>2. CASE \/ Acquire(w) \/ InitialiseFresh(w) \/ InitialiseResume(w)
               \/ InitialiseRefuse(w) \/ BeginStage(w) \/ BeginRefuse(w)
               \/ Snapshot(w)
      BY <3>2 DEF Acquire, InitialiseFresh, InitialiseResume, InitialiseRefuse,
                  BeginStage, BeginRefuse, Snapshot, disk
    <3>3. CASE \/ ReuseSession(w) \/ LaunchSession(w) \/ SessionRefused(w)
               \/ EndSession(w) \/ Judge(w) \/ CommitRun(w) \/ CompleteRun(w)
               \/ YieldRun(w)
      BY <3>3 DEF ReuseSession, LaunchSession, SessionRefused, EndSession, Judge,
                  CommitRun, CompleteRun, YieldRun, disk
    <3> QED  BY <3>1, <3>2, <3>3 DEF Controller
  <2>2. CASE ~\E w \in Workers : Controller(w)
    BY <2>2 DEF Next, vars, disk, AgentWrite, Crash, OrphanWrite, OrphanExit
  <2> QED  BY <2>1, <2>2
<1> QED  BY <1>1, <1>2

\* Every receipt stays bound to the completed outputs as they are.
LEMMA ReceiptsStayBound ==
  ASSUME Manifest, IndInv, IndInv', SandInv, [Next]_vars, run' # NoRun,
         NEW s \in Stages
  PROVE  \A i \in 1..Len(receipts'[s]) :
           ReceiptTo(receipts'[s][i], CompletedIn(run'), output', inputs')
<1>0. /\ TypeOK /\ LedgerInv /\ ControlInv /\ ProgressStep /\ inputs' = inputs
      /\ receipts[s] \in Seq(Receipt)
  BY ProgressKept, OutputKept DEF IndInv, TypeOK
<1>1. CASE run = NoRun
  <2>1. receipts' = receipts
    BY <1>1, OnlyWriteAttempt
  <2>2. receipts[s] = <<>>
    BY <1>0, <1>1 DEF LedgerInv
  <2> QED  BY <2>1, <2>2
<1>2. CASE run # NoRun
  <2>1. CompletedIn(run) \subseteq CompletedIn(run')
    BY <1>0, <1>2 DEF ProgressStep, CompletedIn
  <2>2. \A t \in Stages : t \in CompletedIn(run) => output'[t] = output[t]
    BY <1>2, OutputKept
  <2>3. ASSUME NEW i \in 1..Len(receipts[s])
        PROVE  ReceiptTo(receipts[s][i], CompletedIn(run'), output', inputs')
    <3>1. ReceiptTo(receipts[s][i], CompletedIn(run), output, inputs)
      BY <1>2 DEF SandInv, StageBound
    <3> QED  BY <1>0, <2>1, <2>2, <3>1, ReceiptKept
  <2>4. CASE receipts'[s] = receipts[s]
    BY <2>3, <2>4
  <2>5. CASE receipts'[s] # receipts[s]
    <3>1. PICK w \in Workers :
            /\ pc[w] = "record" /\ run' = run /\ output' = output
            /\ receipts'[s] = Append(receipts[s], ReceiptOf(att[w]))
            /\ att[w] \in Attempt /\ att[w].status # "open"
            /\ ReceiptOf(att[w]) \in Receipt
      BY <2>5, OnlyWriteAttempt
    <3>2. ReceiptTo(ReceiptOf(att[w]), CompletedIn(run), output, inputs)
      <4>1. SandboxAt(w)
        BY DEF SandInv
      <4> QED  BY <3>1, <4>1 DEF SandboxAt, ReceiptTo, ReceiptOf, Attempt, Busy
    <3>3. ReceiptTo(ReceiptOf(att[w]), CompletedIn(run'), output', inputs')
      BY <1>0, <3>1, <3>2
    <3>4. ASSUME NEW i \in 1..Len(receipts'[s])
          PROVE  \/ i \in 1..Len(receipts[s]) /\ receipts'[s][i] = receipts[s][i]
                 \/ receipts'[s][i] = ReceiptOf(att[w])
      BY <1>0, <3>1
    <3> QED  BY <2>3, <3>3, <3>4
  <2> QED  BY <2>4, <2>5
<1> QED  BY <1>1, <1>2

\* factory-run.json is written by five steps.
LEMMA RunWriters ==
  ASSUME [Next]_vars
  PROVE  run' = run \/
         \E w \in Workers :
           \/ InitialiseFresh(w) \/ InitialiseResume(w) \/ BeginStage(w)
           \/ CommitRun(w) \/ CompleteRun(w)
<1>1. CASE \E w \in Workers : Controller(w)
  <2>1. PICK w \in Workers : Controller(w)
    BY <1>1
  <2>2. CASE \/ Acquire(w) \/ InitialiseRefuse(w) \/ BeginRefuse(w) \/ Snapshot(w)
             \/ ReuseSession(w) \/ LaunchSession(w)
    BY <2>2 DEF Acquire, InitialiseRefuse, BeginRefuse, Snapshot, ReuseSession,
                LaunchSession, disk
  <2>3. CASE \/ SessionRefused(w) \/ EndSession(w) \/ Judge(w) \/ WriteAttempt(w)
             \/ YieldRun(w)
    BY <2>3 DEF SessionRefused, EndSession, Judge, WriteAttempt, YieldRun, disk
  <2> QED  BY <2>1, <2>2, <2>3 DEF Controller
<1>2. CASE ~\E w \in Workers : Controller(w)
  BY <1>2 DEF Next, vars, disk, AgentWrite, Crash, OrphanWrite, OrphanExit
<1> QED  BY <1>1, <1>2

\* A stage becomes completed by the receipt of the output that is there.
LEMMA CompletedStaysBound ==
  ASSUME Manifest, IndInv, IndInv', SandInv, [Next]_vars, run' # NoRun,
         NEW s \in Stages, run'.st[s] = "completed"
  PROVE  /\ output'[s] = run'.artifact[s]
         /\ LastOf(run'.attempts[s]).artifact = output'[s]
<1>0. TypeOK /\ LedgerInv /\ ControlInv /\ ProgressStep
  BY ProgressKept DEF IndInv
<1>1. CASE run # NoRun /\ run.st[s] = "completed"
  <2>1. /\ output'[s] = output[s] /\ run'.artifact[s] = run.artifact[s]
        /\ output[s] = run.artifact[s]
        /\ LastOf(run.attempts[s]).artifact = output[s]
    BY <1>0, <1>1, OutputKept DEF CompletedIn, ProgressStep, SandInv, StageBound
  <2>2. /\ run.attempts[s] \in Seq(Receipt) /\ run'.attempts[s] \in Seq(Receipt)
    BY <1>0, <1>1, RunFileNotNoRun DEF IndInv, TypeOK, RunFile
  <2>3. StageLedger(run, s) /\ StageLedger(run, s)'
    BY <1>1 DEF IndInv, LedgerInv
  <2> DEFINE n == Len(run.attempts[s])
  <2>4. n > 0 /\ run.attempts[s][n].status = "completed"
    BY <1>1, <2>3 DEF StageLedger
  <2>5. n <= Len(run'.attempts[s]) /\ run'.attempts[s][n] = run.attempts[s][n]
    BY <1>0, <1>1, <2>2, <2>4 DEF ProgressStep
  <2>6. n = Len(run'.attempts[s])
    BY <2>2, <2>3, <2>4, <2>5 DEF StageLedger
  <2> QED  BY <2>1, <2>5, <2>6 DEF LastOf
<1>2. CASE run = NoRun \/ run.st[s] # "completed"
  <2>1. run' # run
    BY <1>2
  <2>2. ASSUME NEW w \in Workers, InitialiseFresh(w)
        PROVE  FALSE
    BY <2>2, NewRunShape DEF InitialiseFresh
  <2>3. ASSUME NEW w \in Workers, InitialiseResume(w)
        PROVE  /\ output'[s] = run'.artifact[s]
               /\ LastOf(run'.attempts[s]).artifact = output'[s]
    <3>1. run \in RunFile /\ run' = Reconcile(run) /\ output' = output
      BY <1>0, <2>3, RunFileNotNoRun DEF InitialiseResume, TypeOK, workspace
    <3>2. run'.st[s] = ReconciledStatus(run, s) /\ run.st[s] # "completed"
      BY <1>2, <3>1, RunFileNotNoRun DEF Reconcile
    <3>3. Orphaned(run, s) /\ OrphanOf(run, s).status = "completed"
      BY <3>2 DEF ReconciledStatus
    <3>4. /\ run'.artifact[s] = OrphanOf(run, s).artifact
          /\ run'.attempts[s] = Append(run.attempts[s], OrphanOf(run, s))
      BY <3>1, <3>3 DEF Reconcile
    <3>5. output[s] = OrphanOf(run, s).artifact
      BY <3>1, <3>3, RunFileNotNoRun DEF SandInv, StageBound
    <3>6. run.attempts[s] \in Seq(Receipt) /\ OrphanOf(run, s) \in Receipt
      BY <1>0, <3>1, <3>3, OrphanShape DEF RunFile
    <3>7. LastOf(run'.attempts[s]) = OrphanOf(run, s)
      BY <3>4, <3>6 DEF LastOf
    <3> QED  BY <3>1, <3>4, <3>5, <3>7
  <2>4. ASSUME NEW w \in Workers, BeginStage(w)
        PROVE  FALSE
    <3>1. /\ run \in RunFile /\ mem[w] = run
          /\ Ready(run) # {} /\ run' = [run EXCEPT !.st[FirstReady(run)] = "running"]
      BY <2>4, ControllerState DEF BeginStage
    <3>2. run'.st = [run.st EXCEPT ![FirstReady(run)] = "running"]
      BY <3>1, FirstReadyIsReady, RunningShape DEF Ready
    <3> QED  BY <1>2, <3>1, <3>2, RunFileNotNoRun DEF RunFile
  <2>5. ASSUME NEW w \in Workers, CommitRun(w)
        PROVE  /\ output'[s] = run'.artifact[s]
               /\ LastOf(run'.attempts[s]).artifact = output'[s]
    <3>1. /\ run \in RunFile /\ run' = Committed(run, att[w]) /\ output' = output
          /\ att[w] \in Attempt /\ att[w].stage \in Stages
      BY <2>5, ControllerState DEF CommitRun, workspace, Busy
    <3>2. att[w].status # "open" /\ SandboxAt(w) /\ pc[w] = "commit"
      BY <1>0, <2>5 DEF CommitRun, ControlInv, AttemptAt, SandInv
    <3>3. s = att[w].stage
      BY <1>2, <3>1, <3>2, CommittedShape, RunFileNotNoRun
    <3>4. att[w].status = "completed"
      BY <3>1, <3>2, <3>3, CommittedShape
    <3>5. output[s] = att[w].artifact
      BY <3>2, <3>3, <3>4 DEF SandboxAt
    <3>6. run'.artifact[s] = att[w].artifact
      BY <3>1, <3>3, <3>4, CommittedRest
    <3>7. run'.attempts[s] = Append(run.attempts[s], ReceiptOf(att[w]))
      BY <3>1, <3>2, <3>3, CommittedShape
    <3>8. run.attempts[s] \in Seq(Receipt) /\ ReceiptOf(att[w]) \in Receipt
      BY <3>1, <3>2, ReceiptShape DEF RunFile
    <3>9. LastOf(run'.attempts[s]) = ReceiptOf(att[w])
      BY <3>7, <3>8 DEF LastOf
    <3> QED  BY <3>1, <3>5, <3>6, <3>9 DEF ReceiptOf
  <2>6. ASSUME NEW w \in Workers, CompleteRun(w)
        PROVE  FALSE
    BY <1>2, <2>6, ControllerState, RunFileNotNoRun
    DEF CompleteRun, AllCompleted
  <2> QED  BY <2>1, <2>2, <2>3, <2>4, <2>5, <2>6, RunWriters
<1> QED  BY <1>1, <1>2

\* So is the receipt that a crash may leave unrecorded.
LEMMA OrphanStaysBound ==
  ASSUME Manifest, IndInv, IndInv', SandInv, [Next]_vars, run' # NoRun,
         NEW s \in Stages, Orphaned(run, s)', OrphanOf(run, s)'.status = "completed"
  PROVE  output'[s] = OrphanOf(run, s)'.artifact
<1>0. /\ TypeOK /\ LedgerInv /\ ControlInv
      /\ run'.attempts[s] \in Seq(Receipt) /\ receipts'[s] \in Seq(Receipt)
      /\ LedgerInv' /\ ControlInv'
  BY RunFileNotNoRun DEF IndInv, TypeOK, RunFile
<1>1. Len(run'.attempts[s]) # Len(receipts'[s])
  BY <1>0 DEF Orphaned
<1>2. ~Settled(run, s)'
  BY <1>1 DEF Settled
<1>3. CASE run' = run /\ receipts' = receipts
  <2>1. Orphaned(run, s) /\ OrphanOf(run, s) = OrphanOf(run, s)' /\ run # NoRun
    BY <1>3 DEF Orphaned, OrphanOf
  <2>2. output[s] = OrphanOf(run, s).artifact
    BY <2>1 DEF SandInv, StageBound
  <2>3. ASSUME NEW w \in Workers, pc[w] \in {"agent", "judge"}
        PROVE  FALSE
    <3>1. /\ \A t \in Stages \ {att[w].stage} : Settled(run, t)
          /\ Len(receipts[att[w].stage]) = Len(run.attempts[att[w].stage])
      BY <1>0, <2>3 DEF ControlInv, AttemptAt, Busy
    <3> QED  BY <1>1, <1>3, <3>1 DEF Settled
  <2>4. output' = output
    BY <2>3, ControllerFrame DEF Next, vars, workspace, AgentWrite, Judge, Crash,
       OrphanWrite, OrphanExit, SandInv
  <2> QED  BY <2>1, <2>2, <2>4
<1>4. CASE receipts' # receipts
  <2>1. PICK w \in Workers :
          /\ pc[w] = "record" /\ run' = run /\ output' = output
          /\ Len(receipts[att[w].stage]) = Len(run.attempts[att[w].stage])
          /\ receipts'[att[w].stage]
               = Append(receipts[att[w].stage], ReceiptOf(att[w]))
          /\ att[w].stage \in Stages
          /\ \A t \in Stages : t # att[w].stage =>
               receipts'[t] = receipts[t] /\ Settled(run, t)
    BY <1>4, OnlyWriteAttempt
  <2>2. s = att[w].stage
    BY <1>2, <2>1 DEF Settled
  <2>3. receipts[s] \in Seq(Receipt)
    BY <1>0 DEF TypeOK
  <2>4. OrphanOf(run, s)' = ReceiptOf(att[w])
    <3>1. /\ run' = run /\ Len(receipts[s]) = Len(run.attempts[s])
          /\ receipts'[s] = Append(receipts[s], ReceiptOf(att[w]))
      BY <2>1, <2>2
    <3>2. receipts'[s][Len(receipts[s]) + 1] = ReceiptOf(att[w])
      BY <2>3, <3>1
    <3> QED  BY <3>1, <3>2 DEF OrphanOf
  <2>5. SandboxAt(w)
    BY DEF SandInv
  <2> QED  BY <2>1, <2>2, <2>4, <2>5 DEF SandboxAt, ReceiptOf
<1>5. CASE run' # run /\ receipts' = receipts
  <2>1. ASSUME NEW w \in Workers, InitialiseFresh(w)
        PROVE  FALSE
    <3>1. run' = NewRun /\ receipts'[s] = <<>>
      BY <1>0, <2>1 DEF InitialiseFresh, LedgerInv
    <3> QED  BY <1>1, <3>1, NewRunShape
  <2>2. ASSUME NEW w \in Workers, InitialiseResume(w)
        PROVE  FALSE
    <3>1. run \in RunFile /\ run' = Reconcile(run) /\ StageLedger(run, s)
      BY <1>0, <2>2, RunFileNotNoRun DEF InitialiseResume, TypeOK, LedgerInv
    <3>2. Settled(Reconcile(run), s)
      BY <1>0, <3>1, ReconcileLedger
    <3> QED  BY <1>2, <1>5, <3>1, <3>2 DEF Settled
  <2>3. ASSUME NEW w \in Workers, BeginStage(w)
        PROVE  FALSE
    <3>1. /\ run \in RunFile /\ Ready(run) # {} /\ Settled(run, s)
          /\ run' = [run EXCEPT !.st[FirstReady(run)] = "running"]
      BY <1>0, <2>3, ControllerState DEF BeginStage, ControlInv, ControlAt
    <3>2. run'.attempts = run.attempts
      BY <3>1, FirstReadyIsReady, RunningShape DEF Ready
    <3> QED  BY <1>1, <1>5, <3>1, <3>2 DEF Settled
  <2>4. ASSUME NEW w \in Workers, CommitRun(w)
        PROVE  FALSE
    <3>0. PICK c \in Stages : c = att[w].stage
      BY <2>4, ControllerState DEF CommitRun, Busy
    <3>1. /\ run \in RunFile /\ run' = Committed(run, att[w])
          /\ att[w] \in Attempt
      BY <2>4, ControllerState DEF CommitRun
    <3>2. /\ att[w].status # "open" /\ run.st[c] = "running"
          /\ Len(receipts[c]) = Len(run.attempts[c]) + 1
          /\ LastOf(receipts[c]) = ReceiptOf(att[w])
          /\ \A t \in Stages \ {c} : Settled(run, t)
      BY <1>0, <2>4, <3>0 DEF CommitRun, ControlInv, AttemptAt, Busy
    <3>3. StageLedger(run, c)
      BY <1>0, <3>1, RunFileNotNoRun DEF LedgerInv
    <3>4. Settled(Committed(run, att[w]), c)
      BY <1>0, <3>0, <3>1, <3>2, <3>3, CommittedLedger
    <3>5. s # c => Settled(Committed(run, att[w]), s)
      <4>1. s # c => /\ Committed(run, att[w]).st[s] = run.st[s]
                     /\ Committed(run, att[w]).attempts[s] = run.attempts[s]
        BY <3>0, <3>1, <3>2, CommittedShape
      <4> QED  BY <3>2, <4>1 DEF Settled
    <3> QED  BY <1>2, <1>5, <3>1, <3>4, <3>5 DEF Settled
  <2>5. ASSUME NEW w \in Workers, CompleteRun(w)
        PROVE  FALSE
    <3>1. /\ run \in RunFile /\ Settled(run, s)
          /\ run' = [run EXCEPT !.status = "semantic-complete-e1"]
      BY <1>0, <1>5, <2>5, ControllerState DEF CompleteRun, ControlInv, ControlAt
    <3>2. run'.attempts = run.attempts
      BY <3>1 DEF RunFile
    <3> QED  BY <1>1, <1>5, <3>1, <3>2 DEF Settled
  <2> QED  BY <1>5, <2>1, <2>2, <2>3, <2>4, <2>5, RunWriters
<1> QED  BY <1>3, <1>4, <1>5

\* What the receipts bind is in the workspace after every step.
LEMMA StageBoundStep ==
  ASSUME Manifest, IndInv, IndInv', SandInv, [Next]_vars, run' # NoRun,
         NEW s \in Stages
  PROVE  StageBound(s)'
<1>1. \A i \in 1..Len(receipts'[s]) :
        ReceiptTo(receipts'[s][i], CompletedIn(run'), output', inputs')
  BY ReceiptsStayBound
<1>2. run'.st[s] = "completed" =>
        /\ output'[s] = run'.artifact[s]
        /\ LastOf(run'.attempts[s]).artifact = output'[s]
  BY CompletedStaysBound
<1>3. Orphaned(run, s)' /\ OrphanOf(run, s)'.status = "completed" =>
        output'[s] = OrphanOf(run, s)'.artifact
  BY OrphanStaysBound
<1> QED  BY <1>1, <1>2, <1>3 DEF StageBound

\* A step of one controller is a step of the only one that is not idle.
LEMMA ActorFrame ==
  ASSUME IndInv, NEW w \in Workers, Controller(w) \/ AgentWrite(w) \/ Crash(w)
  PROVE  /\ \A v \in Workers \ {w} : pc[v] = "idle" /\ pc'[v] = "idle"
         /\ pc[w] # "idle" \/ Acquire(w)
<1>0. pc \in [Workers -> PC]
  BY DEF IndInv, TypeOK
<1>1. /\ pc[w] # "idle" \/ (Acquire(w) /\ lock = None)
      /\ \A v \in Workers \ {w} : pc'[v] = pc[v]
  <2>1. CASE \/ Acquire(w) \/ InitialiseFresh(w) \/ InitialiseResume(w)
             \/ InitialiseRefuse(w) \/ BeginStage(w) \/ BeginRefuse(w)
    BY <1>0, <2>1 DEF Acquire, InitialiseFresh, InitialiseResume,
       InitialiseRefuse, BeginStage, BeginRefuse, Leave, Goto
  <2>2. CASE \/ Snapshot(w) \/ ReuseSession(w) \/ LaunchSession(w)
             \/ SessionRefused(w) \/ EndSession(w) \/ Judge(w)
    BY <1>0, <2>2 DEF Snapshot, ReuseSession, LaunchSession, SessionRefused,
       EndSession, Judge, Leave, Goto
  <2>3. CASE \/ WriteAttempt(w) \/ CommitRun(w) \/ CompleteRun(w) \/ YieldRun(w)
             \/ AgentWrite(w) \/ Crash(w)
    BY <1>0, <2>3 DEF WriteAttempt, CommitRun, CompleteRun, YieldRun, AgentWrite,
       Crash, Leave, Goto, control
  <2> QED  BY <2>1, <2>2, <2>3 DEF Controller
<1>2. \A v \in Workers : pc[v] # "idle" => lock = v
  BY DEF IndInv, ControlInv, ControlAt
<1> QED  BY <1>1, <1>2, EnvironmentAssumption

\* The binding of an attempt outlives a step that leaves its snapshot alone.
LEMMA SandboxKept ==
  ASSUME Manifest, IndInv, SandInv, [Next]_vars, NEW w \in Workers,
         pc[w] \in Busy \ {"snapshot"}, run' = run,
         att'[w].snapshot = att[w].snapshot
  PROVE  /\ att'[w].snapshot = CompletedIn(run')
         /\ BindOn(output', inputs', att'[w].snapshot)
              = BindOn(output, inputs, att[w].snapshot)
<1>1. att[w].snapshot = CompletedIn(run) /\ run # NoRun
  BY ControllerState, RunFileNotNoRun DEF SandInv, SandboxAt, Busy
<1>2. inputs' = inputs /\ \A t \in Stages : t \in CompletedIn(run) => output'[t] = output[t]
  BY <1>1, OutputKept
<1>3. BindOn(output', inputs, att[w].snapshot) = BindOn(output, inputs, att[w].snapshot)
  BY <1>1, <1>2, BindOnKept
<1> QED  BY <1>1, <1>2, <1>3

\* Every step keeps the attempt in progress bound to the workspace.
LEMMA SandboxStep ==
  ASSUME Manifest, IndInv, SandInv, [Next]_vars, NEW v \in Workers
  PROVE  SandboxAt(v)'
<1>0. TypeOK /\ ControlInv /\ orphans = {} /\ SandboxAt(v)
  BY DEF IndInv, SandInv
<1>1. CASE UNCHANGED vars
  BY <1>0, <1>1 DEF vars, disk, workspace, control, SandboxAt, CompletedIn
<1>2. ASSUME NEW w \in Workers, Controller(w) \/ AgentWrite(w) \/ Crash(w), w # v
      PROVE  SandboxAt(v)'
  <2>1. pc'[v] = "idle"
    BY <1>2, ActorFrame
  <2> QED  BY <2>1 DEF SandboxAt, Busy
<1>3. CASE pc'[v] \in {"idle", "initialise", "loop"}
  BY <1>3 DEF SandboxAt, Busy
<1>4. CASE BeginStage(v)
  <2>1. pc'[v] = "snapshot" /\ att'[v].session = "none"
    BY <1>0, <1>4 DEF BeginStage, Goto, TypeOK, NoAttempt
  <2> QED  BY <2>1 DEF SandboxAt
<1>5. CASE Snapshot(v) /\ pc'[v] # "idle"
  <2>1. /\ pc[v] = "snapshot" /\ pc'[v] = "launch" /\ run' = run /\ mem[v] = run
        /\ att'[v] = [att[v] EXCEPT !.before = output[att[v].stage],
                                    !.snapshot = CompletedIn(mem[v])]
        /\ att[v] \in Attempt
    BY <1>0, <1>5, ControllerState DEF Snapshot, Goto, TypeOK, Leave, disk
  <2>2. att[v].session = "none"
    BY <1>0, <2>1 DEF SandboxAt
  <2>3. att'[v].session = "none" /\ att'[v].snapshot = CompletedIn(run')
    BY <2>1, <2>2 DEF Attempt
  <2> QED  BY <2>1, <2>3 DEF SandboxAt
<1>6. CASE ReuseSession(v) \/ LaunchSession(v)
  <2>1. /\ pc[v] = "launch" /\ pc'[v] \in {"judge", "agent"} /\ run' = run
        /\ att'[v].binding = BindingOf(att[v].snapshot)
        /\ att'[v].snapshot = att[v].snapshot
        /\ pc'[v] = "agent" => att'[v].session = att[v].session
    BY <1>0, <1>6 DEF ReuseSession, LaunchSession, Goto, TypeOK, Attempt, disk
  <2>2. /\ att'[v].snapshot = CompletedIn(run')
        /\ att'[v].binding = BindOn(output', inputs', att'[v].snapshot)
    BY <2>1, SandboxKept, BindingIsBindOn DEF Busy
  <2> QED  BY <1>0, <2>1, <2>2 DEF SandboxAt
<1>7. CASE SessionRefused(v) \/ EndSession(v) \/ AgentWrite(v)
  <2>1. /\ pc[v] \in {"launch", "agent"} /\ pc'[v] \in {"judge", "agent"}
        /\ run' = run /\ att'[v].snapshot = att[v].snapshot
        /\ att'[v].binding = att[v].binding
        /\ att'[v].session = att[v].session \/ (pc[v] = "agent" /\ pc'[v] = "judge")
        /\ pc'[v] = "agent" => pc[v] = "agent"
    <3>1. CASE SessionRefused(v)
      BY <1>0, <3>1 DEF SessionRefused, AgentWrite, EndSession, Goto, TypeOK, disk
    <3>2. CASE EndSession(v)
      BY <1>0, <3>2 DEF SessionRefused, AgentWrite, EndSession, Goto, TypeOK,
                        Attempt, control
    <3>3. CASE AgentWrite(v)
      BY <1>0, <3>3 DEF SessionRefused, AgentWrite, EndSession, Goto, TypeOK,
                        control, disk
    <3> QED  BY <1>7, <3>1, <3>2, <3>3
  <2>2. /\ att'[v].snapshot = CompletedIn(run')
        /\ BindOn(output', inputs', att'[v].snapshot)
             = BindOn(output, inputs, att[v].snapshot)
    BY <2>1, SandboxKept DEF Busy
  <2>3. /\ att[v].session = "none"
        /\ pc[v] = "agent" =>
             att[v].binding = BindOn(output, inputs, att[v].snapshot)
    BY <1>0, <2>1 DEF SandboxAt, Busy
  <2>4. pc'[v] = "agent" =>
          att'[v].session = "none"
          /\ att'[v].binding = BindOn(output', inputs', att'[v].snapshot)
    BY <2>1, <2>2, <2>3
  <2>5. att'[v].session # "none" =>
          att'[v].binding = BindOn(output', inputs', att'[v].snapshot)
    BY <2>1, <2>2, <2>3
  <2> QED  BY <2>1, <2>2, <2>4, <2>5 DEF SandboxAt
<1>8. CASE Judge(v)
  <2>1. /\ pc[v] = "judge" /\ pc'[v] = "record" /\ run' = run
        /\ att'[v].snapshot = att[v].snapshot /\ att'[v].stage = att[v].stage
        /\ att'[v].binding = att[v].binding /\ att'[v].session = att[v].session
        /\ att'[v].status = "completed" =>
             /\ Accepted(v) /\ output' = output
             /\ att'[v].artifact = output[att[v].stage]
    BY <1>0, <1>8 DEF Judge, Goto, TypeOK, Attempt, disk
  <2>2. /\ att'[v].snapshot = CompletedIn(run')
        /\ BindOn(output', inputs', att'[v].snapshot)
             = BindOn(output, inputs, att[v].snapshot)
    BY <2>1, SandboxKept DEF Busy
  <2>3. att[v].session # "none" =>
          att[v].binding = BindOn(output, inputs, att[v].snapshot)
    BY <1>0, <2>1 DEF SandboxAt, Busy
  <2> QED  BY <2>1, <2>2, <2>3 DEF SandboxAt, Accepted
<1>9. CASE WriteAttempt(v) /\ pc'[v] # "idle"
  <2>1. /\ pc[v] = "record" /\ pc'[v] = "commit" /\ run' = run /\ att' = att
        /\ output' = output
    BY <1>0, <1>9 DEF WriteAttempt, Goto, Leave, TypeOK, workspace
  <2>2. /\ att'[v].snapshot = CompletedIn(run')
        /\ BindOn(output', inputs', att'[v].snapshot)
             = BindOn(output, inputs, att[v].snapshot)
    BY <2>1, SandboxKept DEF Busy
  <2> QED  BY <1>0, <2>1, <2>2 DEF SandboxAt, Busy
<1>10. ASSUME Controller(v) \/ AgentWrite(v) \/ Crash(v)
       PROVE  SandboxAt(v)'
  <2>1. CASE \/ Acquire(v) \/ InitialiseFresh(v) \/ InitialiseResume(v)
             \/ InitialiseRefuse(v) \/ BeginRefuse(v) \/ CommitRun(v)
             \/ CompleteRun(v) \/ YieldRun(v) \/ Crash(v)
    <3>1. pc'[v] \in {"idle", "initialise", "loop"}
      BY <1>0, <2>1 DEF Acquire, InitialiseFresh, InitialiseResume,
         InitialiseRefuse, BeginRefuse, CommitRun, CompleteRun, YieldRun, Crash,
         Leave, Goto, TypeOK
    <3> QED  BY <1>3, <3>1
  <2> QED  BY <1>3, <1>4, <1>5, <1>6, <1>7, <1>8, <1>9, <1>10, <2>1 DEF Controller
<1> QED  BY <1>0, <1>1, <1>2, <1>10 DEF Next, OrphanWrite, OrphanExit

\* Every started agent is accounted for: an attempt is lost by a crash only.
LEMMA LaunchStep ==
  ASSUME Manifest, IndInv, SandInv, [Next]_vars, NEW s \in Stages
  PROVE  LaunchInv(s)'
<1>0. /\ TypeOK /\ ControlInv /\ orphans = {} /\ LaunchInv(s)
      /\ launches[s] \in Nat /\ crashes \in Nat /\ receipts[s] \in Seq(Receipt)
      /\ Len(receipts[s]) \in Nat
  BY DEF IndInv, SandInv, TypeOK
<1>1. CASE UNCHANGED vars
  BY <1>0, <1>1 DEF vars, disk, control, history, LaunchInv, InFlight
<1>2. ASSUME NEW w \in Workers, Controller(w) \/ AgentWrite(w) \/ Crash(w)
      PROVE  LaunchInv(s)'
  <2> DEFINE on  == pc[w] \in {"agent", "judge", "record"} /\ att[w].stage = s
             on2 == pc'[w] \in {"agent", "judge", "record"} /\ att'[w].stage = s
  <2>1. (InFlight(s) <=> on) /\ (InFlight(s)' <=> on2)
    BY <1>2, ActorFrame DEF InFlight
  <2>2. /\ on  => launches[s] <= Len(receipts[s]) + crashes + 1
        /\ ~on => launches[s] <= Len(receipts[s]) + crashes
    <3> HIDE DEF on
    <3>1. CASE InFlight(s)
      BY <1>0, <2>1, <3>1 DEF LaunchInv
    <3>2. CASE ~InFlight(s)
      BY <1>0, <2>1, <3>2 DEF LaunchInv
    <3> QED  BY <3>1, <3>2
  <2>3. SUFFICES /\ on2  => launches'[s] <= Len(receipts'[s]) + crashes' + 1
                 /\ ~on2 => launches'[s] <= Len(receipts'[s]) + crashes'
    <3>1. /\ on2 \/ ~on2
          /\ receipts'[s] \in Seq(Receipt) /\ crashes' \in Nat
      <4>1. TypeOK'
        BY TypeControl, TypeAttempt, <1>0, <1>2 DEF Controller
      <4> QED  BY <4>1 DEF TypeOK
    <3> HIDE DEF on, on2
    <3> QED  BY <2>1, <2>3, <3>1 DEF LaunchInv
  <2>4. CASE UNCHANGED <<launches, receipts, crashes>> /\ (on => on2)
    BY <1>0, <2>2, <2>4
  <2>5. CASE LaunchSession(w)
    <3>1. /\ pc[w] = "launch" /\ pc'[w] = "agent" /\ att'[w].stage = att[w].stage
          /\ receipts' = receipts /\ crashes' = crashes
          /\ launches'[s] = IF att[w].stage = s /\ launches[s] < LaunchCap(s)
                            THEN launches[s] + 1 ELSE launches[s]
      BY <1>0, <2>5 DEF LaunchSession, Goto, TypeOK, Attempt, disk
    <3> QED  BY <1>0, <2>2, <3>1
  <2>6. CASE WriteAttempt(w)
    <3>1. pc[w] = "record" /\ launches' = launches /\ crashes' = crashes
      BY <2>6 DEF WriteAttempt, history
    <3>2. /\ mem[w] = run /\ run \in RunFile /\ att[w].stage \in Stages
          /\ att[w] \in Attempt
      BY <3>1, ControllerState DEF Busy
    <3>3. ChainOK(run)
      <4>1. ASSUME NEW t \in Stages
            PROVE  /\ StageLedger(run, t) /\ receipts[t] \in Seq(Receipt)
                   /\ run.attempts[t] \in Seq(Receipt) /\ StageBound(t)
        BY <1>0, <3>2, RunFileNotNoRun
        DEF IndInv, LedgerInv, TypeOK, RunFile, SandInv
      <4> QED  BY <4>1, BoundChain DEF ChainOK, StageBound
    <3>4. Len(receipts[att[w].stage]) < AttemptNumber(w)
      <4>1. Len(receipts[att[w].stage]) = Len(run.attempts[att[w].stage])
        BY <1>0, <3>1 DEF ControlInv, AttemptAt, Busy
      <4>2. receipts[att[w].stage] \in Seq(Receipt)
        BY <1>0, <3>2 DEF TypeOK
      <4>3. Len(receipts[att[w].stage]) \in Nat
        BY <4>2
      <4>4. AttemptNumber(w) = Len(receipts[att[w].stage]) + 1
        BY <3>2, <4>1 DEF AttemptNumber
      <4> QED  BY <4>3, <4>4
    <3>5. /\ receipts' = [receipts EXCEPT ![att[w].stage] = Append(@, ReceiptOf(att[w]))]
          /\ pc'[w] = "commit"
      BY <1>0, <2>6, <3>2, <3>3, <3>4 DEF WriteAttempt, Goto, TypeOK
    <3>6. att[w].status # "open" /\ ReceiptOf(att[w]) \in Receipt
      BY <1>0, <3>1, <3>2, ReceiptShape DEF ControlInv, AttemptAt
    <3>7. /\ s = att[w].stage => Len(receipts'[s]) = Len(receipts[s]) + 1
          /\ s # att[w].stage => receipts'[s] = receipts[s]
      BY <1>0, <3>2, <3>5, <3>6 DEF TypeOK
    <3> QED  BY <1>0, <2>2, <3>1, <3>5, <3>7
  <2>7. CASE Crash(w)
    <3>1. launches' = launches /\ receipts' = receipts /\ crashes' = crashes + 1
      BY <2>7 DEF Crash, disk
    <3>2. ~on2
      BY <1>0, <2>7 DEF Crash, Leave, Goto, TypeOK
    <3>3. launches[s] <= Len(receipts[s]) + crashes + 1
      <4> HIDE DEF on, on2
      <4> QED  BY <1>0, <2>2
    <3>4. launches'[s] <= Len(receipts'[s]) + crashes'
      <4>1. /\ launches'[s] = launches[s] /\ Len(receipts'[s]) = Len(receipts[s])
            /\ crashes' = crashes + 1
        BY <3>1
      <4>2. launches[s] \in Nat /\ Len(receipts[s]) \in Nat /\ crashes \in Nat
        BY <1>0
      <4>3. PICK a \in Nat, b \in Nat, c \in Nat :
              a = launches[s] /\ b = Len(receipts[s]) /\ c = crashes
        BY <4>2
      <4>4. a <= b + c + 1
        BY <3>3, <4>3
      <4>5. a <= b + (c + 1)
        BY <4>4
      <4>6. launches'[s] = a /\ Len(receipts'[s]) = b /\ crashes' = c + 1
        BY <4>1, <4>3
      <4> QED  BY <4>5, <4>6
    <3> HIDE DEF on2
    <3> QED  BY <3>2, <3>4
  <2>8. CASE \/ Acquire(w) \/ InitialiseFresh(w) \/ InitialiseResume(w)
             \/ InitialiseRefuse(w) \/ BeginStage(w) \/ BeginRefuse(w) \/ Snapshot(w)
    <3>1. /\ pc[w] \notin {"agent", "judge", "record"}
          /\ UNCHANGED <<launches, receipts, crashes>>
      BY <2>8 DEF Acquire, InitialiseFresh, InitialiseResume, InitialiseRefuse,
                  BeginStage, BeginRefuse, Snapshot, disk, history
    <3> QED  BY <2>4, <3>1
  <2>9. CASE \/ ReuseSession(w) \/ SessionRefused(w) \/ CommitRun(w)
             \/ CompleteRun(w) \/ YieldRun(w)
    <3>1. /\ pc[w] \notin {"agent", "judge", "record"}
          /\ UNCHANGED <<launches, receipts, crashes>>
      BY <2>9 DEF ReuseSession, SessionRefused, CommitRun, CompleteRun, YieldRun,
                  disk, history
    <3> QED  BY <2>4, <3>1
  <2>10. CASE EndSession(w) \/ Judge(w) \/ AgentWrite(w)
    <3>1. /\ pc'[w] \in {"agent", "judge", "record"} /\ att'[w].stage = att[w].stage
          /\ UNCHANGED <<launches, receipts, crashes>>
      <4>1. CASE EndSession(w)
        BY <1>0, <4>1 DEF EndSession, Goto, TypeOK, Attempt, history
      <4>2. CASE Judge(w)
        BY <1>0, <4>2 DEF Judge, Goto, TypeOK, Attempt, history, disk
      <4>3. CASE AgentWrite(w)
        BY <1>0, <4>3 DEF AgentWrite, control, history, disk
      <4> QED  BY <2>10, <4>1, <4>2, <4>3
    <3> QED  BY <2>4, <3>1
  <2> QED  BY <1>2, <2>5, <2>6, <2>7, <2>8, <2>9, <2>10 DEF Controller
<1> QED  BY <1>0, <1>1, <1>2 DEF Next, OrphanWrite, OrphanExit

\* A sandboxed plan starts with nothing bound and nothing started.
LEMMA SandInit ==
  ASSUME Init
  PROVE  SandInv
BY DEF Init, SandInv, SandboxAt, Busy, LaunchInv

\* Every step of a sandboxed plan keeps the invariant.
LEMMA SandStep ==
  ASSUME Manifest, IndInv, IndInv', SandInv, [Next]_vars
  PROVE  SandInv'
<1>1. run' # NoRun => StatusOK(run)' /\ OneOpen'
  BY StatusStep DEF IndInv, SandInv
<1>2. orphans' = {}
  BY OutputKept
<1> QED  BY <1>1, <1>2, StageBoundStep, SandboxStep, LaunchStep DEF SandInv

\* With a workspace manifest, whatever agents and crashes do, what the attempt
\* receipts bind is in the workspace and every started agent is accounted for.
THEOREM SandboxKeepsBindings == Manifest => (Spec => [](IndInv /\ SandInv))
<1> SUFFICES ASSUME Manifest
             PROVE  Spec => [](IndInv /\ SandInv)
  OBVIOUS
<1>1. Init => SandInv
  BY SandInit
<1>2. IndInv /\ IndInv' /\ SandInv /\ [Next]_vars => SandInv'
  BY SandStep
<1> QED  BY <1>1, <1>2, Inductive, PTL DEF Spec

\* A run that agrees with its receipts and its workspace is accepted.
LEMMA BoundLoadable ==
  ASSUME NEW r, StatusOK(r), r \in RunFile, TypeOK,
         \A s \in Stages :
           /\ StageLedger(r, s)
           /\ \A i \in 1..Len(receipts[s]) :
                ReceiptTo(receipts[s][i], CompletedIn(run), output, inputs)
           /\ r.st[s] = "completed" =>
                /\ output[s] = r.artifact[s]
                /\ LastOf(r.attempts[s]).artifact = output[s]
  PROVE  Loadable(r)
<1>1. ChainOK(r)
  <2>1. \A s \in Stages :
          receipts[s] \in Seq(Receipt) /\ r.attempts[s] \in Seq(Receipt)
    BY DEF TypeOK, RunFile
  <2> QED  BY <2>1, BoundChain DEF ChainOK
<1> QED  BY <1>1 DEF Loadable, StatusOK

\* Crash recovery of a sandboxed plan: the next initialise accepts the persisted
\* run, and what _reconcile_orphan_attempts makes of it, whatever step a
\* controller crashed at and whatever agents wrote.
THEOREM SandboxedLoadable == Manifest => (Spec => []RunAlwaysLoadable)
<1>1. IndInv /\ SandInv => RunAlwaysLoadable
  <2> SUFFICES ASSUME IndInv, SandInv, run # NoRun
               PROVE  Loadable(run) /\ Loadable(Reconcile(run))
    BY DEF RunAlwaysLoadable
  <2>1. /\ TypeOK /\ run \in RunFile /\ StatusOK(run) /\ OneOpen /\ LedgerInv
        /\ \A s \in Stages : StageLedger(run, s) /\ StageBound(s)
    BY DEF IndInv, TypeOK, LedgerInv, SandInv
  <2>2. Loadable(run)
    BY <2>1, BoundLoadable DEF StageBound
  <2>3. Loadable(Reconcile(run))
    <3> DEFINE r == Reconcile(run)
    <3>1. r \in RunFile /\ StatusOK(r)
      BY <2>1, ReconcileShape, ReconcileStatusOK
    <3>2. ASSUME NEW s \in Stages, r.st[s] = "completed"
          PROVE  /\ output[s] = r.artifact[s]
                 /\ LastOf(r.attempts[s]).artifact = output[s]
      <4>1. CASE Orphaned(run, s)
        <5>1. OrphanOf(run, s).status = "completed"
          <6>1. run.st[s] # "completed" /\ ReconciledStatus(run, s) = "completed"
            BY <3>2, <4>1 DEF Orphaned, Reconcile
          <6> QED  BY <6>1 DEF ReconciledStatus
        <5>2. /\ r.artifact[s] = OrphanOf(run, s).artifact
              /\ r.attempts[s] = Append(run.attempts[s], OrphanOf(run, s))
          BY <4>1, <5>1 DEF Reconcile
        <5>3. run.attempts[s] \in Seq(Receipt) /\ OrphanOf(run, s) \in Receipt
          BY <2>1, <4>1, OrphanShape DEF RunFile
        <5>4. LastOf(r.attempts[s]) = OrphanOf(run, s)
          BY <5>2, <5>3 DEF LastOf
        <5>5. output[s] = OrphanOf(run, s).artifact
          BY <2>1, <4>1, <5>1 DEF StageBound
        <5> QED  BY <5>2, <5>4, <5>5
      <4>2. CASE ~Orphaned(run, s)
        <5>1. /\ run.st[s] = "completed" /\ r.artifact[s] = run.artifact[s]
              /\ r.attempts[s] = run.attempts[s]
          BY <3>2, <4>2 DEF Reconcile, ReconciledStatus, Exhausted
        <5> QED  BY <2>1, <5>1 DEF StageBound
      <4> QED  BY <4>1, <4>2
    <3>3. \A s \in Stages : StageLedger(r, s)
      BY <2>1, ReconcileLedger
    <3> HIDE DEF r
    <3> QED  BY <2>1, <3>1, <3>2, <3>3, BoundLoadable DEF StageBound, r
  <2> QED  BY <2>2, <2>3
<1> QED  BY <1>1, SandboxKeepsBindings, PTL

\* Model liability of a sandboxed plan: a stage's agent is started at most
\* max_attempts times, plus once for each controller crash.
THEOREM SandboxedLaunchesBounded == Manifest => (Spec => []LaunchesBounded)
<1>1. IndInv /\ SandInv => LaunchesBounded
  <2> SUFFICES ASSUME IndInv, SandInv, NEW s \in Stages
               PROVE  launches[s] <= MaxAttempts[s] + crashes
    BY DEF LaunchesBounded
  <2>1. /\ TypeOK /\ LedgerInv /\ ControlInv /\ LaunchInv(s)
        /\ launches[s] \in Nat /\ crashes \in Nat /\ Len(receipts[s]) \in Nat
        /\ MaxAttempts[s] \in Nat
    <3>1. MaxAttempts[s] \in Nat
      BY PlanAssumption
    <3> QED  BY <3>1 DEF IndInv, SandInv, TypeOK
  <2>2. Len(receipts[s]) <= MaxAttempts[s]
    <3>1. CASE run = NoRun
      BY <2>1, <3>1 DEF LedgerInv
    <3>2. CASE run # NoRun
      <4>1. run \in RunFile /\ StageLedger(run, s) /\ run.st[s] \in StageStatus
        BY <2>1, <3>2 DEF LedgerInv, TypeOK, RunFile
      <4>2. Len(run.attempts[s]) \in Nat
        BY <4>1 DEF RunFile
      <4> QED  BY <2>1, <4>1, <4>2 DEF StageLedger, StageStatus
    <3> QED  BY <3>1, <3>2
  <2>3. CASE InFlight(s)
    <3>1. PICK w \in Workers : pc[w] \in {"agent", "judge", "record"} /\ att[w].stage = s
      BY <2>3 DEF InFlight
    <3>2. /\ run \in RunFile /\ run # NoRun /\ run.st[s] = "running"
          /\ Len(receipts[s]) = Len(run.attempts[s])
      BY <2>1, <3>1, ControllerState, RunFileNotNoRun DEF ControlInv, AttemptAt, Busy
    <3>3. Len(receipts[s]) < MaxAttempts[s]
      BY <2>1, <3>2 DEF LedgerInv, StageLedger
    <3> QED  BY <2>1, <2>3, <3>3 DEF LaunchInv
  <2>4. CASE ~InFlight(s)
    BY <2>1, <2>2, <2>4 DEF LaunchInv
  <2> QED  BY <2>3, <2>4
<1> QED  BY <1>1, SandboxKeepsBindings, PTL

(***************************************************************************)
(* The autopilot                                                           *)
(***************************************************************************)
\* The evidence root is the autopilot's alone.
Alone == Workers = {Driver}

\* The stage waits for no barrier or its barrier is recorded.
Cleared(s) == BarrierOf[s] # None => BarrierOf[s] \in barriers

ShapeInv ==
  /\ apc \in APC /\ view \in RunFile \cup {NoRun} /\ astatus \in RunStatus
  /\ barriers \subseteq installed /\ installed \subseteq Barriers

\* Outside its call of run_factory the autopilot's view of the run is the run
\* file, or what initialise is about to write there.
ViewInv ==
  /\ apc # "running" => pc[Driver] = "idle"
  /\ apc = "write" => view = IF run = NoRun THEN NewRun ELSE Reconcile(run)
  /\ apc \in {"decide", "harbor", "record", "call"} =>
       view = run /\ run # NoRun /\ \A s \in Stages : Settled(run, s)

\* The autopilot calls run_factory for a stage whose barrier is cleared.
BarrierInv ==
  /\ apc \in {"harbor", "record", "call"} => Ready(view) # {}
  /\ apc \in {"harbor", "record"} => NextBarrier \in Barriers
  /\ apc = "record" => NextBarrier \in installed
  /\ apc = "call" => Cleared(FirstReady(view))

\* run_factory begins that stage and no other.
CallInv ==
  /\ pc[Driver] = "initialise" \/ (pc[Driver] = "loop" /\ ~att[Driver].executed) =>
       /\ run # NoRun /\ \A s \in Stages : Settled(run, s)
       /\ Ready(run) # {} => Cleared(FirstReady(run))
  /\ pc[Driver] \in Busy => Cleared(att[Driver].stage)
  /\ \A s \in Stages : launches[s] > 0 => Cleared(s)

AInv == IndInv /\ ShapeInv /\ ViewInv /\ BarrierInv /\ CallInv

(***************************************************************************)
(* The steps of the factory within those of the autopilot                  *)
(***************************************************************************)
\* The first stage in plan order of a run that has a ready stage is a stage.
LEMMA FirstReadyIsStage ==
  ASSUME NEW r, Ready(r) # {}
  PROVE  FirstReady(r) \in Stages
BY FirstReadyIsReady DEF Ready

\* What the autopilot does beside its initialise and its call leaves the
\* factory's invariant alone.
LEMMA BesideFactory ==
  ASSUME IndInv, inputs' \in Nat, crashes' \in Nat,
         UNCHANGED <<run, receipts, session, output, control, orphans, launches>>
  PROVE  IndInv'
<1>1. TypeOK' /\ LedgerInv' /\ DependencyOrder'
  BY DEF IndInv, TypeOK, LedgerInv, StageLedger, Settled, DependencyOrder, LastOf,
         control
<1>2. ControlInv'
  BY DEF IndInv, ControlInv, ControlAt, AttemptAt, Settled, CompletedIn, LastOf,
         control
<1> QED  BY <1>1, <1>2 DEF IndInv

\* The autopilot's own initialise, while its run_factory is not running, writes a
\* run that is settled and loses no progress.
LEMMA WriteView ==
  ASSUME Alone, IndInv, pc[Driver] = "idle",
         run' = IF run = NoRun THEN NewRun ELSE Reconcile(run),
         UNCHANGED <<receipts, session, workspace, control, orphans, history>>
  PROVE  /\ IndInv' /\ run' # NoRun /\ ProgressStep
         /\ \A s \in Stages : Settled(run, s)'
<1>0. TypeOK /\ LedgerInv /\ DependencyOrder
  BY DEF IndInv
<1>1. /\ run' # NoRun /\ run' \in RunFile /\ ProgressStep
      /\ \A s \in Stages : StageLedger(run, s)' /\ Settled(run, s)'
  <2>1. CASE run = NoRun
    <3>1. run' = NewRun /\ \A s \in Stages : receipts'[s] = <<>>
      BY <1>0, <2>1 DEF LedgerInv
    <3>2. \A s \in Stages : MaxAttempts[s] \in Nat /\ 0 < MaxAttempts[s]
      BY PlanAssumption
    <3>3. \A s \in Stages : StageLedger(run, s)' /\ Settled(run, s)'
      BY <3>1, <3>2, NewRunShape DEF StageLedger, Settled
    <3> QED  BY <2>1, <3>1, <3>3, NewRunShape, RunFileNotNoRun DEF ProgressStep
  <2>2. CASE run # NoRun
    <3>1. /\ run \in RunFile /\ run' = Reconcile(run)
          /\ \A s \in Stages : StageLedger(run, s)
      BY <1>0, <2>2 DEF TypeOK, LedgerInv
    <3>2. \A s \in Stages :
            StageLedger(Reconcile(run), s) /\ Settled(Reconcile(run), s)
      BY <1>0, <3>1, ReconcileLedger
    <3>3. \A s \in Stages : StageLedger(run, s)' /\ Settled(run, s)'
      BY <3>1, <3>2 DEF StageLedger, Settled
    <3> QED  BY <1>0, <2>2, <3>1, <3>3, ReconcileShape, ReconcileProgress,
                RunFileNotNoRun
  <2> QED  BY <2>1, <2>2
<1>2. TypeOK' /\ LedgerInv' /\ DependencyOrder'
  BY <1>0, <1>1 DEF TypeOK, LedgerInv, DependencyOrder, LastOf, workspace, control,
     history
<1>3. ControlInv'
  BY DEF Alone, ControlInv, ControlAt, AttemptAt, Busy, control
<1> QED  BY <1>1, <1>2, <1>3 DEF IndInv

(***************************************************************************)
(* Steps                                                                   *)
(***************************************************************************)
\* Every step of the autopilot is one of the factory's, its own initialise, or
\* one that leaves the run file and the receipts alone.
LEMMA StepKinds ==
  ASSUME Alone, AInv, [ANext]_avars
  PROVE  /\ IndInv'
         /\ ProgressStep
<1>0. IndInv /\ inputs \in Nat /\ crashes \in Nat /\ Driver \in Workers
  <2>1. IndInv /\ Driver \in Workers
    BY AutopilotAssumption DEF AInv
  <2>2. TypeOK
    BY <2>1 DEF IndInv
  <2> QED  BY <2>1, <2>2 DEF TypeOK
<1>1. CASE [Next]_vars
  BY <1>0, <1>1, IndStep, ProgressKept
<1>2. CASE AWriteRun
  <2>1. pc[Driver] = "idle" /\ run' = IF run = NoRun THEN NewRun ELSE Reconcile(run)
    BY <1>2 DEF AWriteRun, AInv, ViewInv
  <2> QED  BY <1>0, <1>2, <2>1, WriteView DEF AWriteRun
<1>3. CASE /\ UNCHANGED <<run, receipts, session, output, control, orphans, launches>>
           /\ inputs' \in Nat /\ crashes' \in Nat
  <2>1. IndInv'
    BY <1>0, <1>3, BesideFactory
  <2>2. run = NoRun \/ run \in RunFile
    BY <1>0 DEF IndInv, TypeOK
  <2>3. ProgressStep
    BY <1>3, <2>2 DEF ProgressStep, RunFile
  <2> QED  BY <2>1, <2>3
<1>4. CASE \/ AStart \/ ALoad \/ AFinish \/ ADecide \/ AHarborFails
           \/ ARecordBarrier \/ AReturn \/ UNCHANGED avars
  <2>1. UNCHANGED vars
    BY <1>4 DEF AStart, ALoad, AFinish, ADecide, AHarborFails, ARecordBarrier,
                AReturn, avars
  <2> QED  BY <1>1, <2>1
<1>5. CASE AInstall
  BY <1>0, <1>3, <1>5 DEF AInstall, disk, history
<1>6. CASE ACall
  <2>1. Controller(Driver)
    BY <1>6 DEF ACall, Controller
  <2>2. Next
    BY <1>0, <2>1 DEF Next
  <2> QED  BY <1>1, <2>2
<1>7. ASSUME NEW w \in Workers, FactoryStep(w)
      PROVE  IndInv' /\ ProgressStep
  BY <1>1, <1>7 DEF FactoryStep, Next
<1>8. ASSUME NEW w \in Workers, ACrash(w)
      PROVE  IndInv' /\ ProgressStep
  <2>1. CASE pc[w] # "idle"
    BY <1>1, <1>8, <2>1 DEF ACrash, Next
  <2>2. CASE pc[w] = "idle"
    BY <1>0, <1>3, <1>8, <2>2 DEF ACrash, disk, workspace
  <2> QED  BY <2>1, <2>2
<1>9. ASSUME NEW s \in Stages, AgentsLeftBehind(s)
      PROVE  IndInv' /\ ProgressStep
  BY <1>1, <1>9 DEF AgentsLeftBehind, Next
<1> QED  BY <1>2, <1>4, <1>5, <1>6, <1>7, <1>8, <1>9 DEF ANext

\* What a step of run_factory or of an agent leaves as it is.
LEMMA InsideCall ==
  ASSUME Alone, AInv, NEW w \in Workers, FactoryStep(w)
  PROVE  /\ w = Driver /\ apc = "running" /\ pc[Driver] # "idle"
         /\ UNCHANGED autopilot
<1>1. w = Driver /\ ViewInv
  BY DEF Alone, AInv
<1>2. pc[Driver] # "idle" /\ UNCHANGED autopilot
  BY <1>1 DEF FactoryStep
<1> QED  BY <1>1, <1>2 DEF ViewInv

\* The recorded state keeps its shape.
LEMMA ShapeStep ==
  ASSUME Alone, AInv, [ANext]_avars
  PROVE  ShapeInv'
<1>0. ShapeInv /\ ViewInv /\ BarrierInv /\ TypeOK
  BY DEF AInv, IndInv
<1>1. CASE ALoad
  <2>1. NewRun \in RunFile
    BY NewRunShape
  <2>2. run # NoRun => Reconcile(run) \in RunFile
    BY <1>0, ReconcileShape DEF TypeOK
  <2> QED  BY <1>0, <1>1, <2>1, <2>2 DEF ALoad, ShapeInv, APC
<1>2. CASE AStart \/ AWriteRun \/ ADecide \/ AHarborFails \/ ACall \/ AReturn
  BY <1>0, <1>2 DEF AStart, AWriteRun, ADecide, AHarborFails, ACall, AReturn,
     ShapeInv, APC
<1>3. CASE AFinish
  BY <1>0, <1>3 DEF AFinish, ShapeInv, APC, Terminal, RunStatus
<1>4. CASE AInstall
  BY <1>0, <1>4 DEF AInstall, ShapeInv, APC, BarrierInv
<1>5. CASE ARecordBarrier
  BY <1>0, <1>5 DEF ARecordBarrier, ShapeInv, APC, BarrierInv
<1>6. ASSUME NEW w \in Workers, FactoryStep(w)
      PROVE  ShapeInv'
  BY <1>0, <1>6 DEF FactoryStep, autopilot, ShapeInv
<1>7. ASSUME NEW w \in Workers, ACrash(w)
      PROVE  ShapeInv'
  BY <1>0, <1>7 DEF ACrash, ShapeInv, APC
<1>8. ASSUME NEW s \in Stages, AgentsLeftBehind(s)
      PROVE  ShapeInv'
  BY <1>0, <1>8 DEF AgentsLeftBehind, autopilot, ShapeInv
<1>9. CASE UNCHANGED avars
  BY <1>0, <1>9 DEF avars, autopilot, ShapeInv
<1> QED  BY <1>1, <1>2, <1>3, <1>4, <1>5, <1>6, <1>7, <1>8, <1>9 DEF ANext

\* A crash, or the return of run_factory, leaves the one controller idle.
LEMMA CrashIdle ==
  ASSUME Alone, AInv, NEW w \in Workers, ACrash(w)
  PROVE  w = Driver /\ apc' = "off" /\ pc'[Driver] = "idle"
<1>1. w = Driver /\ apc' = "off"
  BY DEF Alone, ACrash
<1>2. pc \in [Workers -> PC]
  BY DEF AInv, IndInv, TypeOK
<1>3. CASE pc[w] # "idle"
  BY <1>1, <1>2, <1>3 DEF ACrash, Crash, Leave, Goto
<1>4. CASE pc[w] = "idle"
  BY <1>1, <1>4 DEF ACrash, control
<1> QED  BY <1>1, <1>3, <1>4

\* The autopilot's view stays the run file for as long as it relies on it.
LEMMA ViewStep ==
  ASSUME Alone, AInv, [ANext]_avars
  PROVE  ViewInv'
<1>0. ViewInv /\ IndInv
  BY DEF AInv
<1>1. CASE AStart \/ AFinish \/ AHarborFails \/ AReturn
  <2>1. pc[Driver] = "idle" /\ pc' = pc /\ apc' \in {"top", "off"}
    BY <1>0, <1>1 DEF AStart, AFinish, AHarborFails, AReturn, ViewInv, vars, control
  <2> QED  BY <2>1 DEF ViewInv
<1>2. CASE ALoad
  BY <1>0, <1>2 DEF ALoad, ViewInv, Reconcile, ReconciledStatus, Exhausted,
     Orphaned, OrphanOf, vars, disk, control
<1>3. CASE AWriteRun
  <2>1. /\ pc[Driver] = "idle" /\ run' = view /\ view' = view
        /\ view = IF run = NoRun THEN NewRun ELSE Reconcile(run)
        /\ apc' = "decide" /\ pc' = pc
    BY <1>0, <1>3 DEF AWriteRun, ViewInv, control
  <2>2. run' # NoRun /\ \A s \in Stages : Settled(run, s)'
    BY <1>0, <1>3, <2>1, WriteView DEF AWriteRun
  <2> QED  BY <2>1, <2>2 DEF ViewInv
<1>4. CASE ADecide \/ ARecordBarrier
  BY <1>0, <1>4 DEF ADecide, ARecordBarrier, ViewInv, vars, disk, control, Settled
<1>5. CASE AInstall
  BY <1>0, <1>5 DEF AInstall, ViewInv, disk, control, Settled
<1>6. CASE ACall
  BY <1>6 DEF ACall, ViewInv
<1>7. ASSUME NEW w \in Workers, FactoryStep(w)
      PROVE  ViewInv'
  BY <1>7, InsideCall DEF ViewInv, autopilot
<1>8. ASSUME NEW w \in Workers, ACrash(w)
      PROVE  ViewInv'
  BY <1>8, CrashIdle DEF ViewInv
<1>9. ASSUME NEW s \in Stages, AgentsLeftBehind(s)
      PROVE  ViewInv'
  <2>1. UNCHANGED <<run, receipts, pc, view, apc>>
    BY <1>9 DEF AgentsLeftBehind, OrphanWrite, OrphanExit, autopilot, disk, control
  <2>2. UNCHANGED Reconcile(run) /\ \A s2 \in Stages : UNCHANGED Settled(run, s2)
    BY <2>1 DEF Reconcile, ReconciledStatus, Exhausted, Orphaned, OrphanOf, Settled
  <2> QED  BY <1>0, <2>1, <2>2 DEF ViewInv
<1>10. CASE UNCHANGED avars
  <2>1. UNCHANGED <<run, receipts, pc, view, apc>>
    BY <1>10 DEF avars, vars, autopilot, disk, control
  <2>2. UNCHANGED Reconcile(run) /\ \A s2 \in Stages : UNCHANGED Settled(run, s2)
    BY <2>1 DEF Reconcile, ReconciledStatus, Exhausted, Orphaned, OrphanOf, Settled
  <2> QED  BY <1>0, <2>1, <2>2 DEF ViewInv
<1> QED  BY <1>1, <1>2, <1>3, <1>4, <1>5, <1>6, <1>7, <1>8, <1>9, <1>10 DEF ANext

\* The barrier of the stage the autopilot calls run_factory for is recorded.
LEMMA BarrierStep ==
  ASSUME Alone, AInv, [ANext]_avars
  PROVE  BarrierInv'
<1>0. ShapeInv /\ ViewInv /\ BarrierInv
  BY DEF AInv
<1>1. CASE \/ AStart \/ ALoad \/ AWriteRun \/ AFinish \/ AHarborFails \/ ACall
           \/ AReturn
  BY <1>1 DEF AStart, ALoad, AWriteRun, AFinish, AHarborFails, ACall, AReturn,
     BarrierInv
<1>2. CASE ADecide
  <2>1. CASE Ready(view) = {}
    BY <1>2, <2>1 DEF ADecide, BarrierInv
  <2>2. CASE Ready(view) # {}
    <3>1. FirstReady(view) \in Stages /\ Ready(view)' = Ready(view)
          /\ NextBarrier' = NextBarrier /\ FirstReady(view)' = FirstReady(view)
          /\ barriers' = barriers /\ Barriers' = Barriers
      BY <1>2, <2>2, FirstReadyIsStage DEF ADecide, NextBarrier
    <3>2. NextBarrier \notin Barriers \ barriers => Cleared(FirstReady(view))
      BY <3>1 DEF NextBarrier, Barriers, Cleared
    <3>3. apc' = IF NextBarrier \in Barriers \ barriers THEN "harbor" ELSE "call"
      BY <1>2, <2>2 DEF ADecide
    <3>4. Cleared(FirstReady(view)) => Cleared(FirstReady(view))'
      BY <3>1 DEF Cleared
    <3> QED  BY <2>2, <3>1, <3>2, <3>3, <3>4 DEF BarrierInv
  <2> QED  BY <2>1, <2>2
<1>3. CASE AInstall
  <2>1. /\ apc = "harbor" /\ apc' = "record" /\ view' = view
        /\ installed' = installed \cup {NextBarrier}
    BY <1>3 DEF AInstall
  <2>2. NextBarrier' = NextBarrier /\ Ready(view)' = Ready(view)
    BY <2>1 DEF NextBarrier
  <2> QED  BY <1>0, <2>1, <2>2 DEF BarrierInv
<1>4. CASE ARecordBarrier
  <2>1. /\ apc = "record" /\ apc' = "call" /\ view' = view
        /\ barriers' = barriers \cup {NextBarrier}
    BY <1>4 DEF ARecordBarrier
  <2>2. Cleared(FirstReady(view))' /\ Ready(view)' = Ready(view)
    BY <2>1 DEF Cleared, NextBarrier
  <2> QED  BY <1>0, <2>1, <2>2 DEF BarrierInv
<1>5. ASSUME NEW w \in Workers, FactoryStep(w)
      PROVE  BarrierInv'
  BY <1>5, InsideCall DEF BarrierInv, autopilot
<1>6. ASSUME NEW w \in Workers, ACrash(w)
      PROVE  BarrierInv'
  BY <1>6, CrashIdle DEF BarrierInv
<1>7. CASE UNCHANGED autopilot
  <2>1. UNCHANGED <<Ready(view), NextBarrier, Cleared(FirstReady(view))>>
    BY <1>7 DEF autopilot, NextBarrier, Cleared
  <2> QED  BY <1>0, <1>7, <2>1 DEF BarrierInv, autopilot
<1> QED  BY <1>1, <1>2, <1>3, <1>4, <1>5, <1>6, <1>7
         DEF ANext, AgentsLeftBehind, avars

\* A cleared stage stays cleared: recorded barriers are not taken back.
LEMMA ClearedStays ==
  ASSUME barriers \subseteq barriers'
  PROVE  \A s : Cleared(s) => Cleared(s)'
BY DEF Cleared

\* While run_factory does not run, what the autopilot does keeps its stage cleared.
LEMMA CallOutside ==
  ASSUME AInv, UNCHANGED <<pc, launches>>, barriers \subseteq barriers',
         pc[Driver] = "idle"
  PROVE  CallInv'
<1>1. CallInv
  BY DEF AInv
<1> QED  BY <1>1, ClearedStays DEF CallInv, Busy

\* run_factory begins no stage but the one whose barrier is cleared.
LEMMA CallInside ==
  ASSUME AInv, NEW w \in Workers, FactoryStep(w), w = Driver, IndInv',
         UNCHANGED barriers
  PROVE  CallInv'
<1>0. /\ CallInv /\ IndInv /\ TypeOK /\ ControlInv /\ pc[w] # "idle"
      /\ \A s : Cleared(s) => Cleared(s)'
  BY ClearedStays DEF AInv, IndInv, FactoryStep
<1>1. CASE UNCHANGED launches /\ pc'[w] = "idle"
  BY <1>0, <1>1 DEF CallInv, Busy
<1>2. CASE /\ UNCHANGED launches /\ pc[w] \in Busy /\ pc'[w] \in Busy
           /\ att'[w].stage = att[w].stage
  BY <1>0, <1>2 DEF CallInv, Busy
<1>3. CASE InitialiseFresh(w)
  BY <1>0, <1>3 DEF InitialiseFresh, CallInv
<1>4. CASE InitialiseResume(w)
  <2>1. /\ pc[w] = "initialise" /\ run # NoRun /\ run' = Reconcile(run)
        /\ receipts' = receipts /\ launches' = launches
        /\ pc'[w] \in {"idle", "loop"}
    BY <1>0, <1>4 DEF InitialiseResume, Leave, Goto, TypeOK, history
  <2>2. \A s \in Stages : Settled(run, s)
    BY <1>0, <2>1 DEF CallInv
  <2>3. run' = run
    BY <1>0, <2>1, <2>2, ReconcileSettled DEF TypeOK
  <2>4. (\A s \in Stages : Settled(run, s)') /\ Ready(run)' = Ready(run)
        /\ FirstReady(run)' = FirstReady(run)
    BY <2>1, <2>2, <2>3 DEF Settled
  <2> QED  BY <1>0, <2>1, <2>3, <2>4 DEF CallInv, Busy
<1>5. CASE InitialiseRefuse(w) \/ BeginRefuse(w) \/ CompleteRun(w) \/ YieldRun(w)
  <2>1. pc'[w] = "idle" /\ launches' = launches
    BY <1>0, <1>5 DEF InitialiseRefuse, BeginRefuse, CompleteRun, YieldRun, Leave,
       Goto, TypeOK, history
  <2> QED  BY <1>1, <2>1
<1>6. CASE BeginStage(w)
  <2>1. /\ pc[w] = "loop" /\ pc'[w] = "snapshot" /\ ~att[w].executed
        /\ Ready(mem[w]) # {} /\ mem[w] = run /\ launches' = launches
        /\ att'[w].stage = FirstReady(run)
    <3>1. pc[w] = "loop" /\ pc'[w] = "snapshot" /\ launches' = launches
      BY <1>0, <1>6 DEF BeginStage, Goto, TypeOK, history
    <3>2. ~att[w].executed
      BY <3>1 DEF FactoryStep
    <3>3. mem[w] = run
      BY <1>0, <3>1 DEF ControlInv, ControlAt
    <3>4. Ready(mem[w]) # {} /\ att'[w].stage = FirstReady(mem[w])
      BY <1>0, <1>6 DEF BeginStage, TypeOK, NoAttempt
    <3> QED  BY <3>1, <3>2, <3>3, <3>4
  <2>2. Cleared(FirstReady(run))
    BY <1>0, <2>1 DEF CallInv
  <2>3. Cleared(att[w].stage)'
    BY <1>0, <2>1, <2>2
  <2> QED  BY <1>0, <2>1, <2>3 DEF CallInv, Busy
<1>7. CASE Snapshot(w) \/ WriteAttempt(w)
  <2>1. /\ launches' = launches /\ pc[w] \in Busy
        /\ pc'[w] = "idle" \/ (pc'[w] \in Busy /\ att'[w].stage = att[w].stage)
    BY <1>0, <1>7 DEF Snapshot, WriteAttempt, Leave, Goto, TypeOK, Attempt, Busy,
       history
  <2> QED  BY <1>1, <1>2, <2>1
<1>8. CASE ReuseSession(w) \/ SessionRefused(w) \/ AgentWrite(w)
  <2>1. /\ launches' = launches /\ pc[w] \in Busy /\ pc'[w] \in Busy
        /\ att'[w].stage = att[w].stage
    BY <1>0, <1>8 DEF ReuseSession, SessionRefused, AgentWrite, Goto, TypeOK,
       Attempt, Busy, history, control
  <2> QED  BY <1>2, <2>1
<1>9. CASE EndSession(w) \/ Judge(w)
  <2>1. /\ launches' = launches /\ pc[w] \in Busy /\ pc'[w] \in Busy
        /\ att'[w].stage = att[w].stage
    BY <1>0, <1>9 DEF EndSession, Judge, Goto, TypeOK, Attempt, Busy, history
  <2> QED  BY <1>2, <2>1
<1>10. CASE LaunchSession(w)
  <2>1. /\ pc[w] \in Busy /\ pc'[w] = "agent" /\ att'[w].stage = att[w].stage
        /\ \A s \in Stages : s # att[w].stage => launches'[s] = launches[s]
    BY <1>0, <1>10 DEF LaunchSession, Goto, TypeOK, Attempt, Busy
  <2> QED  BY <1>0, <2>1 DEF CallInv, Busy
<1>11. CASE CommitRun(w)
  <2>1. /\ launches' = launches
        /\ pc'[w] = "idle" \/ (pc'[w] = "loop" /\ att'[w].executed)
    BY <1>0, <1>11 DEF CommitRun, Leave, Goto, TypeOK, NoAttempt, history
  <2> QED  BY <1>0, <2>1 DEF CallInv, Busy
<1> QED
  BY <1>0, <1>3, <1>4, <1>5, <1>6, <1>7, <1>8, <1>9, <1>10, <1>11
  DEF FactoryStep, Controller, Acquire

\* Every step keeps the call of run_factory on the stage that is cleared.
LEMMA CallStep ==
  ASSUME Alone, AInv, [ANext]_avars, IndInv'
  PROVE  CallInv'
<1>0. CallInv /\ ViewInv /\ BarrierInv /\ TypeOK
  BY DEF AInv, IndInv
<1>1. CASE AStart \/ ALoad \/ AWriteRun \/ AFinish \/ ADecide
  <2>1. pc[Driver] = "idle" /\ UNCHANGED <<pc, launches, barriers>>
    BY <1>0, <1>1 DEF AStart, ALoad, AWriteRun, AFinish, ADecide, ViewInv, vars,
       control, history
  <2> QED  BY <2>1, CallOutside
<1>2. CASE AHarborFails \/ AInstall \/ ARecordBarrier \/ AReturn
  <2>1. /\ pc[Driver] = "idle" /\ UNCHANGED <<pc, launches>>
        /\ barriers \subseteq barriers'
    BY <1>0, <1>2 DEF AHarborFails, AInstall, ARecordBarrier, AReturn, ViewInv,
       vars, control, history
  <2> QED  BY <2>1, CallOutside
<1>3. CASE ACall
  <2>1. /\ apc = "call" /\ pc'[Driver] = "initialise"
        /\ UNCHANGED <<run, receipts, launches, barriers, view>>
    BY <1>0, <1>3, AutopilotAssumption
    DEF ACall, Acquire, Goto, TypeOK, disk, history
  <2>2. /\ view = run /\ run # NoRun /\ \A s \in Stages : Settled(run, s)
        /\ Cleared(FirstReady(run))
    BY <1>0, <2>1 DEF ViewInv, BarrierInv
  <2>3. /\ \A s \in Stages : Settled(run, s)'
        /\ Cleared(FirstReady(run))'
        /\ \A s : Cleared(s)' <=> Cleared(s)
    BY <2>1, <2>2 DEF Settled, Cleared
  <2> QED  BY <1>0, <2>1, <2>2, <2>3 DEF CallInv, Busy
<1>4. ASSUME NEW w \in Workers, FactoryStep(w)
      PROVE  CallInv'
  <2>1. w = Driver /\ UNCHANGED barriers
    BY <1>4, InsideCall DEF autopilot
  <2> QED  BY <1>4, <2>1, CallInside
<1>5. ASSUME NEW w \in Workers, ACrash(w)
      PROVE  CallInv'
  <2>1. pc'[Driver] = "idle" /\ UNCHANGED <<launches, barriers>>
    BY <1>5, CrashIdle DEF ACrash, Crash
  <2>2. \A s : Cleared(s) => Cleared(s)'
    BY <2>1, ClearedStays
  <2> QED  BY <1>0, <2>1, <2>2 DEF CallInv, Busy
<1>6. CASE (\E s \in Stages : AgentsLeftBehind(s)) \/ UNCHANGED avars
  <2>1. UNCHANGED <<run, receipts, pc, att, launches, barriers>>
    BY <1>6 DEF AgentsLeftBehind, OrphanWrite, OrphanExit, avars, vars, disk,
       control, history, autopilot
  <2>2. /\ \A s : Settled(run, s)' <=> Settled(run, s)
        /\ \A s : Cleared(s)' <=> Cleared(s)
    BY <2>1 DEF Settled, Cleared
  <2>3. UNCHANGED <<Ready(run), Cleared(FirstReady(run)), Cleared(att[Driver].stage)>>
    BY <2>1 DEF Cleared
  <2> QED  BY <1>0, <2>1, <2>2, <2>3 DEF CallInv
<1> QED  BY <1>1, <1>2, <1>3, <1>4, <1>5, <1>6 DEF ANext

(***************************************************************************)
(* Theorems                                                                *)
(***************************************************************************)
\* Before anything has happened the autopilot has seen and recorded nothing.
LEMMA AInitHolds ==
  ASSUME AInit
  PROVE  AInv
<1>1. IndInv
  BY InitHolds DEF AInit
<1>2. /\ apc = "off" /\ view = NoRun /\ barriers = {} /\ installed = {}
      /\ astatus = "active" /\ pc[Driver] = "idle"
      /\ \A s \in Stages : launches[s] = 0
  BY AutopilotAssumption DEF AInit, Init
<1>3. ShapeInv /\ ViewInv /\ BarrierInv /\ CallInv
  BY <1>2 DEF ShapeInv, ViewInv, BarrierInv, CallInv, APC, RunStatus, Busy
<1> QED  BY <1>1, <1>3 DEF AInv

\* The autopilot's view of the run, its barriers and its call of run_factory
\* agree with the files at every step, whatever crashes.
THEOREM AutopilotInductive == Alone => (ASpec => []AInv)
<1> SUFFICES ASSUME Alone
             PROVE  ASpec => []AInv
  OBVIOUS
<1>1. AInit => AInv
  BY AInitHolds
<1>2. AInv /\ [ANext]_avars => AInv'
  <2> SUFFICES ASSUME AInv, [ANext]_avars
               PROVE  AInv'
    OBVIOUS
  <2>1. IndInv'
    BY StepKinds
  <2> QED  BY <2>1, ShapeStep, ViewStep, BarrierStep, CallStep DEF AInv
<1> QED  BY <1>1, <1>2, PTL DEF ASpec

\* An agent of a barrier stage is started only when the barrier's evidence is
\* installed and recorded, across crashes between the two, as long as nobody else
\* runs the factory on the same evidence root.
THEOREM BarrierFirst == Alone => (ASpec => []BarrierBeforeStage)
<1>1. AInv => BarrierBeforeStage
  <2> SUFFICES ASSUME AInv
               PROVE  BarrierBeforeStage
    OBVIOUS
  <2>1. TypeOK /\ ShapeInv /\ CallInv
    BY DEF AInv, IndInv
  <2>2. ATypeOK
    BY <2>1 DEF ATypeOK, ShapeInv
  <2>3. ASSUME NEW s \in Stages, launches[s] > 0 /\ BarrierOf[s] # None
        PROVE  BarrierOf[s] \in barriers /\ BarrierOf[s] \in installed
    BY <2>1, <2>3 DEF CallInv, Cleared, ShapeInv
  <2> QED  BY <2>2, <2>3 DEF BarrierBeforeStage
<1> QED  BY <1>1, AutopilotInductive, PTL

\* No write of factory-run.json, by the autopilot's own initialise or by
\* run_factory, loses progress.
THEOREM AutopilotLosesNothing == Alone => (ASpec => AProgressNeverLost)
<1> SUFFICES ASSUME Alone
             PROVE  ASpec => AProgressNeverLost
  OBVIOUS
<1>1. AInv /\ [ANext]_avars => [ProgressStep]_avars
  BY StepKinds
<1> QED  BY <1>1, AutopilotInductive, PTL DEF ASpec, AProgressNeverLost
=============================================================================
