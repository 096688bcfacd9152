---------------------------- MODULE EvidenceProofs ----------------------------
(***************************************************************************)
(* Proofs about the evidence of a task card, from the Harbor receipt       *)
(* (module HarborControls) and the screening report (VolcRollout) to the   *)
(* card made of them (TaskCards); for every set of invocations, requests,  *)
(* verifier outcomes, screening results, number of repetitions and bound.  *)
(* The three specifications share no variable: each theorem names its own. *)
(*                                                                         *)
(* HarborControls: the exclusive creation of the logs gives a job one      *)
(* owner, so a job is started at most once; a job directory belongs to a   *)
(* job that was started, and a valid one to a process that has ended.  A   *)
(* valid job therefore stays valid, and what an invocation selected is     *)
(* still valid when it writes the receipt.                                 *)
(*                                                                         *)
(* VolcRollout: an arm's tally is what happened in the arm's trials so     *)
(* far, and the number of trials is counted from the plan; the report is   *)
(* made of the tallies when every planned trial has ended, or when none    *)
(* was run.                                                                *)
(*                                                                         *)
(* TaskCards: a readable report with arms was decided on by run_rollout on *)
(* those arms, and outside a suite its bytes belong to one invocation.     *)
(***************************************************************************)
EXTENDS HarborControls, VolcRollout, TaskCards, FiniteSetTheorems,
        WellFoundedInduction, TLAPS

\* A nonempty set of naturals has a smallest element.
LEMMA SmallestExists ==
  ASSUME NEW T, T \subseteq Nat, T # {}
  PROVE  \E x \in T : \A y \in T : x <= y
<1> DEFINE R == OpToRel(<, Nat)
<1>1. \E x \in T : \A y \in T : ~(<<y, x>> \in R)
  <2>1. IsWellFoundedOn(R, Nat)
    BY NatLessThanWellFounded
  <2> HIDE DEF R
  <2> QED  BY <2>1, WFMin
<1>2. \A x, y \in T : ~(<<y, x>> \in R) => x <= y
  BY DEF OpToRel
<1> HIDE DEF R
<1> QED  BY <1>1, <1>2

(***************************************************************************)
(* The control receipt                                                     *)
(***************************************************************************)
\* The job a process works on
KeyOf(w) == <<Control(w), num[w]>>

\* A job directory exists only for a job that was started, and started once; a
\* valid one has no process any more.
JobInv ==
  \A c \in Controls, n \in Attempts :
    /\ launched[c][n] <= 1
    /\ launched[c][n] = 1 => <<c, n>> \in logs
    /\ <<c, n>> \in procs => launched[c][n] = 1
    /\ job[c][n] # "absent" => launched[c][n] = 1
    /\ job[c][n] = "valid" => <<c, n>> \notin procs

\* Past the choice of a number a process has one; past the creation of the logs
\* they are there and the job was never started.
WorkerInv(w) ==
  /\ pc[w] \in {"open", "spawn", "wait"} => Selecting(w) /\ num[w] \in Attempts
  /\ pc[w] = "spawn" =>
       KeyOf(w) \in logs /\ launched[Control(w)][num[w]] = 0
  /\ \A c \in Controls :
       selected[w][c] # 0 => job[c][selected[w][c]] = "valid"

\* No two processes own one job.
OwnerInv ==
  \A v, w \in Workers :
    pc[v] = "spawn" /\ pc[w] = "spawn" /\ KeyOf(v) = KeyOf(w) => v = w

IndInv ==
  TypeOK /\ JobInv /\ (\A w \in Workers : WorkerInv(w)) /\ OwnerInv /\ ReceiptSound

(***************************************************************************)
(* Operators                                                               *)
(***************************************************************************)
\* The highest of some attempt numbers is one of them.
LEMMA MaxAttempt ==
  ASSUME NEW S, S \subseteq Attempts, S # {}
  PROVE  Max(S) \in S
<1> DEFINE T == {MaxJobs - n : n \in S}
<1>1. MaxJobs \in Nat /\ S \subseteq 1..MaxJobs
  BY ControlsAssumption DEF Attempts
<1>2. T \subseteq Nat /\ T # {}
  <2>1. \A n \in 1..MaxJobs : MaxJobs - n \in Nat
    BY <1>1
  <2> QED  BY <1>1, <2>1
<1>3. PICK t \in T : \A u \in T : t <= u
  <2> HIDE DEF T
  <2> QED  BY <1>2, SmallestExists
<1>4. \E n \in S : \A m \in S : n >= m
  <2>1. PICK n \in S : t = MaxJobs - n
    BY <1>3
  <2>2. \A m \in S : MaxJobs - n <= MaxJobs - m
    BY <1>3, <2>1
  <2> QED  BY <1>1, <2>2
<1> QED  BY <1>4 DEF Max

\* _valid_completed_job and _next_job return attempt numbers.
LEMMA NumberShape ==
  ASSUME NEW c \in Controls
  PROVE  /\ ValidJobs(c) # {} => Max(ValidJobs(c)) \in ValidJobs(c)
         /\ NextJob(c) \in Nat \ {0}
<1>1. ValidJobs(c) # {} => Max(ValidJobs(c)) \in ValidJobs(c)
  BY MaxAttempt DEF ValidJobs
<1>2. NextJob(c) \in Nat \ {0}
  <2> DEFINE taken == {n \in Attempts : job[c][n] # "absent"}
  <2>1. taken # {} => Max(taken) \in taken
    BY MaxAttempt
  <2>2. taken # {} => Max(taken) \in Nat
    BY <2>1, ControlsAssumption DEF Attempts
  <2>3. NextJob(c) = IF taken = {} THEN 1 ELSE Max(taken) + 1
    BY DEF NextJob
  <2> HIDE DEF taken
  <2> QED  BY <2>2, <2>3
<1> QED  BY <1>1, <1>2

\* The control a process works on is one of the two, and one it has not
\* selected a job of.
LEMMA ControlShape ==
  ASSUME NEW w
  PROVE  /\ Control(w) \in Controls
         /\ Selecting(w) => selected[w][Control(w)] = 0
BY DEF Control, Controls, Selecting

(***************************************************************************)
(* Types                                                                   *)
(***************************************************************************)
\* A process that leaves keeps its locals in shape.
LEMMA LeaveType ==
  ASSUME TypeOK, NEW w \in Workers, Leave(w)
  PROVE  /\ pc' \in [Workers -> PC]
         /\ selected' \in [Workers -> [Controls -> 0..MaxJobs]]
         /\ num' \in [Workers -> 0..MaxJobs]
<1>1. Unselected \in [Controls -> 0..MaxJobs] /\ 0 \in 0..MaxJobs
  BY ControlsAssumption DEF Unselected
<1> QED  BY <1>1 DEF Leave, Goto, TypeOK, PC

\* Every step of an invocation keeps the types.
LEMMA TypeInvocation ==
  ASSUME IndInv, NEW w \in Workers, Invocation(w) \/ Crash(w)
  PROVE  TypeOK'
<1>0. TypeOK /\ WorkerInv(w)
  BY DEF IndInv
<1>1. CASE Begin(w)
  BY <1>0, <1>1 DEF Begin, Goto, TypeOK, PC
<1>2. CASE SelectCompleted(w)
  <2>1. Max(ValidJobs(Control(w))) \in Attempts
    BY <1>2, NumberShape, ControlShape DEF SelectCompleted, ValidJobs
  <2>2. Attempts \subseteq 0..MaxJobs
    BY ControlsAssumption DEF Attempts
  <2> QED  BY <1>0, <1>2, <2>1, <2>2, ControlShape DEF SelectCompleted, TypeOK
<1>3. CASE ChooseJob(w)
  <2>1. NextJob(Control(w)) \in 0..MaxJobs
    BY <1>3, NumberShape, ControlShape, ControlsAssumption DEF ChooseJob
  <2> QED  BY <1>0, <1>3, <2>1 DEF ChooseJob, Goto, TypeOK, PC
<1>4. CASE OpenLogs(w)
  <2>1. KeyOf(w) \in Controls \X Attempts
    BY <1>0, <1>4, ControlShape DEF OpenLogs, WorkerInv, KeyOf
  <2> QED  BY <1>0, <1>4, <2>1, LeaveType DEF OpenLogs, Goto, TypeOK, PC, KeyOf
<1>5. CASE Spawn(w)
  <2>1. Control(w) \in Controls /\ num[w] \in Attempts
    BY <1>0, <1>5, ControlShape DEF Spawn, WorkerInv
  <2> QED  BY <1>0, <1>5, <2>1 DEF Spawn, Goto, TypeOK, PC
<1>6. CASE JobEnds(w)
  <2>1. Control(w) \in Controls /\ num[w] \in 0..MaxJobs
    BY <1>0, ControlShape DEF TypeOK
  <2>2. CASE Leave(w)
    BY <1>0, <1>6, <2>2, LeaveType DEF JobEnds, TypeOK
  <2>3. CASE ~Leave(w)
    <3> DEFINE c == Control(w)
               n == num[w]
    <3>1. /\ pc' = [pc EXCEPT ![w] = "scan"] /\ num' = num
          /\ selected' = [selected EXCEPT ![w][c] = n]
          /\ UNCHANGED <<job, logs, procs, launched, receipt, failures, crashes>>
      BY <1>6, <2>3 DEF JobEnds, Goto
    <3> HIDE DEF c, n
    <3>2. selected' \in [Workers -> [Controls -> 0..MaxJobs]]
      BY <1>0, <2>1, <3>1 DEF TypeOK, c, n
    <3> QED  BY <1>0, <3>1, <3>2 DEF TypeOK, PC
  <2> QED  BY <2>2, <2>3
<1>7. CASE WriteReceipt(w)
  <2>1. selected[w] \in [Controls -> Attempts]
    BY <1>0, <1>7, ControlsAssumption
    DEF WriteReceipt, Selecting, TypeOK, Attempts
  <2> QED  BY <1>0, <1>7, <2>1, LeaveType DEF WriteReceipt, TypeOK
<1>8. CASE Crash(w)
  <2>1. crashes' \in 0..MaxCrashes
    BY <1>0, <1>8, ControlsAssumption DEF Crash, TypeOK
  <2> QED  BY <1>0, <1>8, <2>1, LeaveType DEF Crash, TypeOK
<1> QED
  BY <1>1, <1>2, <1>3, <1>4, <1>5, <1>6, <1>7, <1>8 DEF Invocation

\* Harbor keeps the types.
LEMMA TypeHarbor ==
  ASSUME TypeOK, NEW c \in Controls, NEW n \in Attempts,
         HarborWorks(c, n) \/ HarborFails(c, n)
  PROVE  TypeOK'
<1>1. CASE HarborCreate(c, n)
  BY <1>1 DEF HarborCreate, TypeOK, local
<1>2. CASE HarborSucceeds(c, n)
  BY <1>2 DEF HarborSucceeds, TypeOK, local
<1>3. CASE HarborFails(c, n)
  <2>1. failures' \in 0..MaxFailures
    BY <1>3, ControlsAssumption DEF HarborFails, TypeOK
  <2> QED  BY <1>3, <2>1 DEF HarborFails, TypeOK, local
<1> QED  BY <1>1, <1>2, <1>3 DEF HarborWorks

(***************************************************************************)
(* Jobs                                                                    *)
(***************************************************************************)
\* A step of Harbor keeps valid jobs valid and every job's history.
LEMMA HarborStep ==
  ASSUME IndInv, NEW c \in Controls, NEW n \in Attempts,
         HarborWorks(c, n) \/ HarborFails(c, n)
  PROVE  /\ JobInv' /\ UNCHANGED <<logs, launched, receipt, local>>
         /\ \A d \in Controls, m \in Attempts :
              job[d][m] = "valid" => job'[d][m] = "valid"
<1>0. TypeOK /\ JobInv /\ <<c, n>> \in procs
  BY DEF IndInv, HarborWorks, HarborCreate, HarborSucceeds, HarborFails
<1>1. job[c][n] # "valid" /\ launched[c][n] = 1
  BY <1>0 DEF JobInv
<1>2. \A d \in Controls, m \in Attempts : <<d, m>> # <<c, n>> =>
        job'[d][m] = job[d][m] /\ (<<d, m>> \in procs' <=> <<d, m>> \in procs)
  BY <1>0
  DEF HarborWorks, HarborCreate, HarborSucceeds, HarborFails, TypeOK
<1>3. UNCHANGED <<logs, launched, receipt, local>>
  BY DEF HarborWorks, HarborCreate, HarborSucceeds, HarborFails
<1>4. job'[c][n] = "valid" => <<c, n>> \notin procs'
  BY <1>0, <1>1
  DEF HarborWorks, HarborCreate, HarborSucceeds, HarborFails, TypeOK
<1>5. ASSUME NEW d \in Controls, NEW m \in Attempts
      PROVE  /\ launched'[d][m] <= 1
             /\ launched'[d][m] = 1 => <<d, m>> \in logs'
             /\ <<d, m>> \in procs' => launched'[d][m] = 1
             /\ job'[d][m] # "absent" => launched'[d][m] = 1
             /\ job'[d][m] = "valid" => <<d, m>> \notin procs'
  <2>1. CASE <<d, m>> = <<c, n>>
    BY <1>0, <1>1, <1>3, <1>4, <2>1 DEF JobInv
  <2>2. CASE <<d, m>> # <<c, n>>
    BY <1>0, <1>2, <1>3, <2>2 DEF JobInv
  <2> QED  BY <2>1, <2>2
<1> QED  BY <1>1, <1>2, <1>3, <1>5 DEF JobInv

\* Past the exclusive creation of its logs a process has a job that was never
\* started and that no other process has.
LEMMA JobStep ==
  ASSUME IndInv, NEW w \in Workers, Invocation(w) \/ Crash(w)
  PROVE  JobInv' /\ UNCHANGED job
<1>0. TypeOK /\ JobInv /\ WorkerInv(w)
  BY DEF IndInv
<1>1. CASE Spawn(w)
  <2> DEFINE c == Control(w)
             n == num[w]
  <2>1. /\ c \in Controls /\ n \in Attempts /\ <<c, n>> \in logs
        /\ launched[c][n] = 0
    BY <1>0, <1>1, ControlShape DEF Spawn, WorkerInv, KeyOf
  <2>2. /\ job' = job /\ logs' = logs /\ procs' = procs \cup {<<c, n>>}
        /\ launched' = [launched EXCEPT ![c][n] = @ + 1]
    BY <1>1 DEF Spawn
  <2> HIDE DEF c, n
  <2>3. launched'[c][n] = 1
        /\ \A d \in Controls, m \in Attempts : <<d, m>> # <<c, n>> =>
             launched'[d][m] = launched[d][m]
    BY <1>0, <2>1, <2>2 DEF TypeOK
  <2>4. job[c][n] # "valid"
    BY <1>0, <2>1 DEF JobInv
  <2> QED  BY <1>0, <2>1, <2>2, <2>3, <2>4 DEF JobInv
<1>2. CASE ~Spawn(w)
  <2>1. /\ UNCHANGED <<job, procs, launched>> /\ logs \subseteq logs'
    BY <1>2
    DEF Invocation, Begin, SelectCompleted, ChooseJob, OpenLogs, JobEnds,
        WriteReceipt, Crash
  <2> QED  BY <1>0, <2>1 DEF JobInv
<1> QED  BY <1>1, <1>2 DEF Spawn

(***************************************************************************)
(* Processes                                                               *)
(***************************************************************************)
\* What an invariant says of a process depends on its locals, on the logs,
\* which only grow, on its job's history and on valid jobs.
LEMMA OtherWorker ==
  ASSUME TypeOK, NEW v \in Workers, WorkerInv(v),
         UNCHANGED <<pc[v], selected[v], num[v]>>, logs \subseteq logs',
         pc[v] = "spawn" =>
           launched'[Control(v)][num[v]] = launched[Control(v)][num[v]],
         \A d \in Controls, m \in Attempts :
           job[d][m] = "valid" => job'[d][m] = "valid"
  PROVE  WorkerInv(v)' /\ KeyOf(v)' = KeyOf(v)
<1>1. Control(v)' = Control(v) /\ (Selecting(v)' <=> Selecting(v))
  BY DEF Control, Selecting
<1>2. \A c \in Controls :
        selected[v][c] # 0 => selected[v][c] \in Attempts
  BY ControlsAssumption DEF TypeOK, Attempts
<1> QED  BY <1>1, <1>2 DEF WorkerInv, KeyOf

\* A process that left has nothing to keep.
LEMMA LeaveWorker ==
  ASSUME TypeOK, NEW w \in Workers, Leave(w)
  PROVE  WorkerInv(w)' /\ pc'[w] = "idle"
BY DEF Leave, Goto, TypeOK, WorkerInv, Unselected

\* A step of an invocation keeps what is said of it and of the others.
LEMMA WorkerStep ==
  ASSUME IndInv, NEW w \in Workers, Invocation(w) \/ Crash(w)
  PROVE  /\ \A v \in Workers : WorkerInv(v)'
         /\ OwnerInv'
<1>0. /\ TypeOK /\ JobInv /\ WorkerInv(w) /\ OwnerInv
      /\ \A v \in Workers : WorkerInv(v)
  BY DEF IndInv
<1>1. UNCHANGED job
  BY JobStep
<1>2. /\ logs \subseteq logs'
      /\ \A v \in Workers \ {w} :
           pc'[v] = pc[v] /\ selected'[v] = selected[v] /\ num'[v] = num[v]
  BY <1>0
  DEF Invocation, Begin, SelectCompleted, ChooseJob, OpenLogs, Spawn, JobEnds,
      WriteReceipt, Crash, Leave, Goto, TypeOK
<1>3. ASSUME NEW v \in Workers \ {w}
      PROVE  WorkerInv(v)' /\ KeyOf(v)' = KeyOf(v)
  <2>1. pc[v] = "spawn" =>
          launched'[Control(v)][num[v]] = launched[Control(v)][num[v]]
    <3>1. CASE Spawn(w)
      <4>1. pc[v] = "spawn" => KeyOf(v) # KeyOf(w)
        BY <1>0, <3>1 DEF OwnerInv, Spawn
      <4>2. launched' = [launched EXCEPT ![Control(w)][num[w]] = @ + 1]
        BY <3>1 DEF Spawn
      <4>3. Control(v) \in Controls /\ Control(w) \in Controls
        BY ControlShape
      <4> QED  BY <1>0, <4>1, <4>2, <4>3 DEF TypeOK, KeyOf
    <3>2. CASE ~Spawn(w)
      BY <3>2 DEF Invocation, Begin, SelectCompleted, ChooseJob, OpenLogs,
                  JobEnds, WriteReceipt, Crash
    <3> QED  BY <3>1, <3>2
  <2> QED  BY <1>0, <1>1, <1>2, <2>1, OtherWorker
<1>4. CASE Leave(w)
  <2>1. WorkerInv(w)' /\ pc'[w] = "idle"
    BY <1>0, <1>4, LeaveWorker
  <2> QED  BY <1>0, <1>2, <1>3, <2>1 DEF OwnerInv
<1>5. CASE Begin(w)
  <2>1. /\ pc' = [pc EXCEPT ![w] = "scan"] /\ selected' = selected
    BY <1>5 DEF Begin, Goto
  <2>2. WorkerInv(w)' /\ pc'[w] # "spawn"
    BY <1>0, <1>1, <2>1 DEF TypeOK, WorkerInv
  <2> QED  BY <1>0, <1>2, <1>3, <2>2 DEF OwnerInv
<1>6. CASE SelectCompleted(w)
  <2> DEFINE c == Control(w)
             n == Max(ValidJobs(c))
  <2>1. /\ pc[w] = "scan" /\ pc' = pc /\ c \in Controls /\ n \in ValidJobs(c)
        /\ selected' = [selected EXCEPT ![w][c] = n]
    BY <1>6, NumberShape, ControlShape DEF SelectCompleted
  <2>2. job[c][n] = "valid"
    BY <2>1 DEF ValidJobs
  <2> HIDE DEF c, n
  <2>3. selected'[w] = [selected[w] EXCEPT ![c] = n]
    BY <1>0, <2>1 DEF TypeOK
  <2>4. \A d \in Controls : selected'[w][d] # 0 => job[d][selected'[w][d]] = "valid"
    BY <1>0, <2>1, <2>2, <2>3 DEF TypeOK, WorkerInv
  <2>5. WorkerInv(w)' /\ pc'[w] # "spawn"
    BY <1>1, <2>1, <2>4 DEF WorkerInv
  <2> QED  BY <1>0, <1>2, <1>3, <2>5 DEF OwnerInv
<1>7. CASE ChooseJob(w)
  <2>1. /\ pc' = [pc EXCEPT ![w] = "open"] /\ selected' = selected
        /\ num' = [num EXCEPT ![w] = NextJob(Control(w))]
        /\ Selecting(w) /\ NextJob(Control(w)) <= MaxJobs
    BY <1>7 DEF ChooseJob, Goto
  <2>2. NextJob(Control(w)) \in Attempts
    BY <2>1, NumberShape, ControlShape, ControlsAssumption DEF Attempts
  <2>3. Selecting(w)'
    BY <2>1 DEF Selecting
  <2>4. WorkerInv(w)' /\ pc'[w] # "spawn"
    BY <1>0, <1>1, <2>1, <2>2, <2>3 DEF TypeOK, WorkerInv
  <2> QED  BY <1>0, <1>2, <1>3, <2>4 DEF OwnerInv
<1>8. CASE OpenLogs(w) /\ ~Leave(w)
  <2>1. /\ pc[w] = "open" /\ pc' = [pc EXCEPT ![w] = "spawn"]
        /\ KeyOf(w) \notin logs /\ logs' = logs \cup {KeyOf(w)}
        /\ UNCHANGED <<selected, num, launched>>
    BY <1>8 DEF OpenLogs, Goto, KeyOf
  <2>2. /\ Selecting(w) /\ num[w] \in Attempts /\ Control(w) \in Controls
    BY <1>0, <2>1, ControlShape DEF WorkerInv
  <2>3. launched[Control(w)][num[w]] = 0
    <3>1. launched[Control(w)][num[w]] \in Nat
      BY <1>0, <2>2 DEF TypeOK
    <3> QED  BY <1>0, <2>1, <2>2, <3>1 DEF JobInv, KeyOf
  <2>4. KeyOf(w)' = KeyOf(w) /\ Selecting(w)' /\ Control(w)' = Control(w)
    BY <2>1, <2>2 DEF KeyOf, Control, Selecting
  <2>5. WorkerInv(w)' /\ pc'[w] = "spawn"
    BY <1>0, <1>1, <2>1, <2>2, <2>3, <2>4 DEF TypeOK, WorkerInv
  <2>6. \A v \in Workers \ {w} : pc[v] = "spawn" => KeyOf(v) # KeyOf(w)
    BY <1>0, <2>1 DEF WorkerInv
  <2> QED  BY <1>0, <1>2, <1>3, <2>4, <2>5, <2>6 DEF OwnerInv
<1>9. CASE Spawn(w)
  <2>1. /\ pc[w] = "spawn" /\ pc' = [pc EXCEPT ![w] = "wait"]
        /\ UNCHANGED <<selected, num>>
    BY <1>9 DEF Spawn, Goto
  <2>2. Selecting(w)'
    BY <1>0, <2>1 DEF WorkerInv, Selecting
  <2>3. WorkerInv(w)' /\ pc'[w] # "spawn"
    BY <1>0, <1>1, <2>1, <2>2 DEF TypeOK, WorkerInv
  <2> QED  BY <1>0, <1>2, <1>3, <2>3 DEF OwnerInv
<1>10. CASE JobEnds(w) /\ ~Leave(w)
  <2> DEFINE c == Control(w)
             n == num[w]
  <2>1. /\ pc' = [pc EXCEPT ![w] = "scan"] /\ job[c][n] = "valid"
        /\ selected' = [selected EXCEPT ![w][c] = n] /\ c \in Controls
    BY <1>10, ControlShape DEF JobEnds, Goto
  <2> HIDE DEF c, n
  <2>2. selected'[w] = [selected[w] EXCEPT ![c] = n]
    BY <1>0, <2>1 DEF TypeOK
  <2>3. \A d \in Controls : selected'[w][d] # 0 => job[d][selected'[w][d]] = "valid"
    BY <1>0, <2>1, <2>2 DEF TypeOK, WorkerInv
  <2>4. WorkerInv(w)' /\ pc'[w] # "spawn"
    BY <1>0, <1>1, <2>1, <2>3 DEF TypeOK, WorkerInv
  <2> QED  BY <1>0, <1>2, <1>3, <2>4 DEF OwnerInv
<1> QED
  BY <1>4, <1>5, <1>6, <1>7, <1>8, <1>9, <1>10
  DEF Invocation, WriteReceipt, Crash

(***************************************************************************)
(* Theorems                                                                *)
(***************************************************************************)
\* The initial state satisfies the invariant.
LEMMA InitHolds == Init => IndInv
<1> SUFFICES ASSUME Init
             PROVE  IndInv
  OBVIOUS
<1>1. Unselected \in [Controls -> 0..MaxJobs] /\ 0 \in 0..MaxJobs
  BY ControlsAssumption DEF Unselected
<1>2. TypeOK
  BY <1>1, ControlsAssumption DEF Init, TypeOK, PC
<1>3. JobInv /\ OwnerInv /\ ReceiptSound
  BY DEF Init, JobInv, OwnerInv, ReceiptSound
<1>4. \A w \in Workers : WorkerInv(w)
  BY DEF Init, WorkerInv, Unselected
<1> QED  BY <1>2, <1>3, <1>4 DEF IndInv

\* The invariant the other theorems rest on: a job has one owner, a valid job
\* has no process, and what is selected is valid.
THEOREM Inductive == Spec => []IndInv
<1>1. IndInv /\ [Next]_vars => IndInv'
  <2> SUFFICES ASSUME IndInv, [Next]_vars
               PROVE  IndInv'
    OBVIOUS
  <2>0. TypeOK /\ ReceiptSound /\ JobInv
    BY DEF IndInv
  <2>1. ASSUME NEW w \in Workers, Invocation(w) \/ Crash(w)
        PROVE  IndInv'
    <3>1. ReceiptSound'
      <4>1. UNCHANGED job
        BY <2>1, JobStep
      <4>2. CASE WriteReceipt(w)
        BY <4>1, <4>2 DEF WriteReceipt, Selecting, IndInv, WorkerInv, ReceiptSound
      <4>3. CASE ~WriteReceipt(w)
        <5>1. UNCHANGED receipt
          BY <2>1, <4>3
          DEF Invocation, Begin, SelectCompleted, ChooseJob, OpenLogs, Spawn,
              JobEnds, Crash
        <5> QED  BY <2>0, <4>1, <5>1 DEF ReceiptSound
      <4> QED  BY <4>2, <4>3
    <3> QED  BY <2>1, <3>1, TypeInvocation, JobStep, WorkerStep DEF IndInv
  <2>2. ASSUME NEW c \in Controls, NEW n \in Attempts,
               HarborWorks(c, n) \/ HarborFails(c, n)
        PROVE  IndInv'
    <3>1. TypeOK'
      BY <2>0, <2>2, TypeHarbor
    <3>2. /\ JobInv' /\ UNCHANGED <<logs, launched, receipt, local>>
          /\ \A d \in Controls, m \in Attempts :
               job[d][m] = "valid" => job'[d][m] = "valid"
      BY <2>2, HarborStep
    <3>3. \A w \in Workers : WorkerInv(w)' /\ KeyOf(w)' = KeyOf(w)
      BY <2>0, <3>2, OtherWorker DEF IndInv, local
    <3>4. OwnerInv'
      BY <3>2, <3>3 DEF IndInv, OwnerInv, local
    <3>5. ReceiptSound'
      <4>1. receipt # NoReceipt => receipt \in [Controls -> Attempts]
        BY <2>0 DEF TypeOK
      <4> QED  BY <2>0, <3>2, <4>1 DEF ReceiptSound
    <3> QED  BY <3>1, <3>2, <3>3, <3>4, <3>5 DEF IndInv
  <2>3. CASE UNCHANGED vars
    BY <2>3
    DEF vars, local, IndInv, TypeOK, JobInv, WorkerInv, OwnerInv, ReceiptSound,
        KeyOf, Control, Selecting
  <2> QED  BY <2>1, <2>2, <2>3 DEF Next
<1> QED  BY <1>1, InitHolds, PTL DEF Spec

\* No two Harbor processes ever write one job directory, for any number of
\* invocations, failures and crashes.
THEOREM OneProcess == Spec => []OneProcessPerJob
<1>1. IndInv => OneProcessPerJob
  BY DEF IndInv, JobInv, OneProcessPerJob
<1> QED  BY <1>1, Inductive, PTL

\* A published receipt names a valid job for each control, for as long as it
\* stands.
THEOREM ReceiptAlwaysSound == Spec => []ReceiptSound
<1>1. IndInv => ReceiptSound
  BY DEF IndInv
<1> QED  BY <1>1, Inductive, PTL

(***************************************************************************)
(* Separation                                                              *)
(***************************************************************************)
\* The products of two naturals that are at least a third, squared.
LEMMA ProductAtLeast ==
  ASSUME NEW c \in Nat, NEW x \in Nat, NEW y \in Nat, x >= c, y >= c
  PROVE  x * y >= c * c
<1>1. PICK p \in Nat, q \in Nat : x = c + p /\ y = c + q
  BY SMT
<1>2. (c + p) * (c + q) = c * c + (c * q + p * c + p * q)
  OBVIOUS
<1>3. c * q \in Nat /\ p * c \in Nat /\ p * q \in Nat /\ c * c \in Nat
  OBVIOUS
<1> QED  BY <1>1, <1>2, <1>3

\* A number whose square exceeds a square is larger.
LEMMA SquareLarger ==
  ASSUME NEW c \in Nat, NEW x \in Int, x > 0, x * x > c * c
  PROVE  x > c
<1>1. SUFFICES ASSUME x <= c  PROVE FALSE
  OBVIOUS
<1>2. x \in Nat
  OBVIOUS
<1>3. c * c >= x * x
  BY <1>1, <1>2, ProductAtLeast
<1> QED  BY <1>3

\* The products k(n - k) of two cells at distance d.
LEMMA SpreadSum ==
  ASSUME NEW w \in Nat, NEW d \in Nat, NEW n \in Nat, w + d <= n
  PROVE  w * (n - w) + (w + d) * (n - (w + d)) >= d * (n - d)
<1>1. w * (n - w) + (w + d) * (n - (w + d))
        = d * (n - d) + 2 * (w * (n - (w + d)))
  OBVIOUS
<1>2. w * (n - (w + d)) \in Nat
  OBVIOUS
<1>3. d * (n - d) \in Int
  OBVIOUS
<1> QED  BY <1>1, <1>2, <1>3

\* With five and more trials, disjoint Wilson intervals are at least five
\* successes apart.
LEMMA WilsonGap ==
  ASSUME NEW n \in Nat, n >= 5, NEW best \in 0 .. n, NEW worst \in 0 .. n,
         WilsonSeparated(best, worst, n)
  PROVE  best - worst >= 5
<1> DEFINE u == worst * (n - worst)
           v == best * (n - best)
           su == 23 * (24 * u + 23 * n)
           sv == 23 * (24 * v + 23 * n)
           d == best - worst
           slack == 144 * n * d * d - sv - su
<1>1. u \in Nat /\ v \in Nat
  OBVIOUS
<1>2. best > worst /\ slack > 0 /\ slack * slack > 4 * sv * su
  <2>1. 23 * (24 * best * (n - best) + 23 * n) = sv
    OBVIOUS
  <2>2. 23 * (24 * worst * (n - worst) + 23 * n) = su
    OBVIOUS
  <2>3. 144 * n * (best - worst) * (best - worst) = 144 * n * d * d
    OBVIOUS
  <2> QED  BY <2>1, <2>2, <2>3 DEF WilsonSeparated
<1>3. d \in Nat /\ d > 0 /\ best = worst + d /\ worst + d <= n
  BY <1>2
<1>4. u + v >= d * (n - d)
  BY <1>3, SpreadSum
<1>5. su \in Nat /\ sv \in Nat /\ su >= 529 * n /\ sv >= 529 * n
  BY <1>1
<1>6. slack \in Int
  BY <1>3, <1>5
<1>7. sv * su >= (529 * n) * (529 * n)
  BY <1>5, ProductAtLeast
<1>8. slack * slack > (1058 * n) * (1058 * n)
  <2>1. 4 * sv * su = 4 * (sv * su)
    BY <1>5
  <2>2. (1058 * n) * (1058 * n) = 4 * ((529 * n) * (529 * n))
    OBVIOUS
  <2>3. sv * su \in Nat /\ slack * slack \in Int
    BY <1>5, <1>6
  <2> HIDE DEF su, sv, slack
  <2> QED  BY <1>2, <1>7, <2>1, <2>2, <2>3
<1>9. slack > 1058 * n
  <2>1. PICK c \in Nat : c = 1058 * n
    OBVIOUS
  <2> HIDE DEF slack
  <2>2. slack > c
    BY <1>2, <1>6, <1>8, <2>1, SquareLarger
  <2> QED  BY <2>1, <2>2
<1>10. 144 * n * d * d > 2116 * n + 552 * (d * (n - d))
  BY <1>1, <1>3, <1>4, <1>9
<1> HIDE DEF d, u, v, su, sv, slack
<1>11. d # 1 /\ d # 2 /\ d # 3 /\ d # 4
  BY <1>10
<1>12. d >= 5
  BY <1>3, <1>11
<1> QED  BY <1>12 DEF d

\* Max and Min of a nonempty set of bounded naturals are in it.
LEMMA SmallestAndLargest ==
  ASSUME NEW n \in Nat, NEW T, T \subseteq 0 .. n, T # {}
  PROVE  Max(T) \in T /\ Min(T) \in T
<1>1. \E x \in T : \A y \in T : x <= y
  <2>1. T \subseteq Nat
    OBVIOUS
  <2> QED  BY <2>1, SmallestExists
<1>2. \E x \in T : \A y \in T : x >= y
  <2> DEFINE U == {n - x : x \in T}
  <2>1. U \subseteq Nat /\ U # {}
    <3>1. PICK t \in T : TRUE
      OBVIOUS
    <3>2. n - t \in U
      OBVIOUS
    <3>3. \A x \in T : n - x \in Nat
      OBVIOUS
    <3> QED  BY <3>2, <3>3
  <2>2. PICK z \in U : \A y \in U : z <= y
    <3> HIDE DEF U
    <3> QED  BY <2>1, SmallestExists
  <2>3. PICK x \in T : z = n - x
    OBVIOUS
  <2>4. ASSUME NEW y \in T  PROVE x >= y
    <3>1. n - y \in U
      OBVIOUS
    <3>2. n - x <= n - y
      BY <2>2, <2>3, <3>1
    <3> QED  BY <2>3, <3>2
  <2> QED  BY <2>4
<1> QED  BY <1>1, <1>2 DEF Max, Min

(***************************************************************************)
(* The number of a trial and its arm                                       *)
(***************************************************************************)
LEMMA DivMod ==
  ASSUME NEW q \in Nat, NEW r \in Nat, NEW k \in Nat, r < k
  PROVE  (q * k + r) \div k = q /\ (q * k + r) % k = r
OBVIOUS

\* A number below a product has a quotient below the other factor.
LEMMA QuotientBelow ==
  ASSUME NEW b \in Nat, NEW k \in Nat \ {0}, NEW i \in 0 .. b * k - 1
  PROVE  i \div k \in 0 .. b - 1 /\ i % k \in 0 .. k - 1
<1>1. PICK q \in Int, r \in 0 .. k - 1 : q = i \div k /\ r = i % k
  OBVIOUS
<1>2. i = q * k + r
  BY <1>1
<1>3. q >= 0
  BY <1>1
<1>4. SUFFICES ASSUME q >= b  PROVE FALSE
  BY <1>1, <1>3
<1>5. q * k = b * k + (q - b) * k /\ (q - b) * k \in Nat /\ b * k \in Nat
  BY <1>3, <1>4
<1> QED  BY <1>2, <1>5

\* The place of a pair in the order of the pairs.
LEMMA PairIndex ==
  ASSUME NEW m \in Nat, NEW h \in Nat, NEW M \in Nat, NEW H \in Nat, m < M, h < H
  PROVE  m * H + h \in 0 .. M * H - 1
<1>1. M * H = m * H + H + (M - 1 - m) * H /\ (M - 1 - m) * H \in Nat
  OBVIOUS
<1>2. m * H \in Nat
  OBVIOUS
<1> QED  BY <1>1, <1>2

\* What is known of a call that has passed its checks
Checked == request.repetitions > 0 /\ request.hints # <<>>

\* The arm of a planned trial is one of the arms, and every arm has a trial.
LEMMA ArmsPlanned ==
  ASSUME request \in Requests, Checked
  PROVE  /\ Planned \in Nat
         /\ {ArmOf(i) : i \in 0 .. Planned - 1}
              = Range(request.models) \X Range(request.hints)
<1> DEFINE M == Len(request.models)
           H == Len(request.hints)
           R == request.repetitions
<1>1. /\ M \in Nat /\ H \in Nat \ {0} /\ R \in Nat \ {0}
      /\ DOMAIN request.models = 1 .. M /\ DOMAIN request.hints = 1 .. H
  <2>1. R \in Nat \ {0}
    BY RequestAssumption DEF Checked
  <2>2. M \in Nat /\ DOMAIN request.models = 1 .. M
    BY RequestAssumption
  <2>3. H \in Nat /\ DOMAIN request.hints = 1 .. H
    BY RequestAssumption
  <2>4. H # 0
    BY RequestAssumption DEF Checked
  <2> QED  BY <2>1, <2>2, <2>3, <2>4
<1>2. Planned = (M * H) * R /\ M * H \in Nat /\ (M * H) * R \in Nat
  <2>1. Planned = (M * H) * R
    BY DEF Planned
  <2> HIDE DEF M, H, R
  <2>2. PICK k \in Nat : k = M * H
    BY <1>1
  <2>3. k * R \in Nat
    BY <1>1
  <2> QED  BY <2>1, <2>2, <2>3
<1>3. \A i : ArmOf(i) = <<request.models[((i \div R) \div H) + 1],
                          request.hints[((i \div R) % H) + 1]>>
  BY DEF ArmOf
<1> HIDE DEF M, H, R
<1>4. ASSUME NEW i \in 0 .. Planned - 1
      PROVE  ArmOf(i) \in Range(request.models) \X Range(request.hints)
  <2>1. PICK q \in Int : q = i \div R
    BY <1>1
  <2>2. q \in 0 .. (M * H) - 1
    BY <1>1, <1>2, <2>1, QuotientBelow
  <2>3. q \div H \in 0 .. M - 1 /\ q % H \in 0 .. H - 1
    BY <1>1, <2>2, QuotientBelow
  <2>4. (q \div H) + 1 \in 1 .. M /\ (q % H) + 1 \in 1 .. H
    BY <1>1, <2>3
  <2> QED  BY <1>1, <1>3, <2>1, <2>4 DEF Range
<1>5. ASSUME NEW a \in Range(request.models) \X Range(request.hints)
      PROVE  \E i \in 0 .. Planned - 1 : ArmOf(i) = a
  <2>1. PICK m \in 1 .. M, h \in 1 .. H :
          a = <<request.models[m], request.hints[h]>>
    BY <1>1 DEF Range
  <2>2. PICK x \in Nat, y \in Nat : x = m - 1 /\ y = h - 1
    BY <1>1, <2>1
  <2>3. PICK q \in Nat : q = x * H + y
    BY <1>1, <2>2
  <2>4. q \in 0 .. (M * H) - 1
    BY <1>1, <2>1, <2>2, <2>3, PairIndex
  <2>5. PICK i \in Nat : i = q * R + 0
    BY <1>1, <2>3
  <2>6. i \in 0 .. (M * H) * R - 1
    BY <1>1, <1>2, <2>4, <2>5, PairIndex
  <2>7. i \div R = q
    BY <1>1, <2>3, <2>5, DivMod
  <2>8. q \div H = x /\ q % H = y
    <3>1. y < H /\ H \in Nat
      BY <1>1, <2>1, <2>2
    <3> QED  BY <2>2, <2>3, <3>1, DivMod
  <2>9. ArmOf(i) = <<request.models[x + 1], request.hints[y + 1]>>
    BY <1>3, <2>7, <2>8
  <2>10. x + 1 = m /\ y + 1 = h
    BY <2>2, <1>1
  <2> QED  BY <1>2, <2>1, <2>6, <2>9, <2>10
<1> QED  BY <1>2, <1>4, <1>5

\* The trials of arm a among the first k.
TrialsOf(a, k) == Cardinality({i \in 0 .. k - 1 : ArmOf(i) = a})

\* The trials of an arm among the first k, and one more.
LEMMA TrialsOfStep ==
  ASSUME NEW a, NEW k \in Nat
  PROVE  /\ TrialsOf(a, k) \in Nat
         /\ (\A i \in 0 .. k - 1 : ArmOf(i) # a) => TrialsOf(a, k) = 0
         /\ TrialsOf(a, k + 1)
              = TrialsOf(a, k) + (IF ArmOf(k) = a THEN 1 ELSE 0)
<1> DEFINE S == {i \in 0 .. k - 1 : ArmOf(i) = a}
           T == {i \in 0 .. (k + 1) - 1 : ArmOf(i) = a}
<1>1. IsFiniteSet(S)
  <2>1. IsFiniteSet(0 .. k - 1)
    BY FS_Interval
  <2> QED  BY <2>1, FS_Subset
<1>2. Cardinality(S) \in Nat
  BY <1>1, FS_CardinalityType
<1>3. (\A i \in 0 .. k - 1 : ArmOf(i) # a) => S = {}
  OBVIOUS
<1>4. T = IF ArmOf(k) = a THEN S \cup {k} ELSE S
  <2>1. 0 .. (k + 1) - 1 = (0 .. k - 1) \cup {k}
    OBVIOUS
  <2> QED  BY <2>1
<1>5. k \notin S
  OBVIOUS
<1> HIDE DEF S, T
<1>6. Cardinality(T) = Cardinality(S) + (IF ArmOf(k) = a THEN 1 ELSE 0)
  BY <1>1, <1>2, <1>4, <1>5, FS_AddElement
<1>7. S = {} => Cardinality(S) = 0
  BY FS_EmptySet
<1> QED  BY <1>2, <1>3, <1>6, <1>7 DEF TrialsOf, S, T

(***************************************************************************)
(* The inductive invariant of run_rollout                                  *)
(***************************************************************************)
TallyType == [n : Nat, solve : Nat, passed : Nat, infra : BOOLEAN,
              late : BOOLEAN]

CallInv ==
  /\ phase \in {"idle", "oracle", "nop", "gates", "trials", "report", "done",
                "error"}
  /\ request \in Requests /\ next \in Nat /\ expected \in Nat
  /\ control = [c \in {"oracle", "nop"} |-> control[c]]
  /\ phase \notin {"idle", "error"} => Checked
  /\ phase \in {"idle", "oracle", "nop", "gates"} => next = 0
  /\ next > 0 => Checked /\ next <= Planned

\* Trials are run after controls that behave, with the oracle's test count.
GateInv ==
  /\ phase \notin {"idle", "oracle", "error"} =>
       (control["oracle"].status = "pass" => expected > 0)
  /\ phase = "trials" => ~ControlFailure
  /\ phase \in {"report", "done"} =>
       IF ControlFailure THEN next = 0 ELSE next = Planned

\* An arm's tally is what happened in its trials; without an exception every
\* trial has an outcome.
ArmFacts(a) ==
  /\ arms[a] \in TallyType
  /\ arms[a].passed <= arms[a].solve /\ arms[a].solve <= arms[a].n
  /\ truth[a].n = arms[a].n /\ truth[a].solve = arms[a].solve
  /\ truth[a].passed = arms[a].passed
  /\ ~arms[a].infra => arms[a].solve = arms[a].n
  /\ arms[a].n = TrialsOf(a, next)

ArmInv ==
  /\ DOMAIN arms = {ArmOf(i) : i \in 0 .. next - 1}
  /\ DOMAIN truth = DOMAIN arms
  /\ \A a \in DOMAIN arms : ArmFacts(a)

TheReport ==
  [arms |-> arms, failed |-> ControlFailure,
   decision |-> Decision(ControlFailure, request.models, arms,
                         request.repetitions),
   gap |-> ObservedGap(request.models, arms, request.repetitions),
   level |-> IF ControlFailure THEN "E1" ELSE "E3"]

ReportInv == report # None => phase = "done" /\ report = TheReport

RolloutInv == CallInv /\ GateInv /\ ArmInv /\ ReportInv

\* A container counts exactly when its trial was judged, and passes exactly when
\* it was solved.
LEMMA ContainerHonest ==
  ASSUME NEW o \in Outcomes, expected \in Nat, expected > 0
  PROVE  LET status == RunContainer(o, expected).status
         IN  /\ (status \in OutcomeStatuses) = Judged(o)
             /\ (status = "pass") = Solved(o)
<1> DEFINE r == RunContainer(o, expected)
<1>1. /\ o.failure # "timeout" /\ None # Malformed /\ None \notin {"0", "1"}
      /\ IsCounts(o.ctrf) => o.ctrf \in Counts
  BY OutcomeAssumption DEF Failures, IsCounts
<1>2. Judged(o) => r.status = IF o.reward = "1" THEN "pass" ELSE "fail"
  BY <1>1 DEF Judged, RunContainer, Infra, IsCounts
<1>3. ~Judged(o) => r.status = "infra_error"
  BY <1>1 DEF Judged, RunContainer, Infra, IsCounts
<1>4. Judged(o) => (o.ctrf.passed = expected <=> o.reward = "1")
  BY <1>1 DEF Judged, Agrees, Consistent, Counts
<1> HIDE DEF r
<1>5. (r.status \in OutcomeStatuses) <=> Judged(o)
  BY <1>2, <1>3 DEF OutcomeStatuses
<1>6. (r.status = "pass") <=> Solved(o)
  BY <1>2, <1>3, <1>4 DEF Solved
<1>7. Judged(o) \in BOOLEAN /\ Solved(o) \in BOOLEAN
  BY DEF Judged, Solved
<1> QED  BY <1>5, <1>6, <1>7 DEF r

\* An oracle that passes ran at least one test.
LEMMA OracleTests ==
  ASSUME NEW r \in {RunContainer(o, 0) : o \in Outcomes}
                     \cup {Infra("OracleSolverMissing")}
  PROVE  r.tests \in Nat /\ (r.status = "pass" => r.tests > 0)
<1>1. CASE r = Infra("OracleSolverMissing")
  BY <1>1 DEF Infra
<1>2. ASSUME NEW o \in Outcomes, r = RunContainer(o, 0)
      PROVE  r.tests \in Nat /\ (r.status = "pass" => r.tests > 0)
  <2>1. /\ o.failure # "timeout" /\ None # Malformed
        /\ IsCounts(o.ctrf) => o.ctrf \in Counts
    BY OutcomeAssumption DEF Failures, IsCounts
  <2> QED  BY <1>2, <2>1 DEF RunContainer, Infra, IsCounts, Consistent, Counts
<1> QED  BY <1>1, <1>2

\* One trial is entered in its arm, as what it was.
LEMMA TrialStep ==
  ASSUME CallInv, ArmInv, phase = "trials", next < Planned,
         NEW record, NEW counts \in BOOLEAN, NEW solved \in BOOLEAN,
         (record.status \in OutcomeStatuses) = counts,
         (record.status = "pass") = solved,
         Trial(record, counts, solved), UNCHANGED <<phase, request>>
  PROVE  ArmInv'
<1>1. PICK k, b : k \in Nat /\ k = next /\ b = ArmOf(next)
  BY DEF CallInv
<1>2. /\ arms' = Put(arms, b, Summarize(Tally(arms, b), record))
      /\ truth' = Put(truth, b,
           [n |-> Tally(truth, b).n + 1,
            solve |-> Tally(truth, b).solve + One(counts),
            passed |-> Tally(truth, b).passed + One(solved)])
      /\ next' = k + 1
  BY <1>1 DEF Trial
<1>3. /\ DOMAIN arms' = DOMAIN arms \cup {b}
      /\ DOMAIN truth' = DOMAIN arms'
  BY <1>2 DEF Put, ArmInv
<1>4. \A i : ArmOf(i)' = ArmOf(i)
  BY DEF ArmOf
<1>5. DOMAIN arms' = {ArmOf(i)' : i \in 0 .. next' - 1}
  <2>1. 0 .. next' - 1 = (0 .. next - 1) \cup {next}
    BY <1>1, <1>2
  <2>2. {ArmOf(i)' : i \in 0 .. next' - 1} = {ArmOf(i) : i \in 0 .. next' - 1}
    BY <1>4
  <2>3. {ArmOf(i) : i \in 0 .. next' - 1}
          = {ArmOf(i) : i \in 0 .. next - 1} \cup {ArmOf(next)}
    BY <2>1
  <2> QED  BY <1>1, <1>3, <2>2, <2>3 DEF ArmInv
<1>6. \A a : TrialsOf(a, next)' = TrialsOf(a, next')
  BY <1>4 DEF TrialsOf
<1>7. \A a : TrialsOf(a, next') = TrialsOf(a, next) + (IF a = b THEN 1 ELSE 0)
  <2> TAKE a
  <2>1. TrialsOf(a, k + 1) = TrialsOf(a, k) + (IF ArmOf(k) = a THEN 1 ELSE 0)
    BY <1>1, TrialsOfStep
  <2> QED  BY <1>1, <1>2, <2>1
<1>8. ASSUME NEW a \in DOMAIN arms'
      PROVE  ArmFacts(a)'
  <2>1. CASE a # b
    <3>1. a \in DOMAIN arms /\ arms'[a] = arms[a] /\ truth'[a] = truth[a]
      BY <1>2, <1>3, <2>1 DEF Put, ArmInv
    <3>2. ArmFacts(a)
      BY <3>1 DEF ArmInv
    <3>3. TrialsOf(a, next)' = TrialsOf(a, next)
      <4>1. TrialsOf(a, next) \in Nat
        BY <3>2 DEF ArmFacts, TallyType
      <4> QED  BY <1>6, <1>7, <2>1, <4>1
    <3> QED  BY <3>1, <3>2, <3>3 DEF ArmFacts
  <2>2. CASE a = b
    <3>1. PICK x, y : x = Tally(arms, b) /\ y = Tally(truth, b)
      OBVIOUS
    <3>2. /\ x \in TallyType
          /\ x.passed <= x.solve /\ x.solve <= x.n
          /\ y.n = x.n /\ y.solve = x.solve /\ y.passed = x.passed
          /\ ~x.infra => x.solve = x.n
          /\ x.n = TrialsOf(b, next)
      <4>1. CASE b \in DOMAIN arms
        BY <3>1, <4>1 DEF ArmInv, ArmFacts, Tally
      <4>2. CASE b \notin DOMAIN arms
        <5>1. x = NoTrials /\ y = NoTrials
          BY <3>1, <4>2 DEF Tally, ArmInv
        <5>2. \A i \in 0 .. k - 1 : ArmOf(i) # b
          BY <1>1, <4>2 DEF ArmInv
        <5>3. TrialsOf(b, next) = 0
          BY <1>1, <5>2, TrialsOfStep
        <5> QED  BY <5>1, <5>3 DEF NoTrials, TallyType
      <4> QED  BY <4>1, <4>2
    <3>3. /\ arms'[b] = Summarize(x, record)
          /\ truth'[b] = [n |-> y.n + 1, solve |-> y.solve + One(counts),
                          passed |-> y.passed + One(solved)]
      BY <1>2, <1>3, <3>1 DEF Put
    <3>4. solved => counts
      BY DEF OutcomeStatuses
    <3>5. /\ One(counts) \in Nat /\ One(solved) \in Nat
          /\ One(solved) <= One(counts) /\ One(counts) <= 1
          /\ counts => One(counts) = 1
      BY <3>4 DEF One
    <3>6. /\ x.n \in Nat /\ x.solve \in Nat /\ x.passed \in Nat
          /\ x.infra \in BOOLEAN /\ x.late \in BOOLEAN
      BY <3>2 DEF TallyType
    <3>7. arms'[b] = [n |-> x.n + 1, solve |-> x.solve + One(counts),
                      passed |-> x.passed + One(solved),
                      infra |-> x.infra \/ record.status \notin OutcomeStatuses,
                      late |-> x.late \/ record.status = "timeout"]
      BY <3>3, Zenon DEF Summarize
    <3>8. arms'[b] \in TallyType
      BY <3>5, <3>6, <3>7 DEF TallyType
    <3>9. TrialsOf(b, next)' = x.n + 1
      BY <1>6, <1>7, <3>2
    <3>10. ~arms'[b].infra => counts /\ ~x.infra
      <4>1. arms'[b].infra
              = (x.infra \/ record.status \notin OutcomeStatuses)
        BY <3>7
      <4> QED  BY <3>6, <4>1
    <3>11. /\ arms'[b].passed <= arms'[b].solve
           /\ arms'[b].solve <= arms'[b].n
           /\ ~arms'[b].infra => arms'[b].solve = arms'[b].n
      BY <3>2, <3>5, <3>6, <3>7, <3>10
    <3> QED  BY <2>2, <3>2, <3>3, <3>7, <3>8, <3>9, <3>11 DEF ArmFacts
  <2> QED  BY <2>1, <2>2
<1> QED  BY <1>3, <1>5, <1>8 DEF ArmInv

\* Nothing has been counted when run_rollout starts.
LEMMA RolloutInitHolds == RolloutInit => RolloutInv
<1> SUFFICES ASSUME RolloutInit  PROVE RolloutInv
  OBVIOUS
<1>1. CallInv
  BY DEF RolloutInit, CallInv
<1>2. GateInv
  BY DEF RolloutInit, GateInv
<1>3. ArmInv
  <2>1. 0 .. next - 1 = {}
    BY DEF RolloutInit
  <2> QED  BY <2>1 DEF RolloutInit, ArmInv
<1>4. ReportInv
  BY DEF RolloutInit, ReportInv
<1> QED  BY <1>1, <1>2, <1>3, <1>4 DEF RolloutInv

\* What the tallies are does not depend on anything but the trials.
LEMMA ArmsUnchanged ==
  ASSUME ArmInv, UNCHANGED <<request, next, arms, truth>>
  PROVE  ArmInv'
BY DEF ArmInv, ArmFacts, TrialsOf, ArmOf

\* Every step of run_rollout keeps the invariant.
LEMMA RolloutStep == RolloutInv /\ [RolloutNext]_rolloutVars => RolloutInv'
<1> SUFFICES ASSUME RolloutInv, [RolloutNext]_rolloutVars  PROVE RolloutInv'
  OBVIOUS
<1> USE DEF RolloutInv
<1>1. CASE CheckRequest
  <2>1. CallInv'
    BY <1>1, RequestAssumption DEF CheckRequest, CallInv, Checked, Planned
  <2>2. GateInv'
    BY <1>1 DEF CheckRequest, GateInv
  <2>3. ArmInv'
    BY <1>1, ArmsUnchanged DEF CheckRequest
  <2>4. ReportInv'
    BY <1>1 DEF CheckRequest, ReportInv
  <2> QED  BY <2>1, <2>2, <2>3, <2>4
<1>2. CASE RunOracle
  <2>1. PICK r \in {RunContainer(o, 0) : o \in Outcomes}
                     \cup {Infra("OracleSolverMissing")} :
          control' = [control EXCEPT !["oracle"] = r] /\ expected' = r.tests
    BY <1>2 DEF RunOracle
  <2>2. r.tests \in Nat /\ (r.status = "pass" => r.tests > 0)
    BY <2>1, OracleTests
  <2>3. control'["oracle"] = r
    BY <2>1 DEF CallInv
  <2>4. CallInv'
    BY <1>2, <2>1, <2>2 DEF RunOracle, CallInv, Checked, Planned
  <2>5. GateInv'
    BY <1>2, <2>1, <2>2, <2>3 DEF RunOracle, GateInv
  <2>6. ArmInv'
    BY <1>2, ArmsUnchanged DEF RunOracle
  <2>7. ReportInv'
    BY <1>2 DEF RunOracle, ReportInv
  <2> QED  BY <2>4, <2>5, <2>6, <2>7
<1>3. CASE RunNop
  <2>1. control'["oracle"] = control["oracle"]
    BY <1>3 DEF RunNop, CallInv
  <2>2. CallInv'
    BY <1>3 DEF RunNop, CallInv, Checked, Planned
  <2>3. GateInv'
    BY <1>3, <2>1 DEF RunNop, GateInv
  <2>4. ArmInv'
    BY <1>3, ArmsUnchanged DEF RunNop
  <2>5. ReportInv'
    BY <1>3 DEF RunNop, ReportInv
  <2> QED  BY <2>2, <2>3, <2>4, <2>5
<1>4. CASE CheckGates
  <2>1. CallInv'
    BY <1>4 DEF CheckGates, CallInv, Checked, Planned
  <2>2. GateInv'
    <3>1. ControlFailure' = ControlFailure
      BY <1>4 DEF CheckGates, ControlFailure, Gate
    <3> QED  BY <1>4, <3>1 DEF CheckGates, GateInv, CallInv
  <2>3. ArmInv'
    BY <1>4, ArmsUnchanged DEF CheckGates
  <2>4. ReportInv'
    BY <1>4 DEF CheckGates, ReportInv
  <2> QED  BY <2>1, <2>2, <2>3, <2>4
<1>5. CASE RunTrial
  <2>1. /\ phase = "trials" /\ next < Planned
        /\ UNCHANGED <<phase, request, expected, control, report>>
    BY <1>5 DEF RunTrial
  <2>2. expected > 0
    BY <2>1 DEF GateInv, ControlFailure, Gate
  <2>3. ArmInv' /\ next' = next + 1
    <3>1. CASE ProviderFails
      <4>1. PICK rec : rec = [status |-> "infra_error",
                              error |-> "VolcReviewError"]
        OBVIOUS
      <4>2. /\ (rec.status \in OutcomeStatuses) = FALSE
            /\ (rec.status = "pass") = FALSE
        BY <4>1 DEF OutcomeStatuses
      <4>3. Trial(rec, FALSE, FALSE)
        BY <3>1, <4>1 DEF ProviderFails
      <4> QED  BY <2>1, <4>2, <4>3, TrialStep DEF Trial
    <3>2. CASE InvalidOutput
      <4>1. PICK rec : rec = [status |-> "invalid_output", error |-> None]
        OBVIOUS
      <4>2. /\ (rec.status \in OutcomeStatuses) = TRUE
            /\ (rec.status = "pass") = FALSE
        BY <4>1 DEF OutcomeStatuses
      <4>3. Trial(rec, TRUE, FALSE)
        BY <3>2, <4>1 DEF InvalidOutput
      <4> QED  BY <2>1, <4>2, <4>3, TrialStep DEF Trial
    <3>3. CASE Verified
      <4>1. PICK o \in Outcomes :
              Trial(RunContainer(o, expected), Judged(o), Solved(o))
        BY <3>3 DEF Verified
      <4>2. PICK rec, c, s : /\ rec = RunContainer(o, expected)
                             /\ c = Judged(o) /\ s = Solved(o)
        OBVIOUS
      <4>3. /\ (rec.status \in OutcomeStatuses) = c
            /\ (rec.status = "pass") = s
        BY <2>2, <4>2, ContainerHonest DEF CallInv
      <4>4. c \in BOOLEAN /\ s \in BOOLEAN
        BY <4>2 DEF Judged, Solved
      <4>5. Trial(rec, c, s)
        BY <4>1, <4>2
      <4> QED  BY <2>1, <4>3, <4>4, <4>5, TrialStep DEF Trial
    <3> QED  BY <1>5, <3>1, <3>2, <3>3 DEF RunTrial
  <2>4. CallInv'
    <3>1. Checked /\ Planned \in Nat
      BY <2>1, ArmsPlanned DEF CallInv
    <3>2. Planned' = Planned /\ (Checked' <=> Checked)
      BY <2>1 DEF Planned, Checked
    <3> QED  BY <2>1, <2>3, <3>1, <3>2 DEF CallInv
  <2>5. GateInv'
    BY <2>1 DEF GateInv, ControlFailure, Gate
  <2>6. ReportInv'
    BY <2>1 DEF ReportInv
  <2> QED  BY <2>3, <2>4, <2>5, <2>6
<1>6. CASE PromptFails
  <2>1. CallInv'
    BY <1>6 DEF PromptFails, CallInv, Checked, Planned
  <2>2. GateInv'
    BY <1>6 DEF PromptFails, GateInv
  <2>3. ArmInv'
    BY <1>6, ArmsUnchanged DEF PromptFails
  <2>4. ReportInv'
    BY <1>6 DEF PromptFails, ReportInv
  <2> QED  BY <2>1, <2>2, <2>3, <2>4
<1>7. CASE TrialsDone
  <2>1. CallInv'
    BY <1>7 DEF TrialsDone, CallInv, Checked, Planned
  <2>2. GateInv'
    BY <1>7 DEF TrialsDone, GateInv, ControlFailure, Gate, Planned
  <2>3. ArmInv'
    BY <1>7, ArmsUnchanged DEF TrialsDone
  <2>4. ReportInv'
    BY <1>7 DEF TrialsDone, ReportInv
  <2> QED  BY <2>1, <2>2, <2>3, <2>4
<1>8. CASE WriteReport
  <2>1. CallInv'
    BY <1>8 DEF WriteReport, CallInv, Checked, Planned
  <2>2. ControlFailure' = ControlFailure
    BY <1>8 DEF WriteReport, ControlFailure, Gate
  <2>3. GateInv'
    BY <1>8, <2>2 DEF WriteReport, GateInv, Planned
  <2>4. ArmInv'
    BY <1>8, ArmsUnchanged DEF WriteReport
  <2>5. TheReport' = TheReport
    BY <1>8, <2>2 DEF WriteReport, TheReport
  <2>6. ReportInv'
    BY <1>8, <2>5 DEF WriteReport, ReportInv, TheReport
  <2> QED  BY <2>1, <2>3, <2>4, <2>6
<1>9. CASE UNCHANGED rolloutVars
  <2>1. CallInv' /\ GateInv'
    BY <1>9 DEF rolloutVars, CallInv, GateInv, Checked, Planned,
                ControlFailure, Gate
  <2>2. ArmInv'
    BY <1>9, ArmsUnchanged DEF rolloutVars
  <2>3. TheReport' = TheReport
    BY <1>9 DEF rolloutVars, TheReport, ControlFailure, Gate
  <2>4. ReportInv'
    BY <1>9, <2>3 DEF rolloutVars, ReportInv
  <2> QED  BY <2>1, <2>2, <2>4
<1> QED
  BY <1>1, <1>2, <1>3, <1>4, <1>5, <1>6, <1>7, <1>8, <1>9 DEF RolloutNext

\* run_rollout: the inductive invariant of a screening, for every request, every
\* number of repetitions and whatever each container does
THEOREM RolloutInductive == RolloutSpec => []RolloutInv
<1>1. RolloutInit => RolloutInv
  BY RolloutInitHolds
<1>2. RolloutInv /\ [RolloutNext]_rolloutVars => RolloutInv'
  BY RolloutStep
<1> QED  BY <1>1, <1>2, PTL DEF RolloutSpec

\* run_rollout: the judged and the passed trials of an arm are exactly those that
\* were, and a report accounts for every planned trial once, in its arm, or for
\* none when a control failed.
THEOREM RatesAlwaysHonest == RolloutSpec => []RatesHonest
<1>1. RolloutInv => RatesHonest
  <2> SUFFICES ASSUME RolloutInv  PROVE RatesHonest
    OBVIOUS
  <2> USE DEF RolloutInv
  <2>1. RolloutTypeOK
    <3>1. next \in {0} \cup 1 .. Planned
      BY ArmsPlanned DEF CallInv
    <3> QED  BY <3>1 DEF RolloutTypeOK, CallInv, ArmInv, ArmFacts
  <2>2. \A a \in DOMAIN arms : /\ arms[a].solve = truth[a].solve
                               /\ arms[a].passed = truth[a].passed
    BY DEF ArmInv, ArmFacts
  <2>3. ASSUME report # None, report.failed
        PROVE  DOMAIN report.arms = {}
    <3>1. ControlFailure /\ report.arms = arms /\ phase = "done"
      BY <2>3 DEF ReportInv, TheReport
    <3>2. next = 0
      BY <3>1 DEF GateInv
    <3>3. 0 .. next - 1 = {}
      BY <3>2
    <3> QED  BY <3>1, <3>3 DEF ArmInv
  <2>4. ASSUME report # None, ~report.failed
        PROVE  /\ DOMAIN report.arms
                    = Range(request.models) \X Range(request.hints)
               /\ \A a \in DOMAIN report.arms :
                    report.arms[a].n
                      = Cardinality({i \in 0 .. Planned - 1 : ArmOf(i) = a})
    <3>1. ~ControlFailure /\ report.arms = arms /\ phase = "done"
      BY <2>4 DEF ReportInv, TheReport
    <3>2. next = Planned /\ Checked
      BY <3>1 DEF GateInv, CallInv
    <3> QED  BY <3>1, <3>2, ArmsPlanned DEF CallInv, ArmInv, ArmFacts, TrialsOf
  <2> QED  BY <2>1, <2>2, <2>3, <2>4 DEF RatesHonest
<1> QED  BY <1>1, RolloutInductive, PTL

\* What _screening_decision and task_cards are given: an arm of a report has no
\* more passed than judged trials and no more judged trials than trials.  It discharges
\* the assumption of TaskCards on the tallies of a report.
THEOREM ReportsAlwaysFit == RolloutSpec => [](report # None => TalliesFit(report.arms))
<1>1. RolloutInv => (report # None => TalliesFit(report.arms))
  <2> SUFFICES ASSUME RolloutInv, report # None  PROVE TalliesFit(report.arms)
    OBVIOUS
  <2>1. report.arms = arms
    BY DEF RolloutInv, ReportInv, TheReport
  <2> QED
    BY <2>1 DEF RolloutInv, ArmInv, ArmFacts, TallyType, TalliesFit
<1> QED  BY <1>1, RolloutInductive, PTL

\* Tallies of one task by which its models are told apart.
LEMMA PromisingTallies ==
  ASSUME NEW models, models \in Seq(Range(models)),
         NEW tally, NEW repetitions \in Int,
         Promising(models, tally, repetitions),
         \A i \in DOMAIN models :
           <<models[i], 0>> \in DOMAIN tally =>
             /\ tally[<<models[i], 0>>].solve \in Nat
             /\ tally[<<models[i], 0>>].passed
                  \in 0 .. tally[<<models[i], 0>>].solve
  PROVE  \E i, j \in DOMAIN models :
           /\ <<models[i], 0>> \in DOMAIN tally
           /\ <<models[j], 0>> \in DOMAIN tally
           /\ tally[<<models[i], 0>>].passed
                - tally[<<models[j], 0>>].passed >= 5
<1> DEFINE passed == {tally[<<models[i], 0>>].passed : i \in DOMAIN models}
<1>1. /\ Rectangular(models, tally, repetitions) /\ repetitions >= 5
      /\ WilsonSeparated(Max(passed), Min(passed), repetitions)
  BY DEF Promising, MIN_DISCRIMINATION_REPETITIONS
<1>2. \A i \in DOMAIN models : /\ <<models[i], 0>> \in DOMAIN tally
                               /\ tally[<<models[i], 0>>].solve = repetitions
  BY <1>1 DEF Rectangular, Cells
<1>3. passed \subseteq 0 .. repetitions
  BY <1>2
<1>4. passed # {}
  <2>1. 1 \in DOMAIN models
    BY <1>1 DEF Rectangular
  <2> QED  BY <2>1
<1>5. repetitions \in Nat
  BY <1>1
<1>6. Max(passed) \in passed /\ Min(passed) \in passed
  <2> HIDE DEF passed
  <2> QED  BY <1>3, <1>4, <1>5, SmallestAndLargest
<1>7. PICK x, y : x = Max(passed) /\ y = Min(passed)
  OBVIOUS
<1>8. x \in 0 .. repetitions /\ y \in 0 .. repetitions
  BY <1>3, <1>6, <1>7
<1>9. x - y >= 5
  BY <1>1, <1>5, <1>7, <1>8, WilsonGap
<1>10. PICK i \in DOMAIN models, j \in DOMAIN models :
         /\ x = tally[<<models[i], 0>>].passed
         /\ y = tally[<<models[j], 0>>].passed
  BY <1>6, <1>7
<1> QED  BY <1>2, <1>9, <1>10

\* _screening_decision: a screening is called promising only if two different
\* models ran at least five trials each, every one was judged, and they are at
\* least five successes apart.
THEOREM PromisingAlwaysSound == RolloutSpec => []PromisingSound
<1>1. RolloutInv => PromisingSound
  <2> SUFFICES ASSUME RolloutInv, report # None,
                      report.decision = "review-promising"
               PROVE  \E best, worst \in Range(request.models) :
                        /\ best # worst
                        /\ request.repetitions >= 5
                        /\ \A m \in {best, worst} :
                             /\ truth[<<m, 0>>].n = request.repetitions
                             /\ truth[<<m, 0>>].solve = request.repetitions
                        /\ truth[<<best, 0>>].passed
                             - truth[<<worst, 0>>].passed >= 5
    BY DEF PromisingSound
  <2> USE DEF RolloutInv
  <2>1. PICK models, R : models = request.models /\ R = request.repetitions
    OBVIOUS
  <2>2. models \in Seq(Range(models)) /\ R \in Int
    BY <2>1, RequestAssumption DEF CallInv
  <2>3. Promising(models, arms, R)
    BY <2>1 DEF ReportInv, TheReport, Decision
  <2>4. Rectangular(models, arms, R) /\ R >= 5
    BY <2>3 DEF Promising, MIN_DISCRIMINATION_REPETITIONS
  <2>5. \A a \in DOMAIN arms : /\ arms[a].solve \in Nat
                               /\ arms[a].passed \in 0 .. arms[a].solve
    BY DEF ArmInv, ArmFacts, TallyType
  <2>6. PICK i \in DOMAIN models, j \in DOMAIN models :
          /\ <<models[i], 0>> \in DOMAIN arms /\ <<models[j], 0>> \in DOMAIN arms
          /\ arms[<<models[i], 0>>].passed - arms[<<models[j], 0>>].passed >= 5
    BY <2>2, <2>3, <2>5, PromisingTallies
  <2>7. \A k \in DOMAIN models :
          /\ arms[<<models[k], 0>>].solve = R /\ ~arms[<<models[k], 0>>].infra
    BY <2>4 DEF Rectangular
  <2>8. \A k \in {i, j} : /\ truth[<<models[k], 0>>].n = R
                          /\ truth[<<models[k], 0>>].solve = R
                          /\ truth[<<models[k], 0>>].passed
                               = arms[<<models[k], 0>>].passed
                          /\ arms[<<models[k], 0>>].passed \in Nat
    BY <2>5, <2>6, <2>7 DEF ArmInv, ArmFacts
  <2>9. models[i] # models[j]
    BY <2>6, <2>8
  <2>10. models[i] \in Range(models) /\ models[j] \in Range(models)
    BY DEF Range
  <2> QED  BY <2>1, <2>4, <2>6, <2>8, <2>9, <2>10
<1> QED  BY <1>1, RolloutInductive, PTL

(***************************************************************************)
(* Sums of naturals                                                        *)
(***************************************************************************)
Summands(w) == UNION {{x} \X (1 .. w[x]) : x \in DOMAIN w}

\* The members of the disjoint union behind SumOf
LEMMA SummandsOf ==
  ASSUME NEW w
  PROVE  \A z : z \in Summands(w) <=>
           \E x \in DOMAIN w : \E k \in 1 .. w[x] : z = <<x, k>>
BY DEF Summands

\* It is finite when the summands are numbers and finitely many.
LEMMA SummandsFinite ==
  ASSUME NEW w, IsFiniteSet(DOMAIN w), \A x \in DOMAIN w : w[x] \in Nat
  PROVE  IsFiniteSet(Summands(w))
<1> DEFINE Column(x) == {x} \X (1 .. w[x])
           C == {Column(x) : x \in DOMAIN w}
           f == [x \in DOMAIN w |-> Column(x)]
<1>1. IsFiniteSet(C)
  <2>1. f \in Surjection(DOMAIN w, C)
    BY DEF Surjection
  <2> HIDE DEF f, C
  <2> QED  BY <2>1, FS_Surjection
<1>2. \A x \in DOMAIN w : IsFiniteSet(Column(x))
  <2> TAKE x \in DOMAIN w
  <2>1. IsFiniteSet({x})
    BY FS_Singleton
  <2>2. IsFiniteSet(1 .. w[x])
    BY FS_Interval
  <2> QED  BY <2>1, <2>2, FS_Product
<1>3. \A T \in C : IsFiniteSet(T)
  BY <1>2
<1>4. Summands(w) = UNION C
  BY DEF Summands
<1> HIDE DEF C
<1> QED  BY <1>1, <1>3, <1>4, FS_UNION

\* Two functions with the same values along a bijection have the same sum.
LEMMA SumAlongBijection ==
  ASSUME NEW w, NEW v, IsFiniteSet(DOMAIN w), \A x \in DOMAIN w : w[x] \in Nat,
         NEW f \in Bijection(DOMAIN w, DOMAIN v),
         \A x \in DOMAIN w : v[f[x]] = w[x]
  PROVE  SumOf(v) = SumOf(w)
<1> DEFINE S == Summands(w)
           T == Summands(v)
           g == [z \in S |-> <<f[z[1]], z[2]>>]
<1>1. /\ f \in [DOMAIN w -> DOMAIN v]
      /\ \A x, y \in DOMAIN w : f[x] = f[y] => x = y
      /\ \A y \in DOMAIN v : \E x \in DOMAIN w : f[x] = y
  BY DEF Bijection, Injection, Surjection, IsInjective
<1>2. \A z \in S : z = <<z[1], z[2]>> /\ z[1] \in DOMAIN w /\ z[2] \in 1 .. w[z[1]]
  BY SummandsOf
<1>3. g \in [S -> T]
  <2>1. ASSUME NEW z \in S  PROVE <<f[z[1]], z[2]>> \in T
    <3>1. f[z[1]] \in DOMAIN v /\ z[2] \in 1 .. v[f[z[1]]]
      BY <1>1, <1>2
    <3> QED  BY <3>1, SummandsOf
  <2> QED  BY <2>1
<1>4. ASSUME NEW y \in S, NEW z \in S, g[y] = g[z]
      PROVE  y = z
  <2>1. f[y[1]] = f[z[1]] /\ y[2] = z[2]
    BY <1>4
  <2>2. y[1] = z[1]
    BY <1>1, <1>2, <2>1
  <2> QED  BY <1>2, <2>1, <2>2
<1>5. ASSUME NEW t \in T  PROVE \E z \in S : g[z] = t
  <2>1. PICK y, k : y \in DOMAIN v /\ k \in 1 .. v[y] /\ t = <<y, k>>
    BY SummandsOf
  <2>2. PICK x \in DOMAIN w : f[x] = y
    BY <1>1, <2>1
  <2>3. <<x, k>> \in S
    BY <2>1, <2>2, SummandsOf
  <2>4. g[<<x, k>>] = t
    BY <2>1, <2>2, <2>3
  <2> QED  BY <2>3, <2>4
<1>6. g \in Bijection(S, T)
  <2> HIDE DEF g, S, T
  <2> QED  BY <1>3, <1>4, <1>5 DEF Bijection, Injection, Surjection, IsInjective
<1>7. ExistsBijection(S, T)
  <2> HIDE DEF g, S, T
  <2> QED  BY <1>6 DEF ExistsBijection
<1>8. IsFiniteSet(S)
  BY SummandsFinite
<1>9. Cardinality(T) = Cardinality(S)
  <2> HIDE DEF S, T
  <2> QED  BY <1>7, <1>8, FS_Bijection
<1> QED  BY <1>9 DEF SumOf, Summands

(***************************************************************************)
(* What the evidence pipeline finds                                        *)
(***************************************************************************)
\* The tallies of a report that shows arms are those of a result of run_rollout,
\* and it decided on them.
FromRollout(d) ==
  \E r \in Rollouts :
    /\ ~r.failed /\ d.arms = r.arms
    /\ d.decision = Decision(FALSE, Models, r.arms, r.repetitions)

IsDocument(d, written) ==
  /\ d = [kind |-> d.kind, id |-> d.id, suite |-> d.suite, arms |-> d.arms,
          tree |-> d.tree, decision |-> d.decision, gap |-> d.gap]
  /\ d.id \in 1 .. written
  /\ DOMAIN d.arms # {} => d.kind = "model-screening" /\ FromRollout(d)

Readable(p) == file[p] \notin {None, Torn}

DocumentInv ==
  /\ file = [p \in Paths |-> file[p]]
  /\ \A p \in Paths : Readable(p) => IsDocument(file[p], reports)
  /\ \A p \in Members : writing = SuiteOf[p] => IsDocument(file[p], reports)

\* Outside of a suite a report is written by one invocation.
IdInv ==
  ~suite =>
    /\ writing = None
    /\ \A p, q \in Paths : Readable(p) /\ Readable(q) /\ file[p].id = file[q].id
                             => file[p] = file[q]

CardsInv ==
  /\ reports \in Nat
  /\ DocumentInv /\ IdInv
  /\ PromotionSound /\ TrialsCounted

\* There are finitely many report files.
LEMMA PathsFinite == IsFiniteSet(Paths)
<1>1. /\ IsFiniteSet({"run1"}) /\ IsFiniteSet({"run2"})
      /\ IsFiniteSet({"suite1"}) /\ IsFiniteSet({"suite2"})
      /\ IsFiniteSet({"harbor1"}) /\ IsFiniteSet({"harbor2"})
      /\ IsFiniteSet({"external"}) /\ IsFiniteSet({"copy"})
  BY FS_Singleton
<1>2. IsFiniteSet({"run1"} \cup {"run2"})
  BY <1>1, FS_Union
<1>3. IsFiniteSet({"suite1"} \cup {"suite2"})
  BY <1>1, FS_Union
<1>4. IsFiniteSet({"harbor1"} \cup {"harbor2"})
  BY <1>1, FS_Union
<1>5. IsFiniteSet({"external"} \cup {"copy"})
  BY <1>1, FS_Union
<1>6. IsFiniteSet(({"run1"} \cup {"run2"}) \cup ({"suite1"} \cup {"suite2"}))
  BY <1>2, <1>3, FS_Union
<1>7. IsFiniteSet(({"harbor1"} \cup {"harbor2"}) \cup ({"external"} \cup {"copy"}))
  BY <1>4, <1>5, FS_Union
<1>8. IsFiniteSet((({"run1"} \cup {"run2"}) \cup ({"suite1"} \cup {"suite2"}))
        \cup (({"harbor1"} \cup {"harbor2"}) \cup ({"external"} \cup {"copy"})))
  BY <1>6, <1>7, FS_Union
<1>9. Paths = (({"run1"} \cup {"run2"}) \cup ({"suite1"} \cup {"suite2"}))
                \cup (({"harbor1"} \cup {"harbor2"}) \cup ({"external"} \cup {"copy"}))
  BY DEF Paths, Members
<1> QED  BY <1>8, <1>9

\* Every file that is read stands for the files with its bytes, and no two files
\* that are read have the same bytes.
LEMMA UniqueFiles ==
  /\ Unique \subseteq Paths
  /\ \A p \in Unique : file[p] # None
  /\ \A p, q \in Unique : file[p] = file[q] => p = q
<1>1. \A p, q \in Unique : file[p] = file[q] => p = q
  BY DEF Unique
<1> QED  BY <1>1 DEF Unique, Found

\* When no file is unreadable, every file build_cards uses is a document of one
\* of the producers.
LEMMA ReadDocuments ==
  ASSUME DocumentInv, ~Unreadable
  PROVE  \A p \in Unique : p \in Paths /\ Readable(p) /\ IsDocument(file[p], reports)
BY UniqueFiles DEF DocumentInv, Unreadable, Readable

\* A report by a result that separates two models separates them.
LEMMA PromisingSeparates ==
  ASSUME NEW d, FromRollout(d), d.decision # "collect-more-evidence"
  PROVE  Separates(d)
<1>1. PICK r \in Rollouts :
        /\ d.arms = r.arms
        /\ d.decision = Decision(FALSE, Models, r.arms, r.repetitions)
  BY DEF FromRollout
<1>2. PICK tally, n : tally = r.arms /\ n = r.repetitions
  OBVIOUS
<1>3. Promising(Models, tally, n)
  BY <1>1, <1>2 DEF Decision
<1>4. /\ Models \in Seq(Range(Models)) /\ n \in Int
      /\ \A a \in DOMAIN tally : /\ tally[a].solve \in Nat
                                 /\ tally[a].passed \in 0 .. tally[a].solve
  BY <1>2, RolloutAssumption DEF TalliesFit
<1>5. PICK i \in DOMAIN Models, j \in DOMAIN Models :
        /\ <<Models[i], 0>> \in DOMAIN tally /\ <<Models[j], 0>> \in DOMAIN tally
        /\ tally[<<Models[i], 0>>].passed - tally[<<Models[j], 0>>].passed >= 5
  BY <1>3, <1>4, PromisingTallies
<1>6. \A k \in DOMAIN Models : tally[<<Models[k], 0>>].solve >= 5
  BY <1>3, <1>4 DEF Promising, Rectangular, MIN_DISCRIMINATION_REPETITIONS
<1> QED  BY <1>1, <1>2, <1>5, <1>6 DEF Separates

\* What PromotionSound says of one card.
SoundCard(card) ==
  LET models == {d \in card.evidence : DOMAIN d.arms # {}}
      receipts == {d \in card.evidence : d.kind = "harbor-controls"}
  IN  /\ genome
      /\ models # {} /\ \A d \in models : Separates(d)
      /\ \A d \in models : \A a \in DOMAIN d.arms : ~d.arms[a].infra
      /\ \E r \in receipts :
           receipts = {r} /\ \A d \in models : d.tree = r.tree

\* A card that says "review-promising" was made of sound documents.
LEMMA CardIsSound ==
  ASSUME DocumentInv, ~Unreadable, NEW card, card = BuildCards,
         card.decision = "review-promising"
  PROVE  SoundCard(card)
<1> DEFINE models == {d \in card.evidence : DOMAIN d.arms # {}}
           receipts == {d \in card.evidence : d.kind = "harbor-controls"}
<1>1. /\ genome /\ Decide = "review-promising"
      /\ card.evidence = {file[p] : p \in Unique}
  BY DEF BuildCards
<1>2. /\ "collect-more-evidence" \notin Decisions
      /\ \A a \in ArmNames : ~Performance[a].infra
      /\ HarborReady /\ DigestReady
  BY <1>1 DEF Decide
<1>3. \A p \in Unique : p \in Paths /\ Readable(p) /\ IsDocument(file[p], reports)
  BY ReadDocuments
<1>4. models = {file[p] : p \in ModelRows}
  <2>1. \A p \in Unique :
          DOMAIN file[p].arms # {} => file[p].kind = "model-screening"
    BY <1>3 DEF IsDocument
  <2> QED  BY <1>1, <2>1 DEF ModelRows, Kind
<1>5. models # {}
  BY <1>2, <1>4 DEF DigestReady
<1>6. ASSUME NEW d \in models  PROVE Separates(d)
  <2>1. PICK p \in ModelRows : d = file[p]
    BY <1>4
  <2>2. FromRollout(d)
    BY <1>3, <2>1 DEF IsDocument, ModelRows, Kind
  <2>3. p \in DecisionRows
    BY <2>1 DEF ModelRows, DecisionRows, Kind
  <2>4. d.decision \in Decisions
    BY <2>1, <2>3 DEF Decisions
  <2> QED  BY <1>2, <2>2, <2>4, PromisingSeparates
<1>7. ASSUME NEW d \in models, NEW a \in DOMAIN d.arms
      PROVE  ~d.arms[a].infra
  <2>1. PICK p \in Unique : d = file[p]
    BY <1>4 DEF ModelRows, Kind
  <2>2. a \in ArmNames
    BY <1>7, <2>1 DEF ArmNames
  <2>3. Performance[a].infra
          = \E q \in Unique : a \in DOMAIN file[q].arms /\ file[q].arms[a].infra
    BY <2>2 DEF Performance
  <2> QED  BY <1>2, <1>7, <2>1, <2>2, <2>3
<1>8. PICK h : Kind("harbor-controls") = {h}
  <2>1. IsFiniteSet(Kind("harbor-controls"))
    BY PathsFinite, FS_Subset, UniqueFiles DEF Kind
  <2> QED  BY <1>2, <2>1, FS_Singleton DEF HarborReady
<1>9. receipts = {file[h]}
  <2>1. receipts = {file[p] : p \in Kind("harbor-controls")}
    BY <1>1 DEF Kind
  <2> QED  BY <1>8, <2>1
<1>10. \A d \in models : d.tree = file[h].tree
  BY <1>2, <1>4, <1>8 DEF DigestReady
<1> QED  BY <1>1, <1>5, <1>6, <1>7, <1>9, <1>10 DEF SoundCard

\* The card of a run counts the trials of every arm.
LEMMA CardCounts ==
  ASSUME DocumentInv, IdInv, ~suite, ~Unreadable, NEW card, card = BuildCards,
         NEW a \in DOMAIN card.performance
  PROVE  CountedArm(card, a)
<1> DEFINE Shows == {q \in Unique : a \in DOMAIN file[q].arms}
           w == [p \in Shows |-> file[p].arms[a].n]
           invocations == {d.id : d \in {e \in card.evidence :
                                           a \in DOMAIN e.arms}}
           ran(i) == (CHOOSE e \in card.evidence : e.id = i).arms[a].n
           v == [i \in invocations |-> ran(i)]
           f == [p \in Shows |-> file[p].id]
<1>1. /\ card.performance = Performance
      /\ card.evidence = {file[p] : p \in Unique}
  BY DEF BuildCards
<1>2. card.performance[a].n = SumOf(w)
  BY <1>1 DEF Performance, Total
<1>3. \A p \in Unique : p \in Paths /\ Readable(p) /\ IsDocument(file[p], reports)
  BY ReadDocuments
<1>4. \A p, q \in Unique : file[p].id = file[q].id => p = q
  BY <1>3, UniqueFiles DEF IdInv
<1>5. invocations = {file[p].id : p \in Shows}
  BY <1>1
<1>6. ASSUME NEW p \in Shows
      PROVE  ran(file[p].id) = file[p].arms[a].n
  <2>1. \A e \in card.evidence : e.id = file[p].id => e = file[p]
    BY <1>1, <1>4
  <2>2. file[p] \in card.evidence
    BY <1>1
  <2>3. (CHOOSE e \in card.evidence : e.id = file[p].id) = file[p]
    BY <2>1, <2>2
  <2> QED  BY <2>3
<1>7. f \in Bijection(Shows, invocations)
  <2>1. f \in [Shows -> invocations]
    BY <1>5
  <2>2. \A p, q \in Shows : f[p] = f[q] => p = q
    BY <1>4
  <2>3. \A i \in invocations : \E p \in Shows : f[p] = i
    BY <1>5
  <2> HIDE DEF f, Shows, invocations
  <2> QED  BY <2>1, <2>2, <2>3 DEF Bijection, Injection, Surjection, IsInjective
<1>8. DOMAIN w = Shows /\ DOMAIN v = invocations
  OBVIOUS
<1>9. \A p \in Shows : v[f[p]] = w[p]
  BY <1>5, <1>6
<1>10. \A p \in Shows : w[p] \in Nat
  <2> TAKE p \in Shows
  <2>1. FromRollout(file[p])
    BY <1>3 DEF IsDocument
  <2>2. file[p].arms[a].n \in Nat
    BY <2>1, RolloutAssumption DEF FromRollout, TalliesFit
  <2> QED  BY <2>2
<1>11. IsFiniteSet(Shows)
  BY PathsFinite, FS_Subset, UniqueFiles
<1>12. SumOf(v) = SumOf(w)
  <2> HIDE DEF w, v, f, Shows, invocations
  <2> QED  BY <1>7, <1>8, <1>9, <1>10, <1>11, SumAlongBijection
<1> QED  BY <1>2, <1>12 DEF CountedArm

\* No file and no card at the start
LEMMA CardsInitHolds == CardsInit => CardsInv
<1> SUFFICES ASSUME CardsInit  PROVE CardsInv
  OBVIOUS
<1>1. reports \in Nat
  BY DEF CardsInit
<1>2. DocumentInv
  <2>1. \A p \in Paths : file[p] = None
    BY DEF CardsInit
  <2>2. \A p \in Members : writing # SuiteOf[p]
    BY CardsAssumption DEF CardsInit, Members, SuiteOf
  <2> QED  BY <2>1, <2>2 DEF CardsInit, DocumentInv, Readable
<1>3. IdInv
  BY DEF CardsInit, IdInv, Readable
<1>4. PromotionSound
  BY CardsAssumption DEF CardsInit, PromotionSound, CardsTypeOK
<1>5. TrialsCounted
  BY DEF CardsInit, TrialsCounted
<1> QED  BY <1>1, <1>2, <1>3, <1>4, <1>5 DEF CardsInv

\* A document stays one when other reports are written.
LEMMA DocumentKept ==
  ASSUME NEW d, NEW k \in Nat, NEW m \in Nat, k <= m, IsDocument(d, k)
  PROVE  IsDocument(d, m)
BY DEF IsDocument

\* A document, with the next number, or a torn report is written at one path.
LEMMA WriteOne ==
  ASSUME reports \in Nat, DocumentInv, IdInv, NEW p \in Paths, NEW d,
         file' = [file EXCEPT ![p] = d], reports' = reports + 1, suite' = suite,
         d = Torn \/ (IsDocument(d, reports + 1) /\ d.id = reports + 1)
  PROVE  /\ file' = [q \in Paths |-> file'[q]]
         /\ \A q \in Paths : Readable(q)' => IsDocument(file'[q], reports')
         /\ ~suite' => \A q, r \in Paths :
              Readable(q)' /\ Readable(r)' /\ file'[q].id = file'[r].id
                => file'[q] = file'[r]
<1>1. file' = [q \in Paths |-> IF q = p THEN d ELSE file[q]]
  BY DEF DocumentInv
<1>2. ASSUME NEW q \in Paths, Readable(q)'
      PROVE  /\ IsDocument(file'[q], reports')
             /\ q # p => file'[q] = file[q] /\ Readable(q)
                         /\ file[q].id \in 1 .. reports
             /\ q = p => file'[q] = d /\ d.id = reports + 1
  <2>1. CASE q = p
    BY <1>1, <1>2, <2>1 DEF Readable
  <2>2. CASE q # p
    <3>1. file'[q] = file[q] /\ Readable(q)
      BY <1>1, <1>2, <2>2 DEF Readable
    <3>2. PICK e, k : e = file[q] /\ k = reports /\ k \in Nat
      OBVIOUS
    <3>3. IsDocument(e, k)
      BY <3>1, <3>2 DEF DocumentInv
    <3>4. IsDocument(e, k + 1)
      BY <3>2, <3>3, DocumentKept
    <3>5. e.id \in 1 .. k
      BY <3>3 DEF IsDocument
    <3> QED  BY <2>2, <3>1, <3>2, <3>4, <3>5
  <2> QED  BY <2>1, <2>2
<1>3. ASSUME NEW q \in Paths, NEW r \in Paths, Readable(q)', Readable(r)',
             file'[q].id = file'[r].id, ~suite'
      PROVE  file'[q] = file'[r]
  BY <1>2, <1>3 DEF IdInv
<1> QED  BY <1>1, <1>2, <1>3

\* A card stays what it is until the pipeline runs again.
LEMMA CardKept ==
  ASSUME PromotionSound, TrialsCounted, UNCHANGED <<cards, genome, suite>>,
         tree' \in 1 .. MaxTree, reports' \in 0 .. MaxReports,
         writing' \in {"suite1", "suite2", None}
  PROVE  PromotionSound' /\ TrialsCounted'
<1>1. CardsTypeOK'
  BY DEF PromotionSound, CardsTypeOK
<1>2. PromotionSound'
  BY <1>1 DEF PromotionSound
<1>3. TrialsCounted'
  BY DEF TrialsCounted
<1> QED  BY <1>2, <1>3

\* A report at a new number.
LEMMA NewReport ==
  ASSUME CardsInv, NEW p \in Paths, NEW d, reports < MaxReports,
         file' = [file EXCEPT ![p] = d], reports' = reports + 1,
         UNCHANGED <<tree, genome, suite, cards>>,
         d = Torn \/ (IsDocument(d, reports + 1) /\ d.id = reports + 1),
         writing' \in {"suite1", "suite2", None},
         ~suite => writing' = None,
         \A q \in Members : writing' = SuiteOf[q] =>
           IsDocument(file'[q], reports')
  PROVE  CardsInv'
<1> USE DEF CardsInv
<1>1. /\ file' = [q \in Paths |-> file'[q]]
      /\ \A q \in Paths : Readable(q)' => IsDocument(file'[q], reports')
      /\ ~suite' => \A q, r \in Paths :
           Readable(q)' /\ Readable(r)' /\ file'[q].id = file'[r].id
             => file'[q] = file'[r]
  BY WriteOne
<1>2. reports' \in Nat
  OBVIOUS
<1>3. DocumentInv'
  BY <1>1 DEF DocumentInv
<1>4. IdInv'
  BY <1>1 DEF IdInv
<1>5. reports' \in 0 .. MaxReports /\ tree' \in 1 .. MaxTree
  BY CardsAssumption DEF PromotionSound, CardsTypeOK
<1>6. PromotionSound' /\ TrialsCounted'
  BY <1>5, CardKept
<1> QED  BY <1>2, <1>3, <1>4, <1>6

\* Every step of a producer, of the file system and of build_cards keeps the
\* invariant.
LEMMA CardsStep == CardsInv /\ [CardsNext]_cardsVars => CardsInv'
<1> SUFFICES ASSUME CardsInv, [CardsNext]_cardsVars  PROVE CardsInv'
  OBVIOUS
<1> USE DEF CardsInv
<1>1. /\ tree \in 1 .. MaxTree /\ reports \in 0 .. MaxReports
      /\ writing \in {"suite1", "suite2", None}
  BY DEF PromotionSound, CardsTypeOK
<1>2. ASSUME NEW p \in Members, NEW r \in Rollouts, Screen(p, r)
      PROVE  CardsInv'
  <2>1. PICK d : d = Report(r)
    OBVIOUS
  <2>2. IsDocument(d, reports + 1) /\ d.id = reports + 1
    <3>1. d = [kind |-> d.kind, id |-> d.id, suite |-> d.suite,
               arms |-> d.arms, tree |-> d.tree, decision |-> d.decision,
               gap |-> d.gap]
      BY <2>1 DEF Report
    <3>2. d.id = reports + 1 /\ d.id \in 1 .. reports + 1
      BY <2>1, <1>1 DEF Report
    <3>3. ASSUME DOMAIN d.arms # {}
          PROVE  d.kind = "model-screening" /\ FromRollout(d)
      <4>1. ~r.failed
        BY <2>1, <3>3 DEF Report, NoArms
      <4>2. r.failed = FALSE
        BY <4>1, RolloutAssumption
      <4>3. /\ d.arms = r.arms /\ d.kind = "model-screening"
            /\ d.decision = Decision(FALSE, Models, r.arms, r.repetitions)
        BY <2>1, <4>2 DEF Report
      <4> QED  BY <4>1, <4>3 DEF FromRollout
    <3> QED  BY <3>1, <3>2, <3>3 DEF IsDocument
  <2>3. /\ file' = [file EXCEPT ![p] = d] /\ reports' = reports + 1
        /\ reports < MaxReports /\ UNCHANGED <<tree, genome, suite, cards>>
        /\ writing' = IF suite THEN SuiteOf[p] ELSE None
    BY <1>2, <2>1 DEF Screen
  <2>4. file'[p] = d /\ p \in Paths
    BY <2>3 DEF DocumentInv, Paths
  <2>5. /\ writing' \in {"suite1", "suite2", None}
        /\ ~suite => writing' = None
        /\ \A q \in Members : writing' = SuiteOf[q] => q = p
    BY <2>3, CardsAssumption DEF Members, SuiteOf
  <2> QED  BY <2>2, <2>3, <2>4, <2>5, NewReport
<1>3. ASSUME NEW p \in Members, WriteSuite(p)
      PROVE  CardsInv'
  <2>1. PICK e, k : e = file[p] /\ k = reports /\ k \in Nat
    OBVIOUS
  <2>2. IsDocument(e, k) /\ suite
    BY <1>3, <2>1, CardsAssumption
      DEF WriteSuite, DocumentInv, IdInv, Members, SuiteOf
  <2>3. PICK d : d = [e EXCEPT !.suite = TRUE]
    OBVIOUS
  <2>4. IsDocument(d, k)
    <3>1. /\ d = [kind |-> e.kind, id |-> e.id, suite |-> TRUE,
                  arms |-> e.arms, tree |-> e.tree, decision |-> e.decision,
                  gap |-> e.gap]
      BY <2>2, <2>3 DEF IsDocument
    <3> QED  BY <2>2, <3>1 DEF IsDocument, FromRollout
  <2>5. /\ file' = [file EXCEPT ![SuiteOf[p]] = d] /\ writing' = None
        /\ UNCHANGED <<tree, genome, suite, reports, cards>>
    BY <1>3, <2>1, <2>3 DEF WriteSuite
  <2>6. DocumentInv'
    <3>1. file' = [q \in Paths |-> IF q = SuiteOf[p] THEN d ELSE file[q]]
      BY <2>5 DEF DocumentInv
    <3>2. \A q \in Paths : Readable(q)' => IsDocument(file'[q], reports')
      BY <2>1, <2>4, <2>5, <3>1 DEF DocumentInv, Readable
    <3>3. \A q \in Members : writing' # SuiteOf[q]
      BY <2>5, CardsAssumption DEF Members, SuiteOf
    <3> QED  BY <3>1, <3>2, <3>3 DEF DocumentInv
  <2>7. IdInv'
    BY <2>2, <2>5 DEF IdInv
  <2>8. PromotionSound' /\ TrialsCounted'
    BY <1>1, <2>5, CardKept
  <2> QED  BY <2>5, <2>6, <2>7, <2>8
<1>4. ASSUME NEW p \in Members, CrashWriting(p)
      PROVE  CardsInv'
  <2>1. /\ file' = [file EXCEPT ![p] = Torn] /\ reports' = reports + 1
        /\ reports < MaxReports /\ writing' = None
        /\ UNCHANGED <<tree, genome, suite, cards>>
    BY <1>4 DEF CrashWriting
  <2>2. p \in Paths
    BY DEF Paths
  <2>3. \A q \in Members : writing' # SuiteOf[q]
    BY <2>1, CardsAssumption DEF Members, SuiteOf
  <2> QED  BY <2>1, <2>2, <2>3, NewReport
<1>5. ASSUME NEW p \in {"harbor1", "harbor2"}, HarborReceipt(p)
      PROVE  CardsInv'
  <2>1. PICK d : d = [kind |-> "harbor-controls", id |-> reports + 1,
                      suite |-> FALSE, arms |-> NoArms, tree |-> tree,
                      decision |-> None, gap |-> None]
    OBVIOUS
  <2>2. IsDocument(d, reports + 1) /\ d.id = reports + 1
    BY <1>1, <2>1 DEF IsDocument, NoArms
  <2>3. /\ file' = [file EXCEPT ![p] = d] /\ reports' = reports + 1
        /\ reports < MaxReports
        /\ UNCHANGED <<tree, genome, suite, writing, cards>>
    BY <1>5, <2>1 DEF HarborReceipt
  <2>4. p \in Paths /\ \A q \in Members : file'[q] = file[q]
    BY <2>3 DEF DocumentInv, Paths, Members
  <2>5. \A q \in Members : writing' = SuiteOf[q] =>
          IsDocument(file'[q], reports')
    BY <1>1, <2>3, <2>4, DocumentKept DEF DocumentInv
  <2> QED  BY <1>1, <2>2, <2>3, <2>4, <2>5, NewReport DEF IdInv
<1>6. ASSUME NEW x \in External, ExternalScreen(x)
      PROVE  CardsInv'
  <2>1. PICK d : d = [kind |-> "control-screening", id |-> reports + 1,
                      suite |-> FALSE, arms |-> NoArms, tree |-> None,
                      decision |-> x, gap |-> None]
    OBVIOUS
  <2>2. IsDocument(d, reports + 1) /\ d.id = reports + 1
    BY <1>1, <2>1 DEF IsDocument, NoArms
  <2>3. /\ file' = [file EXCEPT !["external"] = d] /\ reports' = reports + 1
        /\ reports < MaxReports
        /\ UNCHANGED <<tree, genome, suite, writing, cards>>
    BY <1>6, <2>1 DEF ExternalScreen
  <2>4. "external" \in Paths /\ \A q \in Members : file'[q] = file[q]
    BY <2>3 DEF DocumentInv, Paths, Members
  <2>5. \A q \in Members : writing' = SuiteOf[q] =>
          IsDocument(file'[q], reports')
    BY <1>1, <2>3, <2>4, DocumentKept DEF DocumentInv
  <2> QED  BY <1>1, <2>2, <2>3, <2>4, <2>5, NewReport DEF IdInv
<1>7. ASSUME NEW p \in Paths \ {"copy"}, CopyReport(p)
      PROVE  CardsInv'
  <2>1. /\ Readable(p) /\ file' = [file EXCEPT !["copy"] = file[p]]
        /\ UNCHANGED <<tree, genome, suite, writing, reports, cards>>
    BY <1>7 DEF CopyReport, Readable
  <2>2. \A q \in Paths : file'[q] = IF q = "copy" THEN file[p] ELSE file[q]
    BY <2>1 DEF DocumentInv
  <2>3. DocumentInv'
    <3>1. file' = [q \in Paths |-> file'[q]]
      BY <2>1 DEF DocumentInv
    <3>2. \A q \in Paths : Readable(q)' => IsDocument(file'[q], reports')
      BY <2>1, <2>2 DEF DocumentInv, Readable
    <3>3. \A q \in Members : file'[q] = file[q]
      BY <2>2 DEF Paths, Members
    <3> QED  BY <2>1, <3>1, <3>2, <3>3 DEF DocumentInv
  <2>4. IdInv'
    BY <2>1, <2>2 DEF IdInv, Readable
  <2>5. PromotionSound' /\ TrialsCounted'
    BY <1>1, <2>1, CardKept
  <2> QED  BY <2>1, <2>3, <2>4, <2>5
<1>8. CASE EditTask
  <2>1. /\ tree' \in 1 .. MaxTree
        /\ UNCHANGED <<genome, suite, file, writing, reports, cards>>
    BY <1>1, <1>8, CardsAssumption DEF EditTask
  <2>2. PromotionSound' /\ TrialsCounted'
    BY <1>1, <2>1, CardKept
  <2> QED  BY <2>1, <2>2 DEF DocumentInv, IdInv, Readable
<1>9. CASE RunPipeline
  <2>1. /\ ~Unreadable /\ cards' = BuildCards
        /\ UNCHANGED <<tree, genome, suite, file, writing, reports>>
    BY <1>9 DEF RunPipeline
  <2>2. PICK card : card = BuildCards
    OBVIOUS
  <2>3. card.decision \in {"keep", "review-promising", "collect-more-evidence",
                           "revise-or-drop", "quarantine"}
    BY <2>2 DEF BuildCards, Decide
  <2>4. card.decision = "review-promising" => SoundCard(card)
    BY <2>1, <2>2, CardIsSound
  <2>5. PromotionSound'
    BY <1>1, <2>1, <2>2, <2>3, <2>4 DEF PromotionSound, CardsTypeOK, SoundCard
  <2>6. ~suite => \A a \in DOMAIN card.performance : CountedArm(card, a)
    BY <2>1, <2>2, CardCounts
  <2>7. TrialsCounted'
    BY <2>1, <2>2, <2>6 DEF TrialsCounted
  <2> QED  BY <2>1, <2>5, <2>7 DEF DocumentInv, IdInv, Readable
<1>10. CASE PipelineFails \/ UNCHANGED cardsVars
  <2>1. UNCHANGED <<tree, genome, suite, file, writing, reports, cards>>
    BY <1>10 DEF PipelineFails, cardsVars
  <2>2. PromotionSound' /\ TrialsCounted'
    BY <1>1, <2>1, CardKept
  <2> QED  BY <2>1, <2>2 DEF DocumentInv, IdInv, Readable
<1> QED
  BY <1>2, <1>3, <1>4, <1>5, <1>6, <1>7, <1>8, <1>9, <1>10 DEF CardsNext

\* build_cards: the inductive invariant of the cards, whatever is written, copied
\* or damaged between two calls
THEOREM CardsInductive == CardsSpec => []CardsInv
<1>1. CardsInit => CardsInv
  BY CardsInitHolds
<1>2. CardsInv /\ [CardsNext]_cardsVars => CardsInv'
  BY CardsStep
<1> QED  BY <1>1, <1>2, PTL DEF CardsSpec

\* build_cards: a card recommends a task only on one control receipt and on model
\* reports of the receipt's tree that each separate two models by themselves.
THEOREM RecommendationAlwaysSound == CardsSpec => []PromotionSound
<1>1. CardsInv => PromotionSound
  BY DEF CardsInv
<1> QED  BY <1>1, CardsInductive, PTL

\* build_cards: outside a suite a card counts the trials of every invocation once,
\* however often its report was copied.
THEOREM TrialsAlwaysCounted == CardsSpec => []TrialsCounted
<1>1. CardsInv => TrialsCounted
  BY DEF CardsInv
<1> QED  BY <1>1, CardsInductive, PTL
=============================================================================
