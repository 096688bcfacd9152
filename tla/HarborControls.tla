---------------------------- MODULE HarborControls ----------------------------
(***************************************************************************)
(* The Oracle and NOP control trials of one frozen task                    *)
(* (src/orbenchlab/harbor_launcher.py: launch_controls, _next_job,         *)
(* _valid_completed_job, _bounded_command; harbor_controls.py).            *)
(*                                                                         *)
(* An attempt's number is one more than the highest job directory, and its *)
(* logs are created exclusively.  Nothing locks the controls root, and a   *)
(* Harbor process outlives a controller that crashes.                      *)
(*                                                                         *)
(* Data abstraction: a job directory is absent, partial, valid (passes     *)
(* _validate_job for its control) or invalid; the task is frozen, so its   *)
(* snapshot never drifts.                                                  *)
(***************************************************************************)
EXTENDS Naturals, FiniteSets, FiniteSetsExt

CONSTANTS
  Workers,      \* processes sharing one controls root
  MaxJobs,      \* bound on attempt numbers explored
  MaxFailures,  \* bound on Harbor runs that fail
  MaxCrashes,   \* bound on controller crashes
  NoReceipt     \* the receipt before one is written

Controls == {"oracle", "nop"}
Attempts == 1..MaxJobs

ASSUME ControlsAssumption ==
  MaxJobs \in Nat \ {0} /\ MaxFailures \in Nat /\ MaxCrashes \in Nat

VARIABLES
  job,       \* job directories
  logs,      \* commands/<control>-attempt-<n> whose stdout file exists
  procs,     \* Harbor processes that are alive
  launched,  \* history: processes ever started for each job
  receipt,   \* harbor-control-screening.json
  pc,        \* control point of each process
  selected,  \* selected_jobs of each process, 0 for none
  num,       \* attempt number each process works on
  failures,  \* Harbor runs that failed
  crashes    \* controller crashes

local == <<pc, selected, num>>
vars  == <<job, logs, procs, launched, receipt, local, failures, crashes>>

Unselected == [c \in Controls |-> 0]
PC == {"idle", "scan", "open", "spawn", "wait"}

Init ==
  /\ job = [c \in Controls |-> [n \in Attempts |-> "absent"]]
  /\ logs = {} /\ procs = {}
  /\ launched = [c \in Controls |-> [n \in Attempts |-> 0]]
  /\ receipt = NoReceipt
  /\ pc = [w \in Workers |-> "idle"]
  /\ selected = [w \in Workers |-> Unselected]
  /\ num = [w \in Workers |-> 0]
  /\ failures = 0 /\ crashes = 0

Goto(w, label) == pc' = [pc EXCEPT ![w] = label]

\* Return, raise or crash: the locals are gone.
Leave(w) ==
  /\ Goto(w, "idle")
  /\ selected' = [selected EXCEPT ![w] = Unselected]
  /\ num' = [num EXCEPT ![w] = 0]

\* The loop takes oracle, then nop.
Selecting(w) == \E c \in Controls : selected[w][c] = 0
Control(w) == IF selected[w]["oracle"] = 0 THEN "oracle" ELSE "nop"

Begin(w) ==
  /\ pc[w] = "idle"
  /\ Goto(w, "scan")
  /\ UNCHANGED <<job, logs, procs, launched, receipt, selected, num, failures,
                 crashes>>

\* _valid_completed_job
ValidJobs(c) == {n \in Attempts : job[c][n] = "valid"}

SelectCompleted(w) ==
  /\ pc[w] = "scan" /\ Selecting(w)
  /\ ValidJobs(Control(w)) # {}
  /\ selected' = [selected EXCEPT ![w][Control(w)] = Max(ValidJobs(Control(w)))]
  /\ UNCHANGED <<job, logs, procs, launched, receipt, pc, num, failures, crashes>>

\* Mutant: the highest number is taken again.
NextJobAgain(c) ==
  LET taken == {n \in Attempts : job[c][n] # "absent"} IN
  IF taken = {} THEN 1 ELSE Max(taken)

\* _next_job looks at job directories only.
NextJob(c) ==
  LET taken == {n \in Attempts : job[c][n] # "absent"} IN
  IF taken = {} THEN 1 ELSE Max(taken) + 1

ChooseJob(w) ==
  /\ pc[w] = "scan" /\ Selecting(w)
  /\ ValidJobs(Control(w)) = {}
  /\ NextJob(Control(w)) <= MaxJobs
  /\ num' = [num EXCEPT ![w] = NextJob(Control(w))]
  /\ Goto(w, "open")
  /\ UNCHANGED <<job, logs, procs, launched, receipt, selected, failures, crashes>>

\* Mutant: the logs are truncated instead of created exclusively.
OpenLogsShared(w) ==
  /\ pc[w] = "open"
  /\ logs' = logs \cup {<<Control(w), num[w]>>}
  /\ Goto(w, "spawn")
  /\ UNCHANGED <<job, procs, launched, receipt, selected, num, failures, crashes>>

\* stdout_path.open("xb"): FileExistsError raises out of launch_controls.
OpenLogs(w) ==
  /\ pc[w] = "open"
  /\ IF <<Control(w), num[w]>> \in logs
     THEN Leave(w) /\ UNCHANGED logs
     ELSE /\ logs' = logs \cup {<<Control(w), num[w]>>}
          /\ Goto(w, "spawn") /\ UNCHANGED <<selected, num>>
  /\ UNCHANGED <<job, procs, launched, receipt, failures, crashes>>

Spawn(w) ==
  /\ pc[w] = "spawn"
  /\ procs' = procs \cup {<<Control(w), num[w]>>}
  /\ launched' = [launched EXCEPT ![Control(w)][num[w]] = @ + 1]
  /\ Goto(w, "wait")
  /\ UNCHANGED <<job, logs, receipt, selected, num, failures, crashes>>

\* Mutant: the job is selected on the exit status alone.
JobEndsUnvalidated(w) ==
  /\ pc[w] = "wait" /\ <<Control(w), num[w]>> \notin procs
  /\ selected' = [selected EXCEPT ![w][Control(w)] = num[w]]
  /\ Goto(w, "scan") /\ UNCHANGED num
  /\ UNCHANGED <<job, logs, procs, launched, receipt, failures, crashes>>

\* The process ended (by itself or killed at its deadline): exit status 0 and
\* a job that validates is selected, anything else raises.
JobEnds(w) ==
  /\ pc[w] = "wait" /\ <<Control(w), num[w]>> \notin procs
  /\ \/ /\ job[Control(w)][num[w]] = "valid"
        /\ selected' = [selected EXCEPT ![w][Control(w)] = num[w]]
        /\ Goto(w, "scan") /\ UNCHANGED num
     \/ Leave(w)
  /\ UNCHANGED <<job, logs, procs, launched, receipt, failures, crashes>>

\* build_receipt and write_receipt
WriteReceipt(w) ==
  /\ pc[w] = "scan" /\ ~Selecting(w)
  /\ receipt' = selected[w]
  /\ Leave(w)
  /\ UNCHANGED <<job, logs, procs, launched, failures, crashes>>

(***************************************************************************)
(* Harbor and crashes                                                      *)
(***************************************************************************)
HarborCreate(c, n) ==
  /\ <<c, n>> \in procs /\ job[c][n] = "absent"
  /\ job' = [job EXCEPT ![c][n] = "partial"]
  /\ UNCHANGED <<logs, procs, launched, receipt, local, failures, crashes>>

HarborSucceeds(c, n) ==
  /\ <<c, n>> \in procs /\ job[c][n] = "partial"
  /\ job' = [job EXCEPT ![c][n] = "valid"]
  /\ procs' = procs \ {<<c, n>>}
  /\ UNCHANGED <<logs, launched, receipt, local, failures, crashes>>

\* Harbor fails, or is killed at the deadline, before or after it has created
\* its job directory.
HarborFails(c, n) ==
  /\ <<c, n>> \in procs /\ failures < MaxFailures
  /\ failures' = failures + 1
  /\ job' = [job EXCEPT ![c][n] = IF @ = "absent" THEN "absent" ELSE "invalid"]
  /\ procs' = procs \ {<<c, n>>}
  /\ UNCHANGED <<logs, launched, receipt, local, crashes>>

Crash(w) ==
  /\ pc[w] # "idle" /\ crashes < MaxCrashes
  /\ crashes' = crashes + 1
  /\ Leave(w)
  /\ UNCHANGED <<job, logs, procs, launched, receipt, failures>>

(***************************************************************************)
(* Specification                                                           *)
(***************************************************************************)
Invocation(w) ==
  \/ Begin(w) \/ SelectCompleted(w) \/ ChooseJob(w) \/ OpenLogs(w) \/ Spawn(w)
  \/ JobEnds(w) \/ WriteReceipt(w)

HarborWorks(c, n) == HarborCreate(c, n) \/ HarborSucceeds(c, n)

Next ==
  \/ \E w \in Workers : Invocation(w) \/ Crash(w)
  \/ \E c \in Controls, n \in Attempts : HarborWorks(c, n) \/ HarborFails(c, n)

Spec == Init /\ [][Next]_vars

\* Invocations proceed and one that raised is retried; Harbor's processes make
\* progress and, after at most MaxFailures failures, succeed.
FairSpec ==
  /\ Spec
  /\ \A w \in Workers : WF_vars(Invocation(w))
  /\ \A c \in Controls, n \in Attempts : WF_vars(HarborWorks(c, n))

(***************************************************************************)
(* Properties                                                              *)
(***************************************************************************)
\* The files and locals have the shapes the code gives them.
TypeOK ==
  /\ job \in [Controls -> [Attempts -> {"absent", "partial", "valid", "invalid"}]]
  /\ logs \subseteq Controls \X Attempts
  /\ procs \subseteq Controls \X Attempts
  /\ launched \in [Controls -> [Attempts -> Nat]]
  /\ receipt \in [Controls -> Attempts] \cup {NoReceipt}
  /\ pc \in [Workers -> PC]
  /\ selected \in [Workers -> [Controls -> 0..MaxJobs]]
  /\ num \in [Workers -> 0..MaxJobs]
  /\ failures \in 0..MaxFailures /\ crashes \in 0..MaxCrashes

\* No two Harbor processes ever write the same job directory, although the
\* number is chosen from directories that a running process may not have
\* created yet: the exclusive creation of the logs decides.
OneProcessPerJob ==
  TypeOK /\ \A c \in Controls, n \in Attempts :
    launched[c][n] <= 1 /\ (launched[c][n] = 1 => <<c, n>> \in logs)

\* The published receipt names one valid job for each control.
ReceiptSound ==
  receipt # NoReceipt => \A c \in Controls : job[c][receipt[c]] = "valid"

\* An attempt that left logs but no job directory and no process
DeadLetter ==
  \E c \in Controls, n \in Attempts :
    <<c, n>> \in logs \ procs /\ job[c][n] = "absent"

\* "Run or resume": once Harbor works again, retrying yields a receipt, unless
\* an attempt left only its logs behind, whose number _next_job chooses again.
ControlsResumable == <>(receipt # NoReceipt) \/ <>[]DeadLetter
=============================================================================
