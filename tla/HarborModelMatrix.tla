-------------------------- MODULE HarborModelMatrix --------------------------
(***************************************************************************)
(* The resumable Harbor model matrix of one frozen task                    *)
(* (src/orbenchlab/harbor_model_matrix.py: launch_matrix, _reserve_job,    *)
(* write_trace_bundle; harbor_launcher.py: _bounded_command).              *)
(*                                                                         *)
(* Every model owes one complete job.  A job is charged by creating its    *)
(* reservation file exclusively, and only then started.  Nothing locks the *)
(* matrix root: concurrent invocations meet at the reservation files, and  *)
(* a Harbor process outlives a controller that crashes.                    *)
(*                                                                         *)
(* Data abstraction: a job directory is absent, partial, invalid, valid (a *)
(* complete rectangle of trials), or tainted (complete, but a trajectory   *)
(* is oversized or holds a credential); a receipt is the job chosen for    *)
(* each model; a reservation is its number, its other fields are the same  *)
(* for every invocation.                                                   *)
(***************************************************************************)
EXTENDS Naturals, FiniteSets, FiniteSetsExt

CONSTANTS
  Models,          \* the selected models
  Order,           \* their place in the selection
  MaxJobAttempts,  \* max_job_attempts
  Results,         \* how Harbor may complete a job
  Workers,         \* processes sharing one matrix root
  MaxCrashes,      \* bound on crashes
  None             \* null value

ASSUME MatrixAssumption ==
  /\ IsFiniteSet(Models) /\ Models # {}
  /\ Order \in [Models -> Nat]
  /\ \A m, k \in Models : Order[m] = Order[k] => m = k
  /\ MaxJobAttempts \in 1..5
  /\ Results \subseteq {"valid", "tainted", "invalid"}
  /\ MaxCrashes \in Nat

VARIABLES
  reserved,  \* numbers of the reservation files of each model
  job,       \* the job directories
  procs,     \* Harbor processes that are alive
  launched,  \* history: processes ever started for each job
  receipt,   \* harbor-model-matrix.json
  trace,     \* trace-bundle directory: empty, partial, or bound to a receipt
  pc,        \* control point of each process
  chosen,    \* jobs this invocation has settled on, 0 for none
  num,       \* attempt number this invocation works on
  done,      \* whether some invocation returned the trace manifest
  crashes    \* history: crashes

harbor == <<job, procs>>
local  == <<pc, chosen, num>>
vars   == <<reserved, harbor, launched, receipt, trace, local, done, crashes>>

Attempts == 1..MaxJobAttempts
Unchosen == [m \in Models |-> 0]
Empty    == [state |-> "empty", jobs |-> Unchosen]
Partial  == [state |-> "partial", jobs |-> Unchosen]
Bound(jobs) == [state |-> "bound", jobs |-> jobs]
TraceDirectory ==
  {Empty, Partial} \cup {Bound(jobs) : jobs \in [Models -> Attempts]}
PC == {"idle", "scan", "reserve", "create", "launch", "wait", "trace", "copy",
       "manifest"}

Init ==
  /\ reserved = [m \in Models |-> {}]
  /\ job = [m \in Models |-> [n \in Attempts |-> "absent"]]
  /\ procs = {}
  /\ launched = [m \in Models |-> [n \in Attempts |-> 0]]
  /\ receipt = None /\ trace = Empty
  /\ pc = [w \in Workers |-> "idle"]
  /\ chosen = [w \in Workers |-> Unchosen]
  /\ num = [w \in Workers |-> 0]
  /\ done = FALSE /\ crashes = 0

Goto(w, label) == pc' = [pc EXCEPT ![w] = label]

\* Return, raise or crash: the locals are gone.
Leave(w) ==
  /\ Goto(w, "idle")
  /\ chosen' = [chosen EXCEPT ![w] = Unchosen]
  /\ num' = [num EXCEPT ![w] = 0]

\* The loop over the selected models is at the first without a job.
Undecided(jobs) == {m \in Models : jobs[m] = 0}
FirstOf(models) == CHOOSE m \in models : \A k \in models : Order[m] <= Order[k]
Pending(w) == Undecided(chosen[w])
Model(w) == FirstOf(Pending(w))

(***************************************************************************)
(* launch_matrix                                                           *)
(***************************************************************************)
Begin(w) ==
  /\ pc[w] = "idle"
  /\ Goto(w, "scan")
  /\ UNCHANGED <<reserved, harbor, launched, receipt, trace, chosen, num, done,
                 crashes>>

\* Mutant: any finished job is taken for a complete rectangle.
ValidJobsUnchecked(m) == {n \in Attempts : job[m][n] \notin {"absent", "partial"}}

\* _validate_model_job reads the trajectories but not what they disclose.
Complete == {"valid", "tainted"}

\* _valid_job takes the newest job directory that validates.
ValidJobs(m) == {n \in Attempts : job[m][n] \in Complete}

Reuse(w) ==
  /\ pc[w] = "scan" /\ Pending(w) # {}
  /\ ValidJobs(Model(w)) # {}
  /\ chosen' = [chosen EXCEPT ![w][Model(w)] = Max(ValidJobs(Model(w)))]
  /\ UNCHANGED <<reserved, harbor, launched, receipt, trace, pc, num, done,
                 crashes>>

NoReuse(w) ==
  /\ pc[w] = "scan" /\ Pending(w) # {}
  /\ ValidJobs(Model(w)) = {}
  /\ Goto(w, "reserve")
  /\ UNCHANGED <<reserved, harbor, launched, receipt, trace, chosen, num, done,
                 crashes>>

\* Mutant: numbers are taken from the job directories only.
UsedJobsOnly(m) == {n \in Attempts : job[m][n] # "absent"}

\* The numbers _reserve_job finds among reservations and job directories
Used(m) == reserved[m] \cup {n \in Attempts : job[m][n] # "absent"}
NextAttempt(m) == IF Used(m) = {} THEN 1 ELSE Max(Used(m)) + 1

\* _reserve_job scans; above the cap it raises.
ReserveScan(w) ==
  /\ pc[w] = "reserve"
  /\ IF NextAttempt(Model(w)) > MaxJobAttempts
     THEN Leave(w)
     ELSE /\ num' = [num EXCEPT ![w] = NextAttempt(Model(w))]
          /\ Goto(w, "create") /\ UNCHANGED chosen
  /\ UNCHANGED <<reserved, harbor, launched, receipt, trace, done, crashes>>

\* Mutant: the reservation is opened for writing, not exclusively.
ReserveCreateShared(w) ==
  /\ pc[w] = "create"
  /\ reserved' = [reserved EXCEPT ![Model(w)] = @ \cup {num[w]}]
  /\ Goto(w, "launch")
  /\ UNCHANGED <<harbor, launched, receipt, trace, chosen, num, done, crashes>>

\* open("x"): the number is ours, or another process took it and we rescan.
ReserveCreate(w) ==
  /\ pc[w] = "create"
  /\ reserved' = [reserved EXCEPT ![Model(w)] = @ \cup {num[w]}]
  /\ Goto(w, IF num[w] \in reserved[Model(w)] THEN "reserve" ELSE "launch")
  /\ UNCHANGED <<harbor, launched, receipt, trace, chosen, num, done, crashes>>

\* _bounded_command starts Harbor in its own session.
Launch(w) ==
  /\ pc[w] = "launch"
  /\ procs' = procs \cup {<<Model(w), num[w]>>}
  /\ launched' = [launched EXCEPT ![Model(w)][num[w]] = @ + 1]
  /\ Goto(w, "wait")
  /\ UNCHANGED <<reserved, job, receipt, trace, chosen, num, done, crashes>>

\* Mutant: the exit status alone decides.
JobEndsUnvalidated(w) ==
  /\ pc[w] = "wait" /\ <<Model(w), num[w]>> \notin procs
  /\ chosen' = [chosen EXCEPT ![w][Model(w)] = num[w]]
  /\ Goto(w, "scan") /\ UNCHANGED num
  /\ UNCHANGED <<reserved, harbor, launched, receipt, trace, done, crashes>>

\* The process ended.  A nonzero exit or a job that does not validate raises.
JobEnds(w) ==
  /\ pc[w] = "wait" /\ <<Model(w), num[w]>> \notin procs
  /\ \/ /\ job[Model(w)][num[w]] \in Complete
        /\ chosen' = [chosen EXCEPT ![w][Model(w)] = num[w]]
        /\ Goto(w, "scan") /\ UNCHANGED num
     \/ Leave(w)
  /\ UNCHANGED <<reserved, harbor, launched, receipt, trace, done, crashes>>

\* Deadline or output cap: the process group is killed and the call raises.
Timeout(w) ==
  /\ pc[w] = "wait" /\ <<Model(w), num[w]>> \in procs
  /\ procs' = procs \ {<<Model(w), num[w]>>}
  /\ Leave(w)
  /\ UNCHANGED <<reserved, job, launched, receipt, trace, done, crashes>>

WriteReceipt(w) ==
  /\ pc[w] = "scan" /\ Pending(w) = {}
  /\ receipt' = chosen[w]
  /\ Goto(w, "trace")
  /\ UNCHANGED <<reserved, harbor, launched, trace, chosen, num, done, crashes>>

(***************************************************************************)
(* write_trace_bundle                                                      *)
(***************************************************************************)
\* Mutant: any nonempty destination is taken for a finished bundle.
TraceFoundTorn(w) ==
  /\ pc[w] = "trace" /\ trace # Empty
  /\ done' = TRUE
  /\ Leave(w)
  /\ UNCHANGED <<reserved, harbor, launched, receipt, trace, crashes>>

\* A manifest bound to this receipt is returned.
TraceFound(w) ==
  /\ pc[w] = "trace" /\ trace = Bound(chosen[w])
  /\ done' = TRUE
  /\ Leave(w)
  /\ UNCHANGED <<reserved, harbor, launched, receipt, trace, crashes>>

\* Anything else in a nonempty destination is refused.
TraceRefused(w) ==
  /\ pc[w] = "trace" /\ trace \notin {Empty, Bound(chosen[w])}
  /\ Leave(w)
  /\ UNCHANGED <<reserved, harbor, launched, receipt, trace, done, crashes>>

TraceBegin(w) ==
  /\ pc[w] = "trace" /\ trace = Empty
  /\ Goto(w, "copy")
  /\ UNCHANGED <<reserved, harbor, launched, receipt, trace, chosen, num, done,
                 crashes>>

\* The first trajectory lands in the directory, beside whatever another
\* invocation has put there meanwhile.
TraceCopy(w) ==
  /\ pc[w] = "copy"
  /\ trace' = IF trace = Empty THEN Partial ELSE trace
  /\ Goto(w, "manifest")
  /\ UNCHANGED <<reserved, harbor, launched, receipt, chosen, num, done, crashes>>

\* The manifest is written last; a bad trajectory removes the directory.
TraceFinish(w) ==
  /\ pc[w] = "manifest"
  /\ IF \A m \in Models : job[m][chosen[w][m]] = "valid"
     THEN trace' = Bound(chosen[w]) /\ done' = TRUE
     ELSE trace' = Empty /\ UNCHANGED done
  /\ Leave(w)
  /\ UNCHANGED <<reserved, harbor, launched, receipt, crashes>>

(***************************************************************************)
(* Harbor and crashes                                                      *)
(***************************************************************************)
\* Harbor creates the job directory, then completes it well or badly.
HarborCreate(m, n) ==
  /\ <<m, n>> \in procs /\ job[m][n] = "absent"
  /\ job' = [job EXCEPT ![m][n] = "partial"]
  /\ UNCHANGED <<reserved, procs, launched, receipt, trace, local, done, crashes>>

HarborExit(m, n) ==
  /\ <<m, n>> \in procs
  /\ procs' = procs \ {<<m, n>>}
  /\ \E result \in IF job[m][n] = "absent" THEN {"absent"} ELSE Results :
       job' = [job EXCEPT ![m][n] = result]
  /\ UNCHANGED <<reserved, launched, receipt, trace, local, done, crashes>>

Crash(w) ==
  /\ pc[w] # "idle" /\ crashes < MaxCrashes
  /\ crashes' = crashes + 1
  /\ Leave(w)
  /\ UNCHANGED <<reserved, harbor, launched, receipt, trace, done>>

(***************************************************************************)
(* Specification                                                           *)
(***************************************************************************)
Invocation(w) ==
  \/ Begin(w) \/ Reuse(w) \/ NoReuse(w) \/ ReserveScan(w) \/ ReserveCreate(w)
  \/ Launch(w) \/ JobEnds(w) \/ Timeout(w) \/ WriteReceipt(w) \/ TraceFound(w)
  \/ TraceRefused(w) \/ TraceBegin(w) \/ TraceCopy(w) \/ TraceFinish(w)

Next ==
  \/ \E w \in Workers : Invocation(w) \/ Crash(w)
  \/ \E m \in Models, n \in Attempts : HarborCreate(m, n) \/ HarborExit(m, n)

Spec == Init /\ [][Next]_vars

\* Each invocation proceeds, the caller retries one that raised, and a running
\* Harbor process ends (its own deadline, or the controller's).
FairSpec ==
  /\ Spec
  /\ \A w \in Workers : WF_vars(Invocation(w))
  /\ \A m \in Models, n \in Attempts : WF_vars(HarborExit(m, n))

(***************************************************************************)
(* Properties                                                              *)
(***************************************************************************)
\* The files and locals have the shapes the code gives them.
TypeOK ==
  /\ reserved \in [Models -> SUBSET Attempts]
  /\ job \in [Models -> [Attempts -> {"absent", "partial"} \cup Results]]
  /\ procs \subseteq Models \X Attempts
  /\ launched \in [Models -> [Attempts -> Nat]]
  /\ receipt \in [Models -> Attempts] \cup {None}
  /\ trace \in TraceDirectory
  /\ pc \in [Workers -> PC]
  /\ chosen \in [Workers -> [Models -> 0..MaxJobAttempts]]
  /\ num \in [Workers -> 0..MaxJobAttempts]
  /\ done \in BOOLEAN /\ crashes \in Nat

\* Liability: a Harbor job is charged before it starts and starts at most once
\* for its charge, whatever crashes and whoever else runs, so at most
\* max_job_attempts jobs are ever paid for a model.
ChargedBeforeLaunch ==
  \A m \in Models, n \in Attempts :
    /\ launched[m][n] <= 1
    /\ launched[m][n] = 1 => n \in reserved[m]

\* Every job that a published receipt names, for every model, is a complete
\* valid rectangle that was charged.
ReceiptSound ==
  receipt # None =>
    \A m \in Models :
      job[m][receipt[m]] \in Complete /\ receipt[m] \in reserved[m]

\* The caller that first gets a trace bundle gets one whose manifest binds
\* complete jobs with clean trajectories.
BundleClean ==
  /\ trace.state = "bound"
  /\ \A m \in Models : job[m][trace.jobs[m]] = "valid"
BundleBound == [][~done /\ done' => BundleClean']_vars

\* The promise to the payer, hidden from processes, directories and crashes: every
\* step of every invocation charges, starts, completes or publishes one job as
\* MatrixLedger allows, or leaves the account alone.
Ledger == INSTANCE MatrixLedger
          WITH charged <- reserved, started <- launched,
               complete <- [m \in Models |-> ValidJobs(m)], published <- receipt
ImplementsLedger == Ledger!Spec

Capped == \E m \in Models : MaxJobAttempts \in reserved[m]
Tainted == \E m \in Models, n \in Attempts : job[m][n] = "tainted"

\* The matrix can be resumed to its end, whatever crashes and fails: the bundle
\* is returned or the attempt cap of some model is reached, unless the bundle
\* directory is left without a manifest, or a complete job has trajectories
\* that cannot be disclosed, which no retry replaces.
MatrixResumable == <>(done \/ Capped) \/ <>[](trace = Partial) \/ <>[]Tainted
=============================================================================
