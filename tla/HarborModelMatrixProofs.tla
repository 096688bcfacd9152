----------------------- MODULE HarborModelMatrixProofs -----------------------
(***************************************************************************)
(* Proofs about HarborModelMatrix, for every set of models and processes,  *)
(* every attempt cap and any number of crashes.                            *)
(*                                                                         *)
(* The argument: a process about to launch holds a reservation nobody else *)
(* holds and whose job was never started.  Hence a job starts at most once,*)
(* hence a job directory changes only while its one process lives, hence   *)
(* a job once found complete stays complete.                               *)
(***************************************************************************)
EXTENDS HarborModelMatrix, WellFoundedInduction, TLAPS

\* A process inside the per-model loop has a model to work on, past the loop
\* it has none; past the scan of _reserve_job it has a number.
LoopAt(w) ==
  /\ pc[w] \in {"reserve", "create", "launch", "wait"} => Pending(w) # {}
  /\ pc[w] \in {"trace", "copy", "manifest"} => Pending(w) = {}
  /\ pc[w] \in {"create", "launch", "wait"} => num[w] \in Attempts
LoopInv == \A w \in Workers : LoopAt(w)

\* A process about to launch owns its reservation.
OwnerAt(w) ==
  pc[w] = "launch" => /\ num[w] \in reserved[Model(w)]
                      /\ launched[Model(w)][num[w]] = 0
SameJob(v, w) == Model(v) = Model(w) /\ num[v] = num[w]
OwnerInv ==
  /\ \A w \in Workers : OwnerAt(w)
  /\ \A v, w \in Workers :
       v # w /\ pc[v] = "launch" /\ pc[w] = "launch" => ~SameJob(v, w)

\* A job directory exists only for a started job, and a live process has not
\* completed its job.
JobInv ==
  \A m \in Models, n \in Attempts :
    /\ job[m][n] # "absent" => launched[m][n] = 1
    /\ <<m, n>> \in procs =>
         launched[m][n] = 1 /\ job[m][n] \in {"absent", "partial"}

\* Jobs that an invocation settled on are complete.
ChosenInv ==
  /\ \A w \in Workers, m \in Models :
       chosen[w][m] # 0 => job[m][chosen[w][m]] \in Complete
  /\ receipt # None => \A m \in Models : job[m][receipt[m]] \in Complete

IndInv ==
  TypeOK /\ LoopInv /\ ChargedBeforeLaunch /\ OwnerInv /\ JobInv /\ ChosenInv

\* A nonempty set of naturals has a smallest element.
LEMMA SmallestExists ==
  ASSUME NEW T, T \subseteq Nat, T # {}
  PROVE  \E x \in T : \A y \in T : x <= y
<1> DEFINE R == OpToRel(<, Nat)
<1>1. \E x \in T : \A y \in T : ~(<<y, x>> \in R)
  <2>1. IsWellFoundedOn(R, Nat)
    BY NatLessThanWellFounded
  <2> HIDE DEF R
  <2> QED  BY <2>1, WFMin
<1>2. \A x, y \in T : ~(<<y, x>> \in R) => x <= y
  BY DEF OpToRel
<1> HIDE DEF R
<1> QED  BY <1>1, <1>2

\* The largest of some attempt numbers is one of them (_valid_job and
\* _reserve_job take the newest).
LEMMA MaxOfAttempts ==
  ASSUME NEW S, S \subseteq Attempts, S # {}
  PROVE  Max(S) \in S
<1> DEFINE T == {MaxJobAttempts - n : n \in S}
<1>1. MaxJobAttempts \in Nat
  BY MatrixAssumption
<1>2. \A n \in S : n \in Nat /\ MaxJobAttempts - n \in Nat
  BY <1>1 DEF Attempts
<1>3. T \subseteq Nat /\ T # {}
  <2>1. PICK n \in S : TRUE
    OBVIOUS
  <2>2. MaxJobAttempts - n \in T
    OBVIOUS
  <2> QED  BY <1>2, <2>2
<1>4. PICK x \in T : \A y \in T : x <= y
  <2> HIDE DEF T
  <2> QED  BY <1>3, SmallestExists
<1>5. PICK n \in S : x = MaxJobAttempts - n
  OBVIOUS
<1>6. ASSUME NEW k \in S PROVE n >= k
  <2>1. MaxJobAttempts - k \in T
    OBVIOUS
  <2>2. MaxJobAttempts - n <= MaxJobAttempts - k
    BY <1>4, <1>5, <2>1
  <2> QED  BY <1>1, <1>2, <2>2
<1> QED  BY <1>6 DEF Max

\* The loop over the selected models picks a pending one.
LEMMA FirstOfModels ==
  ASSUME NEW S, S \subseteq Models, S # {}
  PROVE  FirstOf(S) \in S
<1> DEFINE T == {Order[m] : m \in S}
<1>1. T \subseteq Nat /\ T # {}
  BY MatrixAssumption
<1>2. PICK x \in T : \A y \in T : x <= y
  <2> HIDE DEF T
  <2> QED  BY <1>1, SmallestExists
<1>3. PICK m \in S : x = Order[m]
  OBVIOUS
<1>4. \A k \in S : Order[m] <= Order[k]
  BY <1>2, <1>3
<1> QED  BY <1>4 DEF FirstOf

\* While models are pending, Model(w) is one of them.
LEMMA ModelIsPending ==
  ASSUME NEW w, Pending(w) # {}
  PROVE  Model(w) \in Models /\ chosen[w][Model(w)] = 0
<1>1. Pending(w) \subseteq Models
  BY DEF Pending, Undecided
<1>2. Model(w) \in Pending(w)
  BY <1>1, FirstOfModels DEF Model
<1> QED  BY <1>2 DEF Pending, Undecided

\* _valid_job and _reserve_job stay within the attempt numbers.
LEMMA NewestValid ==
  ASSUME NEW m, ValidJobs(m) # {}
  PROVE  Max(ValidJobs(m)) \in ValidJobs(m)
<1>1. ValidJobs(m) \subseteq Attempts
  BY DEF ValidJobs
<1> QED  BY <1>1, MaxOfAttempts

\* The number _reserve_job proposes is positive.
LEMMA NextAttemptNat ==
  ASSUME TypeOK, NEW m \in Models
  PROVE  NextAttempt(m) \in Nat \ {0}
<1>1. Used(m) \subseteq Attempts
  BY DEF Used, TypeOK
<1>2. CASE Used(m) = {}
  BY <1>2 DEF NextAttempt
<1>3. CASE Used(m) # {}
  <2>1. Max(Used(m)) \in Attempts
    BY <1>1, <1>3, MaxOfAttempts
  <2>2. Max(Used(m)) \in Nat
    BY <2>1, MatrixAssumption DEF Attempts
  <2> QED  BY <1>3, <2>2 DEF NextAttempt
<1> QED  BY <1>2, <1>3

(***************************************************************************)
(* Type correctness                                                        *)
(***************************************************************************)
LocalOK ==
  /\ pc \in [Workers -> PC]
  /\ chosen \in [Workers -> [Models -> 0..MaxJobAttempts]]
  /\ num \in [Workers -> 0..MaxJobAttempts]
DiskOK ==
  /\ reserved \in [Models -> SUBSET Attempts]
  /\ job \in [Models -> [Attempts -> {"absent", "partial"} \cup Results]]
  /\ procs \subseteq Models \X Attempts
  /\ launched \in [Models -> [Attempts -> Nat]]
  /\ receipt \in [Models -> Attempts] \cup {None}
  /\ trace \in TraceDirectory
  /\ done \in BOOLEAN /\ crashes \in Nat

\* The type invariant, split into the locals and the shared files.
LEMMA TypeParts == TypeOK <=> LocalOK /\ DiskOK
BY DEF TypeOK, LocalOK, DiskOK

\* A process that returns or raises resets its own locals.
LEMMA LeaveType ==
  ASSUME LocalOK, NEW w \in Workers, Leave(w)
  PROVE  LocalOK'
<1>1. Unchosen \in [Models -> 0..MaxJobAttempts] /\ 0 \in 0..MaxJobAttempts
  BY MatrixAssumption DEF Unchosen
<1> QED  BY <1>1 DEF LocalOK, Leave, Goto, PC

\* An empty matrix root is well typed.
LEMMA InitType == Init => TypeOK
<1> SUFFICES ASSUME Init PROVE TypeOK
  OBVIOUS
<1>1. Unchosen \in [Models -> 0..MaxJobAttempts] /\ 0 \in 0..MaxJobAttempts
  BY MatrixAssumption DEF Unchosen
<1>2. LocalOK
  BY <1>1 DEF Init, LocalOK, PC
<1>3. DiskOK
  BY DEF Init, DiskOK, TraceDirectory
<1> QED  BY <1>2, <1>3, TypeParts

\* Every step keeps the shapes of the files and locals.
LEMMA NextType == TypeOK /\ LoopInv /\ [Next]_vars => TypeOK'
<1> SUFFICES ASSUME LocalOK, DiskOK, LoopInv, [Next]_vars
             PROVE  LocalOK' /\ DiskOK'
  BY TypeParts, PTL
<1>0. CASE UNCHANGED vars
  BY <1>0 DEF vars, local, harbor, LocalOK, DiskOK
<1>1. ASSUME NEW w \in Workers, Begin(w) PROVE LocalOK' /\ DiskOK'
  BY <1>1 DEF Begin, Goto, harbor, LocalOK, DiskOK, PC
<1>2. ASSUME NEW w \in Workers, Reuse(w) PROVE LocalOK' /\ DiskOK'
  <2>1. Model(w) \in Models
    BY <1>2, ModelIsPending DEF Reuse
  <2>2. Max(ValidJobs(Model(w))) \in 0..MaxJobAttempts
    <3>1. Max(ValidJobs(Model(w))) \in ValidJobs(Model(w))
      BY <1>2, NewestValid DEF Reuse
    <3> HIDE DEF Max
    <3>2. Max(ValidJobs(Model(w))) \in Attempts
      BY <3>1 DEF ValidJobs
    <3> QED  BY <3>2, MatrixAssumption DEF Attempts
  <2> QED  BY <1>2, <2>1, <2>2 DEF Reuse, harbor, LocalOK, DiskOK
<1>3. ASSUME NEW w \in Workers, NoReuse(w) PROVE LocalOK' /\ DiskOK'
  BY <1>3 DEF NoReuse, Goto, harbor, LocalOK, DiskOK, PC
<1>4. ASSUME NEW w \in Workers, ReserveScan(w) PROVE LocalOK' /\ DiskOK'
  <2>1. DiskOK'
    BY <1>4 DEF ReserveScan, harbor, DiskOK
  <2>2. NextAttempt(Model(w)) \in Nat
    BY <1>4, ModelIsPending, NextAttemptNat, TypeParts DEF ReserveScan, LoopInv, LoopAt
  <2>3. CASE NextAttempt(Model(w)) > MaxJobAttempts
    BY <1>4, <2>1, <2>3, LeaveType DEF ReserveScan
  <2>4. CASE ~(NextAttempt(Model(w)) > MaxJobAttempts)
    <3>1. NextAttempt(Model(w)) \in 0..MaxJobAttempts
      BY <2>2, <2>4, MatrixAssumption
    <3> QED  BY <1>4, <2>1, <2>4, <3>1 DEF ReserveScan, Goto, LocalOK, PC
  <2> QED  BY <2>3, <2>4
<1>5. ASSUME NEW w \in Workers, ReserveCreate(w) PROVE LocalOK' /\ DiskOK'
  <2>1. num[w] \in Attempts
    BY <1>5 DEF ReserveCreate, LoopInv, LoopAt
  <2> QED  BY <1>5, <2>1 DEF ReserveCreate, Goto, harbor, LocalOK, DiskOK, PC
<1>6. ASSUME NEW w \in Workers, Launch(w) PROVE LocalOK' /\ DiskOK'
  <2>1. Model(w) \in Models
    BY <1>6, ModelIsPending DEF Launch, LoopInv, LoopAt
  <2>2. num[w] \in Attempts
    BY <1>6 DEF Launch, LoopInv, LoopAt
  <2>3. launched' \in [Models -> [Attempts -> Nat]]
    BY <1>6, <2>1, <2>2 DEF Launch, DiskOK
  <2> QED  BY <1>6, <2>1, <2>2, <2>3 DEF Launch, Goto, LocalOK, DiskOK, PC
<1>7. ASSUME NEW w \in Workers, JobEnds(w) PROVE LocalOK' /\ DiskOK'
  <2>1. DiskOK'
    BY <1>7 DEF JobEnds, harbor, DiskOK
  <2>2. CASE Leave(w)
    BY <2>1, <2>2, LeaveType
  <2>3. CASE /\ chosen' = [chosen EXCEPT ![w][Model(w)] = num[w]]
             /\ Goto(w, "scan") /\ UNCHANGED num
    BY <2>1, <2>3 DEF Goto, LocalOK, PC
  <2> QED  BY <1>7, <2>2, <2>3 DEF JobEnds
<1>8. ASSUME NEW w \in Workers, Timeout(w) PROVE LocalOK' /\ DiskOK'
  <2>1. DiskOK'
    BY <1>8 DEF Timeout, DiskOK
  <2> QED  BY <1>8, <2>1, LeaveType DEF Timeout
<1>9. ASSUME NEW w \in Workers, WriteReceipt(w) PROVE LocalOK' /\ DiskOK'
  <2>1. chosen[w] \in [Models -> Attempts]
    BY <1>9, MatrixAssumption DEF WriteReceipt, Pending, Undecided, LocalOK, Attempts
  <2> QED  BY <1>9, <2>1 DEF WriteReceipt, Goto, harbor, LocalOK, DiskOK, PC
<1>10. ASSUME NEW w \in Workers, TraceFound(w) PROVE LocalOK' /\ DiskOK'
  BY <1>10, LeaveType DEF TraceFound, harbor, DiskOK
<1>11. ASSUME NEW w \in Workers, TraceRefused(w) PROVE LocalOK' /\ DiskOK'
  BY <1>11, LeaveType DEF TraceRefused, harbor, DiskOK
<1>12. ASSUME NEW w \in Workers, TraceBegin(w) PROVE LocalOK' /\ DiskOK'
  BY <1>12 DEF TraceBegin, Goto, harbor, LocalOK, DiskOK, PC
<1>13. ASSUME NEW w \in Workers, TraceCopy(w) PROVE LocalOK' /\ DiskOK'
  BY <1>13 DEF TraceCopy, Goto, harbor, LocalOK, DiskOK, PC, TraceDirectory
<1>14. ASSUME NEW w \in Workers, TraceFinish(w) PROVE LocalOK' /\ DiskOK'
  <2>1. chosen[w] \in [Models -> Attempts]
    BY <1>14, MatrixAssumption
    DEF TraceFinish, LoopInv, LoopAt, Pending, Undecided, LocalOK, Attempts
  <2>2. trace' \in TraceDirectory
    BY <1>14, <2>1 DEF TraceFinish, TraceDirectory
  <2> QED  BY <1>14, <2>2, LeaveType DEF TraceFinish, harbor, DiskOK
<1>15. ASSUME NEW w \in Workers, Crash(w) PROVE LocalOK' /\ DiskOK'
  BY <1>15, LeaveType DEF Crash, harbor, DiskOK
<1>16. ASSUME NEW m \in Models, NEW n \in Attempts, HarborCreate(m, n)
       PROVE LocalOK' /\ DiskOK'
  BY <1>16 DEF HarborCreate, local, LocalOK, DiskOK
<1>17. ASSUME NEW m \in Models, NEW n \in Attempts, HarborExit(m, n)
       PROVE LocalOK' /\ DiskOK'
  <2>1. job' \in [Models -> [Attempts -> {"absent", "partial"} \cup Results]]
    BY <1>17 DEF HarborExit, DiskOK
  <2> QED  BY <1>17, <2>1 DEF HarborExit, local, LocalOK, DiskOK
<1> QED
  BY <1>0, <1>1, <1>2, <1>3, <1>4, <1>5, <1>6, <1>7, <1>8, <1>9, <1>10, <1>11,
     <1>12, <1>13, <1>14, <1>15, <1>16, <1>17 DEF Next, Invocation

(***************************************************************************)
(* The loop, the reservations and the jobs                                 *)
(***************************************************************************)
\* Model(w) changes only with what w has settled on.
LEMMA SameModel ==
  ASSUME NEW w, chosen'[w] = chosen[w]
  PROVE  Model(w)' = Model(w) /\ Pending(w)' = Pending(w)
BY DEF Model, Pending

\* A process's step leaves the other processes' locals alone.
LEMMA OthersUntouched ==
  ASSUME TypeOK, NEW w \in Workers, Invocation(w) \/ Crash(w),
         NEW v \in Workers, v # w
  PROVE  pc'[v] = pc[v] /\ chosen'[v] = chosen[v] /\ num'[v] = num[v]
<1>1. CASE Leave(w)
  BY <1>1 DEF Leave, Goto, TypeOK
<1>2. CASE ~Leave(w)
  <2>1. /\ \E x : pc' = [pc EXCEPT ![w] = x]
        /\ UNCHANGED chosen \/ \E m, n : chosen' = [chosen EXCEPT ![w][m] = n]
        /\ UNCHANGED num \/ \E n : num' = [num EXCEPT ![w] = n]
    <3> USE <1>2 DEF Goto
    <3>1. CASE Begin(w) \/ NoReuse(w) \/ ReserveCreate(w) \/ Launch(w)
               \/ WriteReceipt(w) \/ TraceBegin(w) \/ TraceCopy(w)
      BY <3>1 DEF Begin, NoReuse, ReserveCreate, Launch, WriteReceipt,
         TraceBegin, TraceCopy
    <3>2. CASE Reuse(w)
      <4>1. pc' = [pc EXCEPT ![w] = pc[w]]
        BY <3>2 DEF Reuse, TypeOK
      <4> QED  BY <3>2, <4>1 DEF Reuse
    <3>3. CASE ReserveScan(w)
      BY <3>3 DEF ReserveScan
    <3>4. CASE JobEnds(w)
      BY <3>4 DEF JobEnds
    <3> QED
      BY <3>1, <3>2, <3>3, <3>4 DEF Invocation, Timeout, TraceFound,
         TraceRefused, TraceFinish, Crash
  <2> QED  BY <2>1 DEF TypeOK
<1> QED  BY <1>1, <1>2

\* What a process knows of its place in the loop survives every step.
LEMMA NextLoop == TypeOK /\ LoopInv /\ [Next]_vars => LoopInv'
<1> SUFFICES ASSUME TypeOK, LoopInv, [Next]_vars, NEW v \in Workers
             PROVE  LoopAt(v)'
  BY DEF LoopInv
<1>1. ASSUME pc'[v] = pc[v], chosen'[v] = chosen[v], num'[v] = num[v]
      PROVE  LoopAt(v)'
  BY <1>1, SameModel DEF LoopInv, LoopAt
<1>2. ASSUME Leave(v) PROVE LoopAt(v)'
  BY <1>2 DEF Leave, Goto, LoopAt, TypeOK
<1>3. CASE UNCHANGED local
  BY <1>3, <1>1 DEF local
<1>4. ASSUME NEW w \in Workers, Invocation(w) \/ Crash(w), w # v
      PROVE  LoopAt(v)'
  BY <1>4, <1>1, OthersUntouched
<1>5. CASE Invocation(v)
  <2>1. CASE Begin(v) \/ Reuse(v)
    BY <2>1 DEF Begin, Reuse, Goto, LoopAt, TypeOK
  <2>2. CASE NoReuse(v)
    BY <2>2, SameModel DEF NoReuse, Goto, LoopAt, TypeOK
  <2>3. CASE ReserveScan(v)
    <3>1. CASE NextAttempt(Model(v)) > MaxJobAttempts
      BY <2>3, <3>1, <1>2 DEF ReserveScan
    <3>2. CASE ~(NextAttempt(Model(v)) > MaxJobAttempts)
      <4>1. Pending(v) # {}
        BY <2>3 DEF ReserveScan, LoopInv, LoopAt
      <4>2. NextAttempt(Model(v)) \in Nat \ {0}
        BY <4>1, ModelIsPending, NextAttemptNat
      <4>3. NextAttempt(Model(v)) \in Attempts
        BY <4>2, <3>2, MatrixAssumption DEF Attempts
      <4>4. pc'[v] = "create" /\ num'[v] = NextAttempt(Model(v))
        BY <2>3, <3>2 DEF ReserveScan, Goto, TypeOK
      <4>5. Pending(v)' = Pending(v)
        BY <2>3, <3>2, SameModel DEF ReserveScan
      <4> QED  BY <4>1, <4>3, <4>4, <4>5 DEF LoopAt
    <3> QED  BY <3>1, <3>2
  <2>4. CASE ReserveCreate(v)
    BY <2>4, SameModel DEF ReserveCreate, Goto, LoopInv, LoopAt, TypeOK
  <2>5. CASE Launch(v)
    BY <2>5, SameModel DEF Launch, Goto, LoopInv, LoopAt, TypeOK
  <2>6. CASE JobEnds(v)
    BY <2>6, <1>2 DEF JobEnds, Goto, LoopAt, TypeOK
  <2>7. CASE WriteReceipt(v) \/ TraceBegin(v) \/ TraceCopy(v)
    BY <2>7, SameModel
    DEF WriteReceipt, TraceBegin, TraceCopy, Goto, LoopInv, LoopAt, TypeOK
  <2>8. CASE Timeout(v) \/ TraceFound(v) \/ TraceRefused(v) \/ TraceFinish(v)
    BY <2>8, <1>2 DEF Timeout, TraceFound, TraceRefused, TraceFinish
  <2> QED
    BY <1>5, <2>1, <2>2, <2>3, <2>4, <2>5, <2>6, <2>7, <2>8 DEF Invocation
<1>6. CASE Crash(v)
  BY <1>6, <1>2 DEF Crash
<1> QED
  BY <1>3, <1>4, <1>5, <1>6 DEF Next, HarborCreate, HarborExit, vars

\* Steps that neither reserve nor launch leave charges and owners alone.
LEMMA QuietStep ==
  ASSUME TypeOK, [Next]_vars,
         \A w \in Workers : ~ReserveCreate(w) /\ ~Launch(w),
         NEW v \in Workers, pc'[v] = "launch"
  PROVE  pc[v] = "launch" /\ chosen'[v] = chosen[v] /\ num'[v] = num[v]
<1>1. CASE UNCHANGED local
  BY <1>1 DEF local
<1>2. ASSUME NEW w \in Workers, Invocation(w) \/ Crash(w), w # v
      PROVE  pc[v] = "launch" /\ chosen'[v] = chosen[v] /\ num'[v] = num[v]
  BY <1>2, OthersUntouched
<1>3. ~(Invocation(v) \/ Crash(v)) \/ UNCHANGED local
  <2>1. ASSUME Leave(v) PROVE FALSE
    BY <2>1 DEF Leave, Goto, TypeOK
  <2>2. ASSUME NEW x, x # "launch", Goto(v, x) PROVE FALSE
    BY <2>2 DEF Goto, TypeOK
  <2>3. CASE Reuse(v)
    BY <2>3 DEF Reuse, TypeOK
  <2> QED
    BY <2>1, <2>2, <2>3 DEF Invocation, Begin, NoReuse, ReserveScan, JobEnds,
       Timeout, WriteReceipt, TraceFound, TraceRefused, TraceBegin, TraceCopy,
       TraceFinish, Crash
<1> QED
  BY <1>1, <1>2, <1>3 DEF Next, HarborCreate, HarborExit, vars

\* A step that leaves reservations and launches alone keeps the charges.
LEMMA QuietCharges ==
  ASSUME [Next]_vars, \A w \in Workers : ~ReserveCreate(w) /\ ~Launch(w)
  PROVE  reserved' = reserved /\ launched' = launched
BY DEF Next, Invocation, Begin, Reuse, NoReuse, ReserveScan, JobEnds, Timeout,
   WriteReceipt, TraceFound, TraceRefused, TraceBegin, TraceCopy, TraceFinish,
   Crash, HarborCreate, HarborExit, vars

\* The exclusive creation of a reservation gives it one owner, and only an
\* owner launches.
LEMMA NextCharged ==
  ASSUME TypeOK, LoopInv, OwnerInv, ChargedBeforeLaunch, [Next]_vars
  PROVE  OwnerInv' /\ ChargedBeforeLaunch'
<1>1. ASSUME NEW w \in Workers, ReserveCreate(w)
      PROVE  OwnerInv' /\ ChargedBeforeLaunch'
  <2> DEFINE m == Model(w)
             n == num[w]
  <2>1. m \in Models /\ n \in Attempts
    BY <1>1, ModelIsPending DEF ReserveCreate, LoopInv, LoopAt
  <2>2. /\ chosen' = chosen /\ num' = num /\ launched' = launched
        /\ reserved' = [reserved EXCEPT ![m] = @ \cup {n}]
    BY <1>1 DEF ReserveCreate
  <2>3. \A v \in Workers : Model(v)' = Model(v)
    BY <2>2, SameModel
  <2>4. \A k \in Models : reserved[k] \subseteq reserved'[k]
    BY <2>1, <2>2 DEF TypeOK
  <2>5. ChargedBeforeLaunch'
    BY <2>2, <2>4 DEF ChargedBeforeLaunch
  <2>6. \A v \in Workers : pc'[v] = "launch" => v = w \/ pc[v] = "launch"
    BY <1>1 DEF ReserveCreate, Goto, TypeOK
  <2>7. pc'[w] = "launch" => n \notin reserved[m]
    BY <1>1 DEF ReserveCreate, Goto, TypeOK
  <2>8. ASSUME NEW v \in Workers, pc[v] = "launch" PROVE Model(v) \in Models
    BY <2>8, ModelIsPending DEF LoopInv, LoopAt
  <2>9. ASSUME NEW v \in Workers PROVE OwnerAt(v)'
    <3>1. CASE v = w
      <4>1. pc'[w] = "launch" => launched[m][n] = 0
        <5> HIDE DEF m, n
        <5>1. launched[m][n] \in Nat
          BY <2>1 DEF TypeOK
        <5>2. launched[m][n] <= 1 /\ (launched[m][n] = 1 => n \in reserved[m])
          BY <2>1 DEF ChargedBeforeLaunch
        <5> QED  BY <2>7, <5>1, <5>2
      <4>2. n \in reserved'[m]
        BY <2>1, <2>2 DEF TypeOK
      <4> QED  BY <3>1, <2>2, <2>3, <4>1, <4>2 DEF OwnerAt
    <3>2. CASE v # w
      BY <3>2, <2>2, <2>3, <2>4, <2>6, <2>8 DEF OwnerAt, OwnerInv
    <3> QED  BY <3>1, <3>2
  <2>10. ASSUME NEW v \in Workers, NEW u \in Workers, v # u,
                pc'[v] = "launch", pc'[u] = "launch"
         PROVE  ~SameJob(v, u)'
    <3>1. SameJob(v, u)' => SameJob(v, u)
      BY <2>2, <2>3 DEF SameJob
    <3>2. CASE v # w /\ u # w
      BY <3>1, <3>2, <2>6, <2>10 DEF OwnerInv
    <3>3. CASE v = w \/ u = w
      BY <3>1, <3>3, <2>6, <2>7, <2>10 DEF OwnerInv, OwnerAt, SameJob
    <3> QED  BY <3>2, <3>3
  <2> QED  BY <2>5, <2>9, <2>10 DEF OwnerInv
<1>2. ASSUME NEW w \in Workers, Launch(w)
      PROVE  OwnerInv' /\ ChargedBeforeLaunch'
  <2> DEFINE m == Model(w)
             n == num[w]
  <2>1. m \in Models /\ n \in Attempts
    BY <1>2, ModelIsPending DEF Launch, LoopInv, LoopAt
  <2>2. /\ chosen' = chosen /\ num' = num /\ reserved' = reserved
        /\ launched' = [launched EXCEPT ![m][n] = @ + 1]
    BY <1>2 DEF Launch
  <2>3. \A v \in Workers : Model(v)' = Model(v)
    BY <2>2, SameModel
  <2>4. n \in reserved[m] /\ launched[m][n] = 0
    BY <1>2 DEF Launch, OwnerInv, OwnerAt
  <2>5. launched'[m][n] = 1
    BY <2>1, <2>2, <2>4 DEF TypeOK
  <2>6. \A k \in Models, i \in Attempts :
          <<k, i>> # <<m, n>> => launched'[k][i] = launched[k][i]
    BY <2>1, <2>2 DEF TypeOK
  <2>7. ChargedBeforeLaunch'
    BY <2>2, <2>4, <2>5, <2>6 DEF ChargedBeforeLaunch
  <2>8. \A v \in Workers : pc'[v] = "launch" => v # w /\ pc[v] = "launch"
    BY <1>2 DEF Launch, Goto, TypeOK
  <2>9. ASSUME NEW v \in Workers, pc'[v] = "launch" PROVE OwnerAt(v)'
    <3>1. v # w /\ pc[v] = "launch" /\ pc[w] = "launch"
      BY <1>2, <2>8, <2>9 DEF Launch
    <3>2. <<Model(v), num[v]>> # <<m, n>>
      BY <3>1 DEF OwnerInv, SameJob
    <3>3. Model(v) \in Models /\ num[v] \in Attempts
      BY <3>1, ModelIsPending DEF LoopInv, LoopAt
    <3>4. num[v] \in reserved[Model(v)] /\ launched[Model(v)][num[v]] = 0
      BY <3>1 DEF OwnerInv, OwnerAt
    <3> QED  BY <2>2, <2>3, <2>6, <3>2, <3>3, <3>4 DEF OwnerAt
  <2>10. ASSUME NEW v \in Workers, NEW u \in Workers, v # u,
                pc'[v] = "launch", pc'[u] = "launch"
         PROVE  ~SameJob(v, u)'
    BY <2>2, <2>3, <2>8, <2>10 DEF OwnerInv, SameJob
  <2>11. \A v \in Workers : OwnerAt(v)'
    BY <2>9 DEF OwnerAt
  <2> QED  BY <2>7, <2>10, <2>11 DEF OwnerInv
<1>3. CASE \A w \in Workers : ~ReserveCreate(w) /\ ~Launch(w)
  <2>1. reserved' = reserved /\ launched' = launched
    BY <1>3, QuietCharges
  <2>2. \A v \in Workers : pc'[v] = "launch" =>
          /\ pc[v] = "launch" /\ num'[v] = num[v] /\ Model(v)' = Model(v)
    BY <1>3, QuietStep, SameModel
  <2>3. ChargedBeforeLaunch'
    BY <2>1 DEF ChargedBeforeLaunch
  <2> QED  BY <2>1, <2>2, <2>3 DEF OwnerInv, OwnerAt, SameJob
<1> QED  BY <1>1, <1>2, <1>3

\* A job directory is written only by the one process ever started for it.
LEMMA NextJob ==
  ASSUME TypeOK, LoopInv, OwnerInv, JobInv, [Next]_vars
  PROVE  JobInv'
<1>1. ASSUME NEW w \in Workers, Launch(w) PROVE JobInv'
  <2> DEFINE m == Model(w)
             n == num[w]
  <2>1. m \in Models /\ n \in Attempts
    BY <1>1, ModelIsPending DEF Launch, LoopInv, LoopAt
  <2>2. launched[m][n] = 0
    BY <1>1 DEF Launch, OwnerInv, OwnerAt
  <2>3. job[m][n] = "absent"
    <3> HIDE DEF m, n
    <3>1. job[m][n] # "absent" => launched[m][n] = 1
      BY <2>1 DEF JobInv
    <3> QED  BY <2>2, <3>1
  <2>4. /\ job' = job /\ procs' = procs \cup {<<m, n>>}
        /\ launched' = [launched EXCEPT ![m][n] = @ + 1]
    BY <1>1 DEF Launch
  <2>5. launched'[m][n] = 1
    BY <2>1, <2>2, <2>4 DEF TypeOK
  <2>6. \A k \in Models, i \in Attempts :
          <<k, i>> # <<m, n>> => launched'[k][i] = launched[k][i]
    BY <2>1, <2>4 DEF TypeOK
  <2> HIDE DEF m, n
  <2>7. ASSUME NEW k \in Models, NEW i \in Attempts, <<k, i>> = <<m, n>>
        PROVE  /\ job'[k][i] = "absent" /\ launched'[k][i] = 1
    BY <2>3, <2>4, <2>5, <2>7
  <2>8. ASSUME NEW k \in Models, NEW i \in Attempts, <<k, i>> # <<m, n>>
        PROVE  /\ job'[k][i] = job[k][i] /\ launched'[k][i] = launched[k][i]
               /\ <<k, i>> \in procs' <=> <<k, i>> \in procs
    BY <2>4, <2>6, <2>8
  <2>9. ASSUME NEW k \in Models, NEW i \in Attempts
        PROVE  /\ job'[k][i] # "absent" => launched'[k][i] = 1
               /\ <<k, i>> \in procs' =>
                    launched'[k][i] = 1 /\ job'[k][i] \in {"absent", "partial"}
    <3>1. CASE <<k, i>> = <<m, n>>
      BY <2>7, <3>1
    <3>2. CASE <<k, i>> # <<m, n>>
      BY <2>8, <3>2 DEF JobInv
    <3> QED  BY <3>1, <3>2
  <2> QED  BY <2>9 DEF JobInv
<1>2. ASSUME NEW m \in Models, NEW n \in Attempts, HarborCreate(m, n)
      PROVE  JobInv'
  BY <1>2 DEF HarborCreate, JobInv, TypeOK
<1>3. ASSUME NEW m \in Models, NEW n \in Attempts, HarborExit(m, n)
      PROVE  JobInv'
  <2>1. launched' = launched /\ procs' = procs \ {<<m, n>>} /\ <<m, n>> \in procs
    BY <1>3 DEF HarborExit
  <2>2. \A k \in Models, i \in Attempts :
          <<k, i>> # <<m, n>> => job'[k][i] = job[k][i]
    BY <1>3 DEF HarborExit, TypeOK
  <2>3. launched[m][n] = 1
    BY <2>1 DEF JobInv
  <2>4. ASSUME NEW k \in Models, NEW i \in Attempts, <<k, i>> = <<m, n>>
        PROVE  launched'[k][i] = 1 /\ <<k, i>> \notin procs'
    BY <2>1, <2>3, <2>4
  <2>5. ASSUME NEW k \in Models, NEW i \in Attempts
        PROVE  /\ job'[k][i] # "absent" => launched'[k][i] = 1
               /\ <<k, i>> \in procs' =>
                    launched'[k][i] = 1 /\ job'[k][i] \in {"absent", "partial"}
    <3>1. CASE <<k, i>> = <<m, n>>
      BY <2>4, <3>1
    <3>2. CASE <<k, i>> # <<m, n>>
      BY <2>1, <2>2, <3>2 DEF JobInv
    <3> QED  BY <3>1, <3>2
  <2> QED  BY <2>5 DEF JobInv
<1>4. ASSUME NEW w \in Workers, Timeout(w) PROVE JobInv'
  BY <1>4 DEF Timeout, JobInv
<1>5. CASE UNCHANGED <<job, procs, launched>>
  BY <1>5 DEF JobInv
<1> QED
  BY <1>1, <1>2, <1>3, <1>4, <1>5 DEF Next, Invocation, Begin, Reuse, NoReuse,
     ReserveScan, ReserveCreate, JobEnds, WriteReceipt, TraceFound,
     TraceRefused, TraceBegin, TraceCopy, TraceFinish, Crash, vars, harbor

\* A complete job stays as it is.
LEMMA CompleteStays ==
  ASSUME TypeOK, JobInv, [Next]_vars, NEW m \in Models, NEW n \in Attempts,
         job[m][n] \in Complete
  PROVE  job'[m][n] \in Complete
<1>1. ASSUME NEW k \in Models, NEW i \in Attempts, HarborCreate(k, i)
      PROVE  job'[m][n] = job[m][n]
  BY <1>1 DEF HarborCreate, TypeOK, Complete
<1>2. ASSUME NEW k \in Models, NEW i \in Attempts, HarborExit(k, i)
      PROVE  job'[m][n] = job[m][n]
  <2>1. <<k, i>> # <<m, n>>
    BY <1>2 DEF HarborExit, JobInv, Complete
  <2> QED  BY <1>2, <2>1 DEF HarborExit, TypeOK
<1>3. CASE UNCHANGED job
  BY <1>3
<1> QED
  BY <1>1, <1>2, <1>3 DEF Next, Invocation, Begin, Reuse, NoReuse, ReserveScan,
     ReserveCreate, Launch, JobEnds, Timeout, WriteReceipt, TraceFound,
     TraceRefused, TraceBegin, TraceCopy, TraceFinish, Crash, vars, harbor

\* What an invocation settles on, and what a receipt names, is complete.
LEMMA NextChosen ==
  ASSUME TypeOK, LoopInv, JobInv, ChosenInv, [Next]_vars
  PROVE  ChosenInv'
<1> DEFINE Settled(w) == \A m \in Models :
             chosen[w][m] # 0 => job[m][chosen[w][m]] \in Complete
<1>1. ASSUME NEW w \in Workers, NEW m \in Models, chosen[w][m] # 0
      PROVE  job'[m][chosen[w][m]] \in Complete
  <2>1. chosen[w][m] \in Attempts
    BY <1>1, MatrixAssumption DEF TypeOK, Attempts
  <2> QED  BY <1>1, <2>1, CompleteStays DEF ChosenInv
<1>2. ASSUME NEW w \in Workers, chosen'[w] = chosen[w] PROVE Settled(w)'
  BY <1>1, <1>2
<1>3. ASSUME NEW w \in Workers, Leave(w) PROVE Settled(w)'
  BY <1>3 DEF Leave, Unchosen, TypeOK
<1>4. ASSUME NEW w \in Workers, Reuse(w) PROVE Settled(w)'
  <2> DEFINE n == Max(ValidJobs(Model(w)))
  <2>1. n \in ValidJobs(Model(w))
    BY <1>4, NewestValid DEF Reuse
  <2>2. Model(w) \in Models
    BY <1>4, ModelIsPending DEF Reuse
  <2>3. chosen' = [chosen EXCEPT ![w][Model(w)] = n]
    BY <1>4 DEF Reuse
  <2> HIDE DEF n
  <2>4. n \in Attempts /\ job[Model(w)][n] \in Complete
    BY <2>1 DEF ValidJobs
  <2>5. job'[Model(w)][n] \in Complete
    BY <2>2, <2>4, CompleteStays
  <2> QED  BY <1>1, <2>2, <2>3, <2>5 DEF TypeOK
<1>5. ASSUME NEW w \in Workers, JobEnds(w) PROVE Settled(w)'
  <2>1. CASE /\ job[Model(w)][num[w]] \in Complete
             /\ chosen' = [chosen EXCEPT ![w][Model(w)] = num[w]]
    <3>1. Model(w) \in Models /\ num[w] \in Attempts
      BY <1>5, ModelIsPending DEF JobEnds, LoopInv, LoopAt
    <3>2. job'[Model(w)][num[w]] \in Complete
      BY <2>1, <3>1, CompleteStays
    <3> QED  BY <1>1, <2>1, <3>1, <3>2 DEF TypeOK
  <2> QED  BY <1>5, <1>3, <2>1 DEF JobEnds
<1>6. \A w \in Workers : Settled(w)'
  <2> SUFFICES ASSUME NEW v \in Workers PROVE Settled(v)'
    OBVIOUS
  <2> HIDE DEF Settled
  <2>1. CASE UNCHANGED chosen
    BY <2>1, <1>2
  <2>2. ASSUME NEW w \in Workers, Invocation(w) \/ Crash(w) PROVE Settled(v)'
    <3>1. CASE v # w
      BY <2>2, <3>1, <1>2, OthersUntouched
    <3>2. CASE v = w
      BY <2>2, <3>2, <2>1, <1>3, <1>4, <1>5 DEF Invocation, Begin, NoReuse,
         ReserveScan, ReserveCreate, Launch, Timeout, WriteReceipt, TraceFound,
         TraceRefused, TraceBegin, TraceCopy, TraceFinish, Crash
    <3> QED  BY <3>1, <3>2
  <2> QED
    BY <2>1, <2>2 DEF Next, HarborCreate, HarborExit, vars, local
<1>7. receipt' # None => \A m \in Models : job'[m][receipt'[m]] \in Complete
  <2>1. ASSUME NEW w \in Workers, WriteReceipt(w), NEW m \in Models
        PROVE  job'[m][receipt'[m]] \in Complete
    <3>1. chosen[w][m] # 0 /\ receipt' = chosen[w]
      BY <2>1 DEF WriteReceipt, Pending, Undecided
    <3> QED  BY <1>1, <3>1
  <2>2. CASE receipt' = receipt
    <3> SUFFICES ASSUME receipt # None, NEW m \in Models
                 PROVE  job'[m][receipt[m]] \in Complete
      BY <2>2
    <3>1. receipt[m] \in Attempts /\ job[m][receipt[m]] \in Complete
      BY DEF TypeOK, ChosenInv
    <3> QED  BY <3>1, CompleteStays
  <2> QED
    BY <2>1, <2>2 DEF Next, Invocation, Begin, Reuse, NoReuse, ReserveScan,
       ReserveCreate, Launch, JobEnds, Timeout, TraceFound, TraceRefused,
       TraceBegin, TraceCopy, TraceFinish, Crash, HarborCreate, HarborExit, vars
<1> QED  BY <1>6, <1>7 DEF ChosenInv

(***************************************************************************)
(* Theorems                                                                *)
(***************************************************************************)
\* The inductive invariant holds of an empty matrix root.
LEMMA InitInv == Init => IndInv
<1> SUFFICES ASSUME Init PROVE IndInv
  OBVIOUS
<1>1. TypeOK
  BY InitType
<1>2. LoopInv /\ OwnerInv
  BY DEF Init, LoopInv, LoopAt, OwnerInv, OwnerAt
<1>3. ChargedBeforeLaunch /\ JobInv
  BY DEF Init, ChargedBeforeLaunch, JobInv
<1>4. ChosenInv
  BY DEF Init, ChosenInv, Unchosen
<1> QED  BY <1>1, <1>2, <1>3, <1>4 DEF IndInv

\* Every step preserves the inductive invariant.
LEMMA NextInv == IndInv /\ [Next]_vars => IndInv'
BY NextType, NextLoop, NextCharged, NextJob, NextChosen DEF IndInv

\* The inductive invariant holds throughout every behaviour of any number of
\* concurrent, crashing invocations of launch_matrix and write_trace_bundle.
THEOREM Invariance == Spec => []IndInv
BY InitInv, NextInv, PTL DEF Spec

\* The files and locals of any number of concurrent, crashing invocations of
\* launch_matrix keep their shapes.
THEOREM TypeCorrect == Spec => []TypeOK
<1>1. IndInv => TypeOK
  BY DEF IndInv
<1> QED  BY <1>1, Invariance, PTL

\* Liability of _reserve_job: whoever runs and whatever crashes, every Harbor
\* job is reserved before it starts and started at most once.
THEOREM ChargedOnce == Spec => []ChargedBeforeLaunch
<1>1. IndInv => ChargedBeforeLaunch
  BY DEF IndInv
<1> QED  BY <1>1, Invariance, PTL

\* A published harbor-model-matrix.json names, for every model, a complete job
\* that was charged, and goes on doing so.
THEOREM ReceiptAlwaysSound == Spec => []ReceiptSound
<1>1. IndInv => ReceiptSound
  <2> SUFFICES ASSUME IndInv, receipt # None, NEW m \in Models
               PROVE  job[m][receipt[m]] \in Complete /\ receipt[m] \in reserved[m]
    BY DEF ReceiptSound
  <2>1. receipt[m] \in Attempts /\ job[m][receipt[m]] \in Complete
    BY DEF IndInv, TypeOK, ChosenInv
  <2>2. launched[m][receipt[m]] = 1
    BY <2>1 DEF IndInv, JobInv, Complete
  <2> QED  BY <2>1, <2>2 DEF IndInv, ChargedBeforeLaunch
<1> QED  BY <1>1, Invariance, PTL

(***************************************************************************)
(* Bundles                                                                 *)
(***************************************************************************)
\* Nobody finds a bundle that no invocation has returned.
BundleInv == trace.state = "bound" => done

LEMMA BundleStep ==
  ASSUME BundleInv, Next
  PROVE  /\ BundleInv'
         /\ ~done /\ done' => BundleClean'
<1>1. ASSUME NEW w \in Workers, TraceFinish(w)
      PROVE  /\ BundleInv'
             /\ ~done /\ done' => BundleClean'
  <2>1. /\ job' = job
        /\ \/ /\ trace' = Bound(chosen[w]) /\ done'
              /\ \A m \in Models : job[m][chosen[w][m]] = "valid"
           \/ trace' = Empty /\ done' = done
    BY <1>1 DEF TraceFinish, harbor
  <2>2. Bound(chosen[w]).state = "bound" /\ Bound(chosen[w]).jobs = chosen[w]
        /\ Empty.state # "bound"
    BY DEF Bound, Empty
  <2> QED  BY <2>1, <2>2 DEF BundleInv, BundleClean
<1>2. ASSUME NEW w \in Workers, TraceFound(w)
      PROVE  /\ BundleInv'
             /\ ~done /\ done' => BundleClean'
  <2>1. trace.state = "bound"
    BY <1>2 DEF TraceFound, Bound
  <2> QED  BY <1>2, <2>1 DEF TraceFound, BundleInv
<1>3. ASSUME NEW w \in Workers, TraceCopy(w)
      PROVE  /\ BundleInv'
             /\ ~done /\ done' => BundleClean'
  BY <1>3 DEF TraceCopy, BundleInv, Partial
<1>4. ASSUME done' = done, trace' = trace
      PROVE  /\ BundleInv'
             /\ ~done /\ done' => BundleClean'
  BY <1>4 DEF BundleInv
<1>5. ASSUME NEW w \in Workers, Invocation(w) \/ Crash(w),
             ~(TraceFinish(w) \/ TraceFound(w) \/ TraceCopy(w))
      PROVE  done' = done /\ trace' = trace
  BY <1>5 DEF Invocation, Begin, Reuse, NoReuse, ReserveScan, ReserveCreate,
    Launch, JobEnds, Timeout, WriteReceipt, TraceRefused, TraceBegin, Crash
<1>6. ASSUME NEW m \in Models, NEW n \in Attempts,
             HarborCreate(m, n) \/ HarborExit(m, n)
      PROVE  done' = done /\ trace' = trace
  BY <1>6 DEF HarborCreate, HarborExit
<1> QED
  BY <1>1, <1>2, <1>3, <1>4, <1>5, <1>6 DEF Next, Invocation

\* write_trace_bundle: the caller that first gets a bundle gets one whose
\* manifest binds complete jobs without a disclosure, whoever else writes into
\* the directory and whatever crashes there.
THEOREM BundleAlwaysClean == Spec => BundleBound
<1>1. Init => BundleInv
  BY DEF Init, BundleInv, Empty
<1>2. BundleInv /\ [Next]_vars => BundleInv'
  BY BundleStep DEF BundleInv, vars
<1>3. BundleInv /\ [Next]_vars => [~done /\ done' => BundleClean']_vars
  BY BundleStep
<1> QED  BY <1>1, <1>2, <1>3, PTL DEF Spec, BundleBound

(***************************************************************************)
(* The matrix implements its ledger                                        *)
(***************************************************************************)
\* The complete jobs are a function of the job directories.
LEMMA SameJobsSameLedger ==
  ASSUME job' = job
  PROVE  [m \in Models |-> ValidJobs(m)]' = [m \in Models |-> ValidJobs(m)]
BY DEF ValidJobs

\* Steps that touch no reservation, launch, job directory or receipt leave the
\* account alone.
LEMMA OutsideLedger ==
  ASSUME UNCHANGED <<reserved, launched, job, receipt>>
  PROVE  UNCHANGED Ledger!account
BY SameJobsSameLedger DEF Ledger!account

\* A new reservation is a charge.
LEMMA ReserveCharges ==
  ASSUME IndInv, NEW w \in Workers, ReserveCreate(w)
  PROVE  [Ledger!Next]_(Ledger!account)
<1> DEFINE m == Model(w)
           n == num[w]
<1>1. m \in Models /\ n \in Attempts
  BY ModelIsPending DEF IndInv, ReserveCreate, LoopInv, LoopAt
<1>2. /\ reserved' = [reserved EXCEPT ![m] = @ \cup {n}]
      /\ UNCHANGED <<launched, job, receipt>>
  BY DEF ReserveCreate, harbor
<1> HIDE DEF m, n
<1>3. CASE n \in reserved[m]
  <2>1. reserved' = reserved
    BY <1>1, <1>2, <1>3 DEF IndInv, TypeOK
  <2> QED  BY <1>2, <2>1, OutsideLedger
<1>4. CASE n \notin reserved[m]
  <2>1. Ledger!Charge(m, n)
    BY <1>2, <1>4, SameJobsSameLedger DEF Ledger!Charge
  <2> QED  BY <1>1, <2>1 DEF Ledger!Next
<1> QED  BY <1>3, <1>4

\* The launch of a reserved job is its only start.
LEMMA LaunchStarts ==
  ASSUME IndInv, NEW w \in Workers, Launch(w)
  PROVE  [Ledger!Next]_(Ledger!account)
<1> DEFINE m == Model(w)
           n == num[w]
<1>1. m \in Models /\ n \in Attempts
  BY ModelIsPending DEF IndInv, Launch, LoopInv, LoopAt
<1>2. n \in reserved[m] /\ launched[m][n] = 0
  BY DEF IndInv, Launch, OwnerInv, OwnerAt
<1>3. /\ launched' = [launched EXCEPT ![m][n] = @ + 1]
      /\ UNCHANGED <<reserved, job, receipt>>
  BY DEF Launch
<1> HIDE DEF m, n
<1>4. launched' = [launched EXCEPT ![m][n] = 1]
  BY <1>1, <1>2, <1>3 DEF IndInv, TypeOK
<1>5. Ledger!Start(m, n)
  BY <1>2, <1>3, <1>4, SameJobsSameLedger DEF Ledger!Start
<1> QED  BY <1>1, <1>5 DEF Ledger!Next

\* A process of Harbor that makes its job directory completes nothing yet.
LEMMA CreateOutside ==
  ASSUME IndInv, NEW m \in Models, NEW n \in Attempts, HarborCreate(m, n)
  PROVE  UNCHANGED Ledger!account
<1>1. \A k \in Models : ValidJobs(k)' = ValidJobs(k)
  BY DEF HarborCreate, ValidJobs, Complete, IndInv, TypeOK
<1> QED  BY <1>1 DEF HarborCreate, Ledger!account

\* The end of a Harbor process completes its own job or none.
LEMMA ExitFinishes ==
  ASSUME IndInv, NEW m \in Models, NEW n \in Attempts, HarborExit(m, n)
  PROVE  [Ledger!Next]_(Ledger!account)
<1>1. launched[m][n] = 1 /\ job[m][n] \notin Complete
  BY DEF HarborExit, IndInv, JobInv, Complete
<1>2. /\ \A k \in Models, i \in Attempts :
           <<k, i>> # <<m, n>> => job'[k][i] = job[k][i]
      /\ UNCHANGED <<reserved, launched, receipt>>
  BY DEF HarborExit, IndInv, TypeOK
<1>3. \A k \in Models : k # m => ValidJobs(k)' = ValidJobs(k)
  BY <1>2 DEF ValidJobs
<1>4. CASE job'[m][n] \in Complete
  <2>1. ValidJobs(m)' = ValidJobs(m) \cup {n}
    BY <1>2, <1>4 DEF ValidJobs
  <2> DEFINE c == [k \in Models |-> ValidJobs(k)]
  <2>2. c' = [c EXCEPT ![m] = @ \cup {n}]
    BY <1>3, <2>1
  <2>3. Ledger!Finish(m, n)
    BY <1>1, <1>2, <2>2 DEF Ledger!Finish
  <2> QED  BY <2>3 DEF Ledger!Next
<1>5. CASE job'[m][n] \notin Complete
  <2>1. ValidJobs(m)' = ValidJobs(m)
    BY <1>1, <1>2, <1>5 DEF ValidJobs
  <2>2. \A k \in Models : ValidJobs(k)' = ValidJobs(k)
    BY <1>3, <2>1
  <2> QED  BY <1>2, <2>2 DEF Ledger!account
<1> QED  BY <1>4, <1>5

\* The receipt names complete jobs.
LEMMA ReceiptPublishes ==
  ASSUME IndInv, NEW w \in Workers, WriteReceipt(w)
  PROVE  [Ledger!Next]_(Ledger!account)
<1>1. \A m \in Models : chosen[w][m] \in Attempts
  BY MatrixAssumption
  DEF WriteReceipt, Pending, Undecided, IndInv, TypeOK, Attempts
<1>2. chosen[w] \in [Models -> Attempts]
  BY <1>1 DEF IndInv, TypeOK
<1>3. \A m \in Models : chosen[w][m] \in ValidJobs(m)
  BY <1>1 DEF WriteReceipt, Pending, Undecided, IndInv, ChosenInv, ValidJobs
<1>4. receipt' = chosen[w] /\ UNCHANGED <<reserved, launched, job>>
  BY DEF WriteReceipt, harbor
<1>5. Ledger!Publish(chosen[w])
  BY <1>3, <1>4, SameJobsSameLedger DEF Ledger!Publish
<1> QED  BY <1>2, <1>5 DEF Ledger!Next

\* Every step of the matrix is a step of the ledger, or none.
LEMMA StepImplements ==
  ASSUME IndInv, [Next]_vars
  PROVE  [Ledger!Next]_(Ledger!account)
<1>1. ASSUME NEW w \in Workers, Invocation(w) \/ Crash(w)
      PROVE  [Ledger!Next]_(Ledger!account)
  <2>1. CASE ReserveCreate(w) \/ Launch(w) \/ WriteReceipt(w)
    BY <2>1, ReserveCharges, LaunchStarts, ReceiptPublishes
  <2>2. CASE ~(ReserveCreate(w) \/ Launch(w) \/ WriteReceipt(w))
    <3>1. UNCHANGED <<reserved, launched, job, receipt>>
      BY <1>1, <2>2 DEF Invocation, Begin, Reuse, NoReuse, ReserveScan, JobEnds,
         Timeout, TraceFound, TraceRefused, TraceBegin, TraceCopy, TraceFinish,
         Crash, harbor
    <3> QED  BY <3>1, OutsideLedger
  <2> QED  BY <2>1, <2>2
<1>2. ASSUME NEW m \in Models, NEW n \in Attempts,
             HarborCreate(m, n) \/ HarborExit(m, n)
      PROVE  [Ledger!Next]_(Ledger!account)
  BY <1>2, CreateOutside, ExitFinishes
<1>3. CASE UNCHANGED vars
  BY <1>3, OutsideLedger DEF vars, harbor
<1> QED  BY <1>1, <1>2, <1>3 DEF Next

\* launch_matrix, with any number of concurrent and crashing invocations, keeps the
\* promise of MatrixLedger: charge first, start once, publish only what is complete.
THEOREM MatrixImplementsLedger == Spec => ImplementsLedger
<1>1. Init => Ledger!Init
  BY DEF Init, Ledger!Init, ValidJobs, Complete
<1>2. IndInv /\ [Next]_vars => [Ledger!Next]_(Ledger!account)
  BY StepImplements
<1> QED  BY <1>1, <1>2, Invariance, PTL DEF Spec, ImplementsLedger, Ledger!Spec
=============================================================================
