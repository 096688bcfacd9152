------------------------- MODULE CampaignWorkflowProofs -------------------------
(***************************************************************************)
(* What holds of every number of campaigns, workers, attempts and crashes  *)
(* in CampaignWorkflow: a completed campaign is complete and only such a   *)
(* one is exported; a run root's past is never rewritten; and as long as   *)
(* no controller was killed, run roots stay verifiable and a completed     *)
(* campaign ran on one image.                                              *)
(*                                                                         *)
(* The argument: a worker past "ready" holds the lock of its campaign, one *)
(* from "announce" to "after" also the alias lock (Holding).  Its attempt  *)
(* directory is new and is the last of the manifest (Numbering), so its    *)
(* receipt is written once, and what it is about to write into the         *)
(* manifest is earned (Earning).  Two further invariants hold while nobody *)
(* was killed: Tracking compares files and ledger at every control point,  *)
(* and Imaging follows the alias from the builder to the recorded image.   *)
(***************************************************************************)
EXTENDS CampaignWorkflow, FiniteSetTheorems, WellFoundedInduction, TLAPS

(***************************************************************************)
(* The inductive invariant                                                 *)
(***************************************************************************)
\* The control points at which a worker holds its campaign's lock, at which it
\* also holds the alias lock, and at which its attempt is in the manifest
Locked  == {"bound", "alias", "announce", "ledger", "start", "wait", "after",
            "ingest", "finish", "seal"}
Aliased == {"announce", "ledger", "start", "wait", "after"}
Running == {"ledger", "start", "wait", "after", "ingest", "finish"}

Types ==
  /\ files \in [Campaigns -> RunRoot \cup {None}]
  /\ ledger \in [Campaigns -> RunRoot \cup {None}]
  /\ dirs \in [Campaigns -> SUBSET Numbers]
  /\ clock \in [Campaigns -> Workers \cup {None}]
  /\ alock \in Workers \cup {None}
  /\ alias \in Image
  /\ snapshot \in [Campaigns -> BOOLEAN]
  /\ up \subseteq Process
  /\ share \in [Campaigns -> Bundle \cup {None}]
  /\ pc \in [Workers -> PC]
  /\ call \in [Workers -> Call]
  /\ crashes \in 0..MaxCrashes

\* Locks and control points agree.
Holding ==
  /\ \A w \in Workers : pc[w] # "idle" =>
       call[w].campaign \in Campaigns /\ files[call[w].campaign] # None
  /\ \A w \in Workers : pc[w] \in Locked => clock[call[w].campaign] = w
  /\ \A c \in Campaigns : clock[c] # None =>
       pc[clock[c]] \in Locked /\ call[clock[c]].campaign = c
  /\ \A w \in Workers : pc[w] \in Aliased => alock = w
  /\ alock # None => pc[alock] \in Aliased \cup {"finish", "seal"}

\* A run root has a ledger; its attempts are numbered upwards among the
\* directories, which are allocated without gaps, and a receipt has one.
RootedAt(c) ==
  /\ \A n \in dirs[c] : \A k \in 1..n : k \in dirs[c]
  /\ files[c] # None =>
       LET a == files[c].manifest.attempts IN
       /\ ledger[c] # None
       /\ \A i \in 1..Len(a) : a[i] \in dirs[c]
       /\ \A i, j \in 1..Len(a) : i < j => a[i] < a[j]
       /\ State(c) \in {"running", "completed"} => Len(a) > 0
       /\ \A n \in Numbers \ dirs[c] : files[c].receipts[n] = "none"

Rooted == \A c \in Campaigns : RootedAt(c)

\* What holds of the attempt a worker is at
NumberingAt(w) ==
  LET c == call[w].campaign
      m == files[c].manifest
      n == call[w].number
  IN /\ pc[w] \in {"alias", "announce"} => m.state # "completed"
     /\ pc[w] \in Running \cup {"announce"} => n \in dirs[c]
     /\ pc[w] = "announce" => \A i \in 1..Len(m.attempts) : m.attempts[i] < n
     /\ pc[w] \in Aliased => files[c].receipts[n] = "none"
     /\ pc[w] \in Running =>
          /\ m.state = "running" /\ Current(m) = n
          /\ call[w].manifest # None /\ call[w].manifest.attempts = m.attempts
     /\ pc[w] \in {"ledger", "start", "wait", "after"} => call[w].manifest = m
     /\ pc[w] = "ingest" => call[w].manifest.state = "running"
     /\ pc[w] = "finish" => call[w].manifest.state \in {"failed", "completed"}

Numbering == \A w \in Workers : NumberingAt(w)

\* A process belongs to an existing run root and to the attempt its owner waits
\* for; a worker owns at most one.
Processes ==
  /\ \A p \in up : files[p.campaign] # None
  /\ \A p \in up : p.owner # None =>
       /\ pc[p.owner] = "wait"
       /\ call[p.owner].campaign = p.campaign /\ call[p.owner].number = p.number
  /\ \A p, q \in up : p.owner # None /\ p.owner = q.owner => p = q

\* The receipt and the image a campaign needs before its manifest may say
\* "completed"
ImageChecked(c, n, m) ==
  files[c].receipts[n] = "ok" /\ m.image # None /\ m.matches

\* A manifest that says "completed" is earned before it is written, and stays
\* so; what an export read is what the manifest still says.
EarningAt(w) ==
  LET c == call[w].campaign
      m == call[w].manifest
  IN /\ pc[w] = "ingest" => ImageChecked(c, call[w].number, m)
     /\ pc[w] = "finish" /\ m.state = "completed" =>
          /\ ImageChecked(c, call[w].number, m)
          /\ files[c].results = "complete" /\ files[c].normalized
     /\ pc[w] \in {"load", "publish"} => Completed(c) /\ m = files[c].manifest

EarnedAt(c) ==
  /\ Completed(c) =>
       /\ ImageChecked(c, Current(files[c].manifest), files[c].manifest)
       /\ files[c].results = "complete" /\ files[c].normalized
  /\ share[c] # None =>
       Completed(c) /\ share[c] = PublicMetadata(files[c].manifest)

Earning ==
  /\ \A w \in Workers : EarningAt(w)
  /\ \A c \in Campaigns : EarnedAt(c)

SafeInv == Types /\ Holding /\ Rooted /\ Numbering /\ Processes /\ Earning

(***************************************************************************)
(* While no controller was killed                                          *)
(***************************************************************************)
\* Files and ledger are the same but for a binding
SameButBinding(c) ==
  files[c] = ledger[c] \/ files[c] = [ledger[c] EXCEPT !.binding = TRUE]

\* They are the same but for what upstream writes during attempt n
SameButOutput(c, n) ==
  LET f == files[c]
      g == ledger[c]
  IN /\ f.manifest = g.manifest /\ f.binding = g.binding
     /\ f.normalized = g.normalized /\ f.receipts = g.receipts
     /\ \A k \in Numbers \ {n} : f.logs[k] = g.logs[k]

TrackingAt(w) ==
  LET c == call[w].campaign IN
  /\ pc[w] \in {"bound", "alias", "announce"} =>
       State(c) # "running" /\ SameButBinding(c)
  /\ pc[w] = "start" => files[c] = ledger[c]
  /\ pc[w] = "wait" => SameButOutput(c, call[w].number)
  /\ pc[w] \in {"alias", "announce", "ledger", "start", "wait"} /\ call[w].resume
       => Resumable(c)
  /\ pc[w] = "seal" => State(c) # "running"

\* A free run root is not "running" and differs from its ledger by a binding at
\* most; a binding needs a config; no process is an orphan.
FreeAt(c) ==
  files[c] # None =>
    /\ files[c].binding => files[c].config # "none"
    /\ clock[c] = None => State(c) # "running" /\ SameButBinding(c)

Tracked ==
  /\ \A p \in up : p.owner # None
  /\ \A c \in Campaigns : FreeAt(c)
  /\ \A w \in Workers : TrackingAt(w)

Tracking == crashes = 0 => Tracked

\* The image a call's process puts behind the alias
Target(w) ==
  IF call[w].expected = None THEN call[w].campaign ELSE call[w].expected

\* The attempts of c that have ended
Ended(c) ==
  LET m == files[c].manifest IN
  IF m.state = "running" THEN Len(m.attempts) - 1 ELSE Len(m.attempts)

\* The image is c's own wherever it is recorded, expected or used.
Own(c) ==
  /\ files[c].manifest.image \in {None, c}
  /\ files[c].trials \subseteq {c}
  /\ \A w \in Workers : call[w].campaign = c => call[w].expected \in {None, c}

ImagingAt(w) ==
  LET c == call[w].campaign
      m == call[w].manifest
      k == Len(files[c].manifest.attempts)
      grown == files[c].logs[call[w].number] = "grown"
  IN /\ pc[w] = "after" /\ (call[w].code = "ok" \/ grown) => alias = Target(w)
     /\ pc[w] = "ingest" =>
          /\ snapshot[c] /\ (files[c].binding => Resumable(c))
          /\ Steady(c, k - 1) => m.image = c
     /\ pc[w] = "finish" =>
          /\ Steady(c, k) => m.image \in {None, c}
          /\ m.state = "completed" =>
               /\ snapshot[c] /\ (files[c].binding => Resumable(c))
               /\ Steady(c, k - 1) => m.image = c

\* What holds of a process: it puts its owner's image behind the alias, and its
\* attempt has run a trial only once Harbor has its config.
Building(p) ==
  /\ p.expected = call[p.owner].expected
  /\ p.phase # "started" => alias = Target(p.owner)
  /\ p.phase # "configured" => files[p.campaign].logs[p.number] # "grown"

ImagedAt(c) ==
  /\ files[c] # None /\ Steady(c, Ended(c)) => Own(c)
  /\ Completed(c) =>
       /\ snapshot[c] /\ (files[c].binding => Resumable(c))
       /\ Steady(c, Len(files[c].manifest.attempts) - 1) =>
            /\ files[c].manifest.image = c
            /\ files[c].trials \subseteq {c}

Imaged ==
  /\ \A w \in Workers : pc[w] = "idle" => call[w] = NoCall
  /\ \A p \in up : Building(p)
  /\ \A w \in Workers : ImagingAt(w)
  /\ \A c \in Campaigns : ImagedAt(c)

Imaging == crashes = 0 => Imaged

(***************************************************************************)
(* Constants, paths and types                                              *)
(***************************************************************************)
\* The null value is none of the things it stands in for.
LEMMA NullApart ==
  /\ \A c \in Campaigns : c # None
  /\ \A w \in Workers : w # None
  /\ \A r \in RunRoot : r # None
  /\ \A m \in Manifest : m # None
  /\ \A b \in Bundle : b # None
  /\ NewRoot \in RunRoot
  /\ NoCall \in Call
<1>1. None \notin RunRoot /\ None \notin Manifest /\ None \notin Bundle
  BY NoneAssumption
<1>2. NewRoot \in RunRoot
  <2>1. [state |-> "prepared", attempts |-> <<>>, image |-> None,
         matches |-> FALSE] \in Manifest
    BY DEF Manifest, Image
  <2>2. [n \in Numbers |-> "none"] \in [Numbers -> {"none", "open", "grown"}]
    OBVIOUS
  <2>3. [n \in Numbers |-> "none"] \in [Numbers -> {"none", "ok", "bad"}]
    OBVIOUS
  <2> QED
    BY <2>1, <2>2, <2>3 DEF NewRoot, RunRoot, Image
<1>3. NoCall \in Call
  BY DEF NoCall, Call, Image
<1> QED
  BY <1>1, <1>2, <1>3, CampaignAssumption

\* A nonempty set of naturals has a smallest element.
LEMMA SmallestExists ==
  ASSUME NEW T, T \subseteq Nat, T # {}
  PROVE  \E x \in T : \A y \in T : x <= y
<1> DEFINE R == OpToRel(<, Nat)
<1>1. \E x \in T : \A y \in T : ~(<<y, x>> \in R)
  <2>1. IsWellFoundedOn(R, Nat)
    BY NatLessThanWellFounded
  <2> HIDE DEF R
  <2> QED  BY <2>1, WFMin
<1>2. \A x, y \in T : ~(<<y, x>> \in R) => x <= y
  BY DEF OpToRel
<1> HIDE DEF R
<1> QED  BY <1>1, <1>2

\* A number that is still free exists while attempts are left, and FirstFree is
\* the smallest.
LEMMA FirstFreeIsFree ==
  ASSUME NEW c \in Campaigns, dirs \in [Campaigns -> SUBSET Numbers],
         AttemptsLeft
  PROVE  /\ FirstFree(c) \in Numbers \ dirs[c]
         /\ \A k \in Numbers \ dirs[c] : FirstFree(c) <= k
<1> DEFINE Made == {a \in Campaigns \X Numbers : a[2] \in dirs[a[1]]}
<1>1. IsFiniteSet(Made)
  <2>1. IsFiniteSet(Numbers)
    BY CampaignAssumption, FS_Interval DEF Numbers
  <2>2. IsFiniteSet(Campaigns \X Numbers)
    BY <2>1, CampaignAssumption, FS_Product
  <2> QED
    BY <2>2, FS_Subset
<1>2. Numbers \ dirs[c] # {}
  <2> SUFFICES ASSUME Numbers \subseteq dirs[c] PROVE FALSE
    OBVIOUS
  <2> DEFINE Own1 == {c} \X Numbers
  <2>1. Own1 \subseteq Made
    OBVIOUS
  <2>2. IsFiniteSet(Own1) /\ Cardinality(Own1) = MaxAttempts
    <3>1. IsFiniteSet(Numbers) /\ Cardinality(Numbers) = MaxAttempts
      BY CampaignAssumption, FS_Interval DEF Numbers
    <3>2. IsFiniteSet({c}) /\ Cardinality({c}) = 1
      BY FS_Singleton
    <3>3. IsFiniteSet(Own1)
          /\ Cardinality(Own1) = Cardinality({c}) * Cardinality(Numbers)
      BY <3>1, <3>2, FS_Product
    <3> QED
      BY <3>1, <3>2, <3>3, CampaignAssumption
  <2>3. Cardinality(Own1) <= Cardinality(Made)
    BY <1>1, <2>1, FS_Subset
  <2>4. Cardinality(Made) \in Nat
    BY <1>1, FS_CardinalityType
  <2> QED
    BY <2>2, <2>3, <2>4, CampaignAssumption DEF AttemptsLeft
<1>3. \E n \in Numbers \ dirs[c] : \A k \in Numbers \ dirs[c] : n <= k
  <2>1. Numbers \ dirs[c] \subseteq Nat
    BY CampaignAssumption DEF Numbers
  <2> QED
    BY <1>2, <2>1, SmallestExists
<1> QED
  BY <1>3 DEF FirstFree

\* A lemma of every step is proved action by action: the actions in the order
\* of the module.
LEMMA TypesInit == Init => Types
<1> SUFFICES ASSUME Init PROVE Types
  OBVIOUS
<1>1. NoCall \in Call
  BY NullApart
<1> QED
  BY <1>1, CampaignAssumption DEF Init, Types, PC, Image

\* The frame of a call that ends
LEMMA LeaveTyped ==
  ASSUME Types, NEW w \in Workers, Leave(w)
  PROVE  /\ clock' \in [Campaigns -> Workers \cup {None}]
         /\ alock' \in Workers \cup {None}
         /\ pc' \in [Workers -> PC]
         /\ call' \in [Workers -> Call]
<1>1. NoCall \in Call
  BY NullApart
<1> QED
  BY <1>1 DEF Leave, Types, Goto, PC

\* No step removes a run root.
RootsStay == \A c \in Campaigns : files[c] # None => files'[c] # None

LEMMA TypesPrepare ==
  ASSUME Types, Holding, NEW w \in Workers, NEW c \in Campaigns,
         PrepareFresh(w, c) \/ PrepareAgain(w, c) \/ ExportVerify(w, c)
  PROVE  Types' /\ RootsStay
<1>1. CASE PrepareFresh(w, c)
  <2>1. NewRoot \in RunRoot
    BY NullApart
  <2>2. [call EXCEPT ![w].campaign = c] \in [Workers -> Call]
    BY DEF Types, Call, Image
  <2> QED
    BY <1>1, <2>1, <2>2 DEF RootsStay, PrepareFresh, Types, Goto, PC, disk, host, locks
<1>2. CASE PrepareAgain(w, c)
  <2>1. [call EXCEPT ![w].campaign = c] \in [Workers -> Call]
    BY DEF Types, Call, Image
  <2>2. [files EXCEPT ![c].binding = TRUE] \in [Campaigns -> RunRoot \cup {None}]
    <3>1. files[c] \in RunRoot
      BY <1>2 DEF PrepareAgain, Types
    <3>2. [files[c] EXCEPT !.binding = TRUE] \in RunRoot
      BY <3>1 DEF RunRoot
    <3>3. [files EXCEPT ![c].binding = TRUE]
            = [files EXCEPT ![c] = [files[c] EXCEPT !.binding = TRUE]]
      OBVIOUS
    <3> QED
      BY <3>2, <3>3, NullApart DEF Types
  <2>a. files' = files \/ files' = [files EXCEPT ![c].binding = TRUE]
    BY <1>2 DEF PrepareAgain, Bound
  <2>b. RootsStay
    <3>1. files[c] \in RunRoot
      BY <1>2 DEF PrepareAgain, Types
    <3>2. [files[c] EXCEPT !.binding = TRUE] \in RunRoot
      BY <3>1 DEF RunRoot
    <3> QED
      BY <2>a, <3>2, NullApart DEF Types, RootsStay
  <2>3. CASE State(c) \in {"running", "failed"} /\ files[c].config # "none"
    BY <1>2, <2>1, <2>2, <2>3, <2>b
       DEF PrepareAgain, Types, Goto, PC, disk, host, locks, Bound
  <2>4. CASE ~(State(c) \in {"running", "failed"} /\ files[c].config # "none")
    BY <1>2, <2>1, <2>4, <2>b
       DEF PrepareAgain, Types, Goto, PC, disk, host, locks
  <2> QED
    BY <2>3, <2>4
<1>3. CASE ExportVerify(w, c)
  <2>1. files[c].manifest \in Manifest
    BY <1>3 DEF ExportVerify, Types, RunRoot
  <2>2. call' \in [Workers -> Call]
    <3>1. call[w] \in Call
      BY DEF Types
    <3>2. [call[w] EXCEPT !.campaign = c, !.manifest = files[c].manifest] \in Call
      BY <2>1, <3>1 DEF Call, Image
    <3> QED
      BY <1>3, <3>2 DEF ExportVerify, Types
  <2> QED
    BY <1>3, <2>2 DEF RootsStay, ExportVerify, Types, Goto, PC, disk, host, locks
<1> QED
  BY <1>1, <1>2, <1>3

LEMMA TypesCommand ==
  ASSUME Types, Holding, Rooted, NEW w \in Workers,
         \/ PrepareLedger(w) \/ ChooseCommand(w) \/ Abandon(w)
         \/ Execute(w) \/ ExecuteCompleted(w) \/ TakeAlias(w) \/ AliasRefused(w)
  PROVE  Types' /\ RootsStay
<1> DEFINE c == call[w].campaign
<1>0. pc[w] # "idle" => c \in Campaigns /\ files[c] # None /\ files[c] \in RunRoot
  BY DEF Holding, Types
<1>1. CASE PrepareLedger(w)
  BY <1>0, <1>1 DEF RootsStay, PrepareLedger, Types, Goto, PC, host
<1>2. CASE ChooseCommand(w)
  <2>1. files[c].manifest.image \in Image
    BY <1>0, <1>2 DEF ChooseCommand, RunRoot, Manifest
  <2>2. call' \in [Workers -> Call]
    <3>1. call[w] \in Call
      BY DEF Types
    <3>2. [call[w] EXCEPT !.resume = TRUE, !.expected = files[c].manifest.image]
             \in Call
      BY <2>1, <3>1 DEF Call
    <3>3. [call[w] EXCEPT !.resume = (files[c].config # "none")] \in Call
      BY <3>1 DEF Call
    <3> QED
      BY <1>2, <3>2, <3>3 DEF ChooseCommand, Types
  <2> QED
    BY <1>2, <2>2 DEF RootsStay, ChooseCommand, Types, Goto, PC, disk, host, locks
<1>3. CASE Abandon(w)
  BY <1>3, LeaveTyped DEF RootsStay, Abandon, Types, disk, host
<1>4. CASE Execute(w)
  <2>1. [files EXCEPT ![c].binding = TRUE] \in [Campaigns -> RunRoot \cup {None}]
    BY <1>0, <1>4 DEF Execute, Types, RunRoot
  <2>2. RootsStay
    <3>1. [files[c] EXCEPT !.binding = TRUE] \in RunRoot
      BY <1>0, <1>4 DEF Execute, RunRoot
    <3>2. files' = files \/ files' = [files EXCEPT ![c].binding = TRUE]
      BY <1>4 DEF Execute, Bound
    <3> QED
      BY <3>1, <3>2, NullApart DEF Types, RootsStay
  <2> QED
    BY <1>0, <1>4, <2>1, <2>2 DEF Execute, Types, Goto, PC, host, Bound
<1>5. CASE ExecuteCompleted(w)
  BY <1>0, <1>5, LeaveTyped DEF RootsStay, ExecuteCompleted, Types, host
<1>6. CASE TakeAlias(w)
  <2>1. FirstFree(c) \in Numbers
    BY <1>0, <1>6, FirstFreeIsFree DEF TakeAlias, Types
  <2>2. call' \in [Workers -> Call]
    BY <1>6, <2>1 DEF TakeAlias, Types, Call
  <2>3. dirs' \in [Campaigns -> SUBSET Numbers]
    BY <1>0, <1>6, <2>1 DEF TakeAlias, Types
  <2> QED
    BY <1>6, <2>2, <2>3 DEF RootsStay, TakeAlias, Types, Goto, PC, host
<1>7. CASE AliasRefused(w)
  BY <1>7, LeaveTyped DEF RootsStay, AliasRefused, Types, disk, host
<1> QED
  BY <1>1, <1>2, <1>3, <1>4, <1>5, <1>6, <1>7

\* What After does, field by field: the image it saw, and whether all is well
LEMMA AfterEffect ==
  ASSUME Types, Holding, Numbering, NEW w \in Workers, After(w)
  PROVE  \E image \in Image, good \in BOOLEAN :
           LET c == call[w].campaign
               verdict == IF good THEN "ok" ELSE "bad"
           IN /\ image \in IF c \in Controls THEN {None, alias} ELSE {None, c}
              /\ good => image # None /\ image = alias /\ call[w].code = "ok"
              /\ pc' = [pc EXCEPT ![w] = IF good THEN "ingest" ELSE "finish"]
              /\ files' = [files EXCEPT ![c] =
                             [files[c] EXCEPT !.receipts[call[w].number] = verdict]]
              /\ call' \in [Workers -> Call]
              /\ \A v \in Workers : v # w => call'[v] = call[v]
              /\ call'[w].campaign = c
              /\ call'[w].number = call[w].number
              /\ call'[w].resume = call[w].resume
              /\ call'[w].expected = call[w].expected
              /\ call'[w].code = call[w].code
              /\ call'[w].manifest # None
              /\ call'[w].manifest.attempts = call[w].manifest.attempts
              /\ call'[w].manifest.image = image
              /\ good => call'[w].manifest.matches
              /\ call'[w].manifest.state =
                   IF good THEN call[w].manifest.state ELSE "failed"
<1> DEFINE c == call[w].campaign
<1>0. c \in Campaigns /\ call[w] \in Call /\ call[w].manifest \in Manifest
  <2>1. pc[w] = "after" /\ w \in Workers
    BY DEF After
  <2> QED
    BY <2>1 DEF Holding, Types, Numbering, NumberingAt, Running, Call
<1>1. PICK seen \in {None, alias}, own \in {None, c} :
        LET image == IF c \in Controls THEN seen ELSE own
            matches == image # None /\ image = seen
            good == call[w].code = "ok" /\ matches
        IN /\ files' = Receipted(w, IF good THEN "ok" ELSE "bad")
           /\ call' = [call EXCEPT
                 ![w].manifest.image = image,
                 ![w].manifest.matches = matches,
                 ![w].manifest.state = IF good THEN @ ELSE "failed"]
           /\ Goto(w, IF good THEN "ingest" ELSE "finish")
  BY DEF After
<1> DEFINE image == IF c \in Controls THEN seen ELSE own
           matches == image # None /\ image = seen
           good == call[w].code = "ok" /\ matches
           state == IF good THEN call[w].manifest.state ELSE "failed"
           m == [call[w].manifest EXCEPT !.image = image, !.matches = matches,
                   !.state = state]
<1>2. call' = [call EXCEPT ![w] = [call[w] EXCEPT !.manifest = m]]
  BY <1>0, <1>1, ZenonT(60) DEF Types, Call, Manifest
<1>3. /\ image \in Image /\ matches \in BOOLEAN /\ good \in BOOLEAN
      /\ state \in {call[w].manifest.state, "failed"}
      /\ image \in IF c \in Controls THEN {None, alias} ELSE {None, c}
      /\ good => image # None /\ image = alias /\ call[w].code = "ok" /\ matches
  BY <1>0 DEF Types, Image
<1>4. /\ m \in Manifest /\ m.attempts = call[w].manifest.attempts
      /\ m.image = image /\ m.matches = matches /\ m.state = state
  <2> HIDE DEF image, matches, state
  <2> QED
    BY <1>0, <1>3 DEF Manifest
<1>5. /\ pc' = [pc EXCEPT ![w] = IF good THEN "ingest" ELSE "finish"]
      /\ files' = [files EXCEPT ![c] =
           [files[c] EXCEPT !.receipts[call[w].number] =
              IF good THEN "ok" ELSE "bad"]]
  BY <1>1 DEF Goto, Receipted
<1>6. state = IF good THEN call[w].manifest.state ELSE "failed"
  OBVIOUS
<1> HIDE DEF m, matches, good, image, state
<1>7. /\ \A v \in Workers : v # w => call'[v] = call[v]
      /\ call'[w] = [call[w] EXCEPT !.manifest = m]
  BY <1>2 DEF Types
<1>8. /\ call'[w].campaign = c /\ call'[w].number = call[w].number
      /\ call'[w].resume = call[w].resume
      /\ call'[w].expected = call[w].expected
      /\ call'[w].code = call[w].code /\ call'[w].manifest = m
  BY <1>0, <1>7 DEF Call
<1>9. call' \in [Workers -> Call]
  <2>1. [call[w] EXCEPT !.manifest = m] \in Call
    BY <1>0, <1>4 DEF Call
  <2> QED
    BY <1>2, <2>1 DEF Types
<1> QED
  BY <1>3, <1>4, <1>5, <1>6, <1>7, <1>8, <1>9, NullApart

LEMMA TypesAttempt ==
  ASSUME Types, Holding, Rooted, Numbering, NEW w \in Workers,
         \/ Announce(w) \/ BindLedger(w) \/ Start(w) \/ StartFails(w)
         \/ AfterRefused(w) \/ After(w) \/ Ingest(w) \/ Finish(w) \/ Seal(w)
  PROVE  Types' /\ RootsStay
<1> DEFINE c == call[w].campaign
           n == call[w].number
<1>0. /\ c \in Campaigns /\ files[c] # None /\ files[c] \in RunRoot
      /\ call[w] \in Call
  <2>1. pc[w] # "idle"
    BY DEF Announce, BindLedger, Start, StartFails, AfterRefused, After, Ingest, Finish, Seal
  <2> QED
    BY <2>1 DEF Holding, Types
<1>a. pc[w] \in Running \cup {"announce"} => n \in Numbers
  BY <1>0 DEF Numbering, NumberingAt, Types
<1>b. pc[w] \in Running => call[w].manifest \in Manifest
  BY <1>0 DEF Numbering, NumberingAt, Call
<1>c. \A r \in RunRoot : /\ [files EXCEPT ![c] = r]
                               \in [Campaigns -> RunRoot \cup {None}]
                         /\ files' = [files EXCEPT ![c] = r] => RootsStay
  BY NullApart DEF Types, RootsStay
<1>d. \A k \in Call : [call EXCEPT ![w] = k] \in [Workers -> Call]
  BY DEF Types
<1>e. \A v \in {"ok", "bad"} : n \in Numbers =>
        [files[c] EXCEPT !.receipts[n] = v] \in RunRoot
  BY <1>0 DEF RunRoot
<1>f. n \in Numbers => [files[c] EXCEPT !.logs[n] = "open"] \in RunRoot
  BY <1>0 DEF RunRoot
<1>1. CASE Announce(w)
  <2> DEFINE m == Announced(files[c].manifest, n)
  <2>1. m \in Manifest
    <3>1. files[c].manifest \in Manifest
      BY <1>0 DEF RunRoot
    <3>2. Append(files[c].manifest.attempts, n) \in Seq(Numbers)
      BY <1>1, <1>a, <3>1 DEF Announce, Manifest
    <3> QED
      BY <3>1, <3>2 DEF Announced, Manifest
  <2> HIDE DEF m
  <2>2. [files[c] EXCEPT !.manifest = m] \in RunRoot
    BY <1>0, <2>1 DEF RunRoot
  <2>3. [call[w] EXCEPT !.manifest = m] \in Call
    BY <1>0, <2>1 DEF Call
  <2>4. /\ files' = [files EXCEPT ![c] = [files[c] EXCEPT !.manifest = m]]
        /\ call' = [call EXCEPT ![w] = [call[w] EXCEPT !.manifest = m]]
    BY <1>1 DEF Announce, m
  <2>5. RootsStay /\ files' \in [Campaigns -> RunRoot \cup {None}]
    BY <1>c, <2>2, <2>4
  <2> QED
    BY <1>1, <1>d, <2>3, <2>4, <2>5
       DEF Announce, Types, Goto, PC, host, locks
<1>2. CASE BindLedger(w)
  BY <1>0, <1>2 DEF RootsStay, BindLedger, Types, Goto, PC, host, locks
<1>3. CASE Start(w)
  <2>1. files' \in [Campaigns -> RunRoot \cup {None}] /\ RootsStay
    <3>1. files' = [files EXCEPT ![c] = [files[c] EXCEPT !.logs[n] = "open"]]
      BY <1>3 DEF Start
    <3>2. n \in Numbers
      BY <1>3, <1>a DEF Start, Running
    <3> QED
      BY <3>1, <3>2, <1>c, <1>f
  <2>2. up' \subseteq Process
    BY <1>0, <1>3, <1>a DEF Start, Types, Process, Call, Running
  <2> QED
    BY <1>3, <2>1, <2>2 DEF Start, Types, Goto, PC, locks
<1>4. CASE StartFails(w)
  <2> DEFINE r == [files[c] EXCEPT !.receipts[n] = "bad", !.logs[n] = "open"]
             k == [call[w] EXCEPT !.manifest.state = "failed"]
  <2>0. n \in Numbers /\ call[w].manifest \in Manifest
    BY <1>4, <1>a, <1>b DEF StartFails, Running
  <2>1. r \in RunRoot
    BY <1>0, <2>0 DEF RunRoot
  <2>2. k \in Call
    <3>1. [call[w].manifest EXCEPT !.state = "failed"] \in Manifest
      BY <2>0 DEF Manifest
    <3> QED
      BY <1>0, <3>1 DEF Call
  <2>3. files' = [files EXCEPT ![c] = r]
    BY <1>0, <1>4 DEF StartFails, Receipted, Types
  <2>4. call' = [call EXCEPT ![w] = k]
    BY <1>4 DEF StartFails
  <2>5. Goto(w, "finish") /\ UNCHANGED <<ledger, dirs, host, locks, crashes>>
    BY <1>4 DEF StartFails
  <2> HIDE DEF r, k
  <2> QED
    BY <1>c, <1>d, <2>1, <2>2, <2>3, <2>4, <2>5
       DEF RootsStay, Types, Goto, PC, host, locks
<1>5. CASE AfterRefused(w)
  <2> DEFINE r == [files[c] EXCEPT !.receipts[n] = "bad"]
             k == [call[w] EXCEPT !.manifest.state = "failed"]
  <2>0. n \in Numbers /\ call[w].manifest \in Manifest
    BY <1>5, <1>a, <1>b DEF AfterRefused, Running
  <2>2. k \in Call
    <3>1. [call[w].manifest EXCEPT !.state = "failed"] \in Manifest
      BY <2>0 DEF Manifest
    <3> QED
      BY <1>0, <3>1 DEF Call
  <2>3. files' = [files EXCEPT ![c] = r]
    BY <1>5 DEF AfterRefused, Receipted
  <2>4. call' = [call EXCEPT ![w] = k]
    BY <1>5 DEF AfterRefused
  <2>5. r \in RunRoot
    BY <1>e, <2>0
  <2> HIDE DEF r, k
  <2> QED
    BY <1>5, <1>c, <1>d, <2>5, <2>2, <2>3, <2>4
       DEF RootsStay, AfterRefused, Types, Goto, PC, host, locks
<1>6. CASE After(w)
  <2>1. PICK good \in BOOLEAN :
          /\ pc' = [pc EXCEPT ![w] = IF good THEN "ingest" ELSE "finish"]
          /\ files' = [files EXCEPT ![c] =
               [files[c] EXCEPT !.receipts[n] = IF good THEN "ok" ELSE "bad"]]
          /\ call' \in [Workers -> Call]
    BY <1>6, AfterEffect
  <2>2. n \in Numbers
    BY <1>6, <1>a DEF After, Running
  <2>3. files' \in [Campaigns -> RunRoot \cup {None}] /\ RootsStay
    BY <2>1, <2>2, <1>c, <1>e
  <2>4. pc' \in [Workers -> PC]
    BY <2>1 DEF Types, PC
  <2> QED
    BY <1>6, <2>1, <2>3, <2>4 DEF After, Types, host
<1>7. CASE Ingest(w)
  <2> DEFINE b == files[c].normalized \/ AllResults(c)
             s == IF AllResults(c) THEN "completed" ELSE "failed"
             r == [files[c] EXCEPT !.normalized = b]
             k == [call[w] EXCEPT !.manifest.state = s]
  <2>0. call[w].manifest \in Manifest
    BY <1>7, <1>b DEF Ingest, Running
  <2>1. b \in BOOLEAN /\ s \in {"completed", "failed"}
    BY <1>0 DEF RunRoot, AllResults
  <2>2. files' = [files EXCEPT ![c] = r] /\ call' = [call EXCEPT ![w] = k]
    BY <1>7 DEF Ingest
  <2> HIDE DEF b, s
  <2>3. r \in RunRoot
    BY <1>0, <2>1 DEF RunRoot
  <2>4. k \in Call
    <3>1. [call[w].manifest EXCEPT !.state = s] \in Manifest
      BY <2>0, <2>1 DEF Manifest
    <3> QED
      BY <1>0, <3>1 DEF Call
  <2> HIDE DEF r, k
  <2>5. RootsStay /\ files' \in [Campaigns -> RunRoot \cup {None}]
    BY <1>c, <2>2, <2>3
  <2> QED
    BY <1>7, <1>d, <2>2, <2>4, <2>5 DEF Ingest, Types, Goto, PC, host, locks
<1>8. CASE Finish(w)
  <2>1. [files[c] EXCEPT !.manifest = call[w].manifest] \in RunRoot
    BY <1>0, <1>8, <1>b DEF Finish, Running, RunRoot
  <2> QED
    BY <1>8, <2>1, <1>c DEF RootsStay, Finish, Types, Goto, PC, host, locks
<1>9. CASE Seal(w)
  BY <1>0, <1>9, LeaveTyped DEF RootsStay, Seal, Types, host, Sealed
<1> QED
  BY <1>1, <1>2, <1>3, <1>4, <1>5, <1>6, <1>7, <1>8, <1>9

LEMMA TypesUpstream ==
  ASSUME Types, Processes, NEW p \in up,
         UpBuild(p) \/ UpConfig(p) \/ UpTrial(p) \/ UpExit(p)
  PROVE  Types' /\ RootsStay
<1> DEFINE c == p.campaign
<1>0. /\ p \in Process /\ c \in Campaigns /\ p.number \in Numbers
      /\ files[c] # None /\ files[c] \in RunRoot
  BY DEF Types, Processes, Process
<1>c. \A r \in RunRoot : /\ [files EXCEPT ![c] = r]
                               \in [Campaigns -> RunRoot \cup {None}]
                         /\ files' = [files EXCEPT ![c] = r] => RootsStay
  BY NullApart DEF Types, RootsStay
<1>1. CASE UpBuild(p)
  <2>1. up' \subseteq Process
    BY <1>0, <1>1 DEF UpBuild, Moved, Types, Process
  <2>2. alias' \in Image
    BY <1>0, <1>1 DEF UpBuild, Process, Image
  <2> QED
    BY <1>1, <2>1, <2>2 DEF RootsStay, UpBuild, Types, disk, locks
<1>2. CASE UpConfig(p)
  <2>1. up' \subseteq Process
    BY <1>0, <1>2 DEF UpConfig, Moved, Types, Process
  <2>2. [files[c] EXCEPT !.config = IF @ = "none" THEN "planned" ELSE @] \in RunRoot
    BY <1>0 DEF RunRoot
  <2> QED
    BY <1>2, <1>c, <2>1, <2>2 DEF RootsStay, UpConfig, Types, locks
<1>3. CASE UpTrial(p)
  <2>1. PICK res \in {files[c].results, "complete"} :
          files' = [files EXCEPT ![c].trials = @ \cup {alias}, ![c].results = res,
                                 ![c].logs[p.number] = "grown"]
    BY <1>3 DEF UpTrial
  <2> DEFINE r == [files[c] EXCEPT !.trials = @ \cup {alias}, !.results = res,
                                   !.logs[p.number] = "grown"]
  <2>2. files' = [files EXCEPT ![c] = r]
    BY <1>0, <2>1, ZenonT(60) DEF Types
  <2>3. r \in RunRoot
    BY <1>0, <2>1 DEF RunRoot, Types
  <2> HIDE DEF r
  <2> QED
    BY <1>3, <1>c, <2>2, <2>3 DEF RootsStay, UpTrial, Types, host, locks
<1>4. CASE UpExit(p)
  <2>1. PICK code \in {"ok", "bad"}, fault \in Faults \cup {"none"} :
          /\ Damage(c, fault)
          /\ IF p.owner = None THEN UNCHANGED <<pc, call>>
             ELSE /\ Goto(p.owner, "after")
                  /\ call' = [call EXCEPT ![p.owner].code = code]
    BY <1>4 DEF UpExit
  <2>2. pc' \in [Workers -> PC]
    BY <2>1 DEF Goto, PC, Types
  <2>3. call' \in [Workers -> Call]
    <3>1. p.owner # None => [call[p.owner] EXCEPT !.code = code] \in Call
      BY <1>0, SMTT(60) DEF Types, Process, Call
    <3> QED
      BY <2>1, <3>1 DEF Types
  <2>4. [files[c] EXCEPT !.config =
           IF fault = "config" /\ @ # "none" THEN "changed" ELSE @] \in RunRoot
    BY <1>0 DEF RunRoot
  <2>5. files' \in [Campaigns -> RunRoot \cup {None}] /\ RootsStay
    <3> DEFINE r == [files[c] EXCEPT !.config =
                       IF fault = "config" /\ @ # "none" THEN "changed" ELSE @]
    <3>1. files' = [files EXCEPT ![c] = r]
      BY <2>1 DEF Damage
    <3> HIDE DEF r
    <3> QED
      BY <2>4, <3>1, <1>c DEF r
  <2>6. snapshot' \in [Campaigns -> BOOLEAN]
    BY <1>0, <2>1 DEF Damage, Types
  <2> QED
    BY <1>4, <2>2, <2>3, <2>5, <2>6 DEF UpExit, Types, locks
<1> QED
  BY <1>1, <1>2, <1>3, <1>4

LEMMA TypesRest ==
  ASSUME Types, Earning, Holding, NEW w \in Workers,
         ExportLoad(w) \/ ExportPublish(w) \/ Crash(w) \/ PowerLoss
  PROVE  Types' /\ RootsStay
<1>1. CASE ExportLoad(w)
  BY <1>1 DEF RootsStay, ExportLoad, Types, Goto, PC, disk, host, locks
<1>2. CASE ExportPublish(w)
  <2> DEFINE m == call[w].manifest
  <2>1. m \in Manifest /\ m.state = "completed"
    BY <1>2 DEF ExportPublish, Earning, EarningAt, Completed, State, Types, RunRoot,
       Holding
  <2>2. PublicMetadata(m) \in Bundle
    BY <2>1 DEF PublicMetadata, Bundle, Manifest
  <2>3. share' \in [Campaigns -> Bundle \cup {None}]
    BY <1>2, <2>2 DEF ExportPublish, Types
  <2> QED
    BY <1>2, <2>3, LeaveTyped DEF RootsStay, ExportPublish, Types, disk
<1>3. CASE Crash(w)
  <2>1. up' \subseteq Process
    BY <1>3 DEF Crash, Types, Process
  <2>2. crashes' \in 0..MaxCrashes
    BY <1>3, CampaignAssumption DEF Crash, Types
  <2> QED
    BY <1>3, <2>1, <2>2, LeaveTyped DEF RootsStay, Crash, Types, disk
<1>4. CASE PowerLoss
  <2>1. crashes' \in 0..MaxCrashes
    BY <1>4, CampaignAssumption DEF PowerLoss, Types
  <2>2. NoCall \in Call
    BY NullApart
  <2> QED
    BY <1>4, <2>1, <2>2 DEF RootsStay, PowerLoss, Types, PC, disk
<1> QED
  BY <1>1, <1>2, <1>3, <1>4

(***************************************************************************)
(* Locks                                                                   *)
(***************************************************************************)
\* A call that ends releases what it holds and nothing else.
LEMMA LeaveHolding ==
  ASSUME Types, Types', RootsStay, Holding, NEW w \in Workers, Leave(w)
  PROVE  Holding'
<1>1. /\ \A v \in Workers : pc'[v] = IF v = w THEN "idle" ELSE pc[v]
      /\ \A v \in Workers : v # w => call'[v] = call[v]
      /\ \A c \in Campaigns : clock'[c] = IF clock[c] = w THEN None ELSE clock[c]
      /\ alock' = IF alock = w THEN None ELSE alock
  BY DEF Leave, Goto, Types
<1>2. \A v \in Workers : pc'[v] # "idle" =>
        call'[v].campaign \in Campaigns /\ files'[call'[v].campaign] # None
  BY <1>1 DEF Holding, RootsStay
<1>3. \A v \in Workers : pc'[v] \in Locked => clock'[call'[v].campaign] = v
  BY <1>1 DEF Holding, Locked
<1>4. \A c \in Campaigns : clock'[c] # None =>
        pc'[clock'[c]] \in Locked /\ call'[clock'[c]].campaign = c
  BY <1>1 DEF Holding, Types
<1>5. \A v \in Workers : pc'[v] \in Aliased => alock' = v
  BY <1>1 DEF Holding, Aliased
<1>6. alock' # None => pc'[alock'] \in Aliased \cup {"finish", "seal"}
  BY <1>1 DEF Holding, Types
<1> QED
  BY <1>2, <1>3, <1>4, <1>5, <1>6 DEF Holding

\* A step that goes from one locked point to the next keeps its locks.
LEMMA StayHolding ==
  ASSUME Types, Types', RootsStay, Holding, NEW w \in Workers,
         NEW label \in Locked, pc[w] \in Locked, Goto(w, label),
         \A v \in Workers : call'[v].campaign = call[v].campaign,
         UNCHANGED clock,
         label \in Aliased => alock' = w,
         \A v \in Workers : v # w /\ alock = v => alock' = v,
         alock' = w => label \in Aliased \cup {"finish", "seal"},
         alock' \in {alock, w, None}
  PROVE  Holding'
<1>1. \A v \in Workers : pc'[v] = IF v = w THEN label ELSE pc[v]
  BY DEF Goto, Types
<1>2. \A v \in Workers : pc'[v] # "idle" =>
        call'[v].campaign \in Campaigns /\ files'[call'[v].campaign] # None
  BY <1>1 DEF Holding, RootsStay, Locked
<1>3. \A v \in Workers : pc'[v] \in Locked => clock'[call'[v].campaign] = v
  BY <1>1 DEF Holding
<1>4. \A c \in Campaigns : clock'[c] # None =>
        pc'[clock'[c]] \in Locked /\ call'[clock'[c]].campaign = c
  BY <1>1 DEF Holding, Types
<1>5. \A v \in Workers : pc'[v] \in Aliased => alock' = v
  BY <1>1 DEF Holding
<1>6. alock' # None => pc'[alock'] \in Aliased \cup {"finish", "seal"}
  BY <1>1 DEF Holding, Types
<1> QED
  BY <1>2, <1>3, <1>4, <1>5, <1>6 DEF Holding

LEMMA HoldingPrepare ==
  ASSUME Types, Types', RootsStay, Holding, NEW w \in Workers, NEW c \in Campaigns,
         PrepareFresh(w, c) \/ PrepareAgain(w, c) \/ ExportVerify(w, c)
  PROVE  Holding'
<1>1. /\ pc[w] = "idle" /\ alock' = alock
      /\ \A v \in Workers : v # w => pc'[v] = pc[v] /\ call'[v] = call[v]
      /\ call'[w].campaign = c
      /\ files'[c] # None
  <2>1. CASE PrepareFresh(w, c)
    BY <2>1, NullApart DEF PrepareFresh, Types, Goto, locks
  <2>2. CASE PrepareAgain(w, c)
    BY <2>2 DEF PrepareAgain, Types, Goto, locks, RootsStay, Call
  <2>3. CASE ExportVerify(w, c)
    BY <2>3 DEF ExportVerify, Types, Goto, locks, disk, Call
  <2> QED
    BY <2>1, <2>2, <2>3
<1>2. \/ pc'[w] \in {"command", "load"} /\ clock' = clock
      \/ pc'[w] = "bound" /\ clock[c] = None /\ clock' = [clock EXCEPT ![c] = w]
  <2>1. CASE PrepareFresh(w, c)
    BY <2>1 DEF PrepareFresh, Types, Goto, locks
  <2>2. CASE PrepareAgain(w, c)
    BY <2>2 DEF PrepareAgain, Types, Goto, locks
  <2>3. CASE ExportVerify(w, c)
    BY <2>3 DEF ExportVerify, Types, Goto, locks
  <2> QED
    BY <2>1, <2>2, <2>3
<1>3. \A v \in Workers : pc'[v] # "idle" =>
        call'[v].campaign \in Campaigns /\ files'[call'[v].campaign] # None
  BY <1>1 DEF Holding, RootsStay
<1>4. \A v \in Workers : pc'[v] \in Locked => clock'[call'[v].campaign] = v
  BY <1>1, <1>2, NullApart DEF Holding, Locked, Types
<1>5. \A d \in Campaigns : clock'[d] # None =>
        pc'[clock'[d]] \in Locked /\ call'[clock'[d]].campaign = d
  BY <1>1, <1>2 DEF Holding, Locked, Types
<1>6. \A v \in Workers : pc'[v] \in Aliased => alock' = v
  BY <1>1, <1>2 DEF Holding, Aliased
<1>7. alock' # None => pc'[alock'] \in Aliased \cup {"finish", "seal"}
  BY <1>1 DEF Holding, Types, Aliased
<1> QED
  BY <1>3, <1>4, <1>5, <1>6, <1>7 DEF Holding

LEMMA HoldingCommand ==
  ASSUME Types, Types', RootsStay, Holding, NEW w \in Workers,
         \/ PrepareLedger(w) \/ ChooseCommand(w) \/ Abandon(w)
         \/ Execute(w) \/ ExecuteCompleted(w) \/ TakeAlias(w) \/ AliasRefused(w)
  PROVE  Holding'
<1> DEFINE c == call[w].campaign
<1>0. pc[w] # "idle" => c \in Campaigns
  BY DEF Holding
<1>1. CASE PrepareLedger(w) \/ ChooseCommand(w) \/ Execute(w)
  <2>1. /\ alock' = alock /\ pc[w] # "idle" /\ pc[w] \notin Aliased
        /\ pc[w] \notin {"finish", "seal"}
        /\ \A v \in Workers : v # w => pc'[v] = pc[v]
        /\ \A v \in Workers : call'[v].campaign = call[v].campaign
    BY <1>1 DEF PrepareLedger, ChooseCommand, Execute, Types, Goto, locks, host,
       Aliased, Call
  <2>2. \/ pc[w] = "bound" /\ pc'[w] = "command" /\ clock' = [clock EXCEPT ![c] = None]
        \/ pc[w] = "command" /\ pc'[w] = "ready" /\ clock' = clock
        \/ /\ pc[w] = "ready" /\ pc'[w] = "alias" /\ clock[c] = None
           /\ clock' = [clock EXCEPT ![c] = w]
    BY <1>1 DEF PrepareLedger, ChooseCommand, Execute, Types, Goto, locks
  <2>3. \A v \in Workers : pc'[v] # "idle" =>
          call'[v].campaign \in Campaigns /\ files'[call'[v].campaign] # None
    BY <2>1 DEF Holding, RootsStay
  <2>4. \A v \in Workers : pc'[v] \in Locked => clock'[call'[v].campaign] = v
    BY <1>0, <2>1, <2>2, NullApart DEF Holding, Locked, Types
  <2>5. \A d \in Campaigns : clock'[d] # None =>
          pc'[clock'[d]] \in Locked /\ call'[clock'[d]].campaign = d
    BY <1>0, <2>1, <2>2 DEF Holding, Locked, Types
  <2>6. \A v \in Workers : pc'[v] \in Aliased => alock' = v
    BY <2>1, <2>2 DEF Holding, Aliased
  <2>7. alock' # None => pc'[alock'] \in Aliased \cup {"finish", "seal"}
    BY <2>1 DEF Holding, Types
  <2> QED
    BY <2>3, <2>4, <2>5, <2>6, <2>7 DEF Holding
<1>2. CASE Abandon(w) \/ ExecuteCompleted(w) \/ AliasRefused(w)
  <2>1. Leave(w)
    BY <1>2 DEF Abandon, ExecuteCompleted, AliasRefused
  <2> QED
    BY <2>1, LeaveHolding
<1>3. CASE TakeAlias(w)
  <2>1. /\ Goto(w, "announce") /\ pc[w] \in Locked /\ clock' = clock
        /\ \A v \in Workers : call'[v].campaign = call[v].campaign
        /\ alock = None /\ alock' = w
    BY <1>3 DEF TakeAlias, Locked, Types, Call, AliasFree
  <2>2. "announce" \in Locked /\ "announce" \in Aliased
    BY DEF Locked, Aliased
  <2> QED
    BY <2>1, <2>2, StayHolding, NullApart
<1> QED
  BY <1>1, <1>2, <1>3

LEMMA HoldingAttempt ==
  ASSUME Types, Types', RootsStay, Holding, Numbering, NEW w \in Workers,
         \/ Announce(w) \/ BindLedger(w) \/ Start(w) \/ StartFails(w)
         \/ AfterRefused(w) \/ After(w) \/ Ingest(w) \/ Finish(w) \/ Seal(w)
  PROVE  Holding'
<1>1. CASE Seal(w)
  BY <1>1, LeaveHolding DEF Seal
<1>2. CASE After(w)
  <2>1. PICK label \in {"ingest", "finish"} : Goto(w, label)
    BY <1>2 DEF After
  <2>0. call[w] \in Call
    BY DEF Types
  <2>a. \A v \in Workers : call'[v].campaign = call[v].campaign
    BY <1>2, AfterEffect
  <2>2. /\ pc[w] \in Locked /\ pc[w] \in Aliased /\ clock' = clock /\ alock' = None
        /\ \A v \in Workers : call'[v].campaign = call[v].campaign
    BY <1>2, <2>a DEF After, Locked, Aliased
  <2>3. label \in Locked /\ label \notin Aliased
    BY <2>1 DEF Locked, Aliased
  <2>4. alock = w
    BY <2>2 DEF Holding
  <2> QED
    BY <2>1, <2>2, <2>3, <2>4, StayHolding, NullApart
<1>3. CASE \/ Announce(w) \/ BindLedger(w) \/ Start(w) \/ StartFails(w)
           \/ AfterRefused(w) \/ Ingest(w) \/ Finish(w)
  <2>0. call[w] \in Call
    BY DEF Types
  <2>a. ASSUME Announce(w) \/ BindLedger(w) \/ Start(w) \/ Finish(w)
        PROVE  /\ clock' = clock /\ alock' = alock
               /\ \A v \in Workers : call'[v].campaign = call[v].campaign
    BY <2>0, <2>a DEF Announce, BindLedger, Start, Finish, Types, Call, locks
  <2>b. ASSUME StartFails(w) \/ AfterRefused(w)
        PROVE  /\ clock' = clock /\ alock' = alock
               /\ \A v \in Workers : call'[v].campaign = call[v].campaign
    BY <2>0, <2>b DEF StartFails, AfterRefused, Types, Call, locks
  <2>c. ASSUME Ingest(w)
        PROVE  /\ clock' = clock /\ alock' = alock
               /\ \A v \in Workers : call'[v].campaign = call[v].campaign
    BY <2>0, <2>c DEF Ingest, Types, Call, locks
  <2>1. /\ clock' = clock /\ alock' = alock
        /\ \A v \in Workers : call'[v].campaign = call[v].campaign
    BY <1>3, <2>a, <2>b, <2>c
  <2>2. PICK label \in {"ledger", "start", "wait", "finish", "seal"} :
          /\ Goto(w, label)
          /\ \/ pc[w] \in Aliased
             \/ pc[w] \in {"ingest", "finish"} /\ label \in {"finish", "seal"}
    BY <1>3 DEF Announce, BindLedger, Start, StartFails, AfterRefused, Ingest,
       Finish, Aliased
  <2>3. label \in Locked /\ label \in Aliased \cup {"finish", "seal"}
    BY DEF Locked, Aliased
  <2>4. pc[w] \in Locked
    BY <2>2 DEF Locked, Aliased
  <2>5. label \in Aliased => alock = w
    BY <2>2 DEF Holding, Aliased
  <2> QED
    BY <2>1, <2>2, <2>3, <2>4, <2>5, StayHolding
<1> QED
  BY <1>1, <1>2, <1>3

LEMMA HoldingUpstream ==
  ASSUME Types, Types', RootsStay, Holding, Processes, NEW p \in up,
         UpBuild(p) \/ UpConfig(p) \/ UpTrial(p) \/ UpExit(p)
  PROVE  Holding'
<1>1. CASE UpBuild(p) \/ UpConfig(p) \/ UpTrial(p)
  BY <1>1 DEF UpBuild, UpConfig, UpTrial, Holding, RootsStay, host, locks
<1>2. CASE UpExit(p)
  <2>1. /\ clock' = clock /\ alock' = alock
        /\ \A v \in Workers : call'[v].campaign = call[v].campaign
    BY <1>2 DEF UpExit, locks, Types, Call
  <2>2. CASE p.owner = None
    BY <1>2, <2>1, <2>2 DEF UpExit, Holding, RootsStay
  <2>3. CASE p.owner # None
    <3>1. /\ p.owner \in Workers /\ pc[p.owner] = "wait"
          /\ Goto(p.owner, "after")
      BY <1>2, <2>3 DEF UpExit, Types, Process, Processes
    <3>2. /\ pc[p.owner] \in Locked /\ pc[p.owner] \in Aliased
          /\ "after" \in Locked /\ "after" \in Aliased
      BY <3>1 DEF Locked, Aliased
    <3>3. alock = p.owner
      BY <3>1, <3>2 DEF Holding
    <3> QED
      BY <2>1, <3>1, <3>2, <3>3, StayHolding
  <2> QED
    BY <2>2, <2>3
<1> QED
  BY <1>1, <1>2

LEMMA HoldingRest ==
  ASSUME Types, Types', RootsStay, Holding, NEW w \in Workers,
         ExportLoad(w) \/ ExportPublish(w) \/ Crash(w) \/ PowerLoss
  PROVE  Holding'
<1>1. CASE ExportLoad(w)
  <2>1. /\ clock' = clock /\ alock' = alock /\ call' = call
        /\ pc[w] = "load" /\ pc' = [pc EXCEPT ![w] = "publish"]
    BY <1>1 DEF ExportLoad, Goto, locks
  <2> QED
    BY <2>1 DEF Holding, RootsStay, Types, Locked, Aliased
<1>2. CASE ExportPublish(w) \/ Crash(w)
  BY <1>2, LeaveHolding DEF ExportPublish, Crash
<1>3. CASE PowerLoss
  BY <1>3 DEF PowerLoss, Holding, Locked, Aliased
<1> QED
  BY <1>1, <1>2, <1>3

(***************************************************************************)
(* What a call leaves alone                                                *)
(***************************************************************************)
Frame(w, c) ==
  /\ \A v \in Workers : v # w => pc'[v] = pc[v] /\ call'[v] = call[v]
  /\ \A d \in Campaigns : d # c =>
       /\ files'[d] = files[d] /\ ledger'[d] = ledger[d]
       /\ dirs'[d] = dirs[d] /\ clock'[d] = clock[d] /\ share'[d] = share[d]
  /\ snapshot' = snapshot /\ alias' = alias

\* A call touches the variables of its worker and of its campaign.
LEMMA FramePrepare ==
  ASSUME Types, Holding, NEW w \in Workers, NEW c \in Campaigns,
         PrepareFresh(w, c) \/ PrepareAgain(w, c) \/ ExportVerify(w, c)
  PROVE  Frame(w, c) /\ up' = up
<1>1. CASE PrepareFresh(w, c)
  BY <1>1 DEF PrepareFresh, Frame, Goto, Types, host, locks
<1>2. CASE PrepareAgain(w, c)
  BY <1>2 DEF PrepareAgain, Frame, Goto, Types, host, locks, Bound
<1>3. CASE ExportVerify(w, c)
  BY <1>3 DEF ExportVerify, Frame, Goto, Types, disk, host, locks
<1> QED
  BY <1>1, <1>2, <1>3

LEMMA FrameLeave ==
  ASSUME Types, Holding, NEW w \in Workers, Leave(w)
  PROVE  /\ \A v \in Workers : v # w => pc'[v] = pc[v] /\ call'[v] = call[v]
         /\ \A d \in Campaigns : d # call[w].campaign => clock'[d] = clock[d]
<1>1. w # None
  BY NullApart
<1> QED
  BY <1>1 DEF Leave, Goto, Types, Holding

LEMMA FrameStep ==
  ASSUME Types, Holding, Numbering, NEW w \in Workers, Step(w) \/ Crash(w)
  PROVE  Frame(w, call[w].campaign)
<1> DEFINE c == call[w].campaign
<1>0. call[w] \in Call
  BY DEF Types
<1>1. CASE \/ PrepareLedger(w) \/ ChooseCommand(w) \/ Execute(w) \/ TakeAlias(w)
  BY <1>0, <1>1 DEF PrepareLedger, ChooseCommand, Execute, TakeAlias, Frame, Goto,
     Types, disk, host, locks, Bound
<1>2. CASE Abandon(w) \/ ExecuteCompleted(w) \/ AliasRefused(w) \/ Seal(w)
           \/ ExportPublish(w) \/ Crash(w)
  <2>1. Leave(w)
    BY <1>2 DEF Abandon, ExecuteCompleted, AliasRefused, Seal, ExportPublish, Crash
  <2>2. /\ \A d \in Campaigns : d # c =>
             /\ files'[d] = files[d] /\ ledger'[d] = ledger[d]
             /\ dirs'[d] = dirs[d] /\ share'[d] = share[d]
        /\ snapshot' = snapshot /\ alias' = alias
    BY <1>2 DEF Abandon, ExecuteCompleted, AliasRefused, Seal, ExportPublish, Crash,
       Types, disk, host
  <2> QED
    BY <2>1, <2>2, FrameLeave DEF Frame
<1>3. CASE Announce(w) \/ BindLedger(w) \/ Finish(w) \/ ExportLoad(w)
  BY <1>3 DEF Announce, BindLedger, Finish, ExportLoad, Frame, Goto, Types,
     disk, host, locks
<1>4. CASE Start(w)
  BY <1>4 DEF Start, Frame, Goto, Types, locks
<1>5. CASE StartFails(w) \/ AfterRefused(w)
  BY <1>5 DEF StartFails, AfterRefused, Receipted, Frame, Goto, Types, host, locks
<1>6. CASE After(w)
  <2>1. /\ \A d \in Campaigns : d # c => files'[d] = files[d]
        /\ \A v \in Workers : v # w => call'[v] = call[v] /\ pc'[v] = pc[v]
    BY <1>6, AfterEffect, ZenonT(60) DEF Types
  <2> QED
    BY <1>6, <2>1 DEF After, Frame, host
<1>7. CASE Ingest(w)
  BY <1>7 DEF Ingest, Frame, Goto, Types, host, locks
<1> QED
  BY <1>1, <1>2, <1>3, <1>4, <1>5, <1>6, <1>7 DEF Step

\* Upstream touches nobody's call but its owner's, and of a run root only the
\* config, the trials, the results and the log of its attempt.
LEMMA UpstreamEffect ==
  ASSUME Types, Processes, NEW p \in up,
         UpBuild(p) \/ UpConfig(p) \/ UpTrial(p) \/ UpExit(p)
  PROVE  LET c == p.campaign IN
         /\ c \in Campaigns /\ files[c] \in RunRoot
         /\ \A d \in Campaigns : d # c => files'[d] = files[d]
         /\ files'[c].manifest = files[c].manifest
         /\ files'[c].binding = files[c].binding
         /\ files'[c].normalized = files[c].normalized
         /\ files'[c].receipts = files[c].receipts
         /\ files'[c].results \in {files[c].results, "complete"}
         /\ \A n \in Numbers : n # p.number => files'[c].logs[n] = files[c].logs[n]
         /\ UNCHANGED <<ledger, dirs, clock, alock, share, crashes>>
         /\ \A w \in Workers : w # p.owner => pc'[w] = pc[w] /\ call'[w] = call[w]
         /\ \A w \in Workers : /\ call'[w].campaign = call[w].campaign
                               /\ call'[w].number = call[w].number
                               /\ call'[w].manifest = call[w].manifest
                               /\ call'[w].resume = call[w].resume
                               /\ call'[w].expected = call[w].expected
<1> DEFINE c == p.campaign
<1>0. c \in Campaigns /\ p.number \in Numbers /\ files[c] \in RunRoot
  BY DEF Types, Processes, Process
<1>1. CASE UpBuild(p)
  BY <1>0, <1>1 DEF UpBuild, disk, locks
<1>2. CASE UpConfig(p)
  BY <1>0, <1>2 DEF UpConfig, locks, Types, RunRoot
<1>3. CASE UpTrial(p)
  <2>1. PICK res \in {files[c].results, "complete"} :
          files' = [files EXCEPT ![c].trials = @ \cup {alias}, ![c].results = res,
                                 ![c].logs[p.number] = "grown"]
    BY <1>3 DEF UpTrial
  <2> DEFINE r == [files[c] EXCEPT !.trials = @ \cup {alias}, !.results = res,
                                   !.logs[p.number] = "grown"]
  <2>2. files' = [files EXCEPT ![c] = r]
    BY <1>0, <2>1, ZenonT(60) DEF Types
  <2>3. /\ r.manifest = files[c].manifest /\ r.binding = files[c].binding
        /\ r.normalized = files[c].normalized /\ r.receipts = files[c].receipts
        /\ r.results = res
        /\ \A n \in Numbers : n # p.number => r.logs[n] = files[c].logs[n]
    BY <1>0 DEF RunRoot
  <2> HIDE DEF r
  <2> QED
    BY <1>0, <1>3, <2>1, <2>2, <2>3 DEF UpTrial, Types, host, locks
<1>4. CASE UpExit(p)
  <2>1. PICK code \in {"ok", "bad"}, fault \in Faults \cup {"none"} :
          /\ Damage(c, fault)
          /\ IF p.owner = None THEN UNCHANGED <<pc, call>>
             ELSE /\ Goto(p.owner, "after")
                  /\ call' = [call EXCEPT ![p.owner].code = code]
    BY <1>4 DEF UpExit
  <2>2. /\ \A d \in Campaigns : d # c => files'[d] = files[d]
        /\ files'[c].manifest = files[c].manifest
        /\ files'[c].binding = files[c].binding
        /\ files'[c].normalized = files[c].normalized
        /\ files'[c].receipts = files[c].receipts
        /\ files'[c].results = files[c].results
        /\ files'[c].logs = files[c].logs
    BY <1>0, <2>1 DEF Damage, Types, RunRoot
  <2>3. \A w \in Workers : /\ w # p.owner => pc'[w] = pc[w] /\ call'[w] = call[w]
                           /\ call'[w].campaign = call[w].campaign
                           /\ call'[w].number = call[w].number
                           /\ call'[w].manifest = call[w].manifest
                           /\ call'[w].resume = call[w].resume
                           /\ call'[w].expected = call[w].expected
    BY <2>1 DEF Goto, Types, Call
  <2> QED
    BY <1>0, <1>4, <2>2, <2>3 DEF UpExit, locks
<1> QED
  BY <1>1, <1>2, <1>3, <1>4

(***************************************************************************)
(* Run roots                                                               *)
(***************************************************************************)
LEMMA RootedPrepare ==
  ASSUME Types, Types', Holding, Rooted, NEW w \in Workers, NEW c \in Campaigns,
         PrepareFresh(w, c) \/ PrepareAgain(w, c) \/ ExportVerify(w, c)
  PROVE  Rooted'
<1>1. \A d \in Campaigns : d # c => RootedAt(d)'
  BY FramePrepare DEF Frame, Rooted, RootedAt, State
<1>2. RootedAt(c)'
  <2>1. CASE PrepareFresh(w, c)
    <3>1. files'[c] = NewRoot /\ ledger'[c] = NewRoot /\ dirs'[c] = dirs[c]
      BY <2>1 DEF PrepareFresh, Types
    <3> QED
      BY <3>1, NullApart DEF Rooted, RootedAt, State, NewRoot
  <2>2. CASE PrepareAgain(w, c)
    <3>1. /\ files'[c].manifest = files[c].manifest
          /\ files'[c].receipts = files[c].receipts
          /\ dirs' = dirs /\ ledger' = ledger /\ files[c] # None
      BY <2>2 DEF PrepareAgain, Bound, Types, RunRoot
    <3> QED
      BY <3>1 DEF Rooted, RootedAt, State
  <2>3. CASE ExportVerify(w, c)
    BY <2>3 DEF ExportVerify, disk, Rooted, RootedAt, State
  <2> QED
    BY <2>1, <2>2, <2>3
<1> QED
  BY <1>1, <1>2 DEF Rooted

\* A step that leaves manifest, receipts and directories alone
LEMMA RootedKept ==
  ASSUME Rooted, NEW c \in Campaigns, files[c] # None,
         \A d \in Campaigns : d # c =>
           files'[d] = files[d] /\ ledger'[d] = ledger[d] /\ dirs'[d] = dirs[d],
         ledger'[c] # None, dirs'[c] = dirs[c],
         files'[c].manifest = files[c].manifest,
         files'[c].receipts = files[c].receipts
  PROVE  Rooted'
BY SMTT(60) DEF Rooted, RootedAt, State

LEMMA RootedCommand ==
  ASSUME Types, Types', Holding, Numbering, Rooted, NEW w \in Workers,
         \/ PrepareLedger(w) \/ ChooseCommand(w) \/ Abandon(w)
         \/ Execute(w) \/ ExecuteCompleted(w) \/ TakeAlias(w) \/ AliasRefused(w)
         \/ BindLedger(w) \/ Seal(w) \/ ExportLoad(w) \/ ExportPublish(w)
         \/ Crash(w)
  PROVE  Rooted'
<1> PICK c : c = call[w].campaign
  OBVIOUS
<1>0. c \in Campaigns /\ files[c] # None /\ files[c] \in RunRoot
  <2>1. pc[w] # "idle"
    BY DEF PrepareLedger, ChooseCommand, Abandon, Execute, ExecuteCompleted,
       TakeAlias, AliasRefused, BindLedger, Seal, ExportLoad, ExportPublish, Crash
  <2> QED
    BY <2>1 DEF Holding, Types
<1>1. \A d \in Campaigns : d # c =>
        files'[d] = files[d] /\ ledger'[d] = ledger[d] /\ dirs'[d] = dirs[d]
  BY FrameStep DEF Frame, Step
<1>2. CASE TakeAlias(w)
  <2> PICK n : n = FirstFree(c)
    OBVIOUS
  <2>1. /\ n \in Numbers \ dirs[c] /\ \A k \in Numbers \ dirs[c] : n <= k
        /\ files' = files /\ ledger' = ledger /\ dirs'[c] = dirs[c] \cup {n}
    BY <1>0, <1>2, FirstFreeIsFree DEF TakeAlias, Types
  <2>2. \A k \in 1..n : k \in dirs[c] \cup {n}
    BY <2>1, CampaignAssumption DEF Numbers
  <2>3. RootedAt(c)'
    BY <1>0, <2>1, <2>2 DEF Rooted, RootedAt, State
  <2> QED
    BY <1>1, <2>1, <2>3 DEF Rooted, RootedAt, State
<1>3. CASE ~TakeAlias(w)
  <2>1. /\ files'[c].manifest = files[c].manifest
        /\ files'[c].receipts = files[c].receipts
        /\ dirs'[c] = dirs[c] /\ ledger'[c] \in {ledger[c], files[c]}
    BY <1>0, <1>3 DEF PrepareLedger, ChooseCommand, Abandon, Execute,
       ExecuteCompleted, AliasRefused, BindLedger, Seal, ExportLoad,
       ExportPublish, Crash, disk, Bound, Types, RunRoot, Sealed
  <2>2. ledger'[c] # None
    BY <1>0, <2>1 DEF Rooted, RootedAt
  <2> QED
    BY <1>0, <1>1, <2>1, <2>2, RootedKept
<1> QED
  BY <1>2, <1>3

\* A number above all attempts continues them.
NextAttempt(t, D) ==
  /\ \A i \in 1..Len(t) : t[i] \in D
  /\ \A i, j \in 1..Len(t) : i < j => t[i] < t[j]
  /\ Len(t) > 0

LEMMA AppendNext ==
  ASSUME NEW D, NEW s \in Seq(Numbers), NEW n \in Numbers, n \in D,
         \A i \in 1..Len(s) : s[i] \in D,
         \A i, j \in 1..Len(s) : i < j => s[i] < s[j],
         \A i \in 1..Len(s) : s[i] < n
  PROVE  NextAttempt(Append(s, n), D)
<1> DEFINE t == Append(s, n)
<1>1. /\ Len(t) = Len(s) + 1 /\ t[Len(s) + 1] = n
      /\ \A i \in 1..Len(s) : t[i] = s[i]
      /\ Len(s) \in Nat
  OBVIOUS
<1> HIDE DEF t
<1>2. \A i \in 1..Len(t) : t[i] \in D
  BY <1>1
<1>3. \A i, j \in 1..Len(t) : i < j => t[i] < t[j]
  BY <1>1
<1>4. Len(t) > 0
  BY <1>1
<1> QED
  BY <1>2, <1>3, <1>4 DEF NextAttempt, t

LEMMA RootedAttempt ==
  ASSUME Types, Types', Holding, Numbering, Rooted, NEW w \in Workers,
         \/ Announce(w) \/ Start(w) \/ StartFails(w)
         \/ AfterRefused(w) \/ After(w) \/ Ingest(w) \/ Finish(w)
  PROVE  Rooted'
<1> PICK c, n : c = call[w].campaign /\ n = call[w].number
  OBVIOUS
<1>0. /\ c \in Campaigns /\ files[c] # None /\ files[c] \in RunRoot
      /\ ledger[c] # None
      /\ pc[w] \in Running \cup {"announce"}
      /\ n \in dirs[c] /\ n \in Numbers
  <2>1. pc[w] \in Running \cup {"announce"}
    BY DEF Announce, Start, StartFails, AfterRefused, After, Ingest, Finish, Running
  <2>2. c \in Campaigns /\ files[c] # None
    BY <2>1 DEF Holding, Running
  <2> QED
    BY <2>1, <2>2 DEF Types, Rooted, RootedAt, Numbering, NumberingAt
<1>1. \A d \in Campaigns : d # c =>
        files'[d] = files[d] /\ ledger'[d] = ledger[d] /\ dirs'[d] = dirs[d]
  BY FrameStep DEF Frame, Step
<1>2. ledger' = ledger /\ dirs' = dirs
  BY DEF Announce, Start, StartFails, AfterRefused, After, Ingest, Finish, disk
<1>3. CASE Announce(w)
  <2>1. /\ files[c].manifest.attempts \in Seq(Numbers)
        /\ files'[c].manifest.attempts = Append(files[c].manifest.attempts, n)
        /\ files'[c].receipts = files[c].receipts
    BY <1>0, <1>3 DEF Announce, Announced, RunRoot, Manifest, Types
  <2>2. \A i \in 1..Len(files[c].manifest.attempts) :
          files[c].manifest.attempts[i] < n
    BY <1>3 DEF Announce, Numbering, NumberingAt
  <2>3. RootedAt(c)'
    <3>1. /\ \A i \in 1..Len(files[c].manifest.attempts) :
               files[c].manifest.attempts[i] \in dirs[c]
          /\ \A i, j \in 1..Len(files[c].manifest.attempts) :
               i < j => files[c].manifest.attempts[i] < files[c].manifest.attempts[j]
      BY <1>0 DEF Rooted, RootedAt
    <3>2. NextAttempt(files'[c].manifest.attempts, dirs[c])
      BY <1>0, <2>1, <2>2, <3>1, AppendNext
    <3>3. \A k \in Numbers \ dirs[c] : files[c].receipts[k] = "none"
      BY <1>0 DEF Rooted, RootedAt
    <3>4. \A k \in dirs[c] : \A j \in 1..k : j \in dirs[c]
      BY <1>0 DEF Rooted, RootedAt
    <3> QED
      BY <1>0, <1>2, <2>1, <3>2, <3>3, <3>4 DEF RootedAt, NextAttempt
  <2> QED
    BY <1>1, <2>3, SMTT(60) DEF Rooted, RootedAt, State
<1>4. CASE Start(w) \/ Ingest(w)
  <2>1. /\ files'[c].manifest = files[c].manifest
        /\ files'[c].receipts = files[c].receipts
    BY <1>0, <1>4 DEF Start, Ingest, Types, RunRoot
  <2> QED
    BY <1>0, <1>1, <1>2, <2>1, RootedKept
<1>5. CASE StartFails(w) \/ AfterRefused(w) \/ After(w)
  <2>1. /\ files'[c].manifest = files[c].manifest
        /\ \A k \in Numbers : k # n => files'[c].receipts[k] = files[c].receipts[k]
    <3>1. CASE After(w)
      <4>1. PICK good \in BOOLEAN :
              files' = [files EXCEPT ![c] = [files[c] EXCEPT
                          !.receipts[n] = IF good THEN "ok" ELSE "bad"]]
        BY <3>1, AfterEffect
      <4> QED
        BY <1>0, <4>1 DEF Types, RunRoot
    <3>2. CASE StartFails(w)
      <4>1. files'[c] = [files[c] EXCEPT !.receipts[n] = "bad", !.logs[n] = "open"]
        BY <1>0, <3>2 DEF StartFails, Receipted, Types
      <4> QED
        BY <1>0, <4>1 DEF RunRoot
    <3>3. CASE AfterRefused(w)
      BY <1>0, <3>3 DEF AfterRefused, Receipted, Types, RunRoot
    <3> QED
      BY <1>5, <3>1, <3>2, <3>3
  <2>2. RootedAt(c)'
    BY <1>0, <1>2, <2>1 DEF Rooted, RootedAt, State
  <2> QED
    BY <1>1, <2>2, SMTT(60) DEF Rooted, RootedAt, State
<1>6. CASE Finish(w)
  <2>1. /\ files'[c].manifest = call[w].manifest
        /\ files'[c].receipts = files[c].receipts
    BY <1>0, <1>6 DEF Finish, Types, RunRoot
  <2>2. call[w].manifest.attempts = files[c].manifest.attempts
        /\ Len(files[c].manifest.attempts) > 0
    BY <1>0, <1>6 DEF Finish, Numbering, NumberingAt, Running, Rooted, RootedAt, State
  <2>3. RootedAt(c)'
    BY <1>0, <1>2, <2>1, <2>2 DEF Rooted, RootedAt, State
  <2> QED
    BY <1>1, <2>3, SMTT(60) DEF Rooted, RootedAt, State
<1> QED
  BY <1>3, <1>4, <1>5, <1>6

LEMMA RootedUpstream ==
  ASSUME Types, Types', Processes, Rooted, NEW p \in up,
         UpBuild(p) \/ UpConfig(p) \/ UpTrial(p) \/ UpExit(p)
  PROVE  Rooted'
<1> PICK c : c = p.campaign
  OBVIOUS
<1>1. /\ c \in Campaigns /\ files[c] # None
      /\ \A d \in Campaigns : d # c => files'[d] = files[d]
      /\ files'[c].manifest = files[c].manifest
      /\ files'[c].receipts = files[c].receipts
      /\ ledger' = ledger /\ dirs' = dirs
  BY UpstreamEffect, NullApart
<1>2. ledger[c] # None
  BY <1>1 DEF Rooted, RootedAt
<1> QED
  BY <1>1, <1>2, RootedKept

(***************************************************************************)
(* Upstream processes                                                      *)
(***************************************************************************)
LEMMA ProcessesPrepare ==
  ASSUME Types, Types', RootsStay, Holding, Processes,
         NEW w \in Workers, NEW c \in Campaigns,
         PrepareFresh(w, c) \/ PrepareAgain(w, c) \/ ExportVerify(w, c)
  PROVE  Processes'
<1>1. Frame(w, c) /\ up' = up
  BY FramePrepare
<1>2. pc[w] = "idle"
  BY DEF PrepareFresh, PrepareAgain, ExportVerify
<1> QED
  BY <1>1, <1>2 DEF Frame, Processes, RootsStay, Types, Process

LEMMA ProcessesStep ==
  ASSUME Types, Types', RootsStay, Holding, Numbering, Processes,
         NEW w \in Workers, Step(w) \/ Crash(w)
  PROVE  Processes'
<1> PICK c, n : c = call[w].campaign /\ n = call[w].number
  OBVIOUS
<1>1. \A v \in Workers : v # w => pc'[v] = pc[v] /\ call'[v] = call[v]
  BY FrameStep DEF Frame
<1>2. CASE Start(w)
  <2>1. /\ pc[w] = "start" /\ pc'[w] = "wait" /\ call' = call
        /\ c \in Campaigns /\ files[c] # None
    BY <1>2 DEF Start, Goto, Types, Holding
  <2> DEFINE q == [campaign |-> c, number |-> n, resume |-> call[w].resume,
                   expected |-> call[w].expected, owner |-> w,
                   phase |-> "started"]
  <2>2. /\ up' = up \cup {q} /\ q.campaign = c /\ q.number = n
        /\ q.owner = w
    BY <1>2 DEF Start
  <2> HIDE DEF q
  <2>3. \A p \in up : p.owner # w
    BY <2>1, NullApart DEF Processes
  <2>4. \A p \in up' : files'[p.campaign] # None
    BY <2>1, <2>2 DEF Processes, RootsStay, Types, Process
  <2>5. \A p \in up' : p.owner # None =>
          /\ pc'[p.owner] = "wait" /\ call'[p.owner].campaign = p.campaign
          /\ call'[p.owner].number = p.number
    BY <1>1, <2>1, <2>2, <2>3 DEF Processes, Types, Process
  <2>6. \A p, q1 \in up' : p.owner # None /\ p.owner = q1.owner => p = q1
    BY <2>2, <2>3 DEF Processes
  <2> QED
    BY <2>4, <2>5, <2>6 DEF Processes
<1>3. CASE Crash(w)
  <2>1. /\ up' = {IF p.owner = w THEN [p EXCEPT !.owner = None] ELSE p : p \in up}
        /\ files' = files
    BY <1>3 DEF Crash, disk
  <2>2. \A q \in up' : \E p \in up :
          /\ q.campaign = p.campaign /\ q.number = p.number
          /\ q.owner # None => p = q /\ p.owner # w
    BY <2>1 DEF Types, Process
  <2>3. \A q \in up' : q.owner # None =>
          q \in up /\ q.owner # w /\ q.owner \in Workers
    BY <2>2 DEF Types, Process
  <2>4. \A q \in up' : files'[q.campaign] # None
    BY <2>1, <2>2 DEF Processes
  <2> QED
    BY <1>1, <2>3, <2>4 DEF Processes
<1>4. CASE ~Start(w) /\ ~Crash(w)
  <2>1. up' = up /\ pc[w] # "wait"
    BY <1>4 DEF Step, PrepareLedger, ChooseCommand, Abandon, Execute,
       ExecuteCompleted, TakeAlias, AliasRefused, Announce, BindLedger,
       StartFails, AfterRefused, After, Ingest, Finish, Seal, ExportLoad,
       ExportPublish, host
  <2> QED
    BY <1>1, <2>1 DEF Processes, RootsStay, Types, Process
<1> QED
  BY <1>2, <1>3, <1>4

LEMMA ProcessesUpstream ==
  ASSUME Types, Types', RootsStay, Processes, NEW p \in up,
         UpBuild(p) \/ UpConfig(p) \/ UpTrial(p) \/ UpExit(p)
  PROVE  Processes'
<1>1. CASE UpBuild(p) \/ UpConfig(p)
  <2>1. PICK label : up' = (up \ {p}) \cup {[p EXCEPT !.phase = label]}
    BY <1>1 DEF UpBuild, UpConfig, Moved
  <2>2. pc' = pc /\ call' = call
    BY <1>1 DEF UpBuild, UpConfig
  <2>3. PICK q : /\ up' = (up \ {p}) \cup {q} /\ q.campaign = p.campaign
                 /\ q.number = p.number /\ q.owner = p.owner
    BY <2>1 DEF Types, Process
  <2>4. \A x \in up' : files'[x.campaign] # None
    BY <2>3 DEF Processes, RootsStay, Types, Process
  <2>5. \A x \in up' : x.owner # None =>
          /\ pc'[x.owner] = "wait" /\ call'[x.owner].campaign = x.campaign
          /\ call'[x.owner].number = x.number
    BY <2>2, <2>3 DEF Processes
  <2>6. \A x, y \in up' : x.owner # None /\ x.owner = y.owner => x = y
    BY <2>3 DEF Processes
  <2> QED
    BY <2>4, <2>5, <2>6 DEF Processes
<1>2. CASE UpTrial(p)
  BY <1>2 DEF UpTrial, host, Processes, RootsStay, Types, Process
<1>3. CASE UpExit(p)
  <2>1. up' = up \ {p}
    BY <1>3 DEF UpExit
  <2>2. \A x \in up' : x.owner # None => x.owner \in Workers /\ x.owner # p.owner
    BY <2>1 DEF Processes, Types, Process
  <2>3. \A w \in Workers : w # p.owner => pc'[w] = pc[w] /\ call'[w] = call[w]
    BY <1>3, UpstreamEffect
  <2> QED
    BY <2>1, <2>2, <2>3 DEF Processes, RootsStay, Types, Process
<1> QED
  BY <1>1, <1>2, <1>3

(***************************************************************************)
(* The numbering of attempts                                               *)
(***************************************************************************)
\* Another worker's attempt is at another campaign, or is none.
LEMMA NumberingOthers ==
  ASSUME Types, Types', Holding, Numbering, NEW w \in Workers, NEW c \in Campaigns,
         Frame(w, c), clock[c] \in {None, w},
         NEW v \in Workers, v # w
  PROVE  NumberingAt(v)'
<1>1. pc'[v] = pc[v] /\ call'[v] = call[v] /\ NumberingAt(v)
  BY DEF Frame, Numbering
<1>2. CASE pc[v] \in Locked
  <2> PICK d : d = call[v].campaign
    OBVIOUS
  <2>1. d \in Campaigns /\ clock[d] = v /\ v # None
    BY <1>2, NullApart DEF Holding, Locked
  <2>2. d # c
    BY <2>1
  <2>3. files'[d] = files[d] /\ dirs'[d] = dirs[d]
    BY <2>1, <2>2 DEF Frame
  <2> QED
    BY <1>1, <2>3 DEF NumberingAt
<1>3. CASE pc[v] \notin Locked
  BY <1>1, <1>3 DEF NumberingAt, Locked, Aliased, Running
<1> QED
  BY <1>2, <1>3

\* The same where c's lock is another worker's, but only its ledger changes.
LEMMA NumberingUntouched ==
  ASSUME Numbering, Types, Types', NEW w \in Workers, files' = files, dirs' = dirs,
         \A v \in Workers : v # w => pc'[v] = pc[v] /\ call'[v] = call[v],
         pc'[w] \notin Locked
  PROVE  Numbering'
BY DEF Numbering, NumberingAt, Locked, Aliased, Running

LEMMA NumberingPrepare ==
  ASSUME Types, Types', Holding, Numbering, NEW w \in Workers, NEW c \in Campaigns,
         PrepareFresh(w, c) \/ PrepareAgain(w, c) \/ ExportVerify(w, c)
  PROVE  Numbering'
<1>1. Frame(w, c)
  BY FramePrepare
<1>2. CASE PrepareFresh(w, c) \/ PrepareAgain(w, c)
  <2>1. clock[c] = None /\ pc'[w] \in {"command", "bound"}
    BY <1>2 DEF PrepareFresh, PrepareAgain, Goto, Types
  <2>2. NumberingAt(w)'
    BY <2>1 DEF NumberingAt, Aliased, Running
  <2> QED
    BY <1>1, <2>1, <2>2, NumberingOthers DEF Numbering
<1>3. CASE ExportVerify(w, c)
  <2>1. files' = files /\ dirs' = dirs /\ pc'[w] = "load"
    BY <1>3 DEF ExportVerify, disk, Goto, Types
  <2>2. pc'[w] \notin Locked
    BY <2>1 DEF Locked
  <2> QED
    BY <1>1, <2>1, <2>2, NumberingUntouched DEF Frame
<1> QED
  BY <1>2, <1>3

LEMMA NumberingCommand ==
  ASSUME Types, Types', Holding, Rooted, Numbering, NEW w \in Workers,
         \/ PrepareLedger(w) \/ ChooseCommand(w) \/ Abandon(w)
         \/ Execute(w) \/ ExecuteCompleted(w) \/ TakeAlias(w) \/ AliasRefused(w)
         \/ BindLedger(w) \/ Seal(w) \/ ExportLoad(w) \/ ExportPublish(w)
         \/ Crash(w)
  PROVE  Numbering'
<1> PICK c : c = call[w].campaign
  OBVIOUS
<1>0. c \in Campaigns /\ files[c] # None /\ files[c] \in RunRoot
  <2>1. pc[w] # "idle"
    BY DEF PrepareLedger, ChooseCommand, Abandon, Execute, ExecuteCompleted,
       TakeAlias, AliasRefused, BindLedger, Seal, ExportLoad, ExportPublish, Crash
  <2> QED
    BY <2>1 DEF Holding, Types
<1>1. Frame(w, c)
  BY FrameStep DEF Step
<1>2. CASE Execute(w)
  <2>1. /\ clock[c] = None /\ pc'[w] = "alias" /\ call' = call
        /\ files'[c].manifest = files[c].manifest
        /\ files[c].manifest.state # "completed"
    BY <1>0, <1>2 DEF Execute, Goto, Types, Bound, RunRoot, Runnable, State
  <2>2. NumberingAt(w)'
    BY <2>1 DEF NumberingAt, Aliased, Running
  <2> QED
    BY <1>0, <1>1, <2>1, <2>2, NumberingOthers DEF Numbering
<1>3. CASE TakeAlias(w)
  <2> PICK n : n = FirstFree(c)
    OBVIOUS
  <2>1. /\ n \in Numbers \ dirs[c]
        /\ files' = files /\ dirs'[c] = dirs[c] \cup {n}
        /\ pc[w] = "alias" /\ pc'[w] = "announce"
        /\ call'[w].campaign = c /\ call'[w].number = n
    BY <1>0, <1>3, FirstFreeIsFree DEF TakeAlias, Types, Goto, Call
  <2>2. \A i \in 1..Len(files[c].manifest.attempts) :
          files[c].manifest.attempts[i] < n
    <3> TAKE i \in 1..Len(files[c].manifest.attempts)
    <3> PICK a : a = files[c].manifest.attempts[i]
      OBVIOUS
    <3>1. a \in dirs[c] /\ a \in Nat /\ n \in Nat /\ n >= 1
      BY <1>0, <2>1, CampaignAssumption DEF Rooted, RootedAt, Types, Numbers
    <3>2. n \notin 1..a
      BY <1>0, <2>1, <3>1 DEF Rooted, RootedAt
    <3> QED
      BY <3>1, <3>2
  <2>3. files[c].receipts[n] = "none" /\ files[c].manifest.state # "completed"
    BY <1>0, <2>1 DEF Rooted, RootedAt, Numbering, NumberingAt
  <2>4. NumberingAt(w)'
    BY <2>1, <2>2, <2>3 DEF NumberingAt, Aliased, Running
  <2>5. clock[c] = w
    BY <2>1 DEF Holding, Locked
  <2> QED
    BY <1>0, <1>1, <2>4, <2>5, NumberingOthers DEF Numbering
<1>4. CASE BindLedger(w)
  <2>1. /\ pc[w] = "ledger" /\ pc'[w] = "start" /\ call' = call /\ files' = files
        /\ dirs' = dirs
    BY <1>4 DEF BindLedger, Goto, Types
  <2>2. NumberingAt(w)'
    BY <2>1 DEF Numbering, NumberingAt, Aliased, Running
  <2>3. clock[c] = w
    BY <2>1 DEF Holding, Locked
  <2> QED
    BY <1>0, <1>1, <2>2, <2>3, NumberingOthers DEF Numbering
<1>5. CASE ~Execute(w) /\ ~TakeAlias(w) /\ ~BindLedger(w)
  <2>1. files' = files /\ dirs' = dirs
    BY <1>5 DEF PrepareLedger, ChooseCommand, Abandon, ExecuteCompleted,
       AliasRefused, Seal, ExportLoad, ExportPublish, Crash, disk
  <2>2. pc'[w] \in {"idle", "command", "ready", "publish"}
    BY <1>5 DEF PrepareLedger, ChooseCommand, Abandon, ExecuteCompleted,
       AliasRefused, Seal, ExportLoad, ExportPublish, Crash, Leave, Goto, Types
  <2>3. pc'[w] \notin Locked
    BY <2>2 DEF Locked
  <2> QED
    BY <1>1, <2>1, <2>3, NumberingUntouched DEF Frame
<1> QED
  BY <1>2, <1>3, <1>4, <1>5

LEMMA NumberingAttempt ==
  ASSUME Types, Types', Holding, Rooted, Numbering, NEW w \in Workers,
         \/ Announce(w) \/ Start(w) \/ StartFails(w)
         \/ AfterRefused(w) \/ After(w) \/ Ingest(w) \/ Finish(w)
  PROVE  Numbering'
<1> PICK c, n : c = call[w].campaign /\ n = call[w].number
  OBVIOUS
<1>0. /\ c \in Campaigns /\ files[c] # None /\ files[c] \in RunRoot
      /\ pc[w] \in Running \cup {"announce"} /\ pc[w] \in Locked
      /\ n \in dirs[c] /\ n \in Numbers /\ dirs' = dirs
      /\ clock[c] = w /\ call[w] \in Call
  <2>1. pc[w] \in Running \cup {"announce"}
    BY DEF Announce, Start, StartFails, AfterRefused, After, Ingest, Finish, Running
  <2>2. pc[w] \in Locked /\ pc[w] # "idle"
    BY <2>1 DEF Locked, Running
  <2>3. c \in Campaigns /\ files[c] # None /\ clock[c] = w
    BY <2>2 DEF Holding
  <2>4. dirs' = dirs
    BY DEF Announce, Start, StartFails, AfterRefused, After, Ingest, Finish, disk
  <2> QED
    BY <2>1, <2>2, <2>3, <2>4 DEF Types, Numbering, NumberingAt
<1>1. Frame(w, c)
  BY FrameStep DEF Step
<1>2. pc[w] \in Running => call[w].manifest \in Manifest
  BY <1>0 DEF Numbering, NumberingAt, Call
<1>3. NumberingAt(w)'
  <2>1. CASE Announce(w)
    <3> PICK m : m = Announced(files[c].manifest, n)
      OBVIOUS
    <3>1. m.state = "running" /\ m.attempts = Append(files[c].manifest.attempts, n)
      BY <1>0 DEF Announced, RunRoot, Manifest
    <3>2. m.attempts # <<>> /\ Current(m) = n
      <4>1. files[c].manifest.attempts \in Seq(Numbers)
        BY <1>0 DEF RunRoot, Manifest
      <4>2. \A s \in Seq(Numbers) :
              Append(s, n) # <<>> /\ Append(s, n)[Len(Append(s, n))] = n
        BY <1>0
      <4> QED
        BY <3>1, <4>1, <4>2 DEF Current
    <3>3. /\ files'[c].manifest = m /\ files'[c].receipts = files[c].receipts
          /\ pc[w] = "announce" /\ pc'[w] = "ledger"
          /\ call'[w].campaign = c /\ call'[w].number = n /\ call'[w].manifest = m
      BY <1>0, <2>1, SMTT(60) DEF Announce, Types, RunRoot, Goto, Call
    <3>4. m \in Manifest
      <4>1. call'[w] \in Call
        BY DEF Types
      <4>2. m # None
        <5>1. files'[c] \in RunRoot \cup {None} /\ files'[c] # None
          BY <1>0, <2>1, TypesAttempt DEF Types, RootsStay, Step
        <5> QED
          BY <3>3, <5>1, NullApart DEF RunRoot
      <4> QED
        BY <3>3, <4>1, <4>2 DEF Call
    <3>5. files[c].receipts[n] = "none"
      BY <3>3 DEF Numbering, NumberingAt, Aliased
    <3> QED
      BY <1>0, <3>1, <3>2, <3>3, <3>4, <3>5, NullApart
         DEF NumberingAt, Aliased, Running
  <2>2. CASE Start(w)
    <3>1. /\ files'[c].manifest = files[c].manifest
          /\ files'[c].receipts = files[c].receipts
          /\ pc[w] = "start" /\ pc'[w] = "wait" /\ call' = call
      BY <1>0, <2>2 DEF Start, Types, RunRoot, Goto
    <3> QED
      BY <1>0, <3>1 DEF Numbering, NumberingAt, Aliased, Running
  <2>3. CASE StartFails(w) \/ AfterRefused(w)
    <3>1. files'[c].manifest = files[c].manifest
      <4>1. CASE StartFails(w)
        <5>1. files'[c] = [files[c] EXCEPT !.receipts[n] = "bad", !.logs[n] = "open"]
          BY <1>0, <4>1 DEF StartFails, Receipted, Types
        <5> QED
          BY <1>0, <5>1 DEF RunRoot
      <4>2. CASE AfterRefused(w)
        BY <1>0, <4>2 DEF AfterRefused, Receipted, Types, RunRoot
      <4> QED
        BY <2>3, <4>1, <4>2
    <3>2. pc[w] \in {"start", "after"} /\ pc'[w] = "finish"
          /\ call' = [call EXCEPT ![w].manifest.state = "failed"]
      BY <2>3 DEF StartFails, AfterRefused, Goto, Types
    <3>3. call[w].manifest \in Manifest
      BY <1>2, <3>2 DEF Running
    <3>4. /\ call'[w].campaign = c /\ call'[w].number = n
          /\ call'[w].manifest = [call[w].manifest EXCEPT !.state = "failed"]
      BY <1>0, <3>2 DEF Types, Call
    <3>5. /\ call'[w].manifest.attempts = call[w].manifest.attempts
          /\ call'[w].manifest.state = "failed"
          /\ call'[w].manifest \in Manifest
      BY <3>3, <3>4 DEF Manifest
    <3> QED
      BY <1>0, <3>1, <3>2, <3>4, <3>5, NullApart
         DEF Numbering, NumberingAt, Aliased, Running
  <2>4. CASE After(w)
    <3>1. PICK good \in BOOLEAN :
            /\ pc' = [pc EXCEPT ![w] = IF good THEN "ingest" ELSE "finish"]
            /\ files' = [files EXCEPT ![c] =
                 [files[c] EXCEPT !.receipts[n] = IF good THEN "ok" ELSE "bad"]]
            /\ call'[w].campaign = c /\ call'[w].number = n
            /\ call'[w].manifest # None
            /\ call'[w].manifest.attempts = call[w].manifest.attempts
            /\ call'[w].manifest.state =
                 IF good THEN call[w].manifest.state ELSE "failed"
      BY <2>4, AfterEffect
    <3>2. files'[c].manifest = files[c].manifest
      BY <1>0, <3>1 DEF Types, RunRoot
    <3>3. pc[w] = "after" /\ pc'[w] = IF good THEN "ingest" ELSE "finish"
      BY <2>4, <3>1 DEF After, Types
    <3> QED
      BY <1>0, <3>1, <3>2, <3>3, SMTT(60) DEF Numbering, NumberingAt, Aliased, Running
  <2>5. CASE Ingest(w)
    <3> PICK s \in {"completed", "failed"} :
               call' = [call EXCEPT ![w].manifest.state = s]
      BY <2>5 DEF Ingest
    <3>1. pc[w] = "ingest" /\ pc'[w] = "finish"
          /\ files'[c].manifest = files[c].manifest
      BY <1>0, <2>5 DEF Ingest, Goto, Types, RunRoot
    <3>3. call[w].manifest \in Manifest
      BY <1>2, <3>1 DEF Running
    <3>4. /\ call'[w].campaign = c /\ call'[w].number = n
          /\ call'[w].manifest = [call[w].manifest EXCEPT !.state = s]
      BY <1>0 DEF Types, Call
    <3>5. /\ call'[w].manifest.attempts = call[w].manifest.attempts
          /\ call'[w].manifest.state = s
          /\ call'[w].manifest \in Manifest
      BY <3>3, <3>4 DEF Manifest
    <3> QED
      BY <1>0, <3>1, <3>4, <3>5, NullApart
         DEF Numbering, NumberingAt, Aliased, Running
  <2>6. CASE Finish(w)
    <3>1. pc'[w] = "seal"
      BY <2>6 DEF Finish, Goto, Types
    <3> QED
      BY <3>1 DEF NumberingAt, Aliased, Running
  <2> QED
    BY <2>1, <2>2, <2>3, <2>4, <2>5, <2>6
<1> QED
  BY <1>0, <1>1, <1>3, NumberingOthers DEF Numbering

LEMMA NumberingUpstream ==
  ASSUME Types, Types', Holding, Processes, Numbering, NEW p \in up,
         UpBuild(p) \/ UpConfig(p) \/ UpTrial(p) \/ UpExit(p)
  PROVE  Numbering'
<1>1. /\ \A d \in Campaigns : files[d] # None =>
           /\ files'[d].manifest = files[d].manifest
           /\ files'[d].receipts = files[d].receipts
      /\ dirs' = dirs
      /\ \A v \in Workers : /\ call'[v].campaign = call[v].campaign
                            /\ call'[v].number = call[v].number
                            /\ call'[v].manifest = call[v].manifest
  BY UpstreamEffect
<1>2. \A v \in Workers : \/ pc'[v] = pc[v]
                         \/ pc[v] = "wait" /\ pc'[v] = "after"
  <2>1. CASE UpBuild(p) \/ UpConfig(p) \/ UpTrial(p)
    BY <2>1 DEF UpBuild, UpConfig, UpTrial
  <2>2. CASE UpExit(p)
    BY <2>2 DEF UpExit, Goto, Types, Processes
  <2> QED
    BY <2>1, <2>2
<1>3. \A v \in Workers : pc[v] # "idle" =>
        call[v].campaign \in Campaigns /\ files[call[v].campaign] # None
  BY DEF Holding
<1> SUFFICES ASSUME NEW v \in Workers PROVE NumberingAt(v)'
  BY DEF Numbering
<1>4. NumberingAt(v)
  BY DEF Numbering
<1>5. CASE pc[v] = "idle"
  BY <1>2, <1>5 DEF NumberingAt, Aliased, Running
<1>6. CASE pc[v] # "idle"
  BY <1>1, <1>2, <1>3, <1>4, <1>6 DEF NumberingAt, Aliased, Running
<1> QED
  BY <1>5, <1>6

(***************************************************************************)
(* The past of a run root                                                  *)
(***************************************************************************)
\* What no step takes back: a completed manifest, the attempts, a receipt,
\* a report and its results
KeptAt(c) ==
  files[c] # None =>
    LET old == files[c].manifest.attempts
        new == files'[c].manifest.attempts
    IN /\ SubSeq(new, 1, Len(old)) = old
       /\ Completed(c) => files'[c].manifest = files[c].manifest
       /\ files[c].normalized => files'[c].normalized
       /\ files[c].results = "complete" => files'[c].results = "complete"
       /\ \A n \in Numbers : files[c].receipts[n] # "none" =>
            files'[c].receipts[n] = files[c].receipts[n]

Kept == \A c \in Campaigns : KeptAt(c)

LEMMA Prefixes ==
  /\ \A s \in Seq(Numbers) : SubSeq(s, 1, Len(s)) = s
  /\ \A s \in Seq(Numbers), n \in Numbers :
       SubSeq(Append(s, n), 1, Len(s)) = s
<1>1. ASSUME NEW s \in Seq(Numbers) PROVE SubSeq(s, 1, Len(s)) = s
  OBVIOUS
<1>2. ASSUME NEW s \in Seq(Numbers), NEW n \in Numbers
      PROVE  SubSeq(Append(s, n), 1, Len(s)) = s
  OBVIOUS
<1> QED
  BY <1>1, <1>2

\* Files that are the same, or the same but for what may change
LEMMA KeptSame ==
  ASSUME Types, NEW c \in Campaigns,
         files[c] # None =>
           /\ files'[c].manifest = files[c].manifest
           /\ files'[c].receipts = files[c].receipts
           /\ files[c].normalized => files'[c].normalized
           /\ files'[c].results \in {files[c].results, "complete"}
  PROVE  KeptAt(c)
<1>1. files[c] # None => files[c].manifest.attempts \in Seq(Numbers)
  BY DEF Types, RunRoot, Manifest
<1> QED
  BY <1>1, Prefixes DEF KeptAt

LEMMA KeptPrepare ==
  ASSUME Types, Holding, NEW w \in Workers, NEW c \in Campaigns,
         PrepareFresh(w, c) \/ PrepareAgain(w, c) \/ ExportVerify(w, c)
  PROVE  Kept
<1>1. \A d \in Campaigns : d # c => files'[d] = files[d]
  BY FramePrepare DEF Frame
<1>2. files[c] # None =>
        /\ files'[c].manifest = files[c].manifest
        /\ files'[c].receipts = files[c].receipts
        /\ files'[c].normalized = files[c].normalized
        /\ files'[c].results = files[c].results
  BY DEF PrepareFresh, PrepareAgain, ExportVerify, Bound, disk, Types, RunRoot
<1> QED
  BY <1>1, <1>2, KeptSame DEF Kept

LEMMA KeptWorker ==
  ASSUME Types, Types', Holding, Rooted, Numbering, NEW w \in Workers,
         Step(w) \/ Crash(w)
  PROVE  Kept
<1> PICK c, n : c = call[w].campaign /\ n = call[w].number
  OBVIOUS
<1>0. c \in Campaigns /\ files[c] # None /\ files[c] \in RunRoot
  <2>1. pc[w] # "idle"
    BY DEF Step, PrepareLedger, ChooseCommand, Abandon, Execute, ExecuteCompleted,
       TakeAlias, AliasRefused, Announce, BindLedger, Start, StartFails,
       AfterRefused, After, Ingest, Finish, Seal, ExportLoad, ExportPublish, Crash
  <2> QED
    BY <2>1 DEF Holding, Types
<1>1. \A d \in Campaigns : d # c => files'[d] = files[d]
  BY FrameStep DEF Frame
<1>2. files[c].manifest.attempts \in Seq(Numbers)
  BY <1>0 DEF RunRoot, Manifest
<1> SUFFICES KeptAt(c)
  BY <1>1, KeptSame DEF Kept
<1>a. CASE Announce(w)
  <2>1. /\ files'[c].manifest.attempts = Append(files[c].manifest.attempts, n)
        /\ files'[c].receipts = files[c].receipts
        /\ files'[c].normalized = files[c].normalized
        /\ files'[c].results = files[c].results
        /\ ~Completed(c) /\ n \in Numbers
    <3>1. pc[w] = "announce"
      BY <1>a DEF Announce
    <3>2. n \in Numbers /\ ~Completed(c)
      BY <1>0, <3>1 DEF Numbering, NumberingAt, Completed, State, Types
    <3> QED
      BY <1>0, <1>a, <3>2 DEF Announce, Announced, Types, RunRoot, Manifest
  <2> QED
    BY <1>2, <2>1, Prefixes DEF KeptAt
<1>b. CASE Finish(w)
  <2>1. pc[w] = "finish"
    BY <1>b DEF Finish
  <2>2. ~Completed(c) /\ call[w].manifest.attempts = files[c].manifest.attempts
    BY <2>1 DEF Numbering, NumberingAt, Running, Completed, State
  <2>3. /\ files'[c].manifest = call[w].manifest
        /\ files'[c].receipts = files[c].receipts
        /\ files'[c].normalized = files[c].normalized
        /\ files'[c].results = files[c].results
    BY <1>0, <1>b DEF Finish, Types, RunRoot
  <2> QED
    BY <1>2, <2>2, <2>3, Prefixes DEF KeptAt
<1>c. CASE StartFails(w) \/ AfterRefused(w) \/ After(w)
  <2>1. n \in Numbers /\ files[c].receipts[n] = "none"
    <3>1. pc[w] \in {"start", "after"}
      BY <1>c DEF StartFails, AfterRefused, After
    <3> QED
      BY <1>0, <3>1 DEF Numbering, NumberingAt, Aliased, Running, Types
  <2>2. /\ files'[c].manifest = files[c].manifest
        /\ files'[c].normalized = files[c].normalized
        /\ files'[c].results = files[c].results
        /\ \A k \in Numbers : k # n => files'[c].receipts[k] = files[c].receipts[k]
    <3>1. CASE After(w)
      <4>1. PICK good \in BOOLEAN :
              files' = [files EXCEPT ![c] = [files[c] EXCEPT
                          !.receipts[n] = IF good THEN "ok" ELSE "bad"]]
        BY <3>1, AfterEffect
      <4> QED
        BY <1>0, <4>1 DEF Types, RunRoot
    <3>2. CASE StartFails(w)
      <4>1. files'[c] = [files[c] EXCEPT !.receipts[n] = "bad", !.logs[n] = "open"]
        BY <1>0, <3>2 DEF StartFails, Receipted, Types
      <4> QED
        BY <1>0, <4>1 DEF RunRoot
    <3>3. CASE AfterRefused(w)
      BY <1>0, <3>3 DEF AfterRefused, Receipted, Types, RunRoot
    <3> QED
      BY <1>c, <3>1, <3>2, <3>3
  <2> QED
    BY <1>2, <2>1, <2>2, Prefixes DEF KeptAt
<1>d. CASE Execute(w) \/ Start(w) \/ Ingest(w)
  <2>1. CASE Execute(w)
    <3>1. files' = files \/ files' = [files EXCEPT ![c].binding = TRUE]
      BY <2>1 DEF Execute, Bound
    <3>2. /\ files'[c].manifest = files[c].manifest
          /\ files'[c].receipts = files[c].receipts
          /\ files[c].normalized => files'[c].normalized
          /\ files'[c].results \in {files[c].results, "complete"}
      BY <1>0, <3>1 DEF Types, RunRoot
    <3> QED
      BY <1>0, <3>2, KeptSame
  <2>2. CASE Start(w)
    <3>1. files' = [files EXCEPT ![c].logs[n] = "open"]
      BY <2>2 DEF Start
    <3>2. /\ files'[c].manifest = files[c].manifest
          /\ files'[c].receipts = files[c].receipts
          /\ files[c].normalized => files'[c].normalized
          /\ files'[c].results \in {files[c].results, "complete"}
      BY <1>0, <3>1 DEF Types, RunRoot
    <3> QED
      BY <1>0, <3>2, KeptSame
  <2>3. CASE Ingest(w)
    <3>1. files' = [files EXCEPT ![c].normalized = @ \/ AllResults(c)]
      BY <2>3 DEF Ingest
    <3>2. /\ files'[c].manifest = files[c].manifest
          /\ files'[c].receipts = files[c].receipts
          /\ files[c].normalized => files'[c].normalized
          /\ files'[c].results \in {files[c].results, "complete"}
      BY <1>0, <3>1 DEF Types, RunRoot
    <3> QED
      BY <1>0, <3>2, KeptSame
  <2> QED
    BY <1>d, <2>1, <2>2, <2>3
<1>e. CASE \/ PrepareLedger(w) \/ ChooseCommand(w) \/ Abandon(w)
           \/ ExecuteCompleted(w) \/ TakeAlias(w) \/ AliasRefused(w)
           \/ BindLedger(w) \/ Seal(w) \/ ExportLoad(w) \/ ExportPublish(w)
           \/ Crash(w)
  <2>1. files' = files
    BY <1>e DEF PrepareLedger, ChooseCommand, Abandon, ExecuteCompleted, TakeAlias,
       AliasRefused, BindLedger, Seal, ExportLoad, ExportPublish, Crash, disk
  <2> QED
    BY <1>0, <2>1, KeptSame
<1> QED
  BY <1>a, <1>b, <1>c, <1>d, <1>e DEF Step

LEMMA KeptUpstream ==
  ASSUME Types, Processes, NEW p \in up,
         UpBuild(p) \/ UpConfig(p) \/ UpTrial(p) \/ UpExit(p)
  PROVE  Kept
BY UpstreamEffect, KeptSame DEF Kept

(***************************************************************************)
(* Completed campaigns                                                     *)
(***************************************************************************)
\* Another worker's claim stands: its campaign is another one, or what it says
\* of the manifest is kept.
LEMMA EarningOthers ==
  ASSUME Types, Types', RootsStay, Holding, Earning, Kept,
         NEW w \in Workers, NEW c \in Campaigns,
         Frame(w, c), clock[c] \in {None, w} \/ files' = files,
         NEW v \in Workers, v # w
  PROVE  EarningAt(v)'
<1> PICK d : d = call[v].campaign
  OBVIOUS
<1>1. pc'[v] = pc[v] /\ call'[v] = call[v] /\ EarningAt(v)
  BY DEF Frame, Earning
<1>2. CASE pc[v] \in {"ingest", "finish"}
  <2>1. d \in Campaigns /\ clock[d] = v /\ v # None
    BY <1>2, NullApart DEF Holding, Locked
  <2>2. files'[d] = files[d]
    BY <2>1 DEF Frame
  <2> QED
    BY <1>1, <1>2, <2>2 DEF EarningAt, ImageChecked
<1>3. CASE pc[v] \in {"load", "publish"}
  <2>1. d \in Campaigns /\ Completed(d) /\ call[v].manifest = files[d].manifest
    BY <1>1, <1>3 DEF EarningAt, Holding
  <2>2. files'[d] # None /\ files'[d].manifest = files[d].manifest
    BY <2>1 DEF Kept, KeptAt, RootsStay, Completed
  <2> QED
    BY <1>1, <1>3, <2>1, <2>2 DEF EarningAt, Completed, State
<1> QED
  BY <1>1, <1>2, <1>3 DEF EarningAt

\* A campaign that was completed has still earned it.
LEMMA EarnedKept ==
  ASSUME Types, RootsStay, Rooted, Earning, Kept, NEW c \in Campaigns,
         Completed(c)' => Completed(c), share'[c] = share[c]
  PROVE  EarnedAt(c)'
<1>1. ASSUME Completed(c)
      PROVE  /\ files'[c] # None /\ files'[c].manifest = files[c].manifest
             /\ ImageChecked(c, Current(files[c].manifest), files[c].manifest)'
             /\ files'[c].results = "complete" /\ files'[c].normalized
  <2>1. /\ files'[c] # None /\ files'[c].manifest = files[c].manifest
        /\ files[c] # None /\ State(c) = "completed"
    BY <1>1 DEF Kept, KeptAt, RootsStay, Completed
  <2>2. /\ ImageChecked(c, Current(files[c].manifest), files[c].manifest)
        /\ files[c].results = "complete" /\ files[c].normalized
    BY <1>1 DEF Earning, EarnedAt
  <2> PICK k : k = Current(files[c].manifest)
    OBVIOUS
  <2>3. k \in Numbers
    <3>1. files[c].manifest.attempts \in Seq(Numbers)
      BY <2>1 DEF Types, RunRoot, Manifest
    <3>2. Len(files[c].manifest.attempts) > 0
      BY <2>1 DEF Rooted, RootedAt
    <3> QED
      BY <3>1, <3>2 DEF Current
  <2>4. files'[c].receipts[k] = files[c].receipts[k]
    BY <2>1, <2>2, <2>3 DEF Kept, KeptAt, ImageChecked
  <2> QED
    BY <2>1, <2>2, <2>4 DEF Kept, KeptAt, ImageChecked, Current
<1>2. Completed(c) => Completed(c)'
  BY <1>1 DEF Completed, State
<1>3. share[c] # None => Completed(c) /\ share[c] = PublicMetadata(files[c].manifest)
  BY DEF Earning, EarnedAt
<1>4. share'[c] # None =>
        Completed(c)' /\ share'[c] = PublicMetadata(files'[c].manifest)
  BY <1>1, <1>2, <1>3
<1> QED
  BY <1>1, <1>4 DEF EarnedAt, ImageChecked, Current

LEMMA EarningPrepare ==
  ASSUME Types, Types', RootsStay, Holding, Rooted, Earning, Kept,
         NEW w \in Workers, NEW c \in Campaigns,
         PrepareFresh(w, c) \/ PrepareAgain(w, c) \/ ExportVerify(w, c)
  PROVE  Earning'
<1>1. Frame(w, c)
  BY FramePrepare
<1>2. share' = share
  BY DEF PrepareFresh, PrepareAgain, ExportVerify, host
<1>3. clock[c] = None \/ files' = files
  BY DEF PrepareFresh, PrepareAgain, ExportVerify, disk
<1>4. \A d \in Campaigns : Completed(d)' => Completed(d)
  <2>1. \A d \in Campaigns : d # c => files'[d] = files[d]
    BY <1>1 DEF Frame
  <2>2. CASE PrepareFresh(w, c)
    BY <2>1, <2>2 DEF PrepareFresh, Completed, State, NewRoot, Types
  <2>3. CASE PrepareAgain(w, c)
    <3>1. files[c] \in RunRoot
      BY <2>3 DEF PrepareAgain, Types
    <3>2. files' = files \/ files' = [files EXCEPT ![c].binding = TRUE]
      BY <2>3 DEF PrepareAgain, Bound
    <3>3. files'[c].manifest = files[c].manifest /\ files[c] # None
      BY <3>1, <3>2, NullApart DEF RunRoot, Types
    <3> QED
      BY <2>1, <3>3 DEF Completed, State
  <2>4. CASE ExportVerify(w, c)
    BY <2>4 DEF ExportVerify, disk, Completed, State
  <2> QED
    BY <2>2, <2>3, <2>4
<1>5. EarningAt(w)'
  <2>1. CASE PrepareFresh(w, c) \/ PrepareAgain(w, c)
    <3>1. pc'[w] \in {"command", "bound"}
      BY <2>1 DEF PrepareFresh, PrepareAgain, Goto, Types
    <3> QED
      BY <3>1 DEF EarningAt
  <2>2. CASE ExportVerify(w, c)
    <3>1. call[w] \in Call
      BY DEF Types
    <3>2. /\ pc'[w] = "load" /\ call'[w].campaign = c /\ files' = files
          /\ call'[w].manifest = files[c].manifest
          /\ files[c] # None /\ files[c].manifest.state = "completed"
      BY <2>2, <3>1 DEF ExportVerify, Goto, Types, disk, Call, Shareable, State
    <3> QED
      BY <3>2 DEF EarningAt, Completed, State
  <2> QED
    BY <2>1, <2>2
<1> QED
  BY <1>1, <1>2, <1>3, <1>4, <1>5, EarningOthers, EarnedKept DEF Earning

LEMMA EarningWorker ==
  ASSUME Types, Types', RootsStay, Holding, Rooted, Numbering, Earning, Kept,
         NEW w \in Workers, Step(w) \/ Crash(w)
  PROVE  Earning'
<1> PICK c, n : c = call[w].campaign /\ n = call[w].number
  OBVIOUS
<1>0. c \in Campaigns /\ files[c] # None /\ files[c] \in RunRoot /\ pc[w] # "idle"
  <2>1. pc[w] # "idle"
    BY DEF Step, PrepareLedger, ChooseCommand, Abandon, Execute, ExecuteCompleted,
       TakeAlias, AliasRefused, Announce, BindLedger, Start, StartFails,
       AfterRefused, After, Ingest, Finish, Seal, ExportLoad, ExportPublish, Crash
  <2> QED
    BY <2>1 DEF Holding, Types
<1>1. Frame(w, c)
  BY FrameStep
<1>2. EarningAt(w) /\ NumberingAt(w) /\ EarnedAt(c)
  BY <1>0 DEF Earning, Numbering
<1> SUFFICES /\ clock[c] \in {None, w} \/ files' = files
             /\ EarningAt(w)' /\ EarnedAt(c)'
  <2>1. \A d \in Campaigns : d # c =>
          share'[d] = share[d] /\ (Completed(d)' => Completed(d))
    BY <1>1 DEF Frame, Completed, State
  <2> QED
    BY <1>0, <1>1, <2>1, EarningOthers, EarnedKept DEF Earning
<1>a. CASE \/ PrepareLedger(w) \/ ChooseCommand(w) \/ Abandon(w)
           \/ ExecuteCompleted(w) \/ TakeAlias(w) \/ AliasRefused(w)
           \/ BindLedger(w) \/ Seal(w) \/ Crash(w)
  <2>1. files' = files /\ share' = share
    BY <1>a DEF PrepareLedger, ChooseCommand, Abandon, ExecuteCompleted, TakeAlias,
       AliasRefused, BindLedger, Seal, Crash, disk, host
  <2>2. pc'[w] \in {"command", "ready", "idle", "announce", "start"}
    <3>1. CASE \/ PrepareLedger(w) \/ ChooseCommand(w) \/ TakeAlias(w) \/ BindLedger(w)
      BY <3>1 DEF PrepareLedger, ChooseCommand, TakeAlias, BindLedger, Goto, Types
    <3>2. CASE \/ Abandon(w) \/ ExecuteCompleted(w) \/ AliasRefused(w) \/ Seal(w)
               \/ Crash(w)
      BY <3>2 DEF Abandon, ExecuteCompleted, AliasRefused, Seal, Crash, Leave, Goto,
         Types
    <3> QED
      BY <1>a, <3>1, <3>2
  <2>3. EarningAt(w)'
    BY <2>2 DEF EarningAt
  <2>4. Completed(c)' => Completed(c)
    BY <2>1 DEF Completed, State
  <2> QED
    BY <1>0, <2>1, <2>3, <2>4, EarnedKept
<1>b. CASE Execute(w) \/ Announce(w) \/ Start(w)
  <2>1. /\ clock[c] \in {None, w} /\ share' = share
        /\ pc'[w] \in {"alias", "ledger", "wait"}
    BY <1>0, <1>b DEF Execute, Announce, Start, Goto, Types, Holding, Locked, host
  <2>2. EarningAt(w)'
    BY <2>1 DEF EarningAt
  <2>3. Completed(c)' => Completed(c)
    <3>1. CASE Execute(w)
      <4>1. files' = files \/ files' = [files EXCEPT ![c].binding = TRUE]
        BY <3>1 DEF Execute, Bound
      <4>2. files'[c].manifest = files[c].manifest
        BY <1>0, <4>1 DEF RunRoot, Types
      <4> QED
        BY <1>0, <4>2 DEF Completed, State
    <3>2. CASE Announce(w)
      <4>1. files'[c].manifest.state = "running"
        BY <1>0, <3>2 DEF Announce, Announced, Types, RunRoot, Manifest
      <4> QED
        BY <4>1 DEF Completed, State
    <3>3. CASE Start(w)
      <4>1. files' = [files EXCEPT ![c].logs[n] = "open"]
        BY <3>3 DEF Start
      <4> QED
        BY <1>0, <4>1 DEF Completed, State, RunRoot, Types
    <3> QED
      BY <1>b, <3>1, <3>2, <3>3
  <2> QED
    BY <1>0, <2>1, <2>2, <2>3, EarnedKept
<1>c. CASE StartFails(w) \/ AfterRefused(w)
  <2>1. /\ pc[w] \in {"start", "after"} /\ clock[c] = w /\ share' = share
        /\ pc'[w] = "finish"
    BY <1>0, <1>c DEF StartFails, AfterRefused, Goto, Types, Holding, Locked, host
  <2>2. call[w].manifest = files[c].manifest /\ call[w] \in Call
    BY <1>2, <2>1 DEF NumberingAt, Types
  <2>3. call'[w].manifest.state = "failed"
    <3>1. call' = [call EXCEPT ![w].manifest.state = "failed"]
      BY <1>c DEF StartFails, AfterRefused
    <3>2. call[w].manifest \in Manifest
      BY <1>0, <2>2 DEF RunRoot
    <3> QED
      BY <2>2, <3>1, <3>2 DEF Types, Call, Manifest
  <2>4. EarningAt(w)'
    BY <2>1, <2>3 DEF EarningAt
  <2>5. files'[c].manifest = files[c].manifest
    <3>1. CASE StartFails(w)
      <4>1. files'[c] = [files[c] EXCEPT !.receipts[n] = "bad", !.logs[n] = "open"]
        BY <1>0, <3>1 DEF StartFails, Receipted, Types
      <4> QED
        BY <1>0, <4>1 DEF RunRoot
    <3>2. CASE AfterRefused(w)
      BY <1>0, <3>2 DEF AfterRefused, Receipted, Types, RunRoot
    <3> QED
      BY <1>c, <3>1, <3>2
  <2>6. Completed(c)' => Completed(c)
    BY <1>0, <2>5 DEF Completed, State
  <2> QED
    BY <1>0, <2>1, <2>4, <2>6, EarnedKept
<1>d. CASE After(w)
  <2>1. PICK image \in Image, good \in BOOLEAN :
          /\ good => image # None
          /\ pc' = [pc EXCEPT ![w] = IF good THEN "ingest" ELSE "finish"]
          /\ files' = [files EXCEPT ![c] =
               [files[c] EXCEPT !.receipts[n] = IF good THEN "ok" ELSE "bad"]]
          /\ call'[w].campaign = c /\ call'[w].number = n
          /\ call'[w].manifest.image = image
          /\ good => call'[w].manifest.matches
          /\ call'[w].manifest.state =
               IF good THEN call[w].manifest.state ELSE "failed"
    BY <1>d, AfterEffect
  <2>2. pc[w] = "after" /\ clock[c] = w /\ share' = share
    BY <1>0, <1>d DEF After, Holding, Locked, host
  <2>3. n \in Numbers
    BY <1>0, <1>2, <2>2 DEF NumberingAt, Running, Types
  <2>4. /\ files'[c].manifest = files[c].manifest
        /\ good => files'[c].receipts[n] = "ok"
        /\ pc'[w] = IF good THEN "ingest" ELSE "finish"
    BY <1>0, <2>1, <2>3 DEF Types, RunRoot
  <2>5. EarningAt(w)'
    BY <2>1, <2>4 DEF EarningAt, ImageChecked
  <2>6. Completed(c)' => Completed(c)
    BY <1>0, <2>4 DEF Completed, State
  <2> QED
    BY <1>0, <2>2, <2>5, <2>6, EarnedKept
<1>e. CASE Ingest(w)
  <2> PICK b : b = AllResults(c)
    OBVIOUS
  <2>1. /\ pc[w] = "ingest" /\ pc'[w] = "finish" /\ clock[c] = w /\ share' = share
        /\ files' = [files EXCEPT ![c].normalized = @ \/ b]
        /\ call' = [call EXCEPT ![w].manifest.state =
                      IF b THEN "completed" ELSE "failed"]
    BY <1>0, <1>e DEF Ingest, Goto, Types, Holding, Locked, host
  <2>2. call[w] \in Call /\ call[w].manifest \in Manifest
    BY <1>2, <2>1 DEF NumberingAt, Running, Types, Call
  <2>3. /\ call'[w].campaign = c /\ call'[w].number = n
        /\ call'[w].manifest.image = call[w].manifest.image
        /\ call'[w].manifest.matches = call[w].manifest.matches
        /\ call'[w].manifest.state = "completed" => b
    BY <2>1, <2>2 DEF Types, Call, Manifest
  <2>4. /\ files'[c].manifest = files[c].manifest
        /\ files'[c].receipts = files[c].receipts
        /\ files'[c].results = files[c].results
        /\ b => files'[c].normalized
    BY <1>0, <2>1 DEF Types, RunRoot
  <2>5. ImageChecked(c, n, call[w].manifest)
    BY <1>2, <2>1 DEF EarningAt
  <2>6. EarningAt(w)'
    BY <2>1, <2>3, <2>4, <2>5 DEF EarningAt, ImageChecked, AllResults
  <2>7. Completed(c)' => Completed(c)
    BY <1>0, <2>4 DEF Completed, State
  <2> QED
    BY <1>0, <2>1, <2>6, <2>7, EarnedKept
<1>f. CASE Finish(w)
  <2>1. /\ pc[w] = "finish" /\ pc'[w] = "seal" /\ clock[c] = w /\ share' = share
        /\ files' = [files EXCEPT ![c].manifest = call[w].manifest]
    BY <1>0, <1>f DEF Finish, Goto, Types, Holding, Locked, host
  <2>2. EarningAt(w)'
    BY <2>1 DEF EarningAt
  <2>3. /\ files'[c].manifest = call[w].manifest
        /\ files'[c].receipts = files[c].receipts
        /\ files'[c].results = files[c].results
        /\ files'[c].normalized = files[c].normalized
    BY <1>0, <2>1 DEF Types, RunRoot
  <2>4. Current(call[w].manifest) = n /\ ~Completed(c)
    BY <1>2, <2>1 DEF NumberingAt, Running, Current, Completed, State
  <2>5. share[c] = None
    BY <1>2, <2>4 DEF EarnedAt
  <2>6. EarnedAt(c)'
    BY <1>2, <2>1, <2>3, <2>4, <2>5
       DEF EarningAt, EarnedAt, ImageChecked, Completed, State
  <2> QED
    BY <2>1, <2>2, <2>6
<1>g. CASE ExportLoad(w)
  <2>1. /\ pc[w] = "load" /\ pc'[w] = "publish" /\ call' = call
        /\ files' = files /\ share' = share
    BY <1>g DEF ExportLoad, Goto, Types, disk, host
  <2>2. EarningAt(w)'
    BY <1>2, <2>1 DEF EarningAt, Completed, State
  <2>3. Completed(c)' => Completed(c)
    BY <2>1 DEF Completed, State
  <2> QED
    BY <1>0, <2>1, <2>2, <2>3, EarnedKept
<1>h. CASE ExportPublish(w)
  <2>1. /\ pc[w] = "publish" /\ files' = files
        /\ share' = [share EXCEPT ![c] = PublicMetadata(call[w].manifest)]
        /\ pc'[w] = "idle"
    BY <1>h DEF ExportPublish, Leave, Goto, Types, disk
  <2>2. EarningAt(w)'
    BY <2>1 DEF EarningAt
  <2>3. Completed(c) /\ call[w].manifest = files[c].manifest
    BY <1>2, <2>1 DEF EarningAt
  <2>4. share'[c] = PublicMetadata(files[c].manifest)
    BY <1>0, <2>1, <2>3 DEF Types
  <2> QED
    BY <1>2, <2>1, <2>2, <2>3, <2>4 DEF EarnedAt, Completed, State, ImageChecked
<1> QED
  BY <1>a, <1>b, <1>c, <1>d, <1>e, <1>f, <1>g, <1>h DEF Step

LEMMA EarningUpstream ==
  ASSUME Types, Types', RootsStay, Holding, Rooted, Processes, Earning, Kept,
         NEW p \in up, UpBuild(p) \/ UpConfig(p) \/ UpTrial(p) \/ UpExit(p)
  PROVE  Earning'
<1>1. /\ \A d \in Campaigns : files[d] # None =>
           /\ files'[d].manifest = files[d].manifest
           /\ files'[d].receipts = files[d].receipts
           /\ files'[d].normalized = files[d].normalized
           /\ files[d].results = "complete" => files'[d].results = "complete"
      /\ \A d \in Campaigns : files[d] = None => files'[d] = None
      /\ share' = share
      /\ \A v \in Workers : /\ call'[v].campaign = call[v].campaign
                            /\ call'[v].number = call[v].number
                            /\ call'[v].manifest = call[v].manifest
  BY UpstreamEffect, NullApart
<1>2. \A v \in Workers : \/ pc'[v] = pc[v]
                         \/ pc'[v] = "after"
  <2>1. CASE UpBuild(p) \/ UpConfig(p) \/ UpTrial(p)
    BY <2>1 DEF UpBuild, UpConfig, UpTrial
  <2>2. CASE UpExit(p)
    BY <2>2 DEF UpExit, Goto, Types, Processes
  <2> QED
    BY <2>1, <2>2
<1>3. \A c \in Campaigns : EarnedAt(c)'
  <2>1. \A c \in Campaigns : Completed(c)' => Completed(c)
    BY <1>1 DEF Completed, State
  <2> QED
    BY <1>1, <2>1, EarnedKept
<1>4. ASSUME NEW v \in Workers PROVE EarningAt(v)'
  <2> PICK d : d = call[v].campaign
    OBVIOUS
  <2>1. EarningAt(v)
    BY DEF Earning
  <2>2. CASE pc'[v] = "after"
    BY <2>2 DEF EarningAt
  <2>3. CASE pc[v] = "idle"
    BY <1>2, <2>3 DEF EarningAt
  <2>4. CASE pc'[v] = pc[v] /\ pc[v] # "idle"
    <3>1. d \in Campaigns /\ files[d] # None /\ files'[d] # None
      BY <2>4 DEF Holding, RootsStay
    <3> QED
      BY <1>1, <2>1, <2>4, <3>1 DEF EarningAt, ImageChecked, Completed, State
  <2> QED
    BY <1>2, <2>2, <2>3, <2>4
<1> QED
  BY <1>3, <1>4 DEF Earning

(***************************************************************************)
(* The theorems                                                            *)
(***************************************************************************)
LEMMA SafeInit == Init => SafeInv
<1> SUFFICES ASSUME Init PROVE SafeInv
  OBVIOUS
<1>1. Types
  BY TypesInit
<1>2. /\ \A c \in Campaigns : /\ files[c] = None /\ dirs[c] = {} /\ clock[c] = None
                              /\ share[c] = None
      /\ \A w \in Workers : pc[w] = "idle"
      /\ alock = None /\ up = {}
  BY DEF Init
<1> QED
  BY <1>1, <1>2 DEF SafeInv, Holding, Rooted, RootedAt, Numbering, NumberingAt,
     Processes, Earning, EarningAt, EarnedAt, Completed, Locked, Aliased, Running

\* The host loses power: nothing is written, nobody is at work.
LEMMA SafePowerLoss ==
  ASSUME SafeInv, PowerLoss
  PROVE  SafeInv' /\ Kept /\ RootsStay
<1> USE DEF SafeInv
<1>1. Types' /\ RootsStay
  <2>1. NoCall \in Call
    BY NullApart
  <2> QED
    <3>1. crashes' \in 0..MaxCrashes
      BY CampaignAssumption DEF PowerLoss, Types
    <3>2. files' = files /\ ledger' = ledger /\ dirs' = dirs
      BY DEF PowerLoss, disk
    <3>3. pc' \in [Workers -> PC] /\ call' \in [Workers -> Call]
      BY <2>1 DEF PowerLoss, PC
    <3>4. up' \subseteq Process /\ clock' \in [Campaigns -> Workers \cup {None}]
          /\ alock' \in Workers \cup {None}
      BY DEF PowerLoss
    <3>5. UNCHANGED <<alias, snapshot, share>>
      BY DEF PowerLoss
    <3> QED
      BY <3>1, <3>2, <3>3, <3>4, <3>5 DEF Types, RootsStay
<1>2. /\ files' = files /\ ledger' = ledger /\ dirs' = dirs /\ share' = share
      /\ up' = {} /\ alock' = None
      /\ \A w \in Workers : pc'[w] = "idle"
      /\ \A c \in Campaigns : clock'[c] = None
  BY DEF PowerLoss, disk
<1>3. Kept
  BY <1>2, KeptSame DEF Kept
<1>4. Holding' /\ Numbering' /\ Processes'
  BY <1>2 DEF Holding, Numbering, NumberingAt, Processes, Locked, Aliased, Running
<1>5. Rooted'
  BY <1>2 DEF Rooted, RootedAt, State
<1>6. Earning'
  <2>1. \A c \in Campaigns : Completed(c)' => Completed(c)
    BY <1>2 DEF Completed, State
  <2>2. \A c \in Campaigns : EarnedAt(c)'
    BY <1>1, <1>2, <1>3, <2>1, EarnedKept
  <2> QED
    BY <1>2, <2>2 DEF Earning, EarningAt
<1> QED
  BY <1>1, <1>3, <1>4, <1>5, <1>6

\* Every step keeps the invariant and the past.
LEMMA SafeStep ==
  ASSUME SafeInv, [Next]_vars
  PROVE  SafeInv' /\ Kept /\ RootsStay
<1> USE DEF SafeInv
<1>1. CASE UNCHANGED vars
  <2>1. Kept /\ RootsStay
    BY <1>1, KeptSame DEF Kept, RootsStay, vars, disk
  <2> QED
    BY <1>1, <2>1 DEF vars, disk, host, locks, Types, Holding, Rooted, RootedAt,
       State, Numbering, NumberingAt, Processes, Earning, EarningAt, EarnedAt,
       ImageChecked, Completed
<1>2. ASSUME NEW w \in Workers, NEW c \in Campaigns,
             PrepareFresh(w, c) \/ PrepareAgain(w, c) \/ ExportVerify(w, c)
      PROVE  SafeInv' /\ Kept /\ RootsStay
  <2>1. Types' /\ RootsStay
    BY <1>2, TypesPrepare
  <2>2. Kept
    BY <1>2, KeptPrepare
  <2>3. Holding' /\ Rooted' /\ Processes' /\ Numbering'
    BY <1>2, <2>1, HoldingPrepare, RootedPrepare, ProcessesPrepare, NumberingPrepare
  <2>4. Earning'
    BY <1>2, <2>1, <2>2, EarningPrepare
  <2> QED
    BY <2>1, <2>2, <2>3, <2>4
<1>3. ASSUME NEW w \in Workers, Step(w) \/ Crash(w)
      PROVE  SafeInv' /\ Kept /\ RootsStay
  <2> DEFINE Early == \/ PrepareLedger(w) \/ ChooseCommand(w) \/ Abandon(w)
                      \/ Execute(w) \/ ExecuteCompleted(w) \/ TakeAlias(w)
                      \/ AliasRefused(w)
             Late == \/ Announce(w) \/ BindLedger(w) \/ Start(w) \/ StartFails(w)
                     \/ AfterRefused(w) \/ After(w) \/ Ingest(w) \/ Finish(w)
                     \/ Seal(w)
             Rest == ExportLoad(w) \/ ExportPublish(w) \/ Crash(w)
  <2>1. Early \/ Late \/ Rest
    BY <1>3 DEF Step
  <2>2. Types' /\ RootsStay
    <3>1. CASE Early
      BY <3>1, TypesCommand
    <3>2. CASE Late
      BY <3>2, TypesAttempt
    <3>3. CASE Rest
      BY <3>3, TypesRest
    <3> QED
      BY <2>1, <3>1, <3>2, <3>3
  <2>3. Holding'
    <3>1. CASE Early
      BY <2>2, <3>1, HoldingCommand
    <3>2. CASE Late
      BY <2>2, <3>2, HoldingAttempt
    <3>3. CASE Rest
      BY <2>2, <3>3, HoldingRest
    <3> QED
      BY <2>1, <3>1, <3>2, <3>3
  <2>4. Rooted' /\ Numbering'
    <3>1. CASE Early \/ Rest \/ BindLedger(w) \/ Seal(w)
      BY <2>2, <3>1, RootedCommand, NumberingCommand
    <3>2. CASE \/ Announce(w) \/ Start(w) \/ StartFails(w)
               \/ AfterRefused(w) \/ After(w) \/ Ingest(w) \/ Finish(w)
      BY <2>2, <3>2, RootedAttempt, NumberingAttempt
    <3> QED
      BY <2>1, <3>1, <3>2
  <2>5. Kept
    BY <1>3, <2>2, KeptWorker
  <2>6. Processes' /\ Earning'
    BY <1>3, <2>2, <2>5, ProcessesStep, EarningWorker
  <2> QED
    BY <2>2, <2>3, <2>4, <2>5, <2>6
<1>4. ASSUME NEW p \in up, UpBuild(p) \/ UpConfig(p) \/ UpTrial(p) \/ UpExit(p)
      PROVE  SafeInv' /\ Kept /\ RootsStay
  <2>1. Types' /\ RootsStay
    BY <1>4, TypesUpstream
  <2>2. Kept
    BY <1>4, KeptUpstream
  <2>3. Holding' /\ Rooted' /\ Processes' /\ Numbering'
    BY <1>4, <2>1, HoldingUpstream, RootedUpstream, ProcessesUpstream,
       NumberingUpstream
  <2>4. Earning'
    BY <1>4, <2>1, <2>2, EarningUpstream
  <2> QED
    BY <2>1, <2>2, <2>3, <2>4
<1> QED
  BY <1>1, <1>2, <1>3, <1>4, SafePowerLoss DEF Next

\* Locks, control points, attempts, processes and what a completed manifest has earned
\* agree in every reachable state of prepare and execute.
THEOREM SafeAlways == Spec => []SafeInv
<1>1. SafeInv /\ [Next]_vars => SafeInv'
  BY SafeStep
<1> QED
  BY <1>1, SafeInit, PTL DEF Spec

\* What the invariant says of completed campaigns and of the locks
LEMMA SafeSound == SafeInv => ResultSound
<1> SUFFICES ASSUME SafeInv PROVE ResultSound
  OBVIOUS
<1>1. alock # None => \E c \in Campaigns : clock[c] = alock
  <2> SUFFICES ASSUME alock # None PROVE \E c \in Campaigns : clock[c] = alock
    OBVIOUS
  <2>1. alock \in Workers
    BY DEF SafeInv, Types
  <2>2. pc[alock] \in Locked /\ pc[alock] # "idle"
    BY DEF SafeInv, Holding, Locked, Aliased
  <2>3. call[alock].campaign \in Campaigns /\ clock[call[alock].campaign] = alock
    BY <2>1, <2>2 DEF SafeInv, Holding
  <2> QED
    BY <2>3
<1>2. TypeOK
  BY <1>1 DEF SafeInv, Types, TypeOK
<1> QED
  BY <1>2 DEF SafeInv, Earning, EarnedAt, ImageChecked, ResultSound

\* However many workers, attempts, crashes and power losses: a campaign is
\* completed only with every planned result, a report over them, a last attempt
\* that ended well and an image that was recorded and checked; and only such a
\* campaign's documents leave the host.
THEOREM CompletedAlwaysSound == Spec => []ResultSound
BY SafeAlways, SafeSound, PTL

\* A run root that fails verification is taken over by nobody.
LEMMA BrokenStep ==
  ASSUME SafeInv, Kept, Next, NEW c \in Campaigns, Broken(c)
  PROVE  files'[c] = files[c] /\ ledger'[c] = ledger[c]
<1> USE DEF SafeInv
<1>0. files[c] # None /\ clock[c] = None /\ ~Verified(c) /\ \A p \in up : p.campaign # c
  BY DEF Broken
<1>1. ASSUME NEW w \in Workers, NEW d \in Campaigns,
             PrepareFresh(w, d) \/ PrepareAgain(w, d) \/ ExportVerify(w, d)
      PROVE  files'[c] = files[c] /\ ledger'[c] = ledger[c]
  <2>1. CASE d # c
    BY <1>1, <2>1, FramePrepare DEF Frame
  <2>2. CASE d = c
    BY <1>0, <1>1, <2>2 DEF PrepareFresh, PrepareAgain, Adoptable, ExportVerify, disk
  <2> QED
    BY <2>1, <2>2
<1>2. ASSUME NEW w \in Workers, Step(w) \/ Crash(w)
      PROVE  files'[c] = files[c] /\ ledger'[c] = ledger[c]
  <2>1. CASE call[w].campaign # c
    BY <1>2, <2>1, FrameStep DEF Frame
  <2>2. CASE call[w].campaign = c
    <3>1. pc[w] \notin Locked
      BY <1>0, <2>2, NullApart DEF Holding
    <3>2. CASE Execute(w) \/ ExecuteCompleted(w)
      BY <1>0, <2>2, <3>2 DEF Execute, ExecuteCompleted, Runnable
    <3>3. CASE \/ ChooseCommand(w) \/ Abandon(w) \/ ExportLoad(w) \/ ExportPublish(w)
               \/ Crash(w) \/ AliasRefused(w)
      BY <3>3 DEF ChooseCommand, Abandon, ExportLoad, ExportPublish, Crash,
         AliasRefused, disk
    <3>4. CASE \/ PrepareLedger(w) \/ TakeAlias(w) \/ Announce(w) \/ BindLedger(w)
               \/ Start(w) \/ StartFails(w) \/ AfterRefused(w) \/ After(w)
               \/ Ingest(w) \/ Finish(w) \/ Seal(w)
      BY <3>1, <3>4 DEF PrepareLedger, TakeAlias, Announce, BindLedger, Start,
         StartFails, AfterRefused, After, Ingest, Finish, Seal, Locked
    <3> QED
      BY <1>2, <3>2, <3>3, <3>4 DEF Step
  <2> QED
    BY <2>1, <2>2
<1>3. ASSUME PowerLoss
      PROVE  files'[c] = files[c] /\ ledger'[c] = ledger[c]
  BY <1>3 DEF PowerLoss, disk
<1>4. ASSUME NEW p \in up, UpBuild(p) \/ UpConfig(p) \/ UpTrial(p) \/ UpExit(p)
      PROVE  files'[c] = files[c] /\ ledger'[c] = ledger[c]
  BY <1>0, <1>4, UpstreamEffect
<1> QED
  BY <1>1, <1>2, <1>3, <1>4 DEF Next

\* However many workers, attempts and crashes: no step takes unverified files
\* over, reopens a completed campaign, renumbers an attempt or replaces a
\* receipt.
THEOREM PastAlwaysKept == Spec => PastKept
<1>1. SafeInv /\ SafeInv' /\ [Next]_vars =>
        [\A c \in Campaigns :
           BrokenFrozen(c) /\ CompletedFinal(c) /\ EvidenceKept(c)]_vars
  <2> SUFFICES ASSUME SafeInv, SafeInv', Next, NEW c \in Campaigns
               PROVE  BrokenFrozen(c) /\ CompletedFinal(c) /\ EvidenceKept(c)
    OBVIOUS
  <2>1. Kept /\ RootsStay
    BY SafeStep
  <2>2. BrokenFrozen(c)
    BY <2>1, BrokenStep DEF BrokenFrozen
  <2>3. CompletedFinal(c)
    BY <2>1 DEF CompletedFinal, Kept, KeptAt, SafeInv, Earning, EarnedAt, Completed
  <2>4. EvidenceKept(c)
    <3>1. files[c] # None => files'[c] # None
      BY <2>1 DEF RootsStay
    <3>2. files'[c] # None =>
            \A i, j \in 1..Len(files'[c].manifest.attempts) :
              i < j => files'[c].manifest.attempts[i] < files'[c].manifest.attempts[j]
      BY DEF SafeInv, Rooted, RootedAt
    <3> QED
      BY <2>1, <3>1, <3>2 DEF EvidenceKept, Kept, KeptAt
  <2> QED
    BY <2>2, <2>3, <2>4
<1> QED
  BY <1>1, SafeAlways, PTL DEF Spec, PastKept

(***************************************************************************)
(* While no controller was killed: files and ledger                        *)
(***************************************************************************)
\* The one upstream process there can be belongs to the holder of the alias.
LEMMA OneBuild ==
  ASSUME SafeInv, Tracked, NEW p \in up
  PROVE  /\ p \in Process /\ p.owner \in Workers /\ pc[p.owner] = "wait"
         /\ call[p.owner].campaign = p.campaign
         /\ call[p.owner].number = p.number
         /\ p.campaign \in Campaigns /\ files[p.campaign] \in RunRoot
         /\ clock[p.campaign] = p.owner /\ alock = p.owner
         /\ up = {p}
<1>1. /\ p \in Process /\ p.owner \in Workers /\ pc[p.owner] = "wait"
      /\ call[p.owner].campaign = p.campaign
      /\ call[p.owner].number = p.number
      /\ p.campaign \in Campaigns /\ files[p.campaign] \in RunRoot
  BY DEF SafeInv, Tracked, Processes, Types, Process
<1>2. clock[p.campaign] = p.owner /\ alock = p.owner
  BY <1>1 DEF SafeInv, Holding, Locked, Aliased
<1>3. ASSUME NEW q \in up PROVE q = p
  <2>1. q.owner # None /\ q.owner \in Workers /\ pc[q.owner] = "wait"
    BY DEF SafeInv, Tracked, Processes, Types, Process
  <2>2. alock = q.owner
    BY <2>1 DEF SafeInv, Holding, Aliased
  <2> QED
    BY <1>2, <2>1, <2>2 DEF SafeInv, Processes
<1> QED
  BY <1>1, <1>2, <1>3

\* A worker's step leaves the other campaigns and the other workers' calls
\* as they are compared.
LEMMA TrackingOthers ==
  ASSUME SafeInv, Tracked, NEW w \in Workers, NEW c \in Campaigns, Frame(w, c),
         \/ clock[c] \in {None, w}
         \/ files' = files /\ ledger' = ledger,
         FreeAt(c)', TrackingAt(w)',
         \A p \in up' : p.owner # None
  PROVE  Tracked'
<1>1. ASSUME NEW d \in Campaigns, d # c PROVE FreeAt(d)'
  BY <1>1 DEF Frame, Tracked, FreeAt, State, SameButBinding
<1>2. ASSUME NEW v \in Workers, v # w PROVE TrackingAt(v)'
  <2> PICK d : d = call[v].campaign
    OBVIOUS
  <2>1. pc'[v] = pc[v] /\ call'[v] = call[v] /\ TrackingAt(v)
    BY <1>2 DEF Frame, Tracked
  <2>2. CASE pc[v] \in Locked
    <3>1. d \in Campaigns /\ clock[d] = v /\ v # None
      BY <2>2, NullApart DEF SafeInv, Holding, Locked
    <3>2. files'[d] = files[d] /\ ledger'[d] = ledger[d]
      BY <1>2, <3>1 DEF Frame
    <3> QED
      BY <2>1, <3>2 DEF TrackingAt, State, SameButBinding, SameButOutput, Resumable
  <2>3. CASE pc[v] \notin Locked
    BY <2>1, <2>3 DEF TrackingAt, Locked
  <2> QED
    BY <2>2, <2>3
<1> QED
  BY <1>1, <1>2 DEF Tracked

LEMMA TrackingPrepare ==
  ASSUME SafeInv, SafeInv', Tracked, NEW w \in Workers, NEW c \in Campaigns,
         PrepareFresh(w, c) \/ PrepareAgain(w, c) \/ ExportVerify(w, c)
  PROVE  Tracked'
<1>1. Frame(w, c) /\ up' = up
  BY FramePrepare DEF SafeInv
<1>2. \A p \in up' : p.owner # None
  BY <1>1 DEF Tracked
<1>3. FreeAt(c) /\ (files[c] # None => files[c] \in RunRoot /\ ledger[c] \in RunRoot)
  BY DEF Tracked, SafeInv, Types, Rooted, RootedAt
<1>4. CASE PrepareFresh(w, c)
  <2>1. files'[c] = NewRoot /\ ledger'[c] = NewRoot /\ clock[c] = None
        /\ pc'[w] = "command"
    BY <1>4 DEF PrepareFresh, Goto, SafeInv, Types
  <2>2. FreeAt(c)'
    BY <2>1 DEF FreeAt, State, SameButBinding, NewRoot
  <2>3. TrackingAt(w)'
    BY <2>1 DEF TrackingAt
  <2> QED
    BY <1>1, <1>2, <2>1, <2>2, <2>3, TrackingOthers
<1>5. CASE PrepareAgain(w, c)
  <2>1. files[c] # None /\ clock[c] = None /\ ledger' = ledger
    BY <1>5 DEF PrepareAgain
  <2>2. CASE files' = files /\ clock' = clock /\ pc' = [pc EXCEPT ![w] = "command"]
    <3>1. FreeAt(c)'
      BY <1>3, <2>1, <2>2 DEF FreeAt, State, SameButBinding
    <3>2. TrackingAt(w)'
      BY <2>2 DEF TrackingAt, SafeInv, Types
    <3> QED
      BY <1>1, <1>2, <2>1, <3>1, <3>2, TrackingOthers
  <2>3. CASE /\ Resumable(c) /\ files' = [files EXCEPT ![c].binding = TRUE]
             /\ clock' = [clock EXCEPT ![c] = w]
             /\ pc' = [pc EXCEPT ![w] = "bound"]
             /\ call' = [call EXCEPT ![w].campaign = c]
    <3>1. files'[c] = [files[c] EXCEPT !.binding = TRUE]
      BY <2>1, <2>3 DEF SafeInv, Types
    <3>2. /\ State(c)' # "running" /\ SameButBinding(c)'
          /\ files'[c].config = files[c].config
      <4>1. PICK r \in RunRoot : r = files[c]
        BY <1>3, <2>1
      <4>2. PICK l \in RunRoot : l = ledger[c]
        BY <1>3, <2>1
      <4>3. /\ files'[c].manifest = files[c].manifest
            /\ files'[c].config = files[c].config
        BY <3>1, <4>1 DEF RunRoot
      <4>4. r.manifest.state # "running"
            /\ (r = l \/ r = [l EXCEPT !.binding = TRUE])
        BY <1>3, <2>1, <4>1, <4>2 DEF FreeAt, State, SameButBinding
      <4>5. [r EXCEPT !.binding = TRUE] = [l EXCEPT !.binding = TRUE]
        BY <4>4 DEF RunRoot
      <4>6. ledger'[c] = l /\ files'[c] = [l EXCEPT !.binding = TRUE]
        BY <2>1, <3>1, <4>1, <4>2, <4>5
      <4> QED
        BY <4>1, <4>3, <4>4, <4>6 DEF State, SameButBinding
    <3>3. FreeAt(c)'
      BY <2>3, <3>2 DEF FreeAt, Resumable
    <3>4. call[w] \in Call
      BY DEF SafeInv, Types
    <3>5. call'[w].campaign = c /\ pc'[w] = "bound"
      BY <2>3, <3>4 DEF SafeInv, Types, Call
    <3>6. TrackingAt(w)'
      BY <3>2, <3>5 DEF TrackingAt
    <3> QED
      BY <1>1, <1>2, <2>1, <3>3, <3>6, TrackingOthers
  <2> QED
    BY <1>5, <2>2, <2>3 DEF PrepareAgain, Bound, Goto
<1>6. CASE ExportVerify(w, c)
  <2>1. files' = files /\ ledger' = ledger /\ clock' = clock /\ pc'[w] = "load"
    BY <1>6 DEF ExportVerify, disk, locks, Goto, SafeInv, Types
  <2>2. FreeAt(c)'
    BY <1>3, <2>1 DEF FreeAt, State, SameButBinding
  <2>3. TrackingAt(w)'
    BY <2>1 DEF TrackingAt
  <2> QED
    BY <1>1, <1>2, <2>1, <2>2, <2>3, TrackingOthers
<1> QED
  BY <1>4, <1>5, <1>6

LEMMA TrackingCommand ==
  ASSUME SafeInv, SafeInv', Tracked, NEW w \in Workers,
         \/ PrepareLedger(w) \/ ChooseCommand(w) \/ Abandon(w)
         \/ Execute(w) \/ ExecuteCompleted(w) \/ TakeAlias(w) \/ AliasRefused(w)
         \/ ExportLoad(w) \/ ExportPublish(w)
  PROVE  Tracked'
<1> PICK c : c = call[w].campaign
  OBVIOUS
<1>0. /\ pc[w] # "idle" /\ c \in Campaigns /\ w # None
      /\ files[c] \in RunRoot /\ ledger[c] \in RunRoot /\ files[c] # None
      /\ call[w] \in Call
  <2>1. pc[w] # "idle"
    BY DEF PrepareLedger, ChooseCommand, Abandon, Execute, ExecuteCompleted,
       TakeAlias, AliasRefused, ExportLoad, ExportPublish
  <2> QED
    BY <2>1, NullApart DEF SafeInv, Holding, Types, Rooted, RootedAt
<1>1. Frame(w, c)
  BY FrameStep DEF SafeInv, Step
<1>2. \A p \in up' : p.owner # None
  <2>1. up' = up
    BY DEF PrepareLedger, ChooseCommand, Abandon, Execute, ExecuteCompleted,
       TakeAlias, AliasRefused, ExportLoad, ExportPublish, host
  <2> QED
    BY <2>1 DEF Tracked
<1>3. FreeAt(c) /\ TrackingAt(w)
  BY <1>0 DEF Tracked
<1>4. pc[w] \in Locked <=> clock[c] = w
  BY <1>0 DEF SafeInv, Holding
<1> SUFFICES /\ \/ clock[c] \in {None, w}
                \/ files' = files /\ ledger' = ledger
             /\ FreeAt(c)' /\ TrackingAt(w)'
  BY <1>0, <1>1, <1>2, TrackingOthers
<1>a. CASE ChooseCommand(w) \/ Abandon(w) \/ ExportLoad(w) \/ ExportPublish(w)
  <2>1. /\ files' = files /\ ledger' = ledger
        /\ pc'[w] \in {"ready", "idle", "publish"}
    BY <1>a DEF ChooseCommand, Abandon, ExportLoad, ExportPublish, disk, Leave, Goto,
       SafeInv, Types
  <2>2. clock'[c] = clock[c]
    <3>1. pc[w] \notin Locked
      BY <1>a DEF ChooseCommand, Abandon, ExportLoad, ExportPublish, Locked
    <3> QED
      BY <1>0, <1>4, <1>a, <3>1 DEF ChooseCommand, Abandon, ExportLoad, ExportPublish,
         locks, Leave
  <2>3. FreeAt(c)'
    BY <1>3, <2>1, <2>2 DEF FreeAt, State, SameButBinding
  <2> QED
    BY <2>1, <2>3 DEF TrackingAt
<1>b. CASE PrepareLedger(w)
  <2>1. /\ pc[w] = "bound" /\ files' = files /\ ledger'[c] = files[c]
        /\ clock[c] = w /\ pc'[w] = "command"
    BY <1>0, <1>4, <1>b DEF PrepareLedger, Goto, SafeInv, Types, Locked
  <2>2. FreeAt(c)'
    BY <1>0, <1>3, <2>1 DEF FreeAt, TrackingAt, State, SameButBinding
  <2> QED
    BY <2>1, <2>2 DEF TrackingAt
<1>c. CASE Execute(w)
  <2>1. /\ clock[c] = None /\ ledger' = ledger /\ pc'[w] = "alias"
        /\ clock'[c] = w /\ call' = call
        /\ call[w].resume => Resumable(c)
        /\ \/ files' = files /\ ~call[w].resume
           \/ files' = [files EXCEPT ![c].binding = TRUE] /\ call[w].resume
    BY <1>0, <1>c DEF Execute, Goto, SafeInv, Types, Bound
  <2>2. CASE files' = files /\ ~call[w].resume
    BY <1>0, <1>3, <2>1, <2>2 DEF FreeAt, TrackingAt, State, SameButBinding
  <2>3. CASE files' = [files EXCEPT ![c].binding = TRUE] /\ call[w].resume
    <3>1. files'[c] = [files[c] EXCEPT !.binding = TRUE]
      BY <1>0, <2>3 DEF SafeInv, Types
    <3>2. /\ files'[c].config = files[c].config
          /\ files'[c].manifest = files[c].manifest
      BY <1>0, <3>1 DEF RunRoot
    <3>3. State(c) # "running" /\ SameButBinding(c)
      BY <1>0, <1>3, <2>1 DEF FreeAt
    <3>4. SameButBinding(c)'
      <4>1. ledger'[c] = ledger[c]
        BY <2>1
      <4> QED
        <5>1. PICK l \in RunRoot : l = ledger[c]
          BY <1>0
        <5>2. CASE files[c] = l
          BY <3>1, <4>1, <5>1, <5>2 DEF SameButBinding
        <5>3. CASE files[c] = [l EXCEPT !.binding = TRUE]
          <6>1. files'[c] = [l EXCEPT !.binding = TRUE]
            BY <3>1, <5>1, <5>3, ZenonT(60) DEF RunRoot
          <6> QED
            BY <4>1, <5>1, <6>1 DEF SameButBinding
        <5> QED
          BY <3>3, <5>1, <5>2, <5>3 DEF SameButBinding
    <3> QED
      BY <1>0, <2>1, <2>3, <3>2, <3>3, <3>4 DEF FreeAt, TrackingAt, Resumable, State
  <2> QED
    BY <2>1, <2>2, <2>3
<1>d. CASE ExecuteCompleted(w)
  <2>1. /\ clock[c] = None /\ files' = files /\ ledger'[c] = files[c]
        /\ pc'[w] = "idle"
    BY <1>0, <1>d DEF ExecuteCompleted, Leave, Goto, SafeInv, Types
  <2> QED
    BY <1>0, <1>3, <2>1 DEF FreeAt, TrackingAt, State, SameButBinding
<1>e. CASE TakeAlias(w)
  <2>1. /\ pc[w] = "alias" /\ pc'[w] = "announce" /\ clock'[c] = clock[c]
        /\ files' = files /\ ledger' = ledger
        /\ call'[w].campaign = c /\ call'[w].resume = call[w].resume
    BY <1>0, <1>e DEF TakeAlias, Goto, SafeInv, Types, Call
  <2> QED
    BY <1>0, <1>3, <2>1 DEF FreeAt, TrackingAt, State, SameButBinding, Resumable
<1>f. CASE AliasRefused(w)
  <2>1. /\ pc[w] = "alias" /\ files' = files /\ ledger' = ledger /\ pc'[w] = "idle"
    BY <1>f DEF AliasRefused, Leave, Goto, disk, SafeInv, Types
  <2> QED
    BY <1>0, <1>3, <2>1 DEF FreeAt, TrackingAt, State, SameButBinding
<1> QED
  BY <1>a, <1>b, <1>c, <1>d, <1>e, <1>f

LEMMA TrackingAttempt ==
  ASSUME SafeInv, SafeInv', Tracked, NEW w \in Workers,
         \/ Announce(w) \/ BindLedger(w) \/ Start(w) \/ StartFails(w)
         \/ AfterRefused(w) \/ After(w) \/ Ingest(w) \/ Finish(w) \/ Seal(w)
  PROVE  Tracked'
<1> PICK c, n : c = call[w].campaign /\ n = call[w].number
  OBVIOUS
<1>0. /\ pc[w] \in Locked /\ pc[w] # "idle" /\ c \in Campaigns /\ w # None
      /\ files[c] \in RunRoot /\ ledger[c] \in RunRoot /\ files[c] # None
      /\ call[w] \in Call /\ clock[c] = w
  <2>1. pc[w] \in Locked /\ pc[w] # "idle"
    BY DEF Announce, BindLedger, Start, StartFails, AfterRefused, After, Ingest,
       Finish, Seal, Locked
  <2> QED
    BY <2>1, NullApart DEF SafeInv, Holding, Types, Rooted, RootedAt
<1>1. Frame(w, c)
  BY FrameStep DEF SafeInv, Step
<1>2. FreeAt(c) /\ TrackingAt(w) /\ NumberingAt(w)
  BY <1>0 DEF Tracked, SafeInv, Numbering
<1>3. \A p \in up' : p.owner # None
  <2>1. CASE Start(w)
    BY <1>0, <2>1 DEF Start, Tracked
  <2>2. CASE \/ Announce(w) \/ BindLedger(w) \/ StartFails(w)
             \/ AfterRefused(w) \/ After(w) \/ Ingest(w) \/ Finish(w) \/ Seal(w)
    BY <2>2 DEF Announce, BindLedger, StartFails, AfterRefused, After, Ingest,
       Finish, Seal, host, Tracked
  <2> QED
    BY <2>1, <2>2
<1> SUFFICES FreeAt(c)' /\ TrackingAt(w)'
  BY <1>0, <1>1, <1>3, TrackingOthers
<1>a. CASE Announce(w)
  <2>1. /\ pc[w] = "announce" /\ pc'[w] = "ledger" /\ clock'[c] = w
        /\ files'[c].binding = files[c].binding
        /\ files'[c].config = files[c].config
    BY <1>0, <1>a, SMTT(60) DEF Announce, Goto, locks, SafeInv, Types, RunRoot
  <2>2. call'[w].campaign = c /\ call'[w].resume = call[w].resume
    <3>1. \E m : call' = [call EXCEPT ![w].manifest = m]
      BY <1>a DEF Announce
    <3> QED
      BY <1>0, <3>1 DEF SafeInv, Types, Call
  <2> QED
    BY <1>0, <1>2, <2>1, <2>2 DEF FreeAt, TrackingAt, Resumable
<1>b. CASE BindLedger(w)
  <2>1. /\ pc[w] = "ledger" /\ pc'[w] = "start" /\ clock'[c] = w
        /\ files' = files /\ ledger'[c] = files[c] /\ call' = call
    BY <1>0, <1>b DEF BindLedger, Goto, locks, SafeInv, Types
  <2> QED
    BY <1>0, <1>2, <2>1 DEF FreeAt, TrackingAt, Resumable
<1>c. CASE Start(w)
  <2>1. /\ pc[w] = "start" /\ pc'[w] = "wait" /\ clock'[c] = w
        /\ files' = [files EXCEPT ![c].logs[n] = "open"]
        /\ ledger' = ledger /\ call' = call
    BY <1>0, <1>c DEF Start, Goto, locks, SafeInv, Types
  <2>2. /\ files'[c].manifest = files[c].manifest
        /\ files'[c].binding = files[c].binding
        /\ files'[c].config = files[c].config
        /\ files'[c].normalized = files[c].normalized
        /\ files'[c].receipts = files[c].receipts
        /\ \A k \in Numbers \ {n} : files'[c].logs[k] = files[c].logs[k]
    <3>1. files'[c] = [files[c] EXCEPT !.logs[n] = "open"]
      BY <1>0, <2>1 DEF SafeInv, Types
    <3> QED
      BY <1>0, <3>1 DEF RunRoot
  <2>3. files[c] = ledger[c]
    BY <1>2, <2>1 DEF TrackingAt
  <2>4. SameButOutput(c, n)'
    BY <2>1, <2>2, <2>3 DEF SameButOutput
  <2> QED
    BY <1>0, <1>2, <2>1, <2>2, <2>4 DEF FreeAt, TrackingAt, Resumable
<1>d. CASE StartFails(w) \/ AfterRefused(w) \/ After(w) \/ Ingest(w)
  <2>1. clock' = clock /\ pc'[w] \in {"finish", "ingest"}
    BY <1>d DEF StartFails, AfterRefused, After, Ingest, Goto, locks, SafeInv, Types
  <2>2. files'[c].binding = files[c].binding /\ files'[c].config = files[c].config
    <3>1. CASE StartFails(w)
      <4>1. files'[c] = [files[c] EXCEPT !.receipts[n] = "bad", !.logs[n] = "open"]
        BY <1>0, <3>1 DEF StartFails, Receipted, SafeInv, Types
      <4> QED
        BY <1>0, <4>1 DEF RunRoot
    <3>2. CASE AfterRefused(w)
      BY <1>0, <3>2, SMTT(60) DEF AfterRefused, Receipted, SafeInv, Types, RunRoot
    <3>3. CASE After(w)
      <4>1. PICK good \in BOOLEAN :
              files' = [files EXCEPT ![c] = [files[c] EXCEPT
                          !.receipts[n] = IF good THEN "ok" ELSE "bad"]]
        BY <3>3, AfterEffect DEF SafeInv
      <4> QED
        BY <1>0, <4>1, SMTT(60) DEF SafeInv, Types, RunRoot
    <3>4. CASE Ingest(w)
      <4>1. files' = [files EXCEPT ![c].normalized = @ \/ AllResults(c)]
        BY <3>4 DEF Ingest
      <4> QED
        BY <1>0, <4>1, SMTT(60) DEF SafeInv, Types, RunRoot
    <3> QED
      BY <1>d, <3>1, <3>2, <3>3, <3>4
  <2> QED
    BY <1>0, <1>2, <2>1, <2>2 DEF FreeAt, TrackingAt
<1>e. CASE Finish(w)
  <2>1. /\ pc[w] = "finish" /\ pc'[w] = "seal" /\ clock'[c] = w /\ call' = call
        /\ files' = [files EXCEPT ![c].manifest = call[w].manifest]
    BY <1>0, <1>e DEF Finish, Goto, locks, SafeInv, Types
  <2>2. /\ files'[c].manifest = call[w].manifest
        /\ files'[c].binding = files[c].binding
        /\ files'[c].config = files[c].config
    BY <1>0, <2>1 DEF SafeInv, Types, RunRoot
  <2>3. call[w].manifest.state # "running"
    BY <1>2, <2>1 DEF NumberingAt
  <2> QED
    BY <1>0, <1>2, <2>1, <2>2, <2>3 DEF FreeAt, TrackingAt, State
<1>f. CASE Seal(w)
  <2>1. /\ pc[w] = "seal" /\ pc'[w] = "idle" /\ files' = files
        /\ ledger'[c] = files[c]
    BY <1>0, <1>f DEF Seal, Sealed, Leave, Goto, SafeInv, Types
  <2> QED
    BY <1>0, <1>2, <2>1 DEF FreeAt, TrackingAt, State, SameButBinding
<1> QED
  BY <1>a, <1>b, <1>c, <1>d, <1>e, <1>f

\* Upstream writes into the campaign whose attempt its owner waits for.
LEMMA TrackingUpstream ==
  ASSUME SafeInv, SafeInv', Tracked, NEW p \in up,
         UpBuild(p) \/ UpConfig(p) \/ UpTrial(p) \/ UpExit(p)
  PROVE  Tracked'
<1> PICK c, w, n : c = p.campaign /\ w = p.owner /\ n = p.number
  OBVIOUS
<1>0. /\ p \in Process /\ w \in Workers /\ pc[w] = "wait" /\ w # None
      /\ call[w].campaign = c /\ call[w].number = n
      /\ c \in Campaigns /\ files[c] \in RunRoot
      /\ clock[c] = w /\ up = {p}
  BY OneBuild, NullApart
<1>1. /\ \A d \in Campaigns : d # c => files'[d] = files[d]
      /\ files'[c].manifest = files[c].manifest
      /\ files'[c].binding = files[c].binding
      /\ files'[c].normalized = files[c].normalized
      /\ files'[c].receipts = files[c].receipts
      /\ \A k \in Numbers : k # n => files'[c].logs[k] = files[c].logs[k]
      /\ ledger' = ledger /\ clock' = clock
      /\ \A v \in Workers : v # w => pc'[v] = pc[v] /\ call'[v] = call[v]
      /\ call'[w].campaign = c /\ call'[w].number = n
      /\ call'[w].resume = call[w].resume
  BY <1>0, UpstreamEffect DEF SafeInv
<1>2. /\ files[c].config # "none" => files'[c].config # "none"
      /\ \/ pc'[w] = "after"
         \/ pc'[w] = "wait" /\ (Resumable(c) => Resumable(c)')
      /\ \A q \in up' : q.owner # None
  <2>1. CASE UpBuild(p)
    BY <1>0, <2>1 DEF UpBuild, Moved, disk, Process, Resumable
  <2>2. CASE UpConfig(p)
    <3>1. files'[c].config = IF files[c].config = "none" THEN "planned"
                             ELSE files[c].config
      BY <1>0, <2>2 DEF UpConfig, SafeInv, Types, RunRoot
    <3> QED
      BY <1>0, <2>2, <3>1 DEF UpConfig, Moved, Process, Resumable
  <2>3. CASE UpTrial(p)
    <3>1. PICK r : files' = [files EXCEPT ![c].trials = @ \cup {alias},
                                          ![c].results = r, ![c].logs[n] = "grown"]
      BY <2>3 DEF UpTrial
    <3>2. files'[c] = [files[c] EXCEPT !.trials = @ \cup {alias}, !.results = r,
                                       !.logs[n] = "grown"]
      BY <1>0, <3>1 DEF SafeInv, Types
    <3>3. files'[c].config = files[c].config
      BY <1>0, <3>2 DEF RunRoot
    <3> QED
      BY <1>0, <2>3, <3>3 DEF UpTrial, host, Resumable
  <2>4. CASE UpExit(p)
    <3>1. PICK fault : files' = [files EXCEPT ![c].config =
                         IF fault = "config" /\ @ # "none" THEN "changed" ELSE @]
      BY <2>4 DEF UpExit, Damage
    <3>2. files[c].config # "none" => files'[c].config # "none"
      BY <1>0, <3>1 DEF SafeInv, Types, RunRoot
    <3>3. pc'[w] = "after" /\ up' = up \ {p}
      BY <1>0, <2>4 DEF UpExit, Goto, SafeInv, Types
    <3> QED
      BY <1>0, <3>2, <3>3
  <2> QED
    BY <2>1, <2>2, <2>3, <2>4
<1>3. ASSUME NEW d \in Campaigns PROVE FreeAt(d)'
  <2>1. FreeAt(d)
    BY DEF Tracked
  <2>2. CASE d # c
    BY <1>1, <2>1, <2>2 DEF FreeAt, State, SameButBinding
  <2>3. CASE d = c
    BY <1>0, <1>1, <1>2, <2>1, <2>3, NullApart DEF FreeAt
  <2> QED
    BY <2>2, <2>3
<1>4. ASSUME NEW v \in Workers, v # w PROVE TrackingAt(v)'
  <2> PICK d : d = call[v].campaign
    OBVIOUS
  <2>1. pc'[v] = pc[v] /\ call'[v] = call[v] /\ TrackingAt(v)
    BY <1>1, <1>4 DEF Tracked
  <2>2. CASE pc[v] \in Locked
    <3>1. d \in Campaigns /\ clock[d] = v
      BY <2>2 DEF SafeInv, Holding, Locked
    <3>2. files'[d] = files[d] /\ ledger' = ledger
      BY <1>0, <1>1, <1>4, <3>1
    <3> QED
      BY <2>1, <3>2 DEF TrackingAt, State, SameButBinding, SameButOutput, Resumable
  <2>3. CASE pc[v] \notin Locked
    BY <2>1, <2>3 DEF TrackingAt, Locked
  <2> QED
    BY <2>2, <2>3
<1>5. TrackingAt(w)'
  <2>1. TrackingAt(w)
    BY <1>0 DEF Tracked
  <2>2. SameButOutput(c, n)'
    BY <1>0, <1>1, <2>1 DEF TrackingAt, SameButOutput
  <2> QED
    BY <1>0, <1>1, <1>2, <2>1, <2>2 DEF TrackingAt
<1> QED
  BY <1>2, <1>3, <1>4, <1>5 DEF Tracked

LEMMA TrackingStep ==
  ASSUME SafeInv, SafeInv', Tracking, [Next]_vars
  PROVE  Tracking'
<1> SUFFICES ASSUME crashes' = 0 PROVE Tracked'
  BY DEF Tracking
<1>1. crashes \in Nat
  BY CampaignAssumption DEF SafeInv, Types
<1>2. CASE UNCHANGED vars
  BY <1>2 DEF vars, disk, host, locks, Tracking, Tracked, FreeAt, TrackingAt, State,
     SameButBinding, SameButOutput, Resumable
<1>3. ASSUME NEW w \in Workers, NEW c \in Campaigns,
             PrepareFresh(w, c) \/ PrepareAgain(w, c) \/ ExportVerify(w, c)
      PROVE  Tracked'
  <2>1. crashes' = crashes
    BY <1>3 DEF PrepareFresh, PrepareAgain, ExportVerify
  <2> QED
    BY <1>3, <2>1, TrackingPrepare DEF Tracking
<1>4. ASSUME NEW w \in Workers, Step(w) PROVE Tracked'
  <2>1. crashes' = crashes
    BY <1>4 DEF Step, PrepareLedger, ChooseCommand, Abandon, Execute,
       ExecuteCompleted, TakeAlias, AliasRefused, Announce, BindLedger, Start,
       StartFails, AfterRefused, After, Ingest, Finish, Seal, ExportLoad,
       ExportPublish
  <2> QED
    BY <1>4, <2>1, TrackingCommand, TrackingAttempt DEF Tracking, Step
<1>5. ASSUME NEW w \in Workers, Crash(w) PROVE FALSE
  BY <1>1, <1>5 DEF Crash
<1>6. ASSUME PowerLoss PROVE FALSE
  BY <1>1, <1>6 DEF PowerLoss
<1>7. ASSUME NEW p \in up, UpBuild(p) \/ UpConfig(p) \/ UpTrial(p) \/ UpExit(p)
      PROVE  Tracked'
  <2>1. crashes' = crashes
    BY <1>7, UpstreamEffect DEF SafeInv
  <2> QED
    BY <1>7, <2>1, TrackingUpstream DEF Tracking
<1> QED
  BY <1>2, <1>3, <1>4, <1>5, <1>6, <1>7 DEF Next

\* As long as no controller was killed, the ledger differs from the files by what the
\* control point and upstream account for.
THEOREM TrackingAlways == Spec => [](SafeInv /\ Tracking)
<1>1. Init => Tracking
  BY DEF Init, Tracking, Tracked, FreeAt, TrackingAt
<1>2. SafeInv /\ SafeInv' /\ Tracking /\ [Next]_vars => Tracking'
  BY TrackingStep
<1> QED
  BY <1>1, <1>2, SafeAlways, PTL DEF Spec

LEMMA TrackingRestarts == SafeInv /\ Tracking => Restartable
<1> SUFFICES ASSUME SafeInv, Tracked, NEW c \in Campaigns, files[c] # None,
                    clock[c] # None => pc[clock[c]] \in {"start", "wait"}
             PROVE  \/ Verified(c)
                    \/ clock[c] = None /\ files[c] = [ledger[c] EXCEPT !.binding = TRUE]
                    \/ /\ clock[c] # None /\ ~call[clock[c]].resume
                       /\ files[c].binding /\ files[c].config = "changed"
  BY DEF Tracking, Restartable
<1>1. FreeAt(c) /\ files[c] \in RunRoot /\ ledger[c] \in RunRoot
  BY DEF Tracked, SafeInv, Types, Rooted, RootedAt
<1>2. CASE clock[c] = None
  BY <1>1, <1>2 DEF FreeAt, SameButBinding, Verified, State
<1>3. CASE clock[c] # None
  <2> PICK w : w = clock[c]
    OBVIOUS
  <2>1. w \in Workers /\ call[w].campaign = c /\ pc[w] \in {"start", "wait"}
    BY <1>3 DEF SafeInv, Types, Holding
  <2>2. TrackingAt(w) /\ NumberingAt(w)
    BY <2>1 DEF Tracked, SafeInv, Numbering
  <2>3. Mutable(files[c].manifest) = {call[w].number}
        /\ files[c].manifest.state = "running"
    BY <2>1, <2>2 DEF NumberingAt, Running, Mutable
  <2>4. /\ files[c].manifest = ledger[c].manifest
        /\ files[c].binding = ledger[c].binding
        /\ files[c].normalized = ledger[c].normalized
        /\ \A k \in Numbers \ Mutable(files[c].manifest) :
             /\ files[c].logs[k] = ledger[c].logs[k]
             /\ files[c].receipts[k] = ledger[c].receipts[k]
    BY <2>1, <2>2, <2>3 DEF TrackingAt, SameButOutput
  <2>5. call[w].resume => files[c].config = "planned"
    BY <2>1, <2>2 DEF TrackingAt, Resumable
  <2>6. files[c].binding => files[c].config \in {"planned", "changed"}
    BY <1>1 DEF FreeAt, RunRoot
  <2> QED
    BY <1>3, <2>3, <2>4, <2>5, <2>6 DEF Verified
<1> QED
  BY <1>2, <1>3

\* However many campaigns, workers and attempts: as long as no controller was
\* killed, a run root verifies whenever nobody works on it and while its
\* upstream runs, but for a binding whose ledger a refused execution did not
\* write and a config that a command without a resume replaced.
THEOREM AlwaysRestartable == Spec => []Restartable
BY TrackingAlways, TrackingRestarts, PTL

(***************************************************************************)
(* While no controller was killed: images                                  *)
(***************************************************************************)
\* A running attempt is the last of its campaign's, and the only one that is not
\* ended.
LEMMA RunningFacts ==
  ASSUME SafeInv, NEW w \in Workers, pc[w] \in Running,
         NEW c, c = call[w].campaign, NEW n, n = call[w].number,
         NEW k, k = Len(files[c].manifest.attempts)
  PROVE  /\ c \in Campaigns /\ files[c] \in RunRoot /\ files[c] # None
         /\ call[w] \in Call /\ call[w].manifest \in Manifest
         /\ clock[c] = w /\ w # None /\ n \in Numbers
         /\ ~Completed(c) /\ k \in Nat \ {0} /\ Ended(c) = k - 1
         /\ files[c].manifest.attempts[k] = n
         /\ \A i \in 1..(k - 1) : files[c].manifest.attempts[i] \in Numbers \ {n}
<1>1. /\ pc[w] \in Locked /\ pc[w] # "idle"
  BY DEF Running, Locked
<1>2. /\ c \in Campaigns /\ files[c] \in RunRoot /\ files[c] # None
      /\ call[w] \in Call /\ clock[c] = w /\ w # None
  BY <1>1, NullApart DEF SafeInv, Types, Holding
<1>3. NumberingAt(w) /\ RootedAt(c)
  BY <1>2 DEF SafeInv, Numbering, Rooted
<1>4. /\ files[c].manifest.state = "running" /\ files[c].manifest.attempts[k] = n
      /\ call[w].manifest # None /\ n \in dirs[c]
  BY <1>3 DEF NumberingAt, Current
<1>5. /\ files[c].manifest.attempts \in Seq(Numbers) /\ n \in Numbers
      /\ call[w].manifest \in Manifest
  BY <1>2, <1>4 DEF RunRoot, Manifest, SafeInv, Types, Call
<1>6. k \in Nat \ {0} /\ ~Completed(c) /\ Ended(c) = k - 1
  <2>1. k > 0
    BY <1>2, <1>3, <1>4 DEF RootedAt, State
  <2> QED
    BY <1>4, <1>5, <2>1 DEF Completed, State, Ended
<1>7. ASSUME NEW i \in 1..(k - 1)
      PROVE  files[c].manifest.attempts[i] \in Numbers \ {n}
  <2>1. files[c].manifest.attempts[i] \in Numbers
    BY <1>5, <1>6
  <2>2. files[c].manifest.attempts[i] < files[c].manifest.attempts[k]
    BY <1>2, <1>3, <1>6 DEF RootedAt
  <2> QED
    <3>1. Numbers \subseteq Nat
      BY CampaignAssumption DEF Numbers
    <3>2. files[c].manifest.attempts[i] \in Nat /\ n \in Nat
          /\ files[c].manifest.attempts[i] < n
      BY <1>4, <1>5, <2>1, <2>2, <3>1
    <3> QED
      BY <2>1, <3>2
<1> QED
  BY <1>2, <1>4, <1>5, <1>6, <1>7

LEMMA SteadyShorter ==
  ASSUME NEW c, NEW k \in Nat, Steady(c, k)
  PROVE  Steady(c, k - 1)
BY DEF Steady

\* The attempts up to k and their logs are the same.
LEMMA SteadySame ==
  ASSUME NEW c, NEW k,
         \A i \in 1..k :
           LET n == files[c].manifest.attempts[i] IN
           /\ files'[c].manifest.attempts[i] = n
           /\ files'[c].logs[n] = files[c].logs[n]
  PROVE  Steady(c, k)' <=> Steady(c, k)
BY DEF Steady

\* A call that goes on or begins at c with the image c has recorded, or none
CallsOwn(c) ==
  \A v \in Workers : call'[v].campaign = c =>
    \/ call'[v].expected \in {None, files[c].manifest.image}
    \/ call[v].campaign = c /\ call'[v].expected = call[v].expected

\* Nothing happened that matters to the image of c.
LEMMA ImagedKept ==
  ASSUME Imaged, NEW c \in Campaigns, files[c] # None, CallsOwn(c),
         files'[c].manifest = files[c].manifest,
         files'[c].trials = files[c].trials, files'[c].logs = files[c].logs,
         Completed(c) => /\ files'[c].binding = files[c].binding
                         /\ files'[c].config = files[c].config
                         /\ snapshot'[c] = snapshot[c]
  PROVE  ImagedAt(c)'
<1>1. ImagedAt(c)
  BY DEF Imaged
<1>2. Ended(c)' = Ended(c)
  BY DEF Ended
<1>3. ASSUME NEW k PROVE Steady(c, k)' <=> Steady(c, k)
  BY DEF Steady
<1>4. Own(c) => Own(c)'
  BY DEF Own, CallsOwn
<1>5. Steady(c, Ended(c))' => Own(c)'
  <2> PICK k : k = Ended(c)
    OBVIOUS
  <2>1. Steady(c, Ended(c))' => Steady(c, k)
    BY <1>2, <1>3 DEF Steady
  <2> QED
    BY <1>1, <1>4, <2>1 DEF ImagedAt
<1>6. Completed(c)' => Completed(c)
  BY DEF Completed, State
<1> QED
  BY <1>1, <1>5, <1>6 DEF ImagedAt, Steady, Resumable

\* What a running attempt does to its logs and, through the alias, to the trials
LEMMA ImagedRunning ==
  ASSUME SafeInv, Imaged, NEW w \in Workers, pc[w] \in Running,
         NEW c, c = call[w].campaign, NEW n, n = call[w].number,
         \A v \in Workers : /\ call'[v].campaign = call[v].campaign
                            /\ call'[v].expected = call[v].expected,
         files'[c].manifest = files[c].manifest,
         \A i \in Numbers : i # n => files'[c].logs[i] = files[c].logs[i],
         files'[c].trials \subseteq files[c].trials \cup {Target(w)}
  PROVE  ImagedAt(c)'
<1> PICK k : k = Len(files[c].manifest.attempts)
  OBVIOUS
<1>1. /\ c \in Campaigns /\ files[c] # None /\ ~Completed(c)
      /\ Ended(c) = k - 1
      /\ \A i \in 1..(k - 1) : files[c].manifest.attempts[i] \in Numbers \ {n}
  BY RunningFacts
<1>2. ~Completed(c)'
  BY <1>1 DEF Completed, State
<1>3. Ended(c)' = k - 1
  BY <1>1 DEF Ended
<1>4. Steady(c, k - 1)' => Steady(c, k - 1)
  <2> PICK a : a = files[c].manifest.attempts
    OBVIOUS
  <2>1. \A i \in 1..(k - 1) : files'[c].logs[a[i]] = files[c].logs[a[i]]
    BY <1>1
  <2>2. files'[c].manifest.attempts = a
    OBVIOUS
  <2>3. ASSUME c \in Controls, Steady(c, k - 1)', NEW i \in 1..(k - 1)
        PROVE  files[c].logs[a[i]] = "grown"
    <3>1. files'[c].logs[files'[c].manifest.attempts[i]] = "grown"
      BY <2>3 DEF Steady
    <3> QED
      BY <2>1, <2>2, <3>1
  <2> QED
    BY <2>3 DEF Steady
<1>5. Steady(c, Ended(c))' => Own(c)
  BY <1>1, <1>3, <1>4 DEF Imaged, ImagedAt, Steady
<1>6. Own(c) => Target(w) = c
  BY <1>1 DEF Own, Target
<1>7. Own(c) => Own(c)'
  BY <1>6 DEF Own
<1> QED
  BY <1>2, <1>5, <1>7 DEF ImagedAt

\* A worker's step leaves the images of the others alone.
LEMMA ImagingOthers ==
  ASSUME SafeInv, Tracked, Imaged, NEW w \in Workers, NEW c \in Campaigns,
         Frame(w, c), pc[w] # "wait", clock[c] \in {None, w} \/ files' = files,
         call'[w].campaign \in {c, None}, pc'[w] = "idle" => call'[w] = NoCall,
         \A p \in up' \ up : Building(p)',
         ImagingAt(w)', ImagedAt(c)'
  PROVE  Imaged'
<1>1. \A v \in Workers : pc'[v] = "idle" => call'[v] = NoCall
  BY DEF Frame, Imaged
<1>2. ASSUME NEW p \in up' PROVE Building(p)'
  <2>1. CASE p \notin up
    BY <2>1
  <2>2. CASE p \in up
    <3> PICK v, d : v = p.owner /\ d = p.campaign
      OBVIOUS
    <3>1. /\ v \in Workers /\ pc[v] = "wait" /\ clock[d] = v /\ d \in Campaigns
          /\ v # None
      BY <2>2, OneBuild, NullApart
    <3>2. v # w /\ files'[d] = files[d] /\ call'[v] = call[v] /\ alias' = alias
      BY <3>1 DEF Frame
    <3>3. Building(p)
      BY <2>2 DEF Imaged
    <3> QED
      BY <3>2, <3>3 DEF Building, Target
  <2> QED
    BY <2>1, <2>2
<1>3. ASSUME NEW v \in Workers, v # w PROVE ImagingAt(v)'
  <2> PICK d : d = call[v].campaign
    OBVIOUS
  <2>1. pc'[v] = pc[v] /\ call'[v] = call[v] /\ ImagingAt(v)
    BY <1>3 DEF Frame, Imaged
  <2>2. CASE pc[v] \in Locked
    <3>1. d \in Campaigns /\ clock[d] = v /\ v # None
      BY <2>2, NullApart DEF SafeInv, Holding, Locked
    <3>2. files'[d] = files[d] /\ snapshot' = snapshot /\ alias' = alias
      BY <1>3, <3>1 DEF Frame
    <3>3. ASSUME NEW k PROVE Steady(d, k)' <=> Steady(d, k)
      BY <3>2 DEF Steady
    <3>4. Target(v)' = Target(v)
      BY <2>1 DEF Target
    <3> PICK k : k = Len(files[d].manifest.attempts)
      OBVIOUS
    <3>5. k = Len(files'[d].manifest.attempts)
      BY <3>2
    <3>6. /\ Steady(d, k)' <=> Steady(d, k)
          /\ Steady(d, k - 1)' <=> Steady(d, k - 1)
      BY <3>3
    <3>7. CASE pc[v] = "after"
      BY <2>1, <3>2, <3>4, <3>7 DEF ImagingAt
    <3>8. CASE pc[v] = "ingest"
      BY <2>1, <3>2, <3>5, <3>6, <3>8 DEF ImagingAt, Resumable
    <3>9. CASE pc[v] = "finish"
      BY <2>1, <3>2, <3>5, <3>6, <3>9 DEF ImagingAt, Resumable
    <3> QED
      BY <2>1, <3>7, <3>8, <3>9 DEF ImagingAt
  <2>3. CASE pc[v] \notin Locked
    BY <2>1, <2>3 DEF ImagingAt, Locked
  <2> QED
    BY <2>2, <2>3
<1>4. ASSUME NEW d \in Campaigns, d # c PROVE ImagedAt(d)'
  <2>1. files'[d] = files[d] /\ snapshot' = snapshot /\ ImagedAt(d)
    BY <1>4 DEF Frame, Imaged
  <2>2. Own(d) => Own(d)'
    <3>1. \A v \in Workers : call'[v].campaign = d => call'[v] = call[v]
      BY <1>4, NullApart DEF Frame
    <3> QED
      BY <2>1, <3>1 DEF Own
  <2> QED
    BY <2>1, <2>2 DEF ImagedAt, Steady, Ended, Completed, State, Resumable
<1> QED
  BY <1>1, <1>2, <1>3, <1>4 DEF Imaged

LEMMA ImagingPrepare ==
  ASSUME SafeInv, SafeInv', Tracked, Imaged, NEW w \in Workers, NEW c \in Campaigns,
         PrepareFresh(w, c) \/ PrepareAgain(w, c) \/ ExportVerify(w, c)
  PROVE  Imaged'
<1>1. Frame(w, c) /\ up' = up
  BY FramePrepare DEF SafeInv
<1>2. pc[w] = "idle" /\ call[w] = NoCall
  BY DEF PrepareFresh, PrepareAgain, ExportVerify, Imaged
<1>3. /\ clock[c] = None \/ files' = files
      /\ pc'[w] \notin {"idle", "after", "ingest", "finish"}
      /\ call'[w].campaign = c /\ call'[w].expected = None
  <2>1. CASE PrepareFresh(w, c)
    BY <1>2, <2>1 DEF PrepareFresh, Goto, SafeInv, Types, NoCall
  <2>2. CASE PrepareAgain(w, c)
    BY <1>2, <2>2 DEF PrepareAgain, Goto, SafeInv, Types, NoCall
  <2>3. CASE ExportVerify(w, c)
    BY <1>2, <2>3 DEF ExportVerify, Goto, SafeInv, Types, NoCall, disk
  <2> QED
    BY <2>1, <2>2, <2>3
<1>4. ImagingAt(w)'
  BY <1>3 DEF ImagingAt
<1>5. ImagedAt(c)'
  <2>1. CASE PrepareFresh(w, c)
    <3>1. files[c] = None /\ files'[c] = NewRoot
      BY <2>1 DEF PrepareFresh, SafeInv, Types
    <3>2. \A v \in Workers : v # w => call[v].campaign # c
      BY <3>1, NullApart DEF SafeInv, Holding, Imaged, NoCall
    <3>3. \A v \in Workers : call'[v].campaign = c => call'[v].expected = None
      BY <1>1, <1>3, <3>2 DEF Frame
    <3>4. Own(c)' /\ ~Completed(c)'
      BY <3>1, <3>3 DEF Own, NewRoot, Completed, State
    <3> QED
      BY <3>4 DEF ImagedAt
  <2>2. CASE PrepareAgain(w, c) \/ ExportVerify(w, c)
    <3>1. files[c] # None /\ files[c] \in RunRoot
      BY <2>2 DEF PrepareAgain, ExportVerify, SafeInv, Types
    <3>2. \/ files' = files
          \/ files' = [files EXCEPT ![c].binding = TRUE] /\ ~Completed(c)
      BY <2>2 DEF PrepareAgain, ExportVerify, disk, Bound, Completed
    <3>3. /\ files'[c].manifest = files[c].manifest
          /\ files'[c].trials = files[c].trials /\ files'[c].logs = files[c].logs
          /\ Completed(c) => files'[c] = files[c]
      BY <3>1, <3>2 DEF SafeInv, Types, RunRoot
    <3>4. CallsOwn(c)
      BY <1>1, <1>3 DEF CallsOwn, Frame
    <3> QED
      BY <1>1, <3>1, <3>3, <3>4, ImagedKept DEF Frame
  <2> QED
    BY <2>1, <2>2
<1> QED
  BY <1>1, <1>2, <1>3, <1>4, <1>5, ImagingOthers

LEMMA ImagingCommand ==
  ASSUME SafeInv, SafeInv', Tracked, Imaged, NEW w \in Workers,
         \/ PrepareLedger(w) \/ ChooseCommand(w) \/ Abandon(w)
         \/ Execute(w) \/ ExecuteCompleted(w) \/ TakeAlias(w) \/ AliasRefused(w)
         \/ BindLedger(w) \/ Seal(w) \/ ExportLoad(w) \/ ExportPublish(w)
  PROVE  Imaged'
<1> PICK c : c = call[w].campaign
  OBVIOUS
<1>0. /\ c \in Campaigns /\ pc[w] \notin {"idle", "wait"} /\ w # None
      /\ files[c] \in RunRoot /\ files[c] # None /\ call[w] \in Call
  <2>1. pc[w] \notin {"idle", "wait"}
    BY DEF PrepareLedger, ChooseCommand, Abandon, Execute, ExecuteCompleted,
       TakeAlias, AliasRefused, BindLedger, Seal, ExportLoad, ExportPublish
  <2> QED
    BY <2>1, NullApart DEF SafeInv, Holding, Types
<1>1. Frame(w, c)
  BY FrameStep DEF SafeInv, Step
<1>2. /\ up' = up
      /\ clock[c] \in {None, w} \/ files' = files
  <2>1. CASE Execute(w)
    BY <1>0, <2>1 DEF Execute, host
  <2>2. CASE \/ PrepareLedger(w) \/ ChooseCommand(w) \/ Abandon(w)
             \/ ExecuteCompleted(w) \/ TakeAlias(w) \/ AliasRefused(w)
             \/ BindLedger(w) \/ Seal(w) \/ ExportLoad(w) \/ ExportPublish(w)
    BY <2>2 DEF PrepareLedger, ChooseCommand, Abandon, ExecuteCompleted, TakeAlias,
       AliasRefused, BindLedger, Seal, ExportLoad, ExportPublish, disk, host
  <2> QED
    BY <2>1, <2>2
<1>3. \/ pc'[w] = "idle" /\ call'[w] = NoCall
      \/ /\ pc'[w] \notin {"idle", "after", "ingest", "finish"}
         /\ call'[w].campaign = c
         /\ call'[w].expected \in {call[w].expected, files[c].manifest.image}
  <2>1. CASE \/ Abandon(w) \/ ExecuteCompleted(w) \/ AliasRefused(w) \/ Seal(w)
             \/ ExportPublish(w)
    BY <2>1 DEF Abandon, ExecuteCompleted, AliasRefused, Seal, ExportPublish, Leave,
       Goto, SafeInv, Types
  <2>2. CASE \/ PrepareLedger(w) \/ Execute(w) \/ BindLedger(w) \/ ExportLoad(w)
    BY <1>0, <2>2 DEF PrepareLedger, Execute, BindLedger, ExportLoad, Goto, SafeInv,
       Types
  <2>3. CASE TakeAlias(w)
    <3>1. \E m : call' = [call EXCEPT ![w].number = m]
      BY <2>3 DEF TakeAlias
    <3> QED
      BY <1>0, <2>3, <3>1 DEF TakeAlias, Goto, SafeInv, Types, Call
  <2>4. CASE ChooseCommand(w)
    BY <1>0, <2>4 DEF ChooseCommand, Goto, SafeInv, Types, Call
  <2> QED
    BY <2>1, <2>2, <2>3, <2>4
<1>4. ImagingAt(w)'
  BY <1>3 DEF ImagingAt
<1>5. /\ files'[c].manifest = files[c].manifest
      /\ files'[c].trials = files[c].trials /\ files'[c].logs = files[c].logs
      /\ Completed(c) => files'[c] = files[c]
  <2>1. \/ files' = files
        \/ files' = [files EXCEPT ![c].binding = TRUE] /\ ~Completed(c)
    <3>1. CASE Execute(w)
      BY <1>0, <3>1 DEF Execute, Bound, Runnable, Completed
    <3>2. CASE \/ PrepareLedger(w) \/ ChooseCommand(w) \/ Abandon(w)
               \/ ExecuteCompleted(w) \/ TakeAlias(w) \/ AliasRefused(w)
               \/ BindLedger(w) \/ Seal(w) \/ ExportLoad(w) \/ ExportPublish(w)
      BY <3>2 DEF PrepareLedger, ChooseCommand, Abandon, ExecuteCompleted, TakeAlias,
         AliasRefused, BindLedger, Seal, ExportLoad, ExportPublish, disk
    <3> QED
      BY <3>1, <3>2
  <2> QED
    BY <1>0, <2>1 DEF SafeInv, Types, RunRoot
<1>6. CallsOwn(c)
  BY <1>0, <1>1, <1>3, NullApart DEF CallsOwn, Frame, NoCall
<1>7. ImagedAt(c)'
  BY <1>0, <1>1, <1>5, <1>6, ImagedKept DEF Frame
<1>8. /\ call'[w].campaign \in {c, None}
      /\ pc'[w] = "idle" => call'[w] = NoCall
  BY <1>3 DEF NoCall
<1>9. \A p \in up' \ up : Building(p)'
  BY <1>2
<1> QED
  BY <1>0, <1>1, <1>2, <1>4, <1>7, <1>8, <1>9, ImagingOthers

\* A new attempt: those before it are the ones that had ended.
LEMMA ImagingAnnounce ==
  ASSUME SafeInv, SafeInv', Tracked, Imaged, NEW w \in Workers, Announce(w)
  PROVE  Imaged'
<1> PICK c, n : c = call[w].campaign /\ n = call[w].number
  OBVIOUS
<1>0. /\ pc[w] = "announce" /\ c \in Campaigns /\ w # None /\ call[w] \in Call
      /\ files[c] \in RunRoot /\ files[c] # None /\ clock[c] = w
  BY NullApart DEF Announce, SafeInv, Types, Holding, Locked
<1>1. Frame(w, c)
  BY FrameStep DEF SafeInv, Step
<1>2. /\ pc'[w] = "ledger" /\ up' = up
      /\ files' = [files EXCEPT ![c].manifest = Announced(files[c].manifest, n)]
      /\ call' = [call EXCEPT ![w].manifest = Announced(files[c].manifest, n)]
  BY DEF Announce, Goto, SafeInv, Types, host
<1> PICK a, k : a = files[c].manifest.attempts /\ k = Len(a)
  OBVIOUS
<1>3. a \in Seq(Numbers) /\ n \in Numbers /\ k \in Nat
  <2>1. n \in dirs[c]
    BY <1>0 DEF SafeInv, Numbering, NumberingAt
  <2> QED
    BY <1>0, <2>1 DEF RunRoot, Manifest, SafeInv, Types
<1>4. /\ files'[c].manifest.attempts = Append(a, n)
      /\ files'[c].manifest.state = "running"
      /\ files'[c].manifest.image = files[c].manifest.image
      /\ files'[c].trials = files[c].trials /\ files'[c].logs = files[c].logs
  BY <1>0, <1>2 DEF SafeInv, Types, RunRoot, Manifest, Announced
<1>5. call'[w].campaign = c /\ call'[w].expected = call[w].expected
  BY <1>0, <1>2 DEF SafeInv, Types, Call
<1>6. Ended(c) = k /\ Ended(c)' = k
  <2>1. State(c) # "running"
    BY <1>0 DEF Tracked, TrackingAt
  <2>2. Len(Append(a, n)) = k + 1 /\ (k + 1) - 1 = k
    BY <1>3
  <2>3. Ended(c) = k
    BY <2>1 DEF Ended, State
  <2>4. Ended(c)' = Len(Append(a, n)) - 1
    BY <1>4 DEF Ended
  <2> QED
    BY <2>2, <2>3, <2>4
<1>7. Steady(c, k)' => Steady(c, k)
  <2>1. \A i \in 1..k : Append(a, n)[i] = a[i]
    BY <1>3
  <2>2. ASSUME c \in Controls, Steady(c, k)', NEW i \in 1..k
        PROVE  files[c].logs[a[i]] = "grown"
    <3>1. files'[c].logs[files'[c].manifest.attempts[i]] = "grown"
      BY <2>2 DEF Steady
    <3>2. files'[c].manifest.attempts[i] = a[i]
      BY <1>4, <2>1
    <3> QED
      BY <1>4, <3>1, <3>2
  <2> QED
    BY <2>2 DEF Steady
<1>8. Own(c) => Own(c)'
  BY <1>1, <1>4, <1>5 DEF Own, Frame
<1>9. ImagedAt(c)'
  <2>1. Steady(c, Ended(c))' => Own(c)'
    BY <1>0, <1>6, <1>7, <1>8 DEF Imaged, ImagedAt, Steady
  <2>2. ~Completed(c)'
    BY <1>4 DEF Completed, State
  <2> QED
    BY <2>1, <2>2 DEF ImagedAt
<1> QED
  BY <1>0, <1>1, <1>2, <1>5, <1>9, ImagingOthers DEF ImagingAt

\* An attempt that has ended: what its call found out is recorded.
LEMMA ImagingFinish ==
  ASSUME SafeInv, SafeInv', Tracked, Imaged, NEW w \in Workers, Finish(w)
  PROVE  Imaged'
<1> PICK c, m : c = call[w].campaign /\ m = call[w].manifest
  OBVIOUS
<1> PICK n, k : n = call[w].number /\ k = Len(files[c].manifest.attempts)
  OBVIOUS
<1>0. /\ pc[w] = "finish" /\ pc[w] \in Running /\ pc'[w] = "seal" /\ up' = up
      /\ call' = call
      /\ files' = [files EXCEPT ![c].manifest = m]
  BY DEF Finish, Running, Goto, SafeInv, Types, host
<1>1. Frame(w, c)
  BY FrameStep DEF SafeInv, Step
<1>2. /\ c \in Campaigns /\ files[c] \in RunRoot /\ files[c] # None
      /\ clock[c] = w /\ k \in Nat \ {0} /\ Ended(c) = k - 1 /\ m \in Manifest
  BY <1>0, RunningFacts
<1>3. /\ m.attempts = files[c].manifest.attempts
      /\ m.state \in {"failed", "completed"}
  BY <1>0 DEF SafeInv, Numbering, NumberingAt
<1>4. /\ files'[c].manifest = m
      /\ files'[c].trials = files[c].trials /\ files'[c].logs = files[c].logs
      /\ files'[c].binding = files[c].binding /\ files'[c].config = files[c].config
  BY <1>0, <1>2 DEF SafeInv, Types, RunRoot
<1>5. ASSUME NEW j PROVE Steady(c, j)' <=> Steady(c, j)
  BY <1>3, <1>4 DEF Steady
<1>6. Ended(c)' = k /\ Len(files'[c].manifest.attempts) = k
  BY <1>3, <1>4 DEF Ended
<1>7. Steady(c, k) => Steady(c, k - 1)
  BY <1>2, SteadyShorter
<1>8. Steady(c, k - 1) => Own(c)
  BY <1>2 DEF Imaged, ImagedAt, Steady
<1>9. /\ Steady(c, k) => m.image \in {None, c}
      /\ m.state = "completed" =>
           /\ snapshot[c] /\ (files[c].binding => Resumable(c))
           /\ Steady(c, k - 1) => m.image = c
  BY <1>0 DEF Imaged, ImagingAt
<1>10. ImagedAt(c)'
  <2>1. Steady(c, k)' => Own(c)'
    BY <1>0, <1>4, <1>5, <1>7, <1>8, <1>9 DEF Own
  <2>2. Completed(c)' =>
          /\ snapshot'[c] /\ (files'[c].binding => Resumable(c)')
          /\ Steady(c, k - 1)' =>
               files'[c].manifest.image = c /\ files'[c].trials \subseteq {c}
    <3>1. Steady(c, k - 1)' => Steady(c, k - 1)
      BY <1>5
    <3> QED
      BY <1>1, <1>4, <1>8, <1>9, <3>1 DEF Completed, State, Resumable, Own, Frame
  <2>3. Steady(c, Ended(c))' => Own(c)'
    BY <1>6, <2>1 DEF Steady
  <2>4. Steady(c, Len(files[c].manifest.attempts) - 1)' => Steady(c, k - 1)'
    BY <1>6 DEF Steady
  <2> QED
    BY <2>2, <2>3, <2>4 DEF ImagedAt
<1>11. pc'[w] # "idle" /\ call'[w].campaign = c /\ ImagingAt(w)'
  BY <1>0 DEF ImagingAt
<1> QED
  BY <1>0, <1>1, <1>2, <1>10, <1>11, ImagingOthers

\* A call that ends its attempt early records the image that was recorded.
LEMMA RefusedImage ==
  ASSUME SafeInv, Imaged, NEW w \in Workers, pc[w] \in {"start", "after"},
         pc'[w] = "finish", NEW c, c = call[w].campaign, NEW n, n = call[w].number,
         call'[w].campaign = c,
         call'[w].manifest = [call[w].manifest EXCEPT !.state = "failed"],
         files'[c].manifest = files[c].manifest,
         \A i \in Numbers : i # n => files'[c].logs[i] = files[c].logs[i]
  PROVE  ImagingAt(w)'
<1> PICK k : k = Len(files[c].manifest.attempts)
  OBVIOUS
<1>0. pc[w] \in Running
  BY DEF Running
<1>1. /\ c \in Campaigns /\ files[c] # None /\ call[w].manifest \in Manifest
      /\ Ended(c) = k - 1 /\ k \in Nat \ {0}
      /\ \A i \in 1..(k - 1) : files[c].manifest.attempts[i] \in Numbers \ {n}
  BY <1>0, RunningFacts
<1>2. Steady(c, k)' => Steady(c, k - 1)
  <2>1. ASSUME c \in Controls, Steady(c, k)', NEW i \in 1..(k - 1)
        PROVE  files[c].logs[files[c].manifest.attempts[i]] = "grown"
    <3>1. i \in 1..k
      BY <1>1
    <3>2. files'[c].logs[files'[c].manifest.attempts[i]] = "grown"
      BY <2>1, <3>1 DEF Steady
    <3> QED
      BY <1>1, <3>2
  <2> QED
    BY <2>1 DEF Steady
<1>3. Steady(c, k - 1) => files[c].manifest.image \in {None, c}
  BY <1>1 DEF Imaged, ImagedAt, Own, Steady
<1>4. call[w].manifest = files[c].manifest
  BY DEF SafeInv, Numbering, NumberingAt
<1>5. /\ call'[w].manifest.image = files[c].manifest.image
      /\ call'[w].manifest.state = "failed"
  BY <1>1, <1>4 DEF Manifest
<1>6. Steady(c, k)' => call'[w].manifest.image \in {None, c}
  BY <1>2, <1>3, <1>5
<1> QED
  BY <1>5, <1>6, ZenonT(60) DEF ImagingAt, Steady

LEMMA ImagingAttempt ==
  ASSUME SafeInv, SafeInv', Tracked, Imaged, NEW w \in Workers,
         Start(w) \/ StartFails(w) \/ AfterRefused(w) \/ After(w) \/ Ingest(w)
  PROVE  Imaged'
<1> PICK c, n, k : /\ c = call[w].campaign /\ n = call[w].number
                   /\ k = Len(files[c].manifest.attempts)
  OBVIOUS
<1>0. pc[w] \in {"start", "after", "ingest"} /\ pc[w] \in Running
  BY DEF Start, StartFails, AfterRefused, After, Ingest, Running
<1>1. Frame(w, c)
  BY FrameStep DEF SafeInv, Step
<1>2. /\ c \in Campaigns /\ files[c] \in RunRoot /\ files[c] # None
      /\ call[w] \in Call /\ call[w].manifest \in Manifest
      /\ clock[c] = w /\ w # None /\ n \in Numbers
      /\ ~Completed(c) /\ k \in Nat \ {0} /\ Ended(c) = k - 1
      /\ files[c].manifest.attempts[k] = n
  BY <1>0, RunningFacts
<1>3. ImagingAt(w) /\ NumberingAt(w)
  BY DEF Imaged, SafeInv, Numbering
<1> SUFFICES /\ call'[w].campaign = c /\ call'[w].expected = call[w].expected
             /\ files'[c].manifest = files[c].manifest
             /\ files'[c].trials = files[c].trials
             /\ \A i \in Numbers : i # n => files'[c].logs[i] = files[c].logs[i]
             /\ \A p \in up' \ up : Building(p)'
             /\ pc'[w] # "idle" /\ ImagingAt(w)'
  <2>1. \A v \in Workers : /\ call'[v].campaign = call[v].campaign
                           /\ call'[v].expected = call[v].expected
    BY <1>1 DEF Frame
  <2>2. ImagedAt(c)'
    BY <1>0, <2>1, ImagedRunning
  <2> QED
    BY <1>0, <1>1, <1>2, <2>2, ImagingOthers
<1>a. CASE Start(w)
  <2> DEFINE q == [campaign |-> c, number |-> n, resume |-> call[w].resume,
                   expected |-> call[w].expected, owner |-> w, phase |-> "started"]
  <2>1. /\ files' = [files EXCEPT ![c].logs[n] = "open"] /\ up' = up \cup {q}
        /\ call' = call /\ pc'[w] = "wait"
    BY <1>a DEF Start, Goto, SafeInv, Types
  <2>2. /\ files'[c].manifest = files[c].manifest
        /\ files'[c].trials = files[c].trials
        /\ files'[c].logs[n] = "open"
        /\ \A i \in Numbers : i # n => files'[c].logs[i] = files[c].logs[i]
    BY <1>2, <2>1 DEF SafeInv, Types, RunRoot
  <2>3. Building(q)'
    BY <2>1, <2>2 DEF Building
  <2> QED
    BY <2>1, <2>2, <2>3 DEF ImagingAt
<1>b. CASE StartFails(w) \/ AfterRefused(w)
  <2>1. /\ up' = up /\ pc'[w] = "finish" /\ pc[w] \in {"start", "after"}
        /\ call' = [call EXCEPT ![w].manifest.state = "failed"]
    BY <1>b DEF StartFails, AfterRefused, Goto, host, SafeInv, Types
  <2>2. /\ call'[w].campaign = c /\ call'[w].expected = call[w].expected
        /\ call'[w].manifest = [call[w].manifest EXCEPT !.state = "failed"]
    BY <1>2, <2>1 DEF SafeInv, Types, Call
  <2>3. /\ files'[c].manifest = files[c].manifest
        /\ files'[c].trials = files[c].trials
        /\ \A i \in Numbers : i # n => files'[c].logs[i] = files[c].logs[i]
    <3>1. CASE StartFails(w)
      <4>1. files'[c] = [files[c] EXCEPT !.receipts[n] = "bad", !.logs[n] = "open"]
        BY <1>2, <3>1 DEF StartFails, Receipted, SafeInv, Types
      <4> QED
        BY <1>2, <4>1 DEF RunRoot
    <3>2. CASE AfterRefused(w)
      BY <1>2, <3>2 DEF AfterRefused, Receipted, SafeInv, Types, RunRoot
    <3> QED
      BY <1>b, <3>1, <3>2
  <2>4. ImagingAt(w)'
    BY <2>1, <2>2, <2>3, RefusedImage
  <2> QED
    BY <2>1, <2>2, <2>3, <2>4
<1>c. CASE After(w)
  <2>1. PICK image \in Image, good \in BOOLEAN :
          /\ image \in IF c \in Controls THEN {None, alias} ELSE {None, c}
          /\ good => image # None /\ image = alias /\ call[w].code = "ok"
          /\ pc' = [pc EXCEPT ![w] = IF good THEN "ingest" ELSE "finish"]
          /\ files' = [files EXCEPT ![c] =
               [files[c] EXCEPT !.receipts[n] = IF good THEN "ok" ELSE "bad"]]
          /\ call'[w].campaign = c /\ call'[w].expected = call[w].expected
          /\ call'[w].manifest.image = image
          /\ call'[w].manifest.state =
               IF good THEN call[w].manifest.state ELSE "failed"
    BY <1>c, AfterEffect DEF SafeInv
  <2>2. /\ pc[w] = "after" /\ up' = up /\ snapshot' = snapshot /\ Trusted(w)
        /\ pc'[w] = IF good THEN "ingest" ELSE "finish"
    BY <1>c, <2>1 DEF After, host, SafeInv, Types
  <2>3. /\ files'[c].manifest = files[c].manifest
        /\ files'[c].trials = files[c].trials /\ files'[c].logs = files[c].logs
        /\ files'[c].binding = files[c].binding
        /\ files'[c].config = files[c].config
    BY <1>2, <2>1 DEF SafeInv, Types, RunRoot
  <2>4. ASSUME NEW j PROVE Steady(c, j)' <=> Steady(c, j)
    BY <2>3 DEF Steady
  <2>5. Steady(c, k - 1) => Target(w) = c
    <3>1. Steady(c, k - 1) => Own(c)
      BY <1>2 DEF Imaged, ImagedAt
    <3>2. Own(c) => Target(w) = c
      BY <1>c DEF Own, Target
    <3> QED
      BY <3>1, <3>2
  <2>a. /\ call'[w].campaign = c /\ call'[w].manifest.image = image
        /\ Len(files'[c].manifest.attempts) = k
    BY <2>1, <2>3
  <2>6. CASE good
    <3>1. snapshot[c] /\ (files[c].binding => Resumable(c))
      BY <1>3, <2>2 DEF Trusted, SnapshotIntact, Verified, Resumable, NumberingAt,
         Running
    <3>2. Steady(c, k - 1) => image = c
      BY <1>3, <2>1, <2>2, <2>5, <2>6 DEF ImagingAt
    <3>3. Steady(c, k - 1)' => image = c
      BY <2>4, <3>2
    <3>4. ImagingAt(w)'
      BY <2>a, <2>2, <2>3, <2>6, <3>1, <3>3 DEF ImagingAt, Resumable, Steady
    <3> QED
      BY <2>1, <2>2, <2>3, <2>6, <3>4
  <2>7. CASE ~good
    <3>1. Steady(c, k) => image \in {None, c}
      <4>1. CASE c \notin Controls
        BY <2>1, <4>1
      <4>2. CASE c \in Controls
        <5>1. Steady(c, k) => files[c].logs[n] = "grown"
          <6>1. k \in 1..k /\ files[c].logs[files[c].manifest.attempts[k]] = files[c].logs[n]
            BY <1>2
          <6> QED
            BY <4>2, <6>1, Zenon DEF Steady
        <5>2. Steady(c, k) => alias = c
          BY <1>2, <1>3, <2>2, <2>5, <5>1, SteadyShorter DEF ImagingAt
        <5> QED
          BY <2>1, <4>2, <5>2
      <4> QED
        BY <4>1, <4>2
    <3>2. Steady(c, k)' => image \in {None, c}
      BY <2>4, <3>1
    <3>3. ImagingAt(w)'
      <4>1. call'[w].manifest.state = "failed"
        BY <2>1, <2>7
      <4> QED
        BY <2>a, <2>2, <2>7, <3>2, <4>1 DEF ImagingAt, Steady
    <3> QED
      BY <2>1, <2>2, <2>3, <2>7, <3>3
  <2> QED
    BY <2>6, <2>7
<1>d. CASE Ingest(w)
  <2>1. PICK s \in {"completed", "failed"}, b \in BOOLEAN :
          /\ files' = [files EXCEPT ![c].normalized = b]
          /\ call' = [call EXCEPT ![w].manifest.state = s]
    <3>1. (files[c].normalized \/ AllResults(c)) \in BOOLEAN
      BY <1>2 DEF RunRoot
    <3>2. files' = [files EXCEPT ![c].normalized =
                      (files[c].normalized \/ AllResults(c))]
      BY <1>2, <1>d DEF Ingest, SafeInv, Types
    <3> QED
      BY <1>d, <3>1, <3>2 DEF Ingest
  <2>2. /\ pc[w] = "ingest" /\ pc'[w] = "finish" /\ up' = up /\ snapshot' = snapshot
    BY <1>d DEF Ingest, Goto, host, SafeInv, Types
  <2>3. /\ files'[c].manifest = files[c].manifest
        /\ files'[c].trials = files[c].trials /\ files'[c].logs = files[c].logs
        /\ files'[c].binding = files[c].binding
        /\ files'[c].config = files[c].config
    BY <1>2, <2>1 DEF SafeInv, Types, RunRoot
  <2>4. /\ call'[w].campaign = c /\ call'[w].expected = call[w].expected
        /\ call'[w].manifest.image = call[w].manifest.image
    BY <1>2, <2>1 DEF SafeInv, Types, Call, Manifest
  <2>5. ASSUME NEW j PROVE Steady(c, j)' <=> Steady(c, j)
    BY <2>3 DEF Steady
  <2>6. /\ snapshot[c] /\ (files[c].binding => Resumable(c))
        /\ Steady(c, k - 1) => call[w].manifest.image = c
    BY <1>3, <2>2 DEF ImagingAt
  <2>7. /\ Steady(c, k - 1)' => call'[w].manifest.image = c
        /\ Steady(c, k)' => call'[w].manifest.image = c
    BY <1>2, <2>4, <2>5, <2>6, SteadyShorter
  <2>8. ImagingAt(w)'
    BY <2>2, <2>3, <2>4, <2>6, <2>7, ZenonT(60) DEF ImagingAt, Resumable, Steady
  <2> QED
    BY <2>2, <2>3, <2>4, <2>8
<1> QED
  BY <1>a, <1>b, <1>c, <1>d

LEMMA ImagingUpstream ==
  ASSUME SafeInv, SafeInv', Tracked, Imaged, NEW p \in up,
         UpBuild(p) \/ UpConfig(p) \/ UpTrial(p) \/ UpExit(p)
  PROVE  Imaged'
<1> PICK c, w, n : c = p.campaign /\ w = p.owner /\ n = p.number
  OBVIOUS
<1>0. /\ p \in Process /\ w \in Workers /\ pc[w] = "wait" /\ w # None
      /\ call[w].campaign = c /\ call[w].number = n
      /\ c \in Campaigns /\ files[c] \in RunRoot /\ n \in Numbers
      /\ clock[c] = w /\ alock = w /\ up = {p} /\ pc[w] \in Running
  BY OneBuild, NullApart DEF Running, Process
<1>1. /\ \A d \in Campaigns : d # c => files'[d] = files[d]
      /\ files'[c].manifest = files[c].manifest
      /\ \A i \in Numbers : i # n => files'[c].logs[i] = files[c].logs[i]
      /\ \A v \in Workers : v # w => pc'[v] = pc[v] /\ call'[v] = call[v]
      /\ \A v \in Workers : /\ call'[v].campaign = call[v].campaign
                            /\ call'[v].expected = call[v].expected
  BY <1>0, UpstreamEffect DEF SafeInv
<1>2. Target(w) = (IF p.expected = None THEN c ELSE p.expected) /\ Target(w)' = Target(w)
  BY <1>0, <1>1 DEF Imaged, Building, Target
<1>3. Building(p) /\ p.expected = call[w].expected
  BY <1>0 DEF Imaged, Building
<1>4. /\ \A q \in up' : Building(q)'
      /\ \/ pc'[w] = "wait"
         \/ /\ pc'[w] = "after"
            /\ call'[w].code = "ok" \/ files'[c].logs[n] = "grown"
                 => alias' = Target(w)
      /\ files'[c].trials \subseteq files[c].trials \cup {Target(w)}
      /\ \A d \in Campaigns : d # c => snapshot'[d] = snapshot[d]
  <2>1. CASE UpBuild(p)
    <3>1. /\ up' = {[p EXCEPT !.phase = "built"]} /\ alias' = Target(w)
          /\ files' = files /\ snapshot' = snapshot /\ pc' = pc /\ call' = call
          /\ p.phase = "started"
      BY <1>0, <1>2, <2>1 DEF UpBuild, Moved, disk
    <3> DEFINE q == [p EXCEPT !.phase = "built"]
    <3>2. /\ q.campaign = c /\ q.number = n /\ q.owner = w /\ q.phase = "built"
          /\ q.expected = p.expected
      BY <1>0 DEF Process
    <3>3. files[c].logs[n] # "grown"
      BY <1>3, <3>1 DEF Building
    <3> HIDE DEF q
    <3>4. Building(q)'
      BY <1>1, <1>2, <1>3, <3>1, <3>2, <3>3 DEF Building
    <3>5. up' = {q}
      BY <3>1 DEF q
    <3> QED
      BY <1>0, <3>1, <3>4, <3>5
  <2>2. CASE UpConfig(p)
    <3>1. /\ up' = {[p EXCEPT !.phase = "configured"]} /\ alias' = alias
          /\ snapshot' = snapshot /\ pc' = pc /\ call' = call /\ p.phase = "built"
      BY <1>0, <2>2 DEF UpConfig, Moved
    <3> DEFINE q == [p EXCEPT !.phase = "configured"]
    <3>2. /\ q.campaign = c /\ q.number = n /\ q.owner = w /\ q.phase = "configured"
          /\ q.expected = p.expected
      BY <1>0 DEF Process
    <3>3. alias = Target(w)
      BY <1>0, <1>3, <3>1 DEF Building
    <3> HIDE DEF q
    <3>4. Building(q)'
      BY <1>1, <1>2, <1>3, <3>1, <3>2, <3>3 DEF Building
    <3>5. up' = {q}
      BY <3>1 DEF q
    <3>6. files'[c].trials = files[c].trials
      BY <1>0, <2>2 DEF UpConfig, SafeInv, Types, RunRoot
    <3> QED
      BY <1>0, <3>1, <3>4, <3>5, <3>6
  <2>3. CASE UpTrial(p)
    <3>1. /\ up' = up /\ alias' = alias /\ snapshot' = snapshot /\ pc' = pc
          /\ call' = call /\ p.phase = "configured"
      BY <2>3 DEF UpTrial, host
    <3>2. PICK r : files' = [files EXCEPT ![c].trials = @ \cup {alias},
                                          ![c].results = r, ![c].logs[n] = "grown"]
      BY <1>0, <2>3 DEF UpTrial
    <3>3. files'[c] = [files[c] EXCEPT !.trials = @ \cup {alias}, !.results = r,
                                       !.logs[n] = "grown"]
      BY <1>0, <3>2 DEF SafeInv, Types
    <3>4. files'[c].trials = files[c].trials \cup {alias}
      BY <1>0, <3>3 DEF RunRoot
    <3>5. alias = Target(w)
      BY <1>0, <1>3, <3>1 DEF Building
    <3>6. Building(p)'
      BY <1>0, <1>1, <1>2, <1>3, <3>1, <3>5 DEF Building
    <3> QED
      BY <1>0, <3>1, <3>4, <3>5, <3>6
  <2>4. CASE UpExit(p)
    <3>1. PICK code \in {"ok", "bad"}, fault \in Faults \cup {"none"} :
            /\ code = "ok" => p.phase = "configured"
            /\ Damage(c, fault)
            /\ pc' = [pc EXCEPT ![w] = "after"]
            /\ call' = [call EXCEPT ![w].code = code]
      BY <1>0, <2>4 DEF UpExit, Goto
    <3>2. up' = {} /\ alias' = alias
      BY <1>0, <2>4 DEF UpExit
    <3>3. /\ pc'[w] = "after" /\ call'[w].code = code
          /\ \A d \in Campaigns : d # c => snapshot'[d] = snapshot[d]
      BY <1>0, <3>1 DEF SafeInv, Types, Call, Damage
    <3>4. files'[c].logs = files[c].logs /\ files'[c].trials = files[c].trials
      <4>1. \E x : files' = [files EXCEPT ![c].config = x]
        BY <1>0, <3>1 DEF Damage, SafeInv, Types
      <4> QED
        BY <1>0, <4>1 DEF SafeInv, Types, RunRoot
    <3>5. code = "ok" \/ files[c].logs[n] = "grown" => alias = Target(w)
      BY <1>0, <1>3, <3>1 DEF Building
    <3> QED
      BY <3>2, <3>3, <3>4, <3>5
  <2> QED
    BY <2>1, <2>2, <2>3, <2>4
<1>5. \A v \in Workers : pc'[v] = "idle" => call'[v] = NoCall
  BY <1>1, <1>4 DEF Imaged
<1>6. ImagingAt(w)'
  <2>1. CASE pc'[w] = "wait"
    BY <2>1 DEF ImagingAt
  <2>2. CASE /\ pc'[w] = "after"
             /\ call'[w].code = "ok" \/ files'[c].logs[n] = "grown"
                  => alias' = Target(w)
    <3>1. call'[w].campaign = c /\ call'[w].number = n
      BY <1>0, UpstreamEffect DEF SafeInv
    <3> QED
      BY <1>2, <2>2, <3>1 DEF ImagingAt
  <2> QED
    BY <1>4, <2>1, <2>2
<1>7. ASSUME NEW v \in Workers, v # w PROVE ImagingAt(v)'
  <2> PICK d, k : d = call[v].campaign /\ k = Len(files[d].manifest.attempts)
    OBVIOUS
  <2>1. pc'[v] = pc[v] /\ call'[v] = call[v] /\ ImagingAt(v)
    BY <1>1, <1>7 DEF Imaged
  <2>2. pc[v] # "after"
    BY <1>0, <1>7 DEF SafeInv, Holding, Aliased
  <2>3. CASE pc[v] \in {"ingest", "finish"}
    <3>1. d \in Campaigns /\ clock[d] = v
      BY <2>3 DEF SafeInv, Holding, Locked
    <3>2. files'[d] = files[d] /\ snapshot'[d] = snapshot[d]
      BY <1>0, <1>1, <1>4, <1>7, <3>1
    <3>3. ASSUME NEW j PROVE Steady(d, j)' <=> Steady(d, j)
      BY <3>2 DEF Steady
    <3>4. /\ k = Len(files'[d].manifest.attempts)
          /\ Steady(d, k)' <=> Steady(d, k)
          /\ Steady(d, k - 1)' <=> Steady(d, k - 1)
      BY <3>2, <3>3
    <3>5. CASE pc[v] = "ingest"
      BY <2>1, <3>2, <3>4, <3>5 DEF ImagingAt, Resumable
    <3>6. CASE pc[v] = "finish"
      BY <2>1, <3>2, <3>4, <3>6 DEF ImagingAt, Resumable
    <3> QED
      BY <2>3, <3>5, <3>6
  <2> QED
    BY <2>1, <2>2, <2>3 DEF ImagingAt
<1>8. ImagedAt(c)'
  BY <1>0, <1>1, <1>4, ImagedRunning
<1>9. ASSUME NEW d \in Campaigns, d # c PROVE ImagedAt(d)'
  <2>1. files'[d] = files[d] /\ snapshot'[d] = snapshot[d] /\ ImagedAt(d)
    BY <1>1, <1>4, <1>9 DEF Imaged
  <2>2. Own(d) => Own(d)'
    BY <1>1, <2>1 DEF Own
  <2> QED
    BY <2>1, <2>2 DEF ImagedAt, Steady, Ended, Completed, State, Resumable
<1> QED
  BY <1>4, <1>5, <1>6, <1>7, <1>8, <1>9 DEF Imaged

LEMMA ImagingStep ==
  ASSUME SafeInv, SafeInv', Tracking, Imaging, [Next]_vars
  PROVE  Imaging'
<1> SUFFICES ASSUME crashes' = 0 PROVE Imaged'
  BY DEF Imaging
<1>1. crashes \in Nat
  BY CampaignAssumption DEF SafeInv, Types
<1>2. CASE UNCHANGED vars
  <2>1. UNCHANGED <<files, snapshot, alias, up, pc, call, crashes>>
    BY <1>2 DEF vars, disk, host
  <2>2. Imaged
    BY <2>1 DEF Imaging
  <2>3. \A p \in up' : Building(p)'
    BY <2>1, <2>2 DEF Imaged, Building, Target
  <2>4. ASSUME NEW w \in Workers PROVE ImagingAt(w)'
    <3>1. ImagingAt(w)
      BY <2>2 DEF Imaged
    <3>2. ASSUME NEW c, NEW k PROVE Steady(c, k)' <=> Steady(c, k)
      BY <2>1 DEF Steady
    <3>3. Target(w)' = Target(w)
      BY <2>1 DEF Target
    <3> QED
      BY <2>1, <3>1, <3>2, <3>3 DEF ImagingAt, Resumable
  <2>5. ASSUME NEW c \in Campaigns PROVE ImagedAt(c)'
    <3>1. ImagedAt(c)
      BY <2>2 DEF Imaged
    <3>2. ASSUME NEW k PROVE Steady(c, k)' <=> Steady(c, k)
      BY <2>1 DEF Steady
    <3>3. (Own(c) => Own(c)') /\ Ended(c)' = Ended(c)
      BY <2>1 DEF Own, Ended
    <3> QED
      BY <2>1, <3>1, <3>2, <3>3 DEF ImagedAt, Completed, State, Resumable
  <2> QED
    BY <2>1, <2>2, <2>3, <2>4, <2>5 DEF Imaged
<1>3. ASSUME NEW w \in Workers, NEW c \in Campaigns,
             PrepareFresh(w, c) \/ PrepareAgain(w, c) \/ ExportVerify(w, c)
      PROVE  Imaged'
  <2>1. crashes' = crashes
    BY <1>3 DEF PrepareFresh, PrepareAgain, ExportVerify
  <2> QED
    BY <1>3, <2>1, ImagingPrepare DEF Tracking, Imaging
<1>4. ASSUME NEW w \in Workers, Step(w) PROVE Imaged'
  <2>1. crashes' = crashes
    BY <1>4 DEF Step, PrepareLedger, ChooseCommand, Abandon, Execute,
       ExecuteCompleted, TakeAlias, AliasRefused, Announce, BindLedger, Start,
       StartFails, AfterRefused, After, Ingest, Finish, Seal, ExportLoad,
       ExportPublish
  <2> QED
    BY <1>4, <2>1, ImagingCommand, ImagingAnnounce, ImagingAttempt, ImagingFinish
       DEF Tracking, Imaging, Step
<1>5. ASSUME NEW w \in Workers, Crash(w) PROVE FALSE
  BY <1>1, <1>5 DEF Crash
<1>6. ASSUME PowerLoss PROVE FALSE
  BY <1>1, <1>6 DEF PowerLoss
<1>7. ASSUME NEW p \in up, UpBuild(p) \/ UpConfig(p) \/ UpTrial(p) \/ UpExit(p)
      PROVE  Imaged'
  <2>1. crashes' = crashes
    BY <1>7, UpstreamEffect DEF SafeInv
  <2> QED
    BY <1>7, <2>1, ImagingUpstream DEF Tracking, Imaging
<1> QED
  BY <1>2, <1>3, <1>4, <1>5, <1>6, <1>7 DEF Next

LEMMA ImagingRuntime == SafeInv /\ Imaging => OneRuntime
<1> SUFFICES ASSUME Imaging, crashes = 0, NEW c \in Campaigns, Completed(c)
             PROVE  /\ Steady(c, Len(files[c].manifest.attempts) - 1) =>
                         files[c].trials \subseteq {files[c].manifest.image}
                    /\ snapshot[c]
                    /\ files[c].binding => Resumable(c)
  BY DEF OneRuntime
<1>1. ImagedAt(c)
  BY DEF Imaging, Imaged
<1> QED
  BY <1>1 DEF ImagedAt

\* However many campaigns share the Docker alias, however often they are run and
\* resumed: as long as no controller was killed, a completed campaign has the
\* snapshot it was prepared with and, once resumed, the planned config, and all
\* its trials ran on the image its manifest records, unless an earlier attempt of
\* a control ended before its first trial.
THEOREM AlwaysOneRuntime == Spec => []OneRuntime
<1>1. Init => Imaging
  BY DEF Init, Imaging, Imaged, ImagingAt, ImagedAt, Completed
<1>2. SafeInv /\ SafeInv' /\ Tracking /\ Imaging /\ [Next]_vars => Imaging'
  BY ImagingStep
<1>3. Spec => []Imaging
  BY <1>1, <1>2, TrackingAlways, PTL DEF Spec
<1> QED
  BY <1>3, TrackingAlways, ImagingRuntime, PTL
=============================================================================
