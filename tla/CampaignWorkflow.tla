--------------------------- MODULE CampaignWorkflow ---------------------------
(***************************************************************************)
(* One-click campaigns: prepare_oragentbench_run and execute_prepared_run  *)
(* (src/orbenchlab/workflow.py) with the ingest they end in                *)
(* (src/orbenchlab/ingest/harbor.py).                                      *)
(*                                                                         *)
(* A campaign owns a run root.  integrity.sha256 binds every file of it;   *)
(* each call verifies that ledger under the campaign lock before it acts   *)
(* and writes it anew after it changed something:                          *)
(*                                                                         *)
(*   prepare: verify -> bind resume config -> ledger -> choose command     *)
(*   execute: verify -> bind -> alias lock -> manifest "running" -> ledger *)
(*            -> upstream -> checks -> receipt -> ingest -> manifest       *)
(*            -> ledger                                                    *)
(*                                                                         *)
(* The upstream process builds through one Docker alias shared by all      *)
(* campaigns of the host and runs in a session of its own, so it survives  *)
(* a crash of its controller.  export_shareable_run (export.py) takes no    *)
(* lock: it reads a completed run root against its ledger and renames a    *)
(* bundle of public documents into place.                                  *)
(*                                                                         *)
(* Data abstraction: a config is semantically the compiled plan or is not; *)
(* the job directory is the images its trials ran on and whether every     *)
(* planned result is there; campaigns have different sources, so a         *)
(* campaign names the image that its source builds.                        *)
(***************************************************************************)
EXTENDS Naturals, Sequences, FiniteSets

CONSTANTS
  Campaigns,    \* campaign ids, one run root each
  Controls,     \* the campaigns that run a built-in control agent
  Workers,      \* processes that run the command line
  MaxAttempts,  \* bound on the attempts of all campaigns together
  MaxCrashes,   \* bound on crashes
  Outages,      \* which crashes happen: "kill", "power"
  Faults,       \* what upstream may do wrong besides failing
  None          \* null value

ASSUME CampaignAssumption ==
  /\ IsFiniteSet(Campaigns) /\ Controls \subseteq Campaigns
  /\ MaxAttempts \in Nat \ {0}
  /\ MaxCrashes \in Nat
  /\ Outages \subseteq {"kill", "power"}
  /\ Faults \subseteq {"config", "snapshot"}
  /\ None \notin Campaigns \cup Workers

VARIABLES
  files,     \* the files of each run root, None before it exists
  ledger,    \* integrity.sha256: the files as they were last hashed
  dirs,      \* attempt directories under logs/
  clock,     \* holder of each campaign's lock
  alock,     \* holder of the Docker alias lock
  alias,     \* image behind the fixed alias
  snapshot,  \* whether each execution snapshot still has its digest
  up,        \* live upstream processes
  share,     \* the share bundle at each campaign's destination, None before
  pc,        \* control point of each worker
  call,      \* what each worker's call works on
  crashes    \* history: crashes

disk == <<files, ledger, dirs>>
host == <<alias, snapshot, up, share>>
locks == <<clock, alock>>
vars == <<disk, host, locks, pc, call, crashes>>

(***************************************************************************)
(* Types                                                                   *)
(***************************************************************************)
Numbers == 1..MaxAttempts
Image   == Campaigns \cup {None}
PC == {"idle", "bound", "command", "ready", "alias", "announce", "ledger",
       "start", "wait", "after", "ingest", "finish", "seal", "load", "publish"}

Manifest ==
  [state : {"prepared", "running", "failed", "completed"},
   attempts : Seq(Numbers), image : Image, matches : BOOLEAN]
RunRoot ==
  [manifest : Manifest, binding : BOOLEAN,
   config : {"none", "planned", "changed"}, trials : SUBSET Image,
   results : {"partial", "complete"}, normalized : BOOLEAN,
   logs : [Numbers -> {"none", "open", "grown"}],
   receipts : [Numbers -> {"none", "ok", "bad"}]]
Process ==
  [campaign : Campaigns, number : Numbers, resume : BOOLEAN, expected : Image,
   owner : Workers \cup {None}, phase : {"started", "built", "configured"}]
Call ==
  [campaign : Image, resume : BOOLEAN, expected : Image,
   number : {0} \cup Numbers, code : {"none", "ok", "bad"},
   manifest : Manifest \cup {None}]

\* What a share bundle says of its campaign
Bundle == [state : {"completed"}, image : Image, matches : BOOLEAN]

\* The null value is not a file.
ASSUME NoneAssumption == None \notin RunRoot \cup Manifest \cup Bundle

NoCall ==
  [campaign |-> None, resume |-> FALSE, expected |-> None, number |-> 0,
   code |-> "none", manifest |-> None]

\* What prepare renames into place for a new campaign
NewRoot ==
  [manifest |-> [state |-> "prepared", attempts |-> <<>>, image |-> None,
                 matches |-> FALSE],
   binding |-> FALSE, config |-> "none", trials |-> {}, results |-> "partial",
   normalized |-> FALSE, logs |-> [n \in Numbers |-> "none"],
   receipts |-> [n \in Numbers |-> "none"]]

(***************************************************************************)
(* Verification                                                            *)
(***************************************************************************)
State(c)   == files[c].manifest.state
Current(m) == m.attempts[Len(m.attempts)]

\* The attempt whose logs and receipt may change while the run is "running"
Mutable(m) == IF m.state = "running" THEN {Current(m)} ELSE {}

\* _verify_integrity
Verified(c) ==
  LET f == files[c]
      g == ledger[c]
  IN /\ f.manifest = g.manifest
     /\ f.binding = g.binding /\ f.normalized = g.normalized
     /\ \A n \in Numbers \ Mutable(f.manifest) :
          f.logs[n] = g.logs[n] /\ f.receipts[n] = g.receipts[n]
     /\ IF f.manifest.state = "running"
        THEN f.binding => f.config = "planned"
        ELSE /\ f.config = g.config /\ f.trials = g.trials
             /\ f.results = g.results

\* _validated_resume_binding: the config Harbor would resume is the plan's
Resumable(c) == files[c].config = "planned"

\* _bind_resume_config writes the binding; it never changes one.
Bound(c) == [files EXCEPT ![c].binding = TRUE]

\* _source_snapshot_digest of the execution checkout, made by prepare
SnapshotIntact(c) == snapshot[c]

\* _resume_runtime_image_id for a control: trials need a recorded, matching
\* image; without trials there is nothing to bind.
ImageKnown(c) ==
  LET f == files[c] IN
  IF f.manifest.image = None THEN f.trials = {} ELSE f.manifest.matches

(***************************************************************************)
(* prepare_oragentbench_run                                                *)
(***************************************************************************)
Init ==
  /\ files = [c \in Campaigns |-> None]
  /\ ledger = [c \in Campaigns |-> None]
  /\ dirs = [c \in Campaigns |-> {}]
  /\ clock = [c \in Campaigns |-> None]
  /\ alock = None
  /\ alias = None
  /\ snapshot = [c \in Campaigns |-> TRUE]
  /\ up = {} /\ share = [c \in Campaigns |-> None]
  /\ pc = [w \in Workers |-> "idle"]
  /\ call = [w \in Workers |-> NoCall]
  /\ crashes = 0

Goto(w, label) == pc' = [pc EXCEPT ![w] = label]

\* A call returns or raises: the locks it holds are released.
Leave(w) ==
  /\ Goto(w, "idle")
  /\ call' = [call EXCEPT ![w] = NoCall]
  /\ clock' = [c \in Campaigns |-> IF clock[c] = w THEN None ELSE clock[c]]
  /\ alock' = IF alock = w THEN None ELSE alock

\* No run root yet: the stage directory is renamed into place, complete with
\* its ledger.
PrepareFresh(w, c) ==
  /\ pc[w] = "idle" /\ clock[c] = None /\ SnapshotIntact(c)
  /\ files[c] = None
  /\ files' = [files EXCEPT ![c] = NewRoot]
  /\ ledger' = [ledger EXCEPT ![c] = NewRoot]
  /\ call' = [call EXCEPT ![w].campaign = c]
  /\ Goto(w, "command")
  /\ UNCHANGED <<dirs, host, locks, crashes>>

\* Mutant of Adoptable: an existing run root is not verified.
AdoptableUnverified(c) == State(c) = "running" => files[c].config # "none"

\* An existing run root is verified, and an interrupted run without a config
\* refused.
Adoptable(c) ==
  /\ Verified(c)
  /\ State(c) = "running" => files[c].config # "none"

\* A config to resume from is bound.
PrepareAgain(w, c) ==
  /\ pc[w] = "idle" /\ clock[c] = None /\ SnapshotIntact(c)
  /\ files[c] # None /\ Adoptable(c)
  /\ call' = [call EXCEPT ![w].campaign = c]
  /\ IF State(c) \in {"running", "failed"} /\ files[c].config # "none"
     THEN /\ Resumable(c)
          /\ files' = Bound(c)
          /\ clock' = [clock EXCEPT ![c] = w]
          /\ Goto(w, "bound")
     ELSE UNCHANGED <<files, clock>> /\ Goto(w, "command")
  /\ UNCHANGED <<ledger, dirs, host, alock, crashes>>

\* _write_integrity after the binding, and the lock is released
PrepareLedger(w) ==
  LET c == call[w].campaign IN
  /\ pc[w] = "bound"
  /\ ledger' = [ledger EXCEPT ![c] = files[c]]
  /\ clock' = [clock EXCEPT ![c] = None]
  /\ Goto(w, "command")
  /\ UNCHANGED <<files, dirs, host, alock, call, crashes>>

\* resume_upstream is read without the lock; a control then takes it again to
\* look up the image to restore.
ChooseCommand(w) ==
  LET c == call[w].campaign
      resume == files[c].config # "none"
  IN /\ pc[w] = "command"
     /\ IF resume /\ c \in Controls
        THEN /\ clock[c] = None /\ Verified(c) /\ ImageKnown(c)
             /\ call' = [call EXCEPT ![w].resume = TRUE,
                                     ![w].expected = files[c].manifest.image]
        ELSE call' = [call EXCEPT ![w].resume = resume]
     /\ Goto(w, "ready")
     /\ UNCHANGED <<disk, host, locks, crashes>>

\* A call ends early: preparation was all that was asked for, a precondition
\* does not hold, a lock is busy or a check fails.
Abandon(w) ==
  /\ pc[w] \in {"command", "ready", "load", "publish"}
  /\ Leave(w)
  /\ UNCHANGED <<disk, host, crashes>>

(***************************************************************************)
(* execute_prepared_run, up to the start of upstream                       *)
(***************************************************************************)
\* What execute demands under the lock before it runs anything
Runnable(c) == Verified(c) /\ State(c) # "completed"

\* Under the lock the run root is verified again and a resume command binds
\* the config; the ledger is not written yet.
Execute(w) ==
  LET c == call[w].campaign IN
  /\ pc[w] = "ready" /\ clock[c] = None /\ Runnable(c)
  /\ call[w].resume => Resumable(c)
  /\ files' = IF call[w].resume THEN Bound(c) ELSE files
  /\ clock' = [clock EXCEPT ![c] = w]
  /\ Goto(w, "alias")
  /\ UNCHANGED <<ledger, dirs, host, alock, call, crashes>>

\* A completed run is ingested again, which derives the same report.
ExecuteCompleted(w) ==
  LET c == call[w].campaign IN
  /\ pc[w] = "ready" /\ clock[c] = None /\ Verified(c)
  /\ State(c) = "completed"
  /\ ledger' = [ledger EXCEPT ![c] = files[c]]
  /\ Leave(w)
  /\ UNCHANGED <<files, dirs, host, crashes>>

\* The bound on attempts
AttemptsLeft ==
  Cardinality({a \in Campaigns \X Numbers : a[2] \in dirs[a[1]]}) < MaxAttempts

\* Mutant of AliasFree: campaigns build side by side.
AliasIgnored(w) == TRUE

\* _oragentbench_docker_alias_lock: one execution per host
AliasFree(w) == alock = None

\* _allocate_upstream_attempt_logs: the first attempt directory mkdir can make
FirstFree(c) ==
  CHOOSE n \in Numbers \ dirs[c] : \A k \in Numbers \ dirs[c] : n <= k

\* The snapshot digest is checked, the alias lock taken and the first free
\* attempt directory made.
TakeAlias(w) ==
  LET c == call[w].campaign
      n == FirstFree(c)
  IN /\ pc[w] = "alias" /\ SnapshotIntact(c) /\ AliasFree(w) /\ AttemptsLeft
     /\ dirs' = [dirs EXCEPT ![c] = @ \cup {n}]
     /\ call' = [call EXCEPT ![w].number = n]
     /\ alock' = w
     /\ Goto(w, "announce")
     /\ UNCHANGED <<files, ledger, host, clock, crashes>>

\* The snapshot changed, or another campaign holds the alias (or the bound on
\* attempts is reached): the call raises, and what it bound stays.
AliasRefused(w) ==
  LET c == call[w].campaign IN
  /\ pc[w] = "alias"
  /\ ~SnapshotIntact(c) \/ ~AliasFree(w) \/ ~AttemptsLeft
  /\ Leave(w)
  /\ UNCHANGED <<disk, host, crashes>>

\* The manifest of a run whose attempt n starts
Announced(m, n) ==
  [m EXCEPT !.state = "running", !.attempts = Append(@, n)]

\* The manifest says "running" before anything is started.
Announce(w) ==
  LET c == call[w].campaign
      m == Announced(files[c].manifest, call[w].number)
  IN /\ pc[w] = "announce"
     /\ files' = [files EXCEPT ![c].manifest = m]
     /\ call' = [call EXCEPT ![w].manifest = m]
     /\ Goto(w, "ledger")
     /\ UNCHANGED <<ledger, dirs, host, locks, crashes>>

\* _write_integrity: from here a crash leaves a resumable run root.
BindLedger(w) ==
  LET c == call[w].campaign IN
  /\ pc[w] = "ledger"
  /\ ledger' = [ledger EXCEPT ![c] = files[c]]
  /\ Goto(w, "start")
  /\ UNCHANGED <<files, dirs, host, locks, call, crashes>>

\* _write_upstream_attempt_receipt
Receipted(w, verdict) ==
  [files EXCEPT ![call[w].campaign].receipts[call[w].number] = verdict]

\* The logs are created and the command is started in a session of its own.
Start(w) ==
  LET c == call[w].campaign
      n == call[w].number
  IN /\ pc[w] = "start"
     /\ files' = [files EXCEPT ![c].logs[n] = "open"]
     /\ up' = up \cup {[campaign |-> c, number |-> n, resume |-> call[w].resume,
                        expected |-> call[w].expected, owner |-> w,
                        phase |-> "started"]}
     /\ Goto(w, "wait")
     /\ UNCHANGED <<ledger, dirs, alias, snapshot, share, locks, call, crashes>>

\* The command cannot be started: a receipt without an exit code.
StartFails(w) ==
  /\ pc[w] = "start"
  /\ files' = [Receipted(w, "bad") EXCEPT
                 ![call[w].campaign].logs[call[w].number] = "open"]
  /\ call' = [call EXCEPT ![w].manifest.state = "failed"]
  /\ Goto(w, "finish")
  /\ UNCHANGED <<ledger, dirs, host, locks, crashes>>

(***************************************************************************)
(* Upstream: the pinned wrapper and Harbor, as the commands drive them     *)
(***************************************************************************)
Moved(p, label) == (up \ {p}) \cup {[p EXCEPT !.phase = label]}

\* A recorded image is retagged to the alias, otherwise the builder tags its
\* own.  A paid resume cleans up first and refuses beside another process.
UpBuild(p) ==
  /\ p.phase = "started"
  /\ p.resume /\ p.campaign \notin Controls => up = {p}
  /\ alias' = IF p.expected = None THEN p.campaign ELSE p.expected
  /\ up' = Moved(p, "built")
  /\ UNCHANGED <<disk, snapshot, share, locks, pc, call, crashes>>

\* Harbor writes config.json when it starts a job.
UpConfig(p) ==
  /\ p.phase = "built"
  /\ files' = [files EXCEPT ![p.campaign].config =
                 IF @ = "none" THEN "planned" ELSE @]
  /\ up' = Moved(p, "configured")
  /\ UNCHANGED <<ledger, dirs, alias, snapshot, share, locks, pc, call,
                 crashes>>

\* A trial runs on whatever image the alias names.
UpTrial(p) ==
  /\ p.phase = "configured"
  /\ \E r \in {files[p.campaign].results, "complete"} :
       files' = [files EXCEPT ![p.campaign].trials = @ \cup {alias},
                              ![p.campaign].results = r,
                              ![p.campaign].logs[p.number] = "grown"]
  /\ UNCHANGED <<ledger, dirs, host, locks, pc, call, crashes>>

\* What upstream may have done to the config and to the snapshot by its end
Damage(c, fault) ==
  /\ files' = [files EXCEPT ![c].config =
                 IF fault = "config" /\ @ # "none" THEN "changed" ELSE @]
  /\ snapshot' = [snapshot EXCEPT ![c] = @ /\ fault # "snapshot"]

\* A process ends by itself, or the budget kills its group at any time.
UpExit(p) ==
  /\ \E code \in {"ok", "bad"}, fault \in Faults \cup {"none"} :
       /\ code = "ok" => p.phase = "configured"
       /\ Damage(p.campaign, fault)
       /\ IF p.owner = None THEN UNCHANGED <<pc, call>>
          ELSE /\ Goto(p.owner, "after")
               /\ call' = [call EXCEPT ![p.owner].code = code]
  /\ up' = up \ {p}
  /\ UNCHANGED <<ledger, dirs, alias, share, locks, crashes>>

(***************************************************************************)
(* execute_prepared_run, after upstream                                    *)
(***************************************************************************)
\* The checks that stand between upstream's end and its image
Trusted(w) ==
  LET c == call[w].campaign IN
  /\ call[w].resume => Resumable(c)
  /\ Verified(c)
  /\ SnapshotIntact(c)

\* A check fails: the attempt's receipt says so.
AfterRefused(w) ==
  /\ pc[w] = "after" /\ ~Trusted(w)
  /\ files' = Receipted(w, "bad")
  /\ call' = [call EXCEPT ![w].manifest.state = "failed"]
  /\ Goto(w, "finish")
  /\ UNCHANGED <<ledger, dirs, host, locks, crashes>>

\* The image is inspected under the alias lock (None if Docker does not
\* answer): a control's is the alias itself, a paid run's has a tag of its own,
\* which any earlier build may have left.  Then the lock is released and the
\* receipt written.
After(w) ==
  LET c == call[w].campaign IN
  /\ pc[w] = "after" /\ Trusted(w)
  /\ \E seen \in {None, alias}, own \in {None, c} :
       LET image == IF c \in Controls THEN seen ELSE own
           matches == image # None /\ image = seen
           good == call[w].code = "ok" /\ matches
       IN /\ files' = Receipted(w, IF good THEN "ok" ELSE "bad")
          /\ call' = [call EXCEPT
                ![w].manifest.image = image, ![w].manifest.matches = matches,
                ![w].manifest.state = IF good THEN @ ELSE "failed"]
          /\ Goto(w, IF good THEN "ingest" ELSE "finish")
  /\ alock' = None
  /\ UNCHANGED <<ledger, dirs, host, clock, crashes>>

\* Mutant of AllResults: what is there is rendered.
AnyResults(c) == TRUE

\* Every planned run has its result.
AllResults(c) == files[c].results = "complete"

\* ingest_harbor_bundle writes the normalized rollout only when nothing is
\* missing.
Ingest(w) ==
  LET c == call[w].campaign IN
  /\ pc[w] = "ingest"
  /\ files' = [files EXCEPT ![c].normalized = @ \/ AllResults(c)]
  /\ call' = [call EXCEPT ![w].manifest.state =
                 IF AllResults(c) THEN "completed" ELSE "failed"]
  /\ Goto(w, "finish")
  /\ UNCHANGED <<ledger, dirs, host, locks, crashes>>

\* The manifest of the call is written.
Finish(w) ==
  LET c == call[w].campaign IN
  /\ pc[w] = "finish"
  /\ files' = [files EXCEPT ![c].manifest = call[w].manifest]
  /\ Goto(w, "seal")
  /\ UNCHANGED <<ledger, dirs, host, locks, call, crashes>>

\* Mutant of Sealed: a failed run keeps its old ledger.
SealedIfCompleted(c) == IF State(c) = "completed" THEN files[c] ELSE ledger[c]

\* _write_integrity: every file of the run root
Sealed(c) == files[c]

\* The ledger is written and the call returns or raises.
Seal(w) ==
  LET c == call[w].campaign IN
  /\ pc[w] = "seal"
  /\ ledger' = [ledger EXCEPT ![c] = Sealed(c)]
  /\ Leave(w)
  /\ UNCHANGED <<files, dirs, host, crashes>>

(***************************************************************************)
(* export_shareable_run                                                    *)
(***************************************************************************)
\* The inspected image, equal to what the alias named
PublicImage(m) == m.image # None /\ m.matches

\* What the documents must say besides having their digests
Shareable(c) ==
  /\ State(c) = "completed" /\ files[c].normalized
  /\ PublicImage(files[c].manifest)

\* _public_metadata derives new documents: the attempts stay at home.
PublicMetadata(m) == [state |-> m.state, image |-> m.image,
                      matches |-> m.matches]

\* _verify_completed_workspace: every file has the digest of the ledger, whose
\* entries the call keeps.
ExportVerify(w, c) ==
  /\ pc[w] = "idle" /\ files[c] # None
  /\ files[c] = ledger[c] /\ Shareable(c)
  /\ call' = [call EXCEPT ![w].campaign = c, ![w].manifest = files[c].manifest]
  /\ Goto(w, "load")
  /\ UNCHANGED <<disk, host, locks, crashes>>

\* The documents are read one after the other, each against its digest.
ExportLoad(w) ==
  LET c == call[w].campaign IN
  /\ pc[w] = "load"
  /\ files[c].manifest = call[w].manifest /\ Shareable(c)
  /\ Goto(w, "publish")
  /\ UNCHANGED <<disk, host, locks, call, crashes>>

\* What was read is staged and renamed; an equal bundle is reused, any other
\* destination a conflict.
ExportPublish(w) ==
  LET c == call[w].campaign IN
  /\ pc[w] = "publish"
  /\ share[c] \in {None, PublicMetadata(call[w].manifest)}
  /\ share' = [share EXCEPT ![c] = PublicMetadata(call[w].manifest)]
  /\ Leave(w)
  /\ UNCHANGED <<disk, alias, snapshot, up, crashes>>

\* A controller is killed (before it has taken a lock for good, that is the
\* same as Abandon).  The kernel drops its locks; upstream goes on.
Crash(w) ==
  /\ pc[w] \notin {"idle", "command", "ready", "load", "publish"}
  /\ crashes < MaxCrashes /\ "kill" \in Outages
  /\ crashes' = crashes + 1
  /\ up' = {IF p.owner = w THEN [p EXCEPT !.owner = None] ELSE p : p \in up}
  /\ Leave(w)
  /\ UNCHANGED <<disk, alias, snapshot, share>>

\* The host loses power: everything that runs is gone.
PowerLoss ==
  /\ up # {} /\ crashes < MaxCrashes /\ "power" \in Outages
  /\ crashes' = crashes + 1
  /\ up' = {}
  /\ pc' = [w \in Workers |-> "idle"]
  /\ call' = [w \in Workers |-> NoCall]
  /\ clock' = [c \in Campaigns |-> None]
  /\ alock' = None
  /\ UNCHANGED <<disk, alias, snapshot, share>>

\* One step of a call that has begun
Step(w) ==
  \/ PrepareLedger(w) \/ ChooseCommand(w) \/ Abandon(w)
  \/ Execute(w) \/ ExecuteCompleted(w) \/ TakeAlias(w) \/ AliasRefused(w)
  \/ Announce(w) \/ BindLedger(w) \/ Start(w) \/ StartFails(w)
  \/ AfterRefused(w) \/ After(w) \/ Ingest(w) \/ Finish(w) \/ Seal(w)
  \/ ExportLoad(w) \/ ExportPublish(w)

Next ==
  \/ \E w \in Workers, c \in Campaigns :
       PrepareFresh(w, c) \/ PrepareAgain(w, c) \/ ExportVerify(w, c)
  \/ \E w \in Workers : Step(w) \/ Crash(w)
  \/ PowerLoss
  \/ \E p \in up : UpBuild(p) \/ UpConfig(p) \/ UpTrial(p) \/ UpExit(p)

Spec == Init /\ [][Next]_vars

(***************************************************************************)
(* Properties                                                              *)
(***************************************************************************)
\* Every variable has its type; the alias lock is only
\* held together with a campaign lock.
TypeOK ==
  /\ files \in [Campaigns -> RunRoot \cup {None}]
  /\ ledger \in [Campaigns -> RunRoot \cup {None}]
  /\ dirs \in [Campaigns -> SUBSET Numbers]
  /\ clock \in [Campaigns -> Workers \cup {None}]
  /\ alock \in Workers \cup {None}
  /\ alias \in Image
  /\ snapshot \in [Campaigns -> BOOLEAN]
  /\ up \subseteq Process
  /\ share \in [Campaigns -> Bundle \cup {None}]
  /\ pc \in [Workers -> PC]
  /\ call \in [Workers -> Call]
  /\ crashes \in 0..MaxCrashes
  /\ alock # None => \E c \in Campaigns : clock[c] = alock

Completed(c) == files[c] # None /\ State(c) = "completed"

\* A campaign is marked completed only with a report over every planned
\* result, a last attempt whose exit and image check succeeded, and a recorded
\* image: "refusing to render a partial campaign as complete".  And only that
\* leaves the host: a share bundle, although it is read without the campaign's
\* lock, is one of a completed campaign and says what its manifest still says.
ResultSound ==
  /\ TypeOK
  /\ \A c \in Campaigns : share[c] # None =>
       Completed(c) /\ share[c] = PublicMetadata(files[c].manifest)
  /\ \A c \in Campaigns : Completed(c) =>
    LET f == files[c] IN
    /\ f.results = "complete" /\ f.normalized
    /\ f.receipts[Current(f.manifest)] = "ok"
    /\ f.manifest.image # None /\ f.manifest.matches

\* The first k attempts of a control have all run a trial.  A paid campaign's
\* image has a tag of its own, so this is asked of the controls only.
Steady(c, k) ==
  c \in Controls =>
    \A i \in 1..k : files[c].logs[files[c].manifest.attempts[i]] = "grown"

\* As long as no controller was killed, every trial of a completed campaign
\* ran on the image the manifest records, however many campaigns share the
\* Docker alias (the purpose of _oragentbench_docker_alias_lock), from the
\* snapshot it was prepared with and, once resumed, by the planned config.
\* The image is the recorded one only if no earlier attempt of a control
\* ended before its first trial: such an attempt may leave the alias to another
\* campaign and then records that campaign's image, on which the next resume
\* goes on.
OneRuntime ==
  \A c \in Campaigns : Completed(c) /\ crashes = 0 =>
    /\ Steady(c, Len(files[c].manifest.attempts) - 1) =>
         files[c].trials \subseteq {files[c].manifest.image}
    /\ snapshot[c]
    /\ files[c].binding => Resumable(c)

\* As long as no controller was killed, a run root passes _verify_integrity
\* whenever no call works on it and while upstream runs (so that a kill then
\* leaves it resumable).  There are two exceptions: a refused execution that
\* has bound the resume config and raised before it wrote the ledger; and a
\* third attempt by a command that was prepared before there was a config,
\* after an attempt that resumed by the bound config came back with another.
Restartable ==
  \A c \in Campaigns :
    /\ files[c] # None /\ crashes = 0
    /\ clock[c] # None => pc[clock[c]] \in {"start", "wait"}
    => \/ Verified(c)
       \/ clock[c] = None /\ files[c] = [ledger[c] EXCEPT !.binding = TRUE]
       \/ /\ clock[c] # None /\ ~call[clock[c]].resume
          /\ files[c].binding /\ files[c].config = "changed"

Broken(c) ==
  /\ files[c] # None /\ clock[c] = None /\ ~Verified(c)
  /\ \A p \in up : p.campaign # c

\* A run root that fails verification, with nothing running on it, is never
\* changed or given a new ledger: no call takes unverified files over.
BrokenFrozen(c) ==
  Broken(c) => files'[c] = files[c] /\ ledger'[c] = ledger[c]

\* A completed campaign is final: a command prepared before it completed
\* does not run it again.
CompletedFinal(c) ==
  Completed(c) =>
    files'[c].manifest = files[c].manifest /\ files'[c].normalized

\* The manifest's attempts are only ever added to, no attempt is numbered
\* twice, and a receipt that was written is never replaced.
EvidenceKept(c) ==
  files[c] # None =>
    LET old == files[c].manifest.attempts
        new == files'[c].manifest.attempts
    IN /\ SubSeq(new, 1, Len(old)) = old
       /\ \A i, j \in 1..Len(new) : i < j => new[i] < new[j]
       /\ \A n \in Numbers : files[c].receipts[n] # "none" =>
            files'[c].receipts[n] = files[c].receipts[n]

\* No step of any call, of upstream or of a crash rewrites a run root's past:
\* unverified files, a completed campaign and the attempts with their receipts
\* stay as they are.
PastKept ==
  [][\A c \in Campaigns :
       BrokenFrozen(c) /\ CompletedFinal(c) /\ EvidenceKept(c)]_vars
=============================================================================
