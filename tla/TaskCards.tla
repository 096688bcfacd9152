------------------------------ MODULE TaskCards ------------------------------
(***************************************************************************)
(* The evidence pipeline: pipeline.run reads every screening report it     *)
(* finds, joins them by task and decides one card.  Around it are the      *)
(* parts that write what it reads: task-screen (volc_rollout.run_rollout   *)
(* and run_suite), harbor-receipt, the control screening of an external    *)
(* tool, an operator who copies a report, and the author who edits the     *)
(* task between them.  Nothing coordinates these programs but the          *)
(* digests in the files.                                                   *)
(*                                                                         *)
(* One task is modelled: cards of different tasks are independent.  A      *)
(* report's bytes are its record: "id" is the invocation that wrote it,    *)
(* which makes the bytes of two invocations differ (they hold times and    *)
(* response digests).  A tree is a version number of the task directory.   *)
(***************************************************************************)
EXTENDS ScreeningRules

CONSTANTS
  Models,      \* the sequence of models every screening uses
  Rollouts,    \* records [repetitions, failed, arms]: results run_rollout has
  External,    \* decisions of the external control screening
  MaxTree,     \* bound: versions of the task
  MaxReports,  \* bound: invocations that write reports
  Torn         \* a report a crash left half written

\* The reports of module VolcRollout fit this.
ASSUME RolloutAssumption ==
  /\ Models \in Seq(Range(Models))
  /\ \A r \in Rollouts :
       r.repetitions \in Int /\ r.failed \in BOOLEAN /\ TalliesFit(r.arms)
ASSUME CardsAssumption ==
  /\ MaxTree \in Nat \ {0} /\ MaxReports \in Nat
  /\ None \notin {"suite1", "suite2"}

VARIABLES
  tree,      \* the task directory's content
  genome,    \* a task genome for the family exists
  suite,     \* task-screen is called for several tasks, as a suite
  file,      \* file[p]: the document at path p, None when absent
  writing,   \* the report an invocation still has to write, None
  reports,   \* invocations so far
  cards      \* the task's card in task-cards.json, None before the first run

cardsVars == <<tree, genome, suite, file, writing, reports, cards>>

\* Where reports are found: two output directories of task-screen with a member
\* and a suite report each, two of harbor-receipt, one of the external tool and
\* one an operator copies to.
Members == {"run1", "run2"}
SuiteOf == [run1 |-> "suite1", run2 |-> "suite2"]
Paths == Members \cup {"suite1", "suite2", "harbor1", "harbor2", "external",
                       "copy"}

NoArms == [a \in {} |-> 0]

-----------------------------------------------------------------------------
(* What is read: _files, _dedupe_report_paths, _load, _report_rows *)

Found == {p \in Paths : file[p] # None}

\* Mutant: reports are not de-duplicated.
UniqueAll == Found

\* Of files with the same bytes one is read.
Unique == {p \in Found : p = CHOOSE q \in Found : file[q] = file[p]}

\* _load fails for one of them.
Unreadable == \E p \in Unique : file[p] = Torn

\* One row for each file read; a suite report repeats the row of its member, with
\* other bytes around it.
Kind(k) == {p \in Unique : file[p].kind = k}
ModelRows == {p \in Kind("model-screening") : DOMAIN file[p].arms # {}}
DecisionRows == Unique \ Kind("harbor-controls")

-----------------------------------------------------------------------------
(* _merge_performance *)

ArmNames == UNION {DOMAIN file[p].arms : p \in Unique}

\* The sum of a function of naturals, as the size of a disjoint union.
SumOf(w) == Cardinality(UNION {{x} \X (1 .. w[x]) : x \in DOMAIN w})

Total(a, field(_)) ==
  SumOf([p \in {q \in Unique : a \in DOMAIN file[q].arms} |->
           field(file[p].arms[a])])

Performance ==
  [a \in ArmNames |->
     [n |-> Total(a, LAMBDA t : t.n),
      solve |-> Total(a, LAMBDA t : t.solve),
      passed |-> Total(a, LAMBDA t : t.passed),
      infra |-> \E p \in Unique : /\ a \in DOMAIN file[p].arms
                                  /\ file[p].arms[a].infra]]

-----------------------------------------------------------------------------
(* _decision *)

BaseArms == {a \in ArmNames : a[2] = 0}

Repeated ==
  /\ Cardinality(BaseArms) >= 2
  /\ \A a \in BaseArms : Performance[a].solve >= MIN_DISCRIMINATION_REPETITIONS

Decisions == {file[p].decision : p \in DecisionRows}
Gaps == {file[p].gap : p \in DecisionRows} \ {None}

HarborReady == Cardinality(Kind("harbor-controls")) = 1

DigestReady ==
  /\ ModelRows # {} /\ HarborReady
  /\ \A p \in ModelRows, h \in Kind("harbor-controls") :
       file[p].tree = file[h].tree

\* Mutant: one promising report is enough.
DecideAny ==
  IF /\ "review-promising" \in Decisions /\ \E g \in Gaps : g > 0
     /\ Repeated /\ HarborReady /\ DigestReady
  THEN "review-promising" ELSE "collect-more-evidence"

Decide ==
  CASE Decisions = {} -> "quarantine"
    [] \/ "collect-more-evidence" \in Decisions
       \/ Decisions # {} /\ \E a \in ArmNames : Performance[a].infra ->
         "collect-more-evidence"
    [] OTHER ->
         IF /\ "revise-or-drop" \in Decisions
            /\ ~(Repeated /\ Gaps # {} /\ \A g \in Gaps : g > 0)
         THEN "revise-or-drop"
         ELSE IF /\ "review-promising" \in Decisions
                 /\ \E g \in Gaps : g > 0
                 /\ Repeated /\ HarborReady /\ DigestReady
         THEN "review-promising"
         ELSE IF "keep" \in Decisions /\ ArmNames = {} /\ HarborReady
         THEN "keep"
         ELSE "collect-more-evidence"

\* build_cards: reports bound to different trees, a model report beside several
\* receipts, or a task without a genome quarantine the task.
DigestConflict == Cardinality({file[p].tree : p \in Unique} \ {None}) > 1
DigestIncomplete == /\ Kind("harbor-controls") # {} /\ ModelRows # {}
                    /\ ~HarborReady

BuildCards ==
  [decision |-> IF DigestConflict \/ DigestIncomplete \/ ~genome
                THEN "quarantine" ELSE Decide,
   performance |-> Performance,
   evidence |-> {file[p] : p \in Unique}]

-----------------------------------------------------------------------------
CardsInit ==
  /\ tree = 1 /\ genome \in BOOLEAN /\ suite \in BOOLEAN
  /\ file = [p \in Paths |-> None]
  /\ writing = None /\ reports = 0
  /\ cards = None

\* The author changes the task.
EditTask ==
  /\ tree < MaxTree
  /\ tree' = tree + 1
  /\ UNCHANGED <<genome, suite, file, writing, reports, cards>>

Report(r) ==
  [kind |-> "model-screening", id |-> reports + 1, suite |-> FALSE,
   arms |-> IF r.failed THEN NoArms ELSE r.arms, tree |-> tree,
   decision |-> Decision(r.failed, Models, r.arms, r.repetitions),
   gap |-> IF r.failed THEN None
           ELSE ObservedGap(Models, r.arms, r.repetitions)]

\* run_rollout ends: its report replaces the one of an earlier run in the same
\* directory.  A suite then writes its own report of the same rows.
Screen(p, r) ==
  /\ writing = None /\ reports < MaxReports
  /\ file' = [file EXCEPT ![p] = Report(r)]
  /\ writing' = IF suite THEN SuiteOf[p] ELSE None
  /\ reports' = reports + 1
  /\ UNCHANGED <<tree, genome, suite, cards>>

WriteSuite(p) ==
  /\ writing = SuiteOf[p]
  /\ file' = [file EXCEPT ![SuiteOf[p]] = [file[p] EXCEPT !.suite = TRUE]]
  /\ writing' = None
  /\ UNCHANGED <<tree, genome, suite, reports, cards>>

\* The machine stops while a report is being written (write_text is not atomic).
CrashWriting(p) ==
  /\ writing = None /\ reports < MaxReports
  /\ file' = [file EXCEPT ![p] = Torn]
  /\ reports' = reports + 1
  /\ UNCHANGED <<tree, genome, suite, writing, cards>>

\* harbor-receipt writes only a receipt whose controls passed on the tree.
HarborReceipt(p) ==
  /\ reports < MaxReports
  /\ file' = [file EXCEPT ![p] =
       [kind |-> "harbor-controls", id |-> reports + 1, suite |-> FALSE,
        arms |-> NoArms, tree |-> tree, decision |-> None, gap |-> None]]
  /\ reports' = reports + 1
  /\ UNCHANGED <<tree, genome, suite, writing, cards>>

\* A control screening of the external tool: no arms and no tree digest.
ExternalScreen(d) ==
  /\ reports < MaxReports
  /\ file' = [file EXCEPT !["external"] =
       [kind |-> "control-screening", id |-> reports + 1, suite |-> FALSE,
        arms |-> NoArms, tree |-> None, decision |-> d, gap |-> None]]
  /\ reports' = reports + 1
  /\ UNCHANGED <<tree, genome, suite, writing, cards>>

\* An operator copies a report to another name.
CopyReport(p) ==
  /\ file[p] \notin {None, Torn} /\ file["copy"] = None
  /\ file' = [file EXCEPT !["copy"] = file[p]]
  /\ UNCHANGED <<tree, genome, suite, writing, reports, cards>>

-----------------------------------------------------------------------------
(* pipeline.run *)

RunPipeline ==
  /\ ~Unreadable
  /\ cards' = BuildCards
  /\ UNCHANGED <<tree, genome, suite, file, writing, reports>>

\* A report that cannot be read stops the run; earlier cards stay.
PipelineFails == Unreadable /\ UNCHANGED cardsVars

CardsNext ==
  \/ \E p \in Members : \/ \E r \in Rollouts : Screen(p, r)
                        \/ WriteSuite(p) \/ CrashWriting(p)
  \/ \E p \in {"harbor1", "harbor2"} : HarborReceipt(p)
  \/ \E d \in External : ExternalScreen(d)
  \/ \E p \in Paths \ {"copy"} : CopyReport(p)
  \/ EditTask
  \/ RunPipeline \/ PipelineFails

CardsSpec == CardsInit /\ [][CardsNext]_cardsVars

-----------------------------------------------------------------------------
CardsTypeOK ==
  /\ tree \in 1 .. MaxTree /\ reports \in 0 .. MaxReports
  /\ writing \in {"suite1", "suite2", None}
  /\ cards # None =>
       cards.decision \in {"keep", "review-promising", "collect-more-evidence",
                          "revise-or-drop", "quarantine"}

\* A card recommends a task only on one body of evidence: the task has a genome,
\* one Harbor receipt, and every model report was made on the receipt's tree.
\* Every model report separates two models by itself, on at least five judged
\* trials each and without an exception: reports that do not are never outvoted
\* or topped up by others, nor by copies or suites that repeat them.
Separates(d) ==
  \E a, b \in DOMAIN d.arms :
    /\ a[2] = 0 /\ b[2] = 0
    /\ d.arms[a].solve >= 5 /\ d.arms[b].solve >= 5
    /\ d.arms[a].passed - d.arms[b].passed >= 5

PromotionSound ==
  CardsTypeOK /\ (cards # None /\ cards.decision = "review-promising" =>
    LET models == {d \in cards.evidence : DOMAIN d.arms # {}}
        receipts == {d \in cards.evidence : d.kind = "harbor-controls"}
    IN  /\ genome
        /\ models # {} /\ \A d \in models : Separates(d)
        /\ \A d \in models : \A a \in DOMAIN d.arms : ~d.arms[a].infra
        /\ \E r \in receipts :
             receipts = {r} /\ \A d \in models : d.tree = r.tree)

\* The trials a card shows for an arm are the trials run: every invocation of
\* task-screen whose report was read counts once, however often the report was
\* copied.  (Not of a suite, which writes every row into two reports.)
CountedArm(card, a) ==
  LET invocations == {d.id : d \in {e \in card.evidence : a \in DOMAIN e.arms}}
      ran(i) == (CHOOSE e \in card.evidence : e.id = i).arms[a].n
  IN  card.performance[a].n = SumOf([i \in invocations |-> ran(i)])

TrialsCounted ==
  cards # None /\ ~suite =>
    \A a \in DOMAIN cards.performance : CountedArm(cards, a)

=============================================================================
