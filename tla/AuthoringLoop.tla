---------------------------- MODULE AuthoringLoop ----------------------------
(***************************************************************************)
(* task-author iterate: authoring_loop.iterate with the static gate        *)
(* (task_authoring.validate_task) and the model review                     *)
(* (volc_review.review_task) it calls.  Several invocations may share one  *)
(* output directory; an operator may edit the seed, a round's task tree or *)
(* the paper file while a provider call is under way; an invocation may be *)
(* killed at any step.                                                     *)
(*                                                                         *)
(* The digest of a document is the document.  A task tree is the content   *)
(* of its patchable files and the bound derivation evidence in it.  A      *)
(* file's content is one of: "sound" passes the static criteria, "weak"    *)
(* fails one, "bulk" fails one and takes SnapshotCap's share of the        *)
(* preview budget, "leak" looks like a credential.                         *)
(***************************************************************************)
EXTENDS Naturals, Sequences, FiniteSets

CONSTANTS
  Procs,        \* invocations of iterate on one output directory
  Derivation,   \* Derivation[p]: the paper derivation p is given
  Files,        \* patchable files of the task
  Seeds,        \* task trees the loop may start from
  Patches,      \* sequences of [path, content] an author may answer with
  Answers,      \* records [decision, complete, passing] of a reviewer
  Reviewers,    \* number of reviewer models, at least two
  MaxRounds,
  SnapshotCap,  \* bulk files one snapshot, or one patch, may hold
  MaxEdits,     \* bound: edits of the operator
  None

ASSUME LoopAssumption ==
  /\ MaxRounds \in Nat \ {0} /\ Reviewers \in Nat \ {0, 1}
  /\ SnapshotCap \in Nat /\ MaxEdits \in Nat
  /\ None \notin Procs \cup {Derivation[p] : p \in Procs}

VARIABLES
  seed,      \* the seed task's tree
  paperFile, \* the paper-provenance document, a version number
  evidence,  \* <out>/paper-evidence.json
  rounds,    \* rounds[n]: <out>/rounds/round-n, or NoRound
  run,       \* <out>/run.json, or NoRun
  manifest,  \* <out>/run-manifest.json
  at,        \* at[p]: where invocation p stands, and its local variables
  edits

out == <<evidence, rounds, run, manifest>>
vars == <<seed, paperFile, evidence, rounds, run, manifest, at, edits>>

Contents == {"sound", "weak", "bulk", "leak"}
DirPath == "tests"        \* a patchable path that is a directory
BoundPath == "derivation" \* BOUND_DERIVATION_PATH
OutsidePath == "outside"  \* hidden, absolute, or not in the allowlist
Trees == [file : [Files -> Contents],
          bound : {Derivation[p] : p \in Procs} \cup {s.bound : s \in Seeds}]
Paths == Files \cup {DirPath, BoundPath, OutsidePath}

ASSUME InputAssumption ==
  /\ Files \cap {DirPath, BoundPath, OutsidePath} = {}
  /\ Seeds \subseteq Trees
  /\ \A files \in Patches : files \in Seq([path : Paths, content : Contents])
  /\ Answers \subseteq [decision : {"promising", "revise", "needs-human"},
                       complete : BOOLEAN, passing : BOOLEAN]

\* What stands for a directory or a file that is not there.  NoDocument is that
\* of a patch, a receipt or a review, and the receipt before the first round's.
NoRound == [by |-> None]
NoRun == [by |-> None]
NoDocument == [round |-> 0]

Bulk(cs) == Cardinality({i \in DOMAIN cs : cs[i] = "bulk"})
Leaks(cs) == \E i \in DOMAIN cs : cs[i] = "leak"

\* _bounded_task_snapshot raises: credential-like content, or too much of it.
SnapshotRefused(tree) == Leaks(tree.file) \/ Bulk(tree.file) > SnapshotCap

-----------------------------------------------------------------------------
(* The static gate: task_authoring *)

\* The mechanical and security checks that fail on a tree.
Failing(tree) == {f \in Files : tree.file[f] # "sound"}

\* A later round needs the valid receipt of the round before.
PreviousFails(n, previous) == previous.round # n - 1

\* validate_task.  The semantic criteria are always "review", so a receipt that is
\* not blocked is at best ready for a human.
Receipt(tree, paper, n, previous) ==
  [round |-> n, tree |-> tree, paper |-> paper,
   previous |-> IF PreviousFails(n, previous) THEN NoDocument ELSE previous,
   decision |-> IF Failing(tree) # {} \/ PreviousFails(n, previous)
                THEN "blocked" ELSE "ready-for-human-review"]

-----------------------------------------------------------------------------
(* The author's patch: _coerce_author_response, _normalise_patch *)

SafePath(path) == path \in Files \cup {DirPath}

\* What a patch has to repeat of the round it was asked for.
Binding(p) == [round |-> at[p].round, base |-> at[p].base,
               receipt |-> at[p].input, review |-> at[p].review]

\* Bindings a model may echo: the current one, or one with an older field.
Echoes(p) == {Binding(p), [Binding(p) EXCEPT !.round = @ - 1],
              [Binding(p) EXCEPT !.base = seed],
              [Binding(p) EXCEPT !.review = NoDocument]}

\* The single-file shorthand is bound to the local round, never by the model.
Bound(p, reply) == IF reply.full THEN reply.binding ELSE Binding(p)

Contained(files) == [i \in DOMAIN files |-> files[i].content]
Accepted(p, reply) ==
  /\ ~reply.full => Len(reply.files) = 1
  /\ Bound(p, reply) = Binding(p)
  /\ Len(reply.files) > 0
  /\ \A i, j \in DOMAIN reply.files :
       reply.files[i].path = reply.files[j].path => i = j
  /\ \A i \in DOMAIN reply.files : SafePath(reply.files[i].path)
  /\ ~Leaks(Contained(reply.files))
  /\ Bulk(Contained(reply.files)) <= SnapshotCap

\* One file of the patch is written.  SafePath keeps the bound evidence out of it.
Put(tree, item) == IF item.path = BoundPath THEN [tree EXCEPT !.bound = None]
                   ELSE [tree EXCEPT !.file[item.path] = item.content]

-----------------------------------------------------------------------------
(* The review: _normalize_review, review_task, _validate_review_round *)

\* Mutant: an incomplete "promising" counts.
NormalizeLenient(answer) == answer.decision

Normalize(answer) ==
  IF answer.decision = "promising" /\ (~answer.complete \/ ~answer.passing)
  THEN "needs-human" ELSE answer.decision

Aggregate(receipt, answers) ==
  LET decisions == {Normalize(answers[i]) : i \in DOMAIN answers} IN
  IF receipt.decision = "blocked" THEN "blocked-static-gate"
  ELSE IF "revise" \in decisions THEN "revise"
  ELSE IF decisions = {"promising"} THEN "promising-needs-harbor"
  ELSE "needs-human"

Review(n, receipt, answers) ==
  [round |-> n, receipt |-> receipt, answers |-> answers,
   decision |-> Aggregate(receipt, answers)]

ReviewBinds(review, receipt, n) ==
  /\ review.round = n /\ review.receipt = receipt
  /\ Len(review.answers) = Reviewers
  /\ review.decision = "promising-needs-harbor" =>
       \A i \in DOMAIN review.answers : Normalize(review.answers[i]) = "promising"

\* _validate_review_inputs, before the first paid call.
ReviewRefused(p) ==
  LET tree == rounds[at[p].round].tree  receipt == at[p].receipt IN
  \/ receipt.tree # tree \/ receipt.round # at[p].round
  \/ receipt.paper # at[p].paper
  \/ SnapshotRefused(tree)

-----------------------------------------------------------------------------
Idle == [pc |-> "idle", round |-> 0, paper |-> 0, seed |-> None, final |-> 0,
         input |-> NoDocument, receipt |-> NoDocument, review |-> NoDocument,
         base |-> None, applied |-> 0, answers |-> <<>>, status |-> "max-rounds"]

Init ==
  /\ seed \in Seeds /\ paperFile = 1 /\ edits = 0
  /\ evidence = None /\ run = NoRun /\ manifest = None
  /\ rounds = [n \in 1..MaxRounds |-> NoRound]
  /\ at = [p \in Procs |-> Idle]

Goto(p, pc) == at' = [at EXCEPT ![p].pc = pc]
Round(p) == rounds[at[p].round]

OutputEmpty == evidence = None /\ \A n \in DOMAIN rounds : rounds[n] = NoRound

\* The checks of the arguments, the scan of the seed, the empty output directory.
Begin(p) ==
  /\ at[p].pc = "idle"
  /\ at' = [at EXCEPT ![p] =
              IF SnapshotRefused(seed) \/ ~OutputEmpty
              THEN [@ EXCEPT !.pc = "refused"]
              ELSE [@ EXCEPT !.pc = "make", !.paper = paperFile]]
  /\ UNCHANGED <<seed, paperFile, out, edits>>

MakeOutput(p) ==
  /\ at[p].pc = "make"
  /\ evidence' = Derivation[p]
  /\ at' = [at EXCEPT ![p].pc = "open", ![p].round = 1, ![p].seed = seed]
  /\ UNCHANGED <<seed, paperFile, rounds, run, manifest, edits>>

Source(p) == IF at[p].final = 0 THEN seed ELSE rounds[at[p].final].tree

\* Mutant: copytree with dirs_exist_ok.
RoundTakenNever(p) ==
  /\ at[p].pc = "open" /\ Round(p) # NoRound
  /\ rounds' = [rounds EXCEPT ![at[p].round].by = p]
  /\ Goto(p, "author")
  /\ UNCHANGED <<seed, paperFile, evidence, run, manifest, edits>>

\* copytree refuses a destination that exists.
RoundTaken(p) ==
  /\ at[p].pc = "open" /\ Round(p) # NoRound
  /\ Goto(p, "raised")
  /\ UNCHANGED <<seed, paperFile, out, edits>>

\* The tree is copied and its evidence bound; the first round has a preflight
\* receipt; the prompt is built outside any handler.
OpenRound(p) ==
  LET source == Source(p)
      conflict == source.bound \notin {None, Derivation[p]}
      tree == IF conflict THEN source ELSE [source EXCEPT !.bound = Derivation[p]]
      first == at[p].receipt = NoDocument
      input == IF first THEN Receipt(tree, paperFile, 1, NoDocument)
                        ELSE at[p].receipt
  IN
  /\ at[p].pc = "open" /\ Round(p) = NoRound
  /\ rounds' = [rounds EXCEPT ![at[p].round] =
                  [by |-> p, tree |-> tree, patch |-> NoDocument,
                   receipt |-> NoDocument, review |-> NoDocument,
                   preflight |-> IF first /\ ~conflict THEN input
                                                      ELSE NoDocument]]
  /\ at' = [at EXCEPT ![p] =
              IF conflict \/ SnapshotRefused(tree)
              THEN [@ EXCEPT !.pc = "raised"]
              ELSE [@ EXCEPT !.pc = "author", !.input = input, !.base = tree]]
  /\ UNCHANGED <<seed, paperFile, evidence, run, manifest, edits>>

\* The end of a round: the loop goes on, or ends with what it has.
NextRound(local) ==
  IF local.round < MaxRounds THEN [local EXCEPT !.pc = "open", !.round = @ + 1]
                             ELSE [local EXCEPT !.pc = "finish"]
Stop(local, status) == [local EXCEPT !.pc = "finish", !.status = status]

ProviderFails(p) ==
  /\ at[p].pc \in {"author", "reviewing"}
  /\ at' = [at EXCEPT ![p] = Stop(@, "incomplete")]
  /\ UNCHANGED <<seed, paperFile, out, edits>>

AuthorReply(p) ==
  /\ at[p].pc = "author"
  /\ \E files \in Patches, full \in BOOLEAN, binding \in Echoes(p) :
       LET reply == [files |-> files, full |-> full, binding |-> binding] IN
       IF Accepted(p, reply)
       THEN /\ rounds' = [rounds EXCEPT ![at[p].round].patch =
                 [round |-> at[p].round, base |-> at[p].base, files |-> files]]
            /\ at' = [at EXCEPT ![p].pc = "apply", ![p].applied = 0]
       ELSE /\ at' = [at EXCEPT ![p] = Stop(@, "incomplete")]
            /\ UNCHANGED rounds
  /\ UNCHANGED <<seed, paperFile, evidence, run, manifest, edits>>

\* Mutant: the digest is not compared before the files are written.
ApplyPatchNoCas(p) ==
  LET patch == Round(p).patch
      item == patch.files[at[p].applied + 1]
      done == at[p].applied + 1 = Len(patch.files)
  IN
  /\ at[p].pc = "apply"
  /\ IF item.path = DirPath
     THEN Goto(p, "raised") /\ UNCHANGED rounds
     ELSE /\ rounds' = [rounds EXCEPT ![at[p].round].tree = Put(@, item)]
          /\ at' = [at EXCEPT ![p].applied = @ + 1,
                              ![p].pc = IF done THEN "validate" ELSE "apply"]
  /\ UNCHANGED <<seed, paperFile, evidence, run, manifest, edits>>

\* The compare-and-swap on the tree's digest comes before the first file only; a
\* target that is no regular file raises, outside any handler.
ApplyPatch(p) ==
  LET patch == Round(p).patch
      item == patch.files[at[p].applied + 1]
      lost == at[p].applied = 0 /\ Round(p).tree # patch.base
      done == at[p].applied + 1 = Len(patch.files)
  IN
  /\ at[p].pc = "apply"
  /\ IF lost \/ item.path = DirPath
     THEN Goto(p, "raised") /\ UNCHANGED rounds
     ELSE /\ rounds' = [rounds EXCEPT ![at[p].round].tree = Put(@, item)]
          /\ at' = [at EXCEPT ![p].applied = @ + 1,
                              ![p].pc = IF done THEN "validate" ELSE "apply"]
  /\ UNCHANGED <<seed, paperFile, evidence, run, manifest, edits>>

Validate(p) ==
  LET receipt == Receipt(Round(p).tree, paperFile, at[p].round, at[p].receipt)
      known == [at[p] EXCEPT !.receipt = receipt, !.final = at[p].round]
  IN
  /\ at[p].pc = "validate"
  /\ rounds' = [rounds EXCEPT ![at[p].round].receipt = receipt]
  /\ at' = [at EXCEPT ![p] = IF receipt.decision = "blocked" THEN NextRound(known)
                             ELSE [known EXCEPT !.pc = "review"]]
  /\ UNCHANGED <<seed, paperFile, evidence, run, manifest, edits>>

BeginReview(p) ==
  /\ at[p].pc = "review"
  /\ at' = [at EXCEPT ![p] = IF ReviewRefused(p) THEN Stop(@, "incomplete")
                             ELSE [@ EXCEPT !.pc = "reviewing", !.answers = <<>>]]
  /\ UNCHANGED <<seed, paperFile, out, edits>>

ReviewerAnswers(p) ==
  /\ at[p].pc = "reviewing" /\ Len(at[p].answers) < Reviewers
  /\ \E answer \in Answers : at' = [at EXCEPT ![p].answers = Append(@, answer)]
  /\ UNCHANGED <<seed, paperFile, out, edits>>

\* Mutant: a round whose review is not promising is reviewed again.
DecidedAgain(local, review) ==
  IF review.decision = "promising-needs-harbor"
  THEN Stop([local EXCEPT !.review = review], "promising-needs-harbor")
  ELSE [local EXCEPT !.review = review, !.pc = "review"]

\* What the round's review decides about the loop.
Decided(local, review) ==
  LET known == [local EXCEPT !.review = review] IN
  IF ~ReviewBinds(review, local.receipt, local.round) THEN Stop(known, "incomplete")
  ELSE IF review.decision = "promising-needs-harbor"
       THEN Stop(known, "promising-needs-harbor")
  ELSE NextRound(known)

WriteReview(p) ==
  LET review == Review(at[p].round, at[p].receipt, at[p].answers) IN
  /\ at[p].pc = "reviewing" /\ Len(at[p].answers) = Reviewers
  /\ rounds' = [rounds EXCEPT ![at[p].round].review = review]
  /\ at' = [at EXCEPT ![p] = Decided(@, review)]
  /\ UNCHANGED <<seed, paperFile, evidence, run, manifest, edits>>

WriteRun(p) ==
  /\ at[p].pc = "finish"
  /\ run' = [by |-> p, status |-> at[p].status, rounds |-> at[p].round,
             final |-> at[p].final, tree |-> Source(p),
             seedUnchanged |-> seed = at[p].seed, evidence |-> evidence]
  /\ Goto(p, "manifest")
  /\ UNCHANGED <<seed, paperFile, evidence, rounds, manifest, edits>>

\* _manifest lists every file but itself.
WriteManifest(p) ==
  /\ at[p].pc = "manifest"
  /\ manifest' = <<evidence, rounds, run>>
  /\ Goto(p, "done")
  /\ UNCHANGED <<seed, paperFile, evidence, rounds, run, edits>>

Ended(p) == at[p].pc \in {"refused", "raised", "done", "killed"}

Kill(p) ==
  /\ at[p].pc # "idle" /\ ~Ended(p)
  /\ Goto(p, "killed")
  /\ UNCHANGED <<seed, paperFile, out, edits>>

-----------------------------------------------------------------------------
(* The operator, while a provider answers *)

Calling == \E p \in Procs : at[p].pc \in {"author", "reviewing"}
Edited == edits < MaxEdits /\ Calling /\ edits' = edits + 1

EditTree ==
  /\ Edited
  /\ \E n \in DOMAIN rounds, f \in Files, c \in Contents \ {"bulk"} :
       /\ rounds[n] # NoRound /\ rounds[n].tree.file[f] # c
       /\ rounds' = [rounds EXCEPT ![n].tree.file[f] = c]
  /\ UNCHANGED <<seed, paperFile, evidence, run, manifest, at>>

EditSeed ==
  /\ Edited
  /\ \E f \in Files : seed' = [seed EXCEPT !.file[f] = "weak"]
  /\ UNCHANGED <<paperFile, out, at>>

EditPaper ==
  /\ Edited
  /\ paperFile' = paperFile + 1
  /\ UNCHANGED <<seed, out, at>>

-----------------------------------------------------------------------------
Iterate(p) ==
  \/ MakeOutput(p) \/ RoundTaken(p) \/ OpenRound(p)
  \/ ProviderFails(p) \/ AuthorReply(p) \/ ApplyPatch(p) \/ Validate(p)
  \/ BeginReview(p) \/ ReviewerAnswers(p) \/ WriteReview(p)
  \/ WriteRun(p) \/ WriteManifest(p)

Next ==
  \/ \E p \in Procs : Begin(p) \/ Iterate(p) \/ Kill(p)
  \/ EditTree \/ EditSeed \/ EditPaper

Spec == Init /\ [][Next]_vars

\* An invocation that is not killed goes on: provider calls have a timeout.
FairSpec == Spec /\ \A p \in Procs : WF_vars(Iterate(p))

-----------------------------------------------------------------------------
(* Properties *)

Pcs == {"idle", "make", "open", "author", "apply", "validate", "review",
        "reviewing", "finish", "manifest", "refused", "raised", "done", "killed"}
Statuses == {"max-rounds", "incomplete", "promising-needs-harbor"}

\* Every invocation stands at a known step of iterate within its round budget, and
\* a round's files appear in the order iterate writes them: no receipt without the
\* patch, no review without a receipt that passed the static gate.
TypeOK ==
  /\ seed \in Trees /\ edits \in 0..MaxEdits
  /\ \A p \in Procs : /\ at[p].pc \in Pcs /\ at[p].status \in Statuses
                      /\ at[p].round \in 0..MaxRounds
                      /\ at[p].final \in 0..at[p].round
                      /\ Len(at[p].answers) <= Reviewers
  /\ \A n \in DOMAIN rounds : rounds[n] # NoRound =>
       /\ rounds[n].tree \in Trees /\ rounds[n].by \in Procs
       /\ rounds[n].receipt # NoDocument => rounds[n].patch # NoDocument
       /\ rounds[n].review # NoDocument => /\ rounds[n].receipt # NoDocument
                                     /\ rounds[n].receipt.decision # "blocked"

\* run.json says "promising-needs-harbor" only when the last round has a static
\* receipt that is not blocked, chained to the receipt of every round before it,
\* for the paper the invocation was given, and every reviewer slot answered that
\* very receipt with a complete, all-passing "promising".
PromisingEarned ==
  (run # NoRun /\ run.status = "promising-needs-harbor") =>
    LET last == rounds[run.rounds] IN
    /\ last.receipt # NoDocument /\ last.review # NoDocument
    /\ Failing(last.receipt.tree) = {} /\ ~SnapshotRefused(last.receipt.tree)
    /\ last.receipt.paper = at[run.by].paper
    /\ last.review.receipt = last.receipt
    /\ Len(last.review.answers) = Reviewers
    /\ \A i \in DOMAIN last.review.answers :
         LET answer == last.review.answers[i] IN
         answer.decision = "promising" /\ answer.complete /\ answer.passing
    /\ \A n \in 2..run.rounds : rounds[n].receipt.previous = rounds[n - 1].receipt

\* tree is base with the first k of files written over it, and nothing else.
PatchedUpTo(k, tree, base, files) ==
  /\ \A i \in 1..k : /\ files[i].path \in Files
                     /\ tree.file[files[i].path] = files[i].content
  /\ \A f \in Files : (\A i \in 1..k : files[i].path # f) =>
                        tree.file[f] = base.file[f]
  /\ tree.bound = base.bound

\* Shown, patched and judged is one tree.  From the second round on the receipt
\* in the author's prompt is that of the tree the round starts from, unless the
\* operator edited that tree.  What the static gate judged is exactly the tree
\* the author was shown with the author's files put on it: neither an edit
\* during the author call nor a half-applied patch ever gets a receipt.  And its
\* bound derivation is the one the invocation was given.
ValidatedIsPatched ==
  /\ \A p \in Procs :
       (at[p].pc = "author" /\ at[p].round > 1 /\ edits = 0) =>
         /\ at[p].input.tree = at[p].base
         /\ at[p].input.round = at[p].round - 1
  /\ \A n \in DOMAIN rounds :
       (rounds[n] # NoRound /\ rounds[n].receipt # NoDocument) =>
         LET r == rounds[n] IN
         /\ PatchedUpTo(Len(r.patch.files), r.receipt.tree, r.patch.base,
                        r.patch.files)
         /\ r.receipt.tree.bound = Derivation[r.by]

\* One output directory holds the work of one invocation, also when two pass the
\* emptiness check together: every round is by the writer of run.json, and the
\* manifest stays true of every file as long as no operator edits one.
OneWriter ==
  /\ TypeOK
  /\ \A m, n \in DOMAIN rounds :
       (rounds[m] # NoRound /\ rounds[n] # NoRound) => rounds[m].by = rounds[n].by
  /\ run # NoRun =>
       \A n \in DOMAIN rounds : rounds[n] # NoRound => rounds[n].by = run.by
  /\ (manifest # None /\ edits = 0) => manifest = <<evidence, rounds, run>>

\* Every invocation ends, whatever the models answer: the rounds are bounded and no
\* answer starts a round anew.
InvocationEnds == \A p \in Procs : (at[p].pc # "idle") ~> Ended(p)

=============================================================================
