------------------------- MODULE AuthoringLoopProofs -------------------------
(***************************************************************************)
(* Proofs about AuthoringLoop: for any number of invocations, rounds,      *)
(* reviewers, files and edits, and whatever the models answer.             *)
(*                                                                         *)
(* The argument: copytree refuses a round that exists, and a round is      *)
(* opened only after those before it, so the first round's writer is the   *)
(* writer of every round and of run.json.  Everything else is said of one  *)
(* invocation and of rounds that are its own, which no step of another     *)
(* invocation can touch.                                                   *)
(***************************************************************************)
EXTENDS AuthoringLoop, TLAPS

Present(n) == rounds[n] # NoRound
Looping == {"author", "apply", "validate", "review", "reviewing"}
Promising == "promising-needs-harbor"

\* A record that has all its fields.
IsRound(r) ==
  r = [by |-> r.by, tree |-> r.tree, patch |-> r.patch, receipt |-> r.receipt,
       review |-> r.review, preflight |-> r.preflight]
IsLocal(l) ==
  l = [pc |-> l.pc, round |-> l.round, paper |-> l.paper, seed |-> l.seed,
       final |-> l.final, input |-> l.input, receipt |-> l.receipt,
       review |-> l.review, base |-> l.base, applied |-> l.applied,
       answers |-> l.answers, status |-> l.status]

ShapeInv ==
  /\ seed \in Trees /\ edits \in 0..MaxEdits
  /\ rounds = [n \in 1..MaxRounds |-> rounds[n]]
  /\ at = [p \in Procs |-> at[p]]

\* A patch whose files can be written in any order.
PatchSound(patch) ==
  /\ patch.files \in Seq([path : Paths, content : Contents])
  /\ Len(patch.files) > 0
  /\ patch.base \in Trees
  /\ \A i \in 1..Len(patch.files) : SafePath(patch.files[i].path)
  /\ \A i, j \in 1..Len(patch.files) :
       patch.files[i].path = patch.files[j].path => i = j

\* A round's files appear in the order iterate writes them, and what the static
\* gate judged is the base with the author's files on it.
RoundAt(n) ==
  LET r == rounds[n] IN
  Present(n) =>
    /\ IsRound(r) /\ r.by \in Procs /\ r.tree \in Trees
    /\ r.receipt # NoDocument =>
         /\ r.patch # NoDocument
         /\ PatchedUpTo(Len(r.patch.files), r.receipt.tree, r.patch.base,
                        r.patch.files)
         /\ r.receipt.tree.bound = Derivation[r.by]
    /\ r.review # NoDocument =>
         r.receipt # NoDocument /\ r.receipt.decision # "blocked"

LocalAt(p) ==
  LET l == at[p] IN
  /\ IsLocal(l) /\ l.pc \in Pcs /\ l.status \in Statuses
  /\ l.round \in 0..MaxRounds /\ l.final \in 0..l.round
  /\ l.applied \in Nat
  /\ l.answers \in Seq(Answers) /\ Len(l.answers) <= Reviewers

\* Where an invocation stands in its rounds.  Those up to the one it last judged
\* are its own, and from the author call on so is the current one.
StandAt(p) ==
  LET l == at[p] IN
  /\ \A n \in 1..l.final : rounds[n].by = p
  /\ l.pc \in {"idle", "make"} => l.round = 0 /\ l.status = "max-rounds"
  /\ l.pc = "open" => l.round > 0 /\ l.final = l.round - 1
  /\ l.pc \in {"author", "apply", "validate"} =>
       /\ l.round > 0 /\ l.final = l.round - 1
       /\ rounds[l.round].by = p
       /\ rounds[l.round].receipt = NoDocument
       /\ rounds[l.round].review = NoDocument
  /\ l.pc \in {"review", "reviewing"} => l.round > 0 /\ l.final = l.round
  /\ l.pc \in {"finish", "manifest"} => l.round > 0 /\ rounds[l.round].by = p

\* From the author's answer to the receipt the tree is the base the author was
\* shown with the files written so far on it.
PatchAt(p) ==
  LET l == at[p]  r == rounds[l.round] IN
  /\ l.pc = "author" => l.base \in Trees /\ l.base.bound = Derivation[p]
  /\ l.pc = "author" /\ l.round > 1 /\ edits = 0 =>
       l.input.tree = l.base /\ l.input.round = l.round - 1
  /\ l.pc = "apply" =>
       /\ r.patch # NoDocument /\ PatchSound(r.patch)
       /\ r.patch.base.bound = Derivation[p]
       /\ l.applied < Len(r.patch.files)
       /\ l.applied > 0 =>
            PatchedUpTo(l.applied, r.tree, r.patch.base, r.patch.files)
  /\ l.pc = "validate" =>
       /\ r.patch # NoDocument /\ PatchSound(r.patch)
       /\ r.tree.bound = Derivation[p]
       /\ PatchedUpTo(Len(r.patch.files), r.tree, r.patch.base, r.patch.files)

\* The receipts an invocation wrote are chained, and the last is at hand.
ChainAt(p) ==
  LET l == at[p] IN
  /\ l.final = 0 => l.receipt = NoDocument
  /\ l.final > 0 => /\ l.receipt = rounds[l.final].receipt
                    /\ l.receipt # NoDocument
                    /\ l.receipt.decision # "blocked" => Failing(l.receipt.tree) = {}
                    /\ edits = 0 => rounds[l.final].tree = l.receipt.tree
  /\ \A n \in 1..l.final : rounds[n].receipt.round = n
  /\ \A n \in 2..l.final : rounds[n].receipt.previous = rounds[n - 1].receipt
  /\ l.pc \in {"review", "reviewing"} => l.receipt.decision # "blocked"
  /\ l.pc = "reviewing" =>
       l.receipt.paper = l.paper /\ ~SnapshotRefused(l.receipt.tree)

AllPromising(answers) ==
  /\ Len(answers) = Reviewers
  /\ \A i \in DOMAIN answers : /\ answers[i].decision = "promising"
                               /\ answers[i].complete /\ answers[i].passing

\* An invocation that says promising has earned it with its last round.
EarnedAt(p) ==
  LET l == at[p]  review == rounds[l.final].review IN
  l.status = Promising =>
    /\ l.pc \in {"finish", "manifest", "done", "killed"}
    /\ l.round > 0 /\ l.final = l.round
    /\ l.receipt.decision # "blocked" /\ l.receipt.paper = l.paper
    /\ ~SnapshotRefused(l.receipt.tree)
    /\ review # NoDocument /\ review.receipt = l.receipt
    /\ AllPromising(review.answers)

OwnerInv ==
  /\ \A m, n \in 1..MaxRounds : Present(m) /\ Present(n) => rounds[m].by = rounds[n].by
  /\ \A n \in 1..MaxRounds : Present(n) => Present(1)

\* run.json is by the writer of the rounds, which is done with them.
RunInv ==
  /\ run # NoRun =>
       /\ run.by \in Procs /\ at[run.by].pc \in {"manifest", "done", "killed"}
       /\ run.status = at[run.by].status /\ run.rounds = at[run.by].round
       /\ run.rounds > 0 /\ rounds[1].by = run.by
  /\ \A p \in Procs : at[p].pc = "manifest" => run # NoRun /\ run.by = p

SameInputs == \A p, q \in Procs : Derivation[p] = Derivation[q]

\* With one derivation a second invocation that got past the emptiness check
\* writes the evidence that is already there.
ManifestInv ==
  /\ manifest # None => run # NoRun /\ at[run.by].pc = "done"
  /\ SameInputs =>
       /\ manifest # None /\ edits = 0 => manifest = <<evidence, rounds, run>>
       /\ \A p \in Procs : at[p].pc \notin {"idle", "make", "refused", "killed"} =>
            evidence = Derivation[p]

ProcAt(p) == LocalAt(p) /\ StandAt(p) /\ PatchAt(p) /\ ChainAt(p) /\ EarnedAt(p)

IndInv ==
  /\ ShapeInv /\ OwnerInv /\ RunInv /\ ManifestInv
  /\ \A n \in 1..MaxRounds : RoundAt(n)
  /\ \A p \in Procs : ProcAt(p)

(***************************************************************************)
(* What a step of one invocation leaves alone                              *)
(***************************************************************************)
\* Only p's place changes.
LocalStep(p) == at' = [q \in Procs |-> IF q = p THEN at'[p] ELSE at[q]]

\* Only round k changes.
RoundStep(k) == rounds' = [n \in 1..MaxRounds |-> IF n = k THEN rounds'[k] ELSE rounds[n]]

\* A document of a round is not NoDocument, and a present round has a writer.
LEMMA PresentIsWritten ==
  ASSUME ShapeInv, NEW n \in 1..MaxRounds, RoundAt(n)
  PROVE  Present(n) <=> rounds[n].by \in Procs
<1>1. None \notin Procs
  BY LoopAssumption
<1>2. NoRound.by = None
  BY DEF NoRound
<1> QED  BY <1>1, <1>2 DEF RoundAt, Present

\* What is said of an invocation depends on its own rounds only.
LEMMA Frame ==
  ASSUME NEW q \in Procs, ProcAt(q), at'[q] = at[q],
         \A n \in 1..MaxRounds : rounds[n].by = q =>
           /\ rounds'[n].by = q /\ rounds'[n].patch = rounds[n].patch
           /\ rounds'[n].receipt = rounds[n].receipt
           /\ rounds'[n].review = rounds[n].review,
         \/ /\ edits' = edits
            /\ \A n \in 1..MaxRounds :
                 rounds[n].by = q => rounds'[n].tree = rounds[n].tree
         \/ edits' # 0 /\ at[q].pc \notin {"apply", "validate"}
  PROVE  ProcAt(q)'
<1> DEFINE l == at[q]
<1>0. MaxRounds \in Nat \ {0}
  BY LoopAssumption
<1>1. LocalAt(q) /\ LocalAt(q)'
  BY DEF ProcAt, LocalAt
<1>2. l.round \in 0..MaxRounds /\ l.final \in 0..l.round
  BY <1>1 DEF LocalAt
<1>3. StandAt(q) /\ PatchAt(q) /\ ChainAt(q) /\ EarnedAt(q)
  BY DEF ProcAt
<1>4. /\ \A n \in 1..l.final : n \in 1..MaxRounds /\ rounds[n].by = q
      /\ l.pc \in {"author", "apply", "validate", "finish", "manifest"} =>
           l.round \in 1..MaxRounds /\ rounds[l.round].by = q
  BY <1>0, <1>2, <1>3 DEF StandAt
<1>5. StandAt(q)'
  BY <1>0, <1>2, <1>3, <1>4 DEF StandAt
<1>6. PatchAt(q)'
  <2>1. /\ l.pc = "author" => l.base \in Trees /\ l.base.bound = Derivation[q]
        /\ l.pc = "author" /\ l.round > 1 /\ edits = 0 =>
             l.input.tree = l.base /\ l.input.round = l.round - 1
    BY <1>3 DEF PatchAt
  <2>2. edits' = 0 => edits = 0
    OBVIOUS
  <2>3. CASE l.pc \notin {"apply", "validate"}
    BY <2>1, <2>2, <2>3 DEF PatchAt
  <2>4. CASE l.pc \in {"apply", "validate"}
    <3>1. /\ rounds'[l.round].patch = rounds[l.round].patch
          /\ rounds'[l.round].tree = rounds[l.round].tree
      BY <1>4, <2>4
    <3>2. l.pc \notin {"author"}
      BY <2>4
    <3> QED  BY <1>3, <3>1, <3>2, Zenon DEF PatchAt
  <2> QED  BY <2>3, <2>4
<1>7. ChainAt(q)'
  <2>1. /\ \A n \in 1..l.final : rounds'[n].receipt = rounds[n].receipt
        /\ edits' = 0 => \A n \in 1..l.final : rounds'[n].tree = rounds[n].tree
    BY <1>4
  <2>2. l.final > 0 => l.final \in 1..l.final
    BY <1>2
  <2>3. /\ \A n \in 1..l.final : rounds'[n].receipt.round = n
        /\ \A n \in 2..l.final : rounds'[n].receipt.previous = rounds'[n - 1].receipt
    <3>1. \A n \in 2..l.final : n \in 1..l.final /\ n - 1 \in 1..l.final
      BY <1>0, <1>2
    <3> QED  BY <1>3, <2>1, <3>1 DEF ChainAt
  <2>4. edits' = 0 => edits = 0
    OBVIOUS
  <2> QED  BY <1>3, <2>1, <2>2, <2>3, <2>4
           DEF ChainAt, Failing, SnapshotRefused, Leaks, Bulk
<1>8. EarnedAt(q)'
  <2>1. l.round > 0 /\ l.final = l.round =>
          rounds'[l.final].review = rounds[l.final].review
    BY <1>2, <1>4
  <2> QED
    BY <1>3, <2>1, ZenonT(60) DEF EarnedAt, AllPromising, SnapshotRefused, Leaks, Bulk
<1> QED  BY <1>1, <1>5, <1>6, <1>7, <1>8 DEF ProcAt

\* A step of p in round k, which is not another's, leaves the others alone.
LEMMA OthersKept ==
  ASSUME IndInv, NEW p \in Procs, NEW k \in 1..MaxRounds, LocalStep(p), RoundStep(k),
         UNCHANGED <<seed, edits>>,
         \A q \in Procs \ {p} : rounds[k].by # q \/ rounds'[k] = rounds[k],
         RoundAt(k)', ProcAt(p)'
  PROVE  /\ ShapeInv' /\ \A n \in 1..MaxRounds : RoundAt(n)'
         /\ \A q \in Procs : ProcAt(q)'
<1>1. ShapeInv'
  BY DEF IndInv, ShapeInv, LocalStep, RoundStep
<1>2. \A n \in 1..MaxRounds : n # k => rounds'[n] = rounds[n]
  BY DEF RoundStep
<1>3. \A n \in 1..MaxRounds : RoundAt(n)'
  <2> TAKE n \in 1..MaxRounds
  <2>1. RoundAt(n)
    BY DEF IndInv
  <2>2. CASE n # k
    BY <1>2, <2>1, <2>2 DEF RoundAt, Present
  <2> QED  BY <2>2
<1>4. \A q \in Procs : ProcAt(q)'
  <2> SUFFICES ASSUME NEW q \in Procs, q # p PROVE ProcAt(q)'
    OBVIOUS
  <2>1. ProcAt(q) /\ at'[q] = at[q]
    BY DEF IndInv, LocalStep
  <2>2. \A n \in 1..MaxRounds : rounds[n].by = q => rounds'[n] = rounds[n]
    BY <1>2
  <2> QED  BY <2>1, <2>2, Frame
<1> QED  BY <1>1, <1>3, <1>4

\* So does a step of p that writes in no round.
LEMMA RoundsKept ==
  ASSUME IndInv, NEW p \in Procs, LocalStep(p), UNCHANGED <<seed, rounds, edits>>,
         ProcAt(p)'
  PROVE  /\ ShapeInv' /\ OwnerInv' /\ \A n \in 1..MaxRounds : RoundAt(n)'
         /\ \A q \in Procs : ProcAt(q)'
<1>1. 1 \in 1..MaxRounds
  BY LoopAssumption
<1>2. RoundStep(1)
  BY DEF RoundStep, IndInv, ShapeInv
<1>3. RoundAt(1)'
  BY <1>1 DEF IndInv, RoundAt, Present, PatchedUpTo, IsRound
<1>4. OwnerInv'
  BY DEF IndInv, OwnerInv, Present
<1> QED  BY <1>1, <1>2, <1>3, <1>4, OthersKept

\* Until it is done with its rounds their writer finds neither run nor manifest.
LEMMA NoRunYet ==
  ASSUME IndInv, NEW p \in Procs, NEW k \in 1..MaxRounds, rounds[k].by = p,
         at[p].pc \notin {"manifest", "done", "killed"}
  PROVE  run = NoRun /\ manifest = None /\ rounds[1].by = p /\ Present(1) /\ Present(k)
<1>1. 1 \in 1..MaxRounds /\ RoundAt(1) /\ RoundAt(k)
  BY LoopAssumption DEF IndInv
<1>2. Present(k)
  BY <1>1, PresentIsWritten DEF IndInv
<1>3. Present(1) /\ rounds[1].by = p
  BY <1>1, <1>2 DEF IndInv, OwnerInv
<1> QED  BY <1>2, <1>3 DEF IndInv, RunInv, ManifestInv

\* A step of an invocation within a round that is its own.
LEMMA LoopStep ==
  ASSUME IndInv, NEW p \in Procs, NEW k \in 1..MaxRounds, LocalStep(p), RoundStep(k),
         UNCHANGED <<seed, evidence, run, manifest, edits>>,
         at[p].pc \in Looping, at'[p].pc \in Looping \cup {"open", "finish", "raised"},
         rounds[k].by = p, rounds'[k].by = p, RoundAt(k)', ProcAt(p)'
  PROVE  IndInv'
<1>1. ShapeInv' /\ (\A n \in 1..MaxRounds : RoundAt(n)') /\ \A q \in Procs : ProcAt(q)'
  BY OthersKept
<1>2. /\ run = NoRun /\ manifest = None /\ rounds[1].by = p /\ Present(1)
      /\ Present(k)
  BY NoRunYet DEF Looping
<1>3. Present(k)'
  <2>1. None \notin Procs /\ NoRound.by = None
    BY LoopAssumption DEF NoRound
  <2> QED  BY <2>1 DEF Present
<1>4. OwnerInv'
  <2>1. \A n \in 1..MaxRounds :
          /\ Present(n)' <=> Present(n)
          /\ rounds'[n].by = rounds[n].by
    BY <1>2, <1>3 DEF RoundStep, Present
  <2>2. 1 \in 1..MaxRounds
    BY LoopAssumption
  <2> QED  BY <2>1, <2>2 DEF IndInv, OwnerInv
<1>5. RunInv' /\ ManifestInv'
  <2>1. \A q \in Procs : q # p => at'[q] = at[q]
    BY DEF LocalStep
  <2>2. \A q \in Procs : at[q].pc # "manifest" /\ at'[q].pc # "manifest"
    BY <1>2, <2>1 DEF IndInv, RunInv, Looping
  <2>3. SameInputs => \A q \in Procs :
          at'[q].pc \notin {"idle", "make", "refused", "killed"} =>
            evidence' = Derivation[q]
    BY <2>1 DEF IndInv, ManifestInv, Looping
  <2> QED  BY <1>2, <2>2, <2>3 DEF RunInv, ManifestInv
<1> QED  BY <1>1, <1>4, <1>5 DEF IndInv

\* From the author call to the review an invocation stands in a round of its own.
LEMMA OwnRound ==
  ASSUME IndInv, NEW p \in Procs, at[p].pc \in Looping \cup {"finish", "manifest"}
  PROVE  /\ at[p].round \in 1..MaxRounds /\ rounds[at[p].round].by = p
         /\ RoundAt(at[p].round) /\ Present(at[p].round)
<1>1. LocalAt(p) /\ StandAt(p)
  BY DEF IndInv, ProcAt
<1>2. at[p].round \in 1..MaxRounds
  BY <1>1, LoopAssumption DEF LocalAt, StandAt, Looping
<1>3. rounds[at[p].round].by = p
  BY <1>1, <1>2 DEF StandAt, Looping
<1>4. RoundAt(at[p].round)
  BY <1>2 DEF IndInv
<1> QED  BY <1>2, <1>3, <1>4, PresentIsWritten DEF IndInv

\* A step of an invocation that writes nothing.
LEMMA LoopQuiet ==
  ASSUME IndInv, NEW p \in Procs, LocalStep(p),
         UNCHANGED <<seed, evidence, rounds, run, manifest, edits>>,
         at[p].pc \in Looping, at'[p].pc \in Looping \cup {"open", "finish", "raised"},
         ProcAt(p)'
  PROVE  IndInv'
<1>1. PICK k \in 1..MaxRounds : rounds[k].by = p
  BY OwnRound
<1>2. RoundStep(k)
  BY DEF RoundStep, IndInv, ShapeInv
<1>3. RoundAt(k)'
  BY RoundsKept
<1> QED  BY <1>1, <1>2, <1>3, LoopStep

LEMMA AtUpdate ==
  ASSUME ShapeInv, NEW p \in Procs, NEW l, at' = [at EXCEPT ![p] = l]
  PROVE  LocalStep(p) /\ at'[p] = l
BY DEF ShapeInv, LocalStep

(***************************************************************************)
(* The steps of a round                                                    *)
(***************************************************************************)
LEMMA ProviderFailsStep ==
  ASSUME IndInv, NEW p \in Procs, ProviderFails(p)
  PROVE  IndInv'
<1> DEFINE l == at[p]
<1>0. LocalAt(p) /\ StandAt(p) /\ PatchAt(p) /\ ChainAt(p) /\ EarnedAt(p)
  BY DEF IndInv, ProcAt
<1>1. LocalStep(p) /\ at'[p] = Stop(at[p], "incomplete")
  BY AtUpdate DEF ProviderFails, IndInv
<1>2. /\ IsLocal(at'[p]) /\ at'[p].pc = "finish" /\ at'[p].status = "incomplete"
      /\ at'[p].round = l.round /\ at'[p].final = l.final
      /\ at'[p].receipt = l.receipt /\ at'[p].applied = l.applied
      /\ at'[p].answers = l.answers
  BY <1>0, <1>1 DEF LocalAt, IsLocal, Stop
<1>3. l.round \in 1..MaxRounds /\ rounds[l.round].by = p
  BY OwnRound DEF ProviderFails, Looping
<1>4. ProcAt(p)'
  <2>1. LocalAt(p)'
    BY <1>0, <1>2 DEF LocalAt, Pcs, Statuses
  <2>2. StandAt(p)'
    BY <1>0, <1>2, <1>3 DEF StandAt, ProviderFails, out
  <2>3. PatchAt(p)' /\ EarnedAt(p)'
    BY <1>2 DEF PatchAt, EarnedAt, Promising
  <2>4. ChainAt(p)'
    BY <1>0, <1>2 DEF ChainAt, ProviderFails, out, Failing
  <2> QED  BY <2>1, <2>2, <2>3, <2>4 DEF ProcAt
<1> QED  BY <1>1, <1>2, <1>4, LoopQuiet DEF ProviderFails, out, Looping

LEMMA BeginReviewStep ==
  ASSUME IndInv, NEW p \in Procs, BeginReview(p)
  PROVE  IndInv'
<1> DEFINE l == at[p]
<1>0. LocalAt(p) /\ StandAt(p) /\ PatchAt(p) /\ ChainAt(p) /\ EarnedAt(p)
  BY DEF IndInv, ProcAt
<1>1. /\ LocalStep(p)
      /\ at'[p] = IF ReviewRefused(p) THEN Stop(l, "incomplete")
                  ELSE [l EXCEPT !.pc = "reviewing", !.answers = <<>>]
  BY AtUpdate DEF BeginReview, IndInv
<1>2. /\ IsLocal(at'[p]) /\ at'[p].applied = l.applied
      /\ at'[p].round = l.round /\ at'[p].final = l.final
      /\ at'[p].receipt = l.receipt /\ at'[p].paper = l.paper
      /\ \/ /\ at'[p].pc = "finish" /\ at'[p].status = "incomplete"
            /\ at'[p].answers = l.answers
         \/ /\ at'[p].pc = "reviewing" /\ at'[p].status = l.status
            /\ at'[p].answers = <<>> /\ ~ReviewRefused(p)
  BY <1>0, <1>1 DEF LocalAt, IsLocal, Stop
<1>3. l.round \in 1..MaxRounds /\ rounds[l.round].by = p
  BY OwnRound DEF BeginReview, Looping
<1>4. ~ReviewRefused(p) =>
        l.receipt.paper = l.paper /\ ~SnapshotRefused(l.receipt.tree)
  BY DEF ReviewRefused
<1>5. ProcAt(p)'
  <2>1. LocalAt(p)'
    <3>1. <<>> \in Seq(Answers) /\ Len(<<>>) = 0 /\ 0 <= Reviewers
      BY LoopAssumption
    <3> QED  BY <1>0, <1>2, <3>1 DEF LocalAt, Pcs, Statuses
  <2>2. StandAt(p)'
    BY <1>0, <1>2, <1>3 DEF StandAt, BeginReview, out
  <2>3. PatchAt(p)' /\ EarnedAt(p)'
    BY <1>0, <1>2 DEF PatchAt, EarnedAt, Promising, BeginReview
  <2>4. ChainAt(p)'
    BY <1>0, <1>2, <1>4 DEF ChainAt, BeginReview, out, Failing
  <2> QED  BY <2>1, <2>2, <2>3, <2>4 DEF ProcAt
<1> QED  BY <1>1, <1>2, <1>5, LoopQuiet DEF BeginReview, out, Looping

LEMMA ReviewerAnswersStep ==
  ASSUME IndInv, NEW p \in Procs, ReviewerAnswers(p)
  PROVE  IndInv'
<1> DEFINE l == at[p]
<1>0. LocalAt(p) /\ StandAt(p) /\ PatchAt(p) /\ ChainAt(p) /\ EarnedAt(p)
  BY DEF IndInv, ProcAt
<1>1. PICK answer \in Answers : at' = [at EXCEPT ![p].answers = Append(@, answer)]
  BY DEF ReviewerAnswers
<1>2. LocalStep(p) /\ at'[p] = [l EXCEPT !.answers = Append(@, answer)]
  BY <1>1, AtUpdate DEF IndInv
<1>3. /\ IsLocal(at'[p]) /\ at'[p].applied = l.applied
      /\ at'[p].round = l.round /\ at'[p].final = l.final
      /\ at'[p].receipt = l.receipt /\ at'[p].paper = l.paper
      /\ at'[p].pc = "reviewing" /\ at'[p].status = l.status
      /\ at'[p].answers = Append(l.answers, answer)
  BY <1>0, <1>2 DEF LocalAt, IsLocal, ReviewerAnswers
<1>4. ProcAt(p)'
  <2>1. LocalAt(p)'
    <3>1. /\ Append(l.answers, answer) \in Seq(Answers)
          /\ Len(Append(l.answers, answer)) = Len(l.answers) + 1
          /\ Len(l.answers) \in Nat /\ Len(l.answers) < Reviewers
      BY <1>0 DEF LocalAt, ReviewerAnswers
    <3> QED  BY <1>0, <1>3, <3>1, LoopAssumption DEF LocalAt, Pcs, Statuses
  <2>2. StandAt(p)'
    BY <1>0, <1>3 DEF StandAt, ReviewerAnswers, out
  <2>3. PatchAt(p)' /\ EarnedAt(p)'
    BY <1>0, <1>3 DEF PatchAt, EarnedAt, Promising, ReviewerAnswers
  <2>4. ChainAt(p)'
    BY <1>0, <1>3 DEF ChainAt, ReviewerAnswers, out, Failing
  <2> QED  BY <2>1, <2>2, <2>3, <2>4 DEF ProcAt
<1> QED  BY <1>2, <1>3, <1>4, LoopQuiet DEF ReviewerAnswers, out, Looping

\* Before its review an invocation judges nothing: the chain is as it was.
LEMMA ChainKept ==
  ASSUME NEW p \in Procs, LocalAt(p), ChainAt(p), edits' = edits,
         at'[p].pc \notin {"review", "reviewing"},
         at'[p].final = at[p].final, at'[p].receipt = at[p].receipt,
         \A n \in 1..at[p].final : rounds'[n] = rounds[n]
  PROVE  ChainAt(p)'
<1> DEFINE l == at[p]
<1>1. l.final \in Nat
  BY LoopAssumption DEF LocalAt
<1>2. l.final > 0 => l.final \in 1..l.final
  BY <1>1
<1>3. \A n \in 2..l.final : n \in 1..l.final /\ n - 1 \in 1..l.final
  BY <1>1
<1>4. \A n \in 1..l.final : rounds'[n].receipt.round = n
  BY DEF ChainAt
<1>5. \A n \in 2..l.final : rounds'[n].receipt.previous = rounds'[n - 1].receipt
  BY <1>3 DEF ChainAt
<1>6. /\ l.final = 0 => l.receipt = NoDocument
      /\ l.final > 0 => /\ l.receipt = rounds'[l.final].receipt
                        /\ l.receipt # NoDocument
                        /\ l.receipt.decision # "blocked" => Failing(l.receipt.tree) = {}
                        /\ edits' = 0 => rounds'[l.final].tree = l.receipt.tree
  BY <1>2 DEF ChainAt
<1> QED  BY <1>4, <1>5, <1>6 DEF ChainAt, Failing

\* A patch that is accepted repeats the round it was asked for, and names each of
\* its files once.
LEMMA AcceptedPatch ==
  ASSUME NEW p \in Procs, NEW files \in Patches, NEW full, NEW binding,
         Accepted(p, [files |-> files, full |-> full, binding |-> binding]),
         at[p].base \in Trees
  PROVE  PatchSound([round |-> at[p].round, base |-> at[p].base, files |-> files])
<1> DEFINE reply == [files |-> files, full |-> full, binding |-> binding]
<1>1. reply.files = files
  OBVIOUS
<1>2. files \in Seq([path : Paths, content : Contents])
  BY InputAssumption
<1>3. DOMAIN files = 1..Len(files)
  BY <1>2
<1> QED  BY <1>1, <1>2, <1>3 DEF Accepted, PatchSound

LEMMA AuthorReplyStep ==
  ASSUME IndInv, NEW p \in Procs, AuthorReply(p)
  PROVE  IndInv'
<1> DEFINE l == at[p]
<1>0. LocalAt(p) /\ StandAt(p) /\ PatchAt(p) /\ ChainAt(p) /\ EarnedAt(p)
  BY DEF IndInv, ProcAt
<1>1. PICK files \in Patches, full \in BOOLEAN, binding \in Echoes(p) :
        LET reply == [files |-> files, full |-> full, binding |-> binding] IN
        IF Accepted(p, reply)
        THEN /\ rounds' = [rounds EXCEPT ![l.round].patch =
                  [round |-> l.round, base |-> l.base, files |-> files]]
             /\ at' = [at EXCEPT ![p].pc = "apply", ![p].applied = 0]
        ELSE /\ at' = [at EXCEPT ![p] = Stop(@, "incomplete")]
             /\ UNCHANGED rounds
  BY DEF AuthorReply
<1> DEFINE reply == [files |-> files, full |-> full, binding |-> binding]
           patch == [round |-> l.round, base |-> l.base, files |-> files]
<1>2. PICK k \in 1..MaxRounds : k = l.round /\ rounds[k].by = p /\ RoundAt(k) /\ Present(k)
  BY OwnRound DEF AuthorReply, Looping
<1>3. CASE ~Accepted(p, reply)
  <2>1. LocalStep(p) /\ at'[p] = Stop(l, "incomplete") /\ UNCHANGED rounds
    BY <1>1, <1>3, AtUpdate DEF IndInv
  <2>2. ProviderFails(p)
    BY <1>1, <1>3 DEF ProviderFails, AuthorReply, out
  <2> QED  BY <2>2, ProviderFailsStep
<1>4. CASE Accepted(p, reply)
  <2>1. /\ rounds' = [rounds EXCEPT ![k].patch = patch]
        /\ at' = [at EXCEPT ![p] = [l EXCEPT !.pc = "apply", !.applied = 0]]
    BY <1>1, <1>2, <1>4
  <2>2. LocalStep(p) /\ at'[p] = [l EXCEPT !.pc = "apply", !.applied = 0]
    BY <2>1, AtUpdate DEF IndInv
  <2>3. /\ IsLocal(at'[p]) /\ at'[p].applied = 0
        /\ at'[p].round = l.round /\ at'[p].final = l.final
        /\ at'[p].receipt = l.receipt /\ at'[p].paper = l.paper
        /\ at'[p].pc = "apply" /\ at'[p].status = l.status
        /\ at'[p].answers = l.answers
    BY <1>0, <2>2 DEF LocalAt, IsLocal
  <2>4. /\ RoundStep(k) /\ IsRound(rounds'[k]) /\ rounds'[k].by = p
        /\ rounds'[k].tree = rounds[k].tree /\ rounds'[k].patch = patch
        /\ rounds'[k].receipt = rounds[k].receipt
        /\ rounds'[k].review = rounds[k].review
    BY <1>2, <2>1 DEF IndInv, ShapeInv, RoundStep, RoundAt, IsRound
  <2>5. rounds[k].receipt = NoDocument /\ rounds[k].review = NoDocument
    BY <1>0, <1>2 DEF StandAt, AuthorReply
  <2>6. RoundAt(k)'
    BY <1>2, <2>4, <2>5 DEF RoundAt
  <2>7. PatchSound(patch) /\ patch # NoDocument /\ patch.base.bound = Derivation[p]
    <3>1. l.base \in Trees /\ l.base.bound = Derivation[p]
      BY <1>0 DEF PatchAt, AuthorReply
    <3> QED  BY <1>2, <1>4, <3>1, AcceptedPatch DEF NoDocument
  <2>8. ProcAt(p)'
    <3> HIDE DEF patch
    <3>1. LocalAt(p)'
      BY <1>0, <2>3 DEF LocalAt, Pcs, Statuses
    <3>2. /\ \A n \in 1..l.final : rounds'[n] = rounds[n]
          /\ l.round > 0 /\ l.final = k - 1
      <4>1. l.round > 0 /\ l.final = k - 1
        BY <1>0, <1>2 DEF StandAt, AuthorReply
      <4>2. \A n \in 1..(k - 1) : n \in 1..MaxRounds /\ n # k
        BY LoopAssumption
      <4> QED  BY <2>4, <4>1, <4>2 DEF RoundStep
    <3>3. StandAt(p)'
      <4>1. \A n \in 1..l.final : rounds'[n].by = p
        BY <1>0, <3>2 DEF StandAt
      <4> QED  BY <1>2, <2>3, <2>4, <2>5, <3>2, <4>1 DEF StandAt
    <3>4. PatchAt(p)'
      <4>1. 0 < Len(patch.files)
        BY <2>7 DEF PatchSound
      <4> QED  BY <1>2, <2>3, <2>4, <2>7, <4>1 DEF PatchAt
    <3>5. EarnedAt(p)'
      BY <1>0, <2>3 DEF EarnedAt, AuthorReply
    <3>6. ChainAt(p)'
      BY <1>0, <2>3, <3>2, ChainKept DEF AuthorReply
    <3> QED  BY <3>1, <3>3, <3>4, <3>5, <3>6 DEF ProcAt
  <2> QED  BY <1>2, <2>2, <2>3, <2>4, <2>6, <2>8, LoopStep DEF AuthorReply, Looping
<1> QED  BY <1>3, <1>4

\* Writing the next file of a sound patch.
LEMMA PutNext ==
  ASSUME NEW patch, PatchSound(patch), NEW tree \in Trees,
         NEW k \in Nat, k < Len(patch.files), patch.files[k + 1].path # DirPath,
         \/ k = 0 /\ tree = patch.base
         \/ PatchedUpTo(k, tree, patch.base, patch.files)
  PROVE  /\ Put(tree, patch.files[k + 1]) \in Trees
         /\ PatchedUpTo(k + 1, Put(tree, patch.files[k + 1]), patch.base, patch.files)
<1> DEFINE files == patch.files  item == files[k + 1]  put == Put(tree, item)
<1>1. /\ files \in Seq([path : Paths, content : Contents]) /\ Len(files) \in Nat
      /\ k + 1 \in 1..Len(files)
  BY DEF PatchSound
<1>2. item \in [path : Paths, content : Contents]
  <2> DEFINE Items == [path : Paths, content : Contents]
  <2>1. files \in Seq(Items)
    BY <1>1
  <2> HIDE DEF Items, files
  <2>2. files[k + 1] \in Items
    BY <1>1, <2>1
  <2> QED  BY <2>2 DEF Items
<1>3. item.path \in Files /\ item.path # BoundPath /\ item.content \in Contents
  BY <1>1, <1>2, InputAssumption DEF PatchSound, SafePath
<1>4. put = [tree EXCEPT !.file[item.path] = item.content]
  BY <1>3 DEF Put
<1>5. /\ tree.file \in [Files -> Contents]
      /\ tree = [file |-> tree.file, bound |-> tree.bound]
  BY DEF Trees
<1>6. /\ put = [file |-> [tree.file EXCEPT ![item.path] = item.content],
                bound |-> tree.bound]
  BY <1>4, <1>5
<1>7. put \in Trees
  BY <1>3, <1>5, <1>6 DEF Trees
<1>8. /\ put.bound = tree.bound /\ put.file[item.path] = item.content
      /\ \A f \in Files : f # item.path => put.file[f] = tree.file[f]
  BY <1>3, <1>5, <1>6
<1>9. PatchedUpTo(k, tree, patch.base, files)
  BY DEF PatchedUpTo
<1>10. PatchedUpTo(k + 1, put, patch.base, files)
  <2> HIDE DEF files, item, put
  <2>1. \A i \in 1..(k + 1) : i = k + 1 \/ i \in 1..k
    OBVIOUS
  <2>2. \A i \in 1..k : i \in 1..Len(files) /\ i # k + 1
    BY <1>1
  <2>3. \A i \in 1..k : files[i].path # item.path
    BY <1>1, <2>2 DEF PatchSound, files, item
  <2>4. \A i \in 1..(k + 1) :
          files[i].path \in Files /\ put.file[files[i].path] = files[i].content
    BY <1>3, <1>8, <1>9, <2>1, <2>3 DEF PatchedUpTo, item
  <2>5. \A f \in Files : (\A i \in 1..(k + 1) : files[i].path # f) =>
                            put.file[f] = patch.base.file[f]
    <3>1. k + 1 \in 1..(k + 1) /\ \A i \in 1..k : i \in 1..(k + 1)
      OBVIOUS
    <3> QED  BY <1>8, <1>9, <3>1 DEF PatchedUpTo, item
  <2> QED  BY <1>8, <1>9, <2>4, <2>5 DEF PatchedUpTo
<1> QED  BY <1>7, <1>10

LEMMA ApplyPatchStep ==
  ASSUME IndInv, NEW p \in Procs, ApplyPatch(p)
  PROVE  IndInv'
<1> DEFINE l == at[p]
           patch == rounds[l.round].patch
           item == patch.files[l.applied + 1]
           done == l.applied + 1 = Len(patch.files)
<1>0. LocalAt(p) /\ StandAt(p) /\ PatchAt(p) /\ ChainAt(p) /\ EarnedAt(p)
  BY DEF IndInv, ProcAt
<1>1. PICK k \in 1..MaxRounds : k = l.round /\ rounds[k].by = p /\ RoundAt(k) /\ Present(k)
  BY OwnRound DEF ApplyPatch, Looping
<1>2. /\ patch # NoDocument /\ PatchSound(patch) /\ patch.base.bound = Derivation[p]
      /\ l.applied < Len(patch.files) /\ l.applied \in Nat
      /\ l.applied > 0 =>
           PatchedUpTo(l.applied, rounds[k].tree, patch.base, patch.files)
  BY <1>0, <1>1 DEF PatchAt, LocalAt, ApplyPatch
<1>3. CASE Goto(p, "raised") /\ UNCHANGED rounds
  <2>1. LocalStep(p) /\ at'[p] = [l EXCEPT !.pc = "raised"]
    BY <1>3, AtUpdate DEF Goto, IndInv
  <2>2. /\ IsLocal(at'[p]) /\ at'[p].applied = l.applied
        /\ at'[p].round = l.round /\ at'[p].final = l.final
        /\ at'[p].receipt = l.receipt /\ at'[p].pc = "raised"
        /\ at'[p].status = l.status /\ at'[p].answers = l.answers
    BY <1>0, <2>1 DEF LocalAt, IsLocal
  <2>3. LocalAt(p)'
    BY <1>0, <2>2 DEF LocalAt, Pcs, Statuses
  <2>4. StandAt(p)' /\ PatchAt(p)' /\ EarnedAt(p)'
    BY <1>0, <1>3, <2>2 DEF StandAt, PatchAt, EarnedAt, ApplyPatch
  <2>5. ChainAt(p)'
    BY <1>0, <1>3, <2>2, ChainKept DEF ApplyPatch
  <2>6. ProcAt(p)'
    BY <2>3, <2>4, <2>5 DEF ProcAt
  <2> QED  BY <1>3, <2>1, <2>2, <2>6, LoopQuiet DEF ApplyPatch, Looping
<1>4. CASE /\ l.applied = 0 => rounds[k].tree = patch.base
           /\ item.path # DirPath
           /\ rounds' = [rounds EXCEPT ![l.round].tree = Put(@, item)]
           /\ at' = [at EXCEPT ![p].applied = @ + 1,
                               ![p].pc = IF done THEN "validate" ELSE "apply"]
  <2>1. LocalStep(p) /\ at'[p] = [l EXCEPT !.applied = @ + 1,
                                           !.pc = IF done THEN "validate" ELSE "apply"]
    <3>1. at' = [at EXCEPT ![p] = [l EXCEPT !.applied = @ + 1,
                                            !.pc = IF done THEN "validate" ELSE "apply"]]
      BY <1>4 DEF IndInv, ShapeInv
    <3> QED  BY <3>1, AtUpdate DEF IndInv
  <2>2. /\ IsLocal(at'[p]) /\ at'[p].applied = l.applied + 1
        /\ at'[p].round = l.round /\ at'[p].final = l.final
        /\ at'[p].receipt = l.receipt
        /\ at'[p].pc = IF done THEN "validate" ELSE "apply"
        /\ at'[p].status = l.status /\ at'[p].answers = l.answers
    BY <1>0, <2>1 DEF LocalAt, IsLocal
  <2>3. /\ RoundStep(k) /\ IsRound(rounds'[k]) /\ rounds'[k].by = p
        /\ rounds'[k].tree = Put(rounds[k].tree, item)
        /\ rounds'[k].patch = patch
        /\ rounds'[k].receipt = rounds[k].receipt
        /\ rounds'[k].review = rounds[k].review
    BY <1>1, <1>4 DEF IndInv, ShapeInv, RoundStep, RoundAt, IsRound
  <2>4. rounds[k].receipt = NoDocument /\ rounds[k].review = NoDocument
    BY <1>0, <1>1 DEF StandAt, ApplyPatch
  <2>5. /\ Put(rounds[k].tree, item) \in Trees
        /\ PatchedUpTo(l.applied + 1, Put(rounds[k].tree, item), patch.base, patch.files)
    <3>1. rounds[k].tree \in Trees
      BY <1>1 DEF RoundAt
    <3> DEFINE tree == rounds[k].tree
               n == l.applied
    <3>2. /\ PatchSound(patch) /\ tree \in Trees /\ n \in Nat
          /\ n < Len(patch.files) /\ patch.files[n + 1].path # DirPath
      BY <1>2, <1>4, <3>1
    <3>3. \/ n = 0 /\ tree = patch.base
          \/ PatchedUpTo(n, tree, patch.base, patch.files)
      BY <1>2, <1>4
    <3> HIDE DEF tree, n, patch
    <3>4. /\ Put(tree, patch.files[n + 1]) \in Trees
          /\ PatchedUpTo(n + 1, Put(tree, patch.files[n + 1]), patch.base, patch.files)
      BY <3>2, <3>3, PutNext
    <3> QED  BY <3>4 DEF tree, n
  <2>6. RoundAt(k)'
    BY <1>1, <2>3, <2>4, <2>5 DEF RoundAt
  <2>7. ProcAt(p)'
    <3> HIDE DEF patch, item
    <3>1. LocalAt(p)'
      BY <1>0, <2>2 DEF LocalAt, Pcs, Statuses
    <3>2. /\ \A n \in 1..l.final : rounds'[n] = rounds[n]
          /\ l.round > 0 /\ l.final = k - 1
      <4>1. l.round > 0 /\ l.final = k - 1
        BY <1>0, <1>1 DEF StandAt, ApplyPatch
      <4>2. \A n \in 1..(k - 1) : n \in 1..MaxRounds /\ n # k
        BY LoopAssumption
      <4> QED  BY <2>3, <4>1, <4>2 DEF RoundStep
    <3>3. StandAt(p)'
      <4>1. \A n \in 1..l.final : rounds'[n].by = p
        BY <1>0, <3>2 DEF StandAt
      <4> QED  BY <1>1, <2>2, <2>3, <2>4, <3>2, <4>1 DEF StandAt
    <3>4. PatchAt(p)'
      <4>1. Len(patch.files) \in Nat
        BY <1>2 DEF PatchSound
      <4>2. at'[p].pc # "author"
        BY <2>2
      <4>3. CASE done
        <5>1. at'[p].pc = "validate"
          BY <2>2, <4>3
        <5>2. PatchedUpTo(Len(patch.files), rounds'[k].tree, patch.base, patch.files)
          BY <2>3, <2>5, <4>3
        <5>3. rounds'[k].tree.bound = Derivation[p]
          BY <1>2, <5>2 DEF PatchedUpTo
        <5> QED  BY <1>1, <1>2, <2>2, <2>3, <5>1, <5>2, <5>3 DEF PatchAt
      <4>4. CASE ~done
        <5>1. at'[p].pc = "apply" /\ l.applied + 1 < Len(patch.files)
          BY <1>2, <2>2, <4>1, <4>4
        <5> QED  BY <1>1, <1>2, <2>2, <2>3, <2>5, <5>1 DEF PatchAt
      <4> QED  BY <4>3, <4>4
    <3>5. EarnedAt(p)'
      BY <1>0, <2>2 DEF EarnedAt, ApplyPatch
    <3>6. ChainAt(p)'
      BY <1>0, <2>2, <3>2, ChainKept DEF ApplyPatch
    <3> QED  BY <3>1, <3>3, <3>4, <3>5, <3>6 DEF ProcAt
  <2> QED  BY <1>1, <2>1, <2>2, <2>3, <2>6, <2>7, LoopStep DEF ApplyPatch, Looping
<1> QED  BY <1>1, <1>3, <1>4 DEF ApplyPatch, Round

\* The receipt of round k when the receipt at hand is that of the round before.
LEMMA ReceiptOfRound ==
  ASSUME NEW tree, NEW paper, NEW k \in Nat \ {0}, NEW previous,
         previous.round = k - 1
  PROVE  LET receipt == Receipt(tree, paper, k, previous) IN
         /\ receipt.round = k /\ receipt.tree = tree /\ receipt # NoDocument
         /\ receipt.previous = previous
         /\ receipt.decision # "blocked" => Failing(tree) = {}
<1> DEFINE receipt == Receipt(tree, paper, k, previous)
<1>1. ~PreviousFails(k, previous)
  BY DEF PreviousFails
<1>2. receipt.round = k /\ receipt.tree = tree /\ receipt.previous = previous
  BY <1>1 DEF Receipt
<1>3. receipt.decision = IF Failing(tree) # {} THEN "blocked"
                         ELSE "ready-for-human-review"
  BY <1>1 DEF Receipt
<1>4. receipt # NoDocument
  <2>1. NoDocument.round = 0
    BY DEF NoDocument
  <2> QED  BY <1>2, <2>1
<1> QED  BY <1>2, <1>3, <1>4

\* What an invocation remembers of the receipt it wrote.
Judged(l, receipt, final) == [l EXCEPT !.receipt = receipt, !.final = final]

LEMMA JudgedLocal ==
  ASSUME NEW l, IsLocal(l), NEW receipt, NEW final
  PROVE  LET known == Judged(l, receipt, final) IN
         /\ IsLocal(known) /\ known.applied = l.applied /\ known.answers = l.answers
         /\ known.status = l.status /\ known.paper = l.paper
         /\ known.final = final /\ known.receipt = receipt /\ known.round = l.round
<1> DEFINE known == Judged(l, receipt, final)
           fields == {"pc", "round", "paper", "seed", "final", "input", "receipt",
                      "review", "base", "applied", "answers", "status"}
<1>1. l = [f \in fields |-> l[f]]
  BY DEF IsLocal
<1>2. known = [f \in fields |-> IF f = "receipt" THEN receipt
                                ELSE IF f = "final" THEN final ELSE l[f]]
  BY <1>1 DEF Judged
<1> QED  BY <1>1, <1>2 DEF IsLocal

LEMMA ValidateStep ==
  ASSUME IndInv, NEW p \in Procs, Validate(p)
  PROVE  IndInv'
<1> DEFINE l == at[p]
           tree == rounds[l.round].tree
           receipt == Receipt(tree, paperFile, l.round, l.receipt)
           known == Judged(l, receipt, l.round)
<1>0. LocalAt(p) /\ StandAt(p) /\ PatchAt(p) /\ ChainAt(p) /\ EarnedAt(p)
  BY DEF IndInv, ProcAt
<1>1. PICK k \in 1..MaxRounds : k = l.round /\ rounds[k].by = p /\ RoundAt(k) /\ Present(k)
  BY OwnRound DEF Validate, Looping
<1>2. /\ rounds' = [rounds EXCEPT ![k].receipt = receipt]
      /\ at' = [at EXCEPT ![p] = IF receipt.decision = "blocked" THEN NextRound(known)
                                 ELSE [known EXCEPT !.pc = "review"]]
  BY <1>1 DEF Validate, Round, Judged
<1>3. /\ LocalStep(p)
      /\ at'[p] = IF receipt.decision = "blocked" THEN NextRound(known)
                  ELSE [known EXCEPT !.pc = "review"]
  BY <1>2, AtUpdate DEF IndInv
<1>4. l.final = k - 1 /\ l.round > 0 /\ rounds[k].review = NoDocument
  BY <1>0, <1>1 DEF StandAt, Validate
<1>5. l.receipt.round = k - 1
  <2>1. CASE l.final = 0
    BY <1>0, <1>4, <2>1 DEF ChainAt, NoDocument
  <2>2. CASE l.final > 0
    <3>1. l.final \in 1..l.final
      BY <1>4, <2>2
    <3> QED  BY <1>0, <1>4, <2>2, <3>1 DEF ChainAt
  <2> QED  BY <1>4, <2>1, <2>2
<1>6. /\ receipt.round = k /\ receipt.tree = tree /\ receipt # NoDocument
      /\ receipt.previous = l.receipt
      /\ receipt.decision # "blocked" => Failing(receipt.tree) = {}
  BY <1>1, <1>5, ReceiptOfRound
<1> HIDE DEF receipt
<1>7. /\ IsLocal(at'[p]) /\ at'[p].applied = l.applied /\ at'[p].answers = l.answers
      /\ at'[p].status = l.status /\ at'[p].paper = l.paper
      /\ at'[p].final = k /\ at'[p].receipt = receipt
      /\ \/ /\ receipt.decision = "blocked" /\ k < MaxRounds
            /\ at'[p].pc = "open" /\ at'[p].round = k + 1
         \/ /\ receipt.decision = "blocked"
            /\ at'[p].pc = "finish" /\ at'[p].round = k
         \/ /\ receipt.decision # "blocked"
            /\ at'[p].pc = "review" /\ at'[p].round = k
  <2>1. /\ IsLocal(known) /\ known.applied = l.applied /\ known.answers = l.answers
        /\ known.status = l.status /\ known.paper = l.paper
        /\ known.final = k /\ known.receipt = receipt /\ known.round = k
    <3>1. IsLocal(l)
      BY <1>0 DEF LocalAt
    <3>2. /\ IsLocal(known) /\ known.applied = l.applied /\ known.answers = l.answers
          /\ known.status = l.status /\ known.paper = l.paper
          /\ known.final = l.round /\ known.receipt = receipt /\ known.round = l.round
      BY <3>1, JudgedLocal
    <3> QED  BY <1>1, <3>2
  <2> HIDE DEF known
  <2>2. CASE receipt.decision # "blocked"
    BY <1>3, <2>1, <2>2 DEF IsLocal
  <2>3. CASE receipt.decision = "blocked" /\ k < MaxRounds
    <3>1. at'[p] = [known EXCEPT !.pc = "open", !.round = @ + 1]
      BY <1>3, <2>1, <2>3 DEF NextRound
    <3> QED  BY <2>1, <2>3, <3>1 DEF IsLocal
  <2>4. CASE receipt.decision = "blocked" /\ ~(k < MaxRounds)
    <3>1. at'[p] = [known EXCEPT !.pc = "finish"]
      BY <1>3, <2>1, <2>4 DEF NextRound
    <3> QED  BY <2>1, <2>4, <3>1 DEF IsLocal
  <2> QED  BY <2>2, <2>3, <2>4
<1>8. /\ RoundStep(k) /\ IsRound(rounds'[k]) /\ rounds'[k].by = p
      /\ rounds'[k].tree = tree /\ rounds'[k].patch = rounds[k].patch
      /\ rounds'[k].receipt = receipt /\ rounds'[k].review = rounds[k].review
  BY <1>1, <1>2 DEF IndInv, ShapeInv, RoundStep, RoundAt, IsRound
<1>9. RoundAt(k)'
  <2>1. /\ rounds[k].patch # NoDocument /\ tree.bound = Derivation[p]
        /\ PatchedUpTo(Len(rounds[k].patch.files), tree, rounds[k].patch.base,
                       rounds[k].patch.files)
    BY <1>0, <1>1 DEF PatchAt, Validate
  <2>2. tree \in Trees
    BY <1>1 DEF RoundAt
  <2> QED  BY <1>1, <1>4, <1>6, <1>8, <2>1, <2>2 DEF RoundAt
<1>10. /\ \A n \in 1..(k - 1) : n \in 1..MaxRounds /\ n # k /\ rounds'[n] = rounds[n]
       /\ \A n \in 1..k : n = k \/ n \in 1..(k - 1)
  <2>1. /\ \A n \in 1..(k - 1) : n \in 1..MaxRounds /\ n # k
        /\ \A n \in 1..k : n = k \/ n \in 1..(k - 1)
    BY LoopAssumption
  <2> QED  BY <1>8, <2>1 DEF RoundStep
<1>11. LocalAt(p)'
  BY <1>0, <1>1, <1>7, LoopAssumption DEF LocalAt, Pcs, Statuses
<1>12. StandAt(p)'
  <2>1. \A n \in 1..k : rounds'[n].by = p
    BY <1>0, <1>4, <1>8, <1>10 DEF StandAt
  <2> QED  BY <1>7, <1>8, <2>1 DEF StandAt
<1>13. PatchAt(p)' /\ EarnedAt(p)'
  BY <1>0, <1>7 DEF PatchAt, EarnedAt, Validate
<1>14. ChainAt(p)'
  <2>1. \A n \in 1..k : rounds'[n].receipt.round = n
    BY <1>0, <1>4, <1>6, <1>8, <1>10 DEF ChainAt
  <2>2. \A n \in 2..k : rounds'[n].receipt.previous = rounds'[n - 1].receipt
    <3> TAKE n \in 2..k
    <3>1. CASE n = k
      <4>1. k - 1 \in 1..(k - 1) /\ l.final > 0
        BY <1>4, <3>1
      <4> QED  BY <1>0, <1>4, <1>6, <1>8, <1>10, <3>1, <4>1 DEF ChainAt
    <3>2. CASE n # k
      <4>1. n \in 1..(k - 1) /\ n - 1 \in 1..(k - 1) /\ n \in 2..(k - 1)
        BY <3>2
      <4> QED  BY <1>0, <1>4, <1>10, <4>1 DEF ChainAt
    <3> QED  BY <3>1, <3>2
  <2>3. rounds'[k].tree = receipt.tree
    BY <1>6, <1>8
  <2> QED  BY <1>6, <1>7, <1>8, <2>1, <2>2, <2>3 DEF ChainAt, Failing
<1>15. ProcAt(p)'
  BY <1>11, <1>12, <1>13, <1>14 DEF ProcAt
<1> QED  BY <1>1, <1>3, <1>7, <1>8, <1>9, <1>15, LoopStep DEF Validate, Looping

\* Only a complete, all-passing "promising" counts as one.
LEMMA NormalizedPromising ==
  ASSUME NEW answer \in Answers, Normalize(answer) = "promising"
  PROVE  answer.decision = "promising" /\ answer.complete /\ answer.passing
<1>1. answer.complete \in BOOLEAN /\ answer.passing \in BOOLEAN
  BY InputAssumption
<1>2. answer.decision = "promising"
  BY DEF Normalize
<1>3. ~(answer.decision = "promising" /\ (~answer.complete \/ ~answer.passing))
  <2>1. "promising" # "needs-human"
    OBVIOUS
  <2> QED  BY <2>1, Zenon DEF Normalize
<1> QED  BY <1>1, <1>2, <1>3

\* A review that binds and is promising has every slot's promising answer.
LEMMA BoundReviewPromising ==
  ASSUME NEW n, NEW receipt, NEW answers \in Seq(Answers),
         ReviewBinds(Review(n, receipt, answers), receipt, n),
         Review(n, receipt, answers).decision = Promising
  PROVE  AllPromising(answers)
<1>1. Review(n, receipt, answers).answers = answers
  BY DEF Review
<1>2. /\ Len(answers) = Reviewers
      /\ \A i \in DOMAIN answers : Normalize(answers[i]) = "promising"
  BY <1>1 DEF ReviewBinds, Promising
<1>3. \A i \in DOMAIN answers : answers[i] \in Answers
  OBVIOUS
<1> QED  BY <1>2, <1>3, NormalizedPromising DEF AllPromising

\* What an invocation remembers of a review.
Reviewed(l, review) == [l EXCEPT !.review = review]

LEMMA ReviewedLocal ==
  ASSUME NEW l, IsLocal(l), NEW review
  PROVE  LET known == Reviewed(l, review) IN
         /\ IsLocal(known) /\ known.applied = l.applied /\ known.answers = l.answers
         /\ known.status = l.status /\ known.paper = l.paper /\ known.pc = l.pc
         /\ known.final = l.final /\ known.receipt = l.receipt
         /\ known.round = l.round
BY DEF IsLocal, Reviewed

LEMMA WriteReviewStep ==
  ASSUME IndInv, NEW p \in Procs, WriteReview(p)
  PROVE  IndInv'
<1> DEFINE l == at[p]
           review == Review(l.round, l.receipt, l.answers)
           known == Reviewed(l, review)
<1>0. LocalAt(p) /\ StandAt(p) /\ PatchAt(p) /\ ChainAt(p) /\ EarnedAt(p)
  BY DEF IndInv, ProcAt
<1>1. PICK k \in 1..MaxRounds : k = l.round /\ rounds[k].by = p /\ RoundAt(k) /\ Present(k)
  BY OwnRound DEF WriteReview, Looping
<1>2. /\ rounds' = [rounds EXCEPT ![k].review = review]
      /\ at' = [at EXCEPT ![p] = Decided(l, review)]
      /\ l.pc = "reviewing"
  BY <1>1, IndInv DEF WriteReview, IndInv, ShapeInv
<1>3. LocalStep(p) /\ at'[p] = Decided(l, review)
  BY <1>2, AtUpdate DEF IndInv
<1>4. l.final = k /\ l.receipt = rounds[k].receipt /\ l.receipt # NoDocument
  BY <1>0, <1>1, <1>2 DEF StandAt, ChainAt
<1>5. /\ review.round = k /\ review.receipt = l.receipt /\ review # NoDocument
      /\ review.answers = l.answers
  BY <1>1 DEF Review, NoDocument
<1>6. /\ ReviewBinds(review, l.receipt, l.round) /\ review.decision = Promising =>
           AllPromising(l.answers)
  BY <1>0, BoundReviewPromising DEF LocalAt
<1> HIDE DEF review
<1>7. /\ IsLocal(at'[p]) /\ at'[p].applied = l.applied /\ at'[p].answers = l.answers
      /\ at'[p].paper = l.paper /\ at'[p].final = k /\ at'[p].receipt = l.receipt
      /\ \/ /\ at'[p].pc = "finish" /\ at'[p].round = k
            /\ at'[p].status = "incomplete"
         \/ /\ at'[p].pc = "finish" /\ at'[p].round = k
            /\ at'[p].status = Promising /\ AllPromising(l.answers)
         \/ /\ at'[p].pc = "open" /\ at'[p].round = k + 1 /\ k < MaxRounds
            /\ at'[p].status = l.status
         \/ /\ at'[p].pc = "finish" /\ at'[p].round = k
            /\ at'[p].status = l.status
  <2>1. /\ IsLocal(known) /\ known.applied = l.applied /\ known.answers = l.answers
        /\ known.status = l.status /\ known.paper = l.paper
        /\ known.final = k /\ known.receipt = l.receipt /\ known.round = k
    BY <1>0, <1>1, <1>4, ReviewedLocal DEF LocalAt
  <2>2. \/ at'[p] = Stop(known, "incomplete")
        \/ at'[p] = Stop(known, Promising) /\ AllPromising(l.answers)
        \/ at'[p] = NextRound(known)
    BY <1>3, <1>6 DEF Decided, Reviewed, Promising
  <2> HIDE DEF known
  <2> QED  BY <2>1, <2>2 DEF IsLocal, NextRound, Stop
<1>8. /\ RoundStep(k) /\ IsRound(rounds'[k]) /\ rounds'[k].by = p
      /\ rounds'[k].tree = rounds[k].tree /\ rounds'[k].patch = rounds[k].patch
      /\ rounds'[k].receipt = rounds[k].receipt /\ rounds'[k].review = review
  BY <1>1, <1>2 DEF IndInv, ShapeInv, RoundStep, RoundAt, IsRound
<1>9. RoundAt(k)'
  <2>1. rounds[k].receipt.decision # "blocked"
    BY <1>0, <1>2, <1>4 DEF ChainAt
  <2> QED  BY <1>1, <1>4, <1>8, <2>1 DEF RoundAt
<1>10. \A n \in 1..k :
         /\ rounds'[n].by = rounds[n].by /\ rounds'[n].tree = rounds[n].tree
         /\ rounds'[n].receipt = rounds[n].receipt
  <2>1. \A n \in 1..k : n \in 1..MaxRounds
    BY LoopAssumption
  <2>2. \A n \in 1..MaxRounds : n # k => rounds'[n] = rounds[n]
    BY <1>8 DEF RoundStep
  <2>3. ASSUME NEW n \in 1..k
        PROVE  /\ rounds'[n].by = rounds[n].by /\ rounds'[n].tree = rounds[n].tree
               /\ rounds'[n].receipt = rounds[n].receipt
    <3>1. CASE n = k
      BY <1>1, <1>8, <3>1
    <3>2. CASE n # k
      BY <2>1, <2>2, <3>2
    <3> QED  BY <3>1, <3>2
  <2> QED  BY <2>3
<1>11. LocalAt(p)'
  BY <1>0, <1>1, <1>7, LoopAssumption DEF LocalAt, Pcs, Statuses, Promising
<1>12. StandAt(p)'
  BY <1>0, <1>4, <1>7, <1>8, <1>10 DEF StandAt
<1>13. PatchAt(p)'
  BY <1>7 DEF PatchAt
<1>14. ChainAt(p)'
  <2>1. k \in 1..k /\ \A n \in 2..k : n \in 1..k /\ n - 1 \in 1..k
    OBVIOUS
  <2>2. \A n \in 1..k : rounds'[n].receipt.round = n
    BY <1>0, <1>4, <1>10 DEF ChainAt
  <2>3. \A n \in 2..k : rounds'[n].receipt.previous = rounds'[n - 1].receipt
    BY <1>0, <1>4, <1>10, <2>1 DEF ChainAt
  <2>4. /\ l.receipt.decision # "blocked" => Failing(l.receipt.tree) = {}
        /\ edits' = 0 => rounds'[k].tree = l.receipt.tree
    BY <1>0, <1>4, <1>10, <2>1 DEF ChainAt, WriteReview
  <2>5. rounds'[k].receipt = l.receipt
    BY <1>4, <1>10, <2>1
  <2> QED  BY <1>4, <1>7, <2>2, <2>3, <2>4, <2>5 DEF ChainAt, Failing
<1>15. EarnedAt(p)'
  <2>1. l.status # Promising
    BY <1>0, <1>2 DEF EarnedAt
  <2>2. /\ l.receipt.decision # "blocked" /\ l.receipt.paper = l.paper
        /\ ~SnapshotRefused(l.receipt.tree)
    BY <1>0, <1>2 DEF ChainAt
  <2> QED  BY <1>4, <1>5, <1>7, <1>8, <2>1, <2>2
           DEF EarnedAt, AllPromising, SnapshotRefused, Leaks, Bulk, Promising
<1>16. ProcAt(p)'
  BY <1>11, <1>12, <1>13, <1>14, <1>15 DEF ProcAt
<1> QED  BY <1>1, <1>2, <1>3, <1>7, <1>8, <1>9, <1>16, LoopStep
         DEF WriteReview, Looping

(***************************************************************************)
(* The steps around the rounds                                             *)
(***************************************************************************)
\* A step that writes no round, no run and no manifest.
LEMMA FreeStep ==
  ASSUME IndInv, NEW p \in Procs, LocalStep(p),
         UNCHANGED <<seed, rounds, run, manifest, edits>>, ProcAt(p)',
         at'[p].pc # "manifest",
         \/ at[p].pc \notin {"manifest", "done", "killed"}
         \/ /\ at[p].pc # "done" /\ at'[p].pc = "killed"
            /\ at'[p].status = at[p].status /\ at'[p].round = at[p].round,
         evidence' = evidence \/ evidence' = Derivation[p],
         SameInputs /\ at'[p].pc \notin {"idle", "make", "refused", "killed"} =>
           evidence' = Derivation[p]
  PROVE  IndInv'
<1>1. /\ ShapeInv' /\ OwnerInv' /\ \A n \in 1..MaxRounds : RoundAt(n)'
      /\ \A q \in Procs : ProcAt(q)'
  BY RoundsKept
<1>2. \A q \in Procs : q # p => at'[q] = at[q]
  BY DEF LocalStep
<1>3. RunInv /\ ManifestInv
  BY DEF IndInv
<1>4. RunInv'
  BY <1>2, <1>3 DEF RunInv
<1>5. manifest # None => run # NoRun /\ run.by \in Procs \ {p} /\ at[run.by].pc = "done"
  BY <1>3 DEF RunInv, ManifestInv
<1>6. ManifestInv'
  <2>1. manifest' # None => run' # NoRun /\ at'[run'.by].pc = "done"
    BY <1>2, <1>5
  <2>2. ASSUME SameInputs
        PROVE  /\ manifest' # None /\ edits' = 0 =>
                    manifest' = <<evidence', rounds', run'>>
               /\ \A q \in Procs :
                    at'[q].pc \notin {"idle", "make", "refused", "killed"} =>
                      evidence' = Derivation[q]
    <3>1. \A q \in Procs : at[q].pc \notin {"idle", "make", "refused", "killed"} =>
                             evidence = Derivation[q]
      BY <1>3, <2>2 DEF ManifestInv
    <3>2. \A q \in Procs : Derivation[q] = Derivation[p]
      BY <2>2 DEF SameInputs
    <3>3. manifest # None => evidence' = evidence
      BY <1>5, <3>1, <3>2
    <3>4. manifest # None /\ edits = 0 => manifest = <<evidence, rounds, run>>
      BY <1>3, <2>2 DEF ManifestInv
    <3> QED  BY <1>2, <2>2, <3>1, <3>2, <3>3, <3>4
  <2> QED  BY <2>1, <2>2 DEF ManifestInv, SameInputs
<1> QED  BY <1>1, <1>4, <1>6 DEF IndInv

LEMMA BeginStep ==
  ASSUME IndInv, NEW p \in Procs, Begin(p)
  PROVE  IndInv'
<1> DEFINE l == at[p]
<1>0. LocalAt(p) /\ StandAt(p) /\ PatchAt(p) /\ ChainAt(p) /\ EarnedAt(p)
  BY DEF IndInv, ProcAt
<1>1. /\ LocalStep(p)
      /\ \/ at'[p] = [l EXCEPT !.pc = "refused"]
         \/ at'[p] = [l EXCEPT !.pc = "make", !.paper = paperFile]
  BY AtUpdate DEF Begin, IndInv
<1>2. /\ IsLocal(at'[p]) /\ at'[p].pc \in {"refused", "make"}
      /\ at'[p].applied = l.applied /\ at'[p].answers = l.answers
      /\ at'[p].status = l.status /\ at'[p].round = l.round
      /\ at'[p].final = l.final /\ at'[p].receipt = l.receipt
  BY <1>0, <1>1 DEF LocalAt, IsLocal
<1>3. l.round = 0 /\ l.final = 0 /\ l.status = "max-rounds"
  BY <1>0 DEF LocalAt, StandAt, Begin
<1>4. ProcAt(p)'
  <2>1. LocalAt(p)'
    BY <1>0, <1>2 DEF LocalAt, Pcs
  <2>2. StandAt(p)' /\ PatchAt(p)' /\ EarnedAt(p)'
    BY <1>2, <1>3 DEF StandAt, PatchAt, EarnedAt, Promising
  <2>3. ChainAt(p)'
    BY <1>0, <1>2, <1>3 DEF ChainAt
  <2> QED  BY <2>1, <2>2, <2>3 DEF ProcAt
<1> QED  BY <1>1, <1>2, <1>4, FreeStep DEF Begin, out

LEMMA MakeOutputStep ==
  ASSUME IndInv, NEW p \in Procs, MakeOutput(p)
  PROVE  IndInv'
<1> DEFINE l == at[p]
<1>0. LocalAt(p) /\ StandAt(p) /\ PatchAt(p) /\ ChainAt(p) /\ EarnedAt(p)
  BY DEF IndInv, ProcAt
<1>1. /\ LocalStep(p)
      /\ at'[p] = [l EXCEPT !.pc = "open", !.round = 1, !.seed = seed]
  <2>1. at' = [at EXCEPT ![p] = [l EXCEPT !.pc = "open", !.round = 1, !.seed = seed]]
    BY DEF MakeOutput, IndInv, ShapeInv
  <2> QED  BY <2>1, AtUpdate DEF IndInv
<1>2. /\ IsLocal(at'[p]) /\ at'[p].pc = "open" /\ at'[p].round = 1
      /\ at'[p].applied = l.applied /\ at'[p].answers = l.answers
      /\ at'[p].status = l.status
      /\ at'[p].final = l.final /\ at'[p].receipt = l.receipt
  BY <1>0, <1>1 DEF LocalAt, IsLocal
<1>3. l.round = 0 /\ l.final = 0 /\ l.status = "max-rounds"
  BY <1>0 DEF LocalAt, StandAt, MakeOutput
<1>4. ProcAt(p)'
  <2>1. LocalAt(p)'
    BY <1>0, <1>2, <1>3, LoopAssumption DEF LocalAt, Pcs
  <2>2. StandAt(p)' /\ PatchAt(p)' /\ EarnedAt(p)'
    BY <1>2, <1>3 DEF StandAt, PatchAt, EarnedAt, Promising
  <2>3. ChainAt(p)'
    BY <1>0, <1>2, <1>3 DEF ChainAt
  <2> QED  BY <2>1, <2>2, <2>3 DEF ProcAt
<1> QED  BY <1>1, <1>2, <1>4, FreeStep DEF MakeOutput

\* A process that stops keeps what it had.
LEMMA StoppedKept ==
  ASSUME IndInv, NEW p \in Procs, LocalStep(p), UNCHANGED <<rounds, edits>>,
         NEW pc, at'[p] = [at[p] EXCEPT !.pc = pc],
         \/ pc = "killed"
         \/ pc = "raised" /\ at[p].pc = "open"
         \/ pc = "manifest" /\ at[p].pc = "finish"
         \/ pc = "done" /\ at[p].pc = "manifest"
  PROVE  /\ ProcAt(p)' /\ at'[p].pc = pc
         /\ at'[p].status = at[p].status /\ at'[p].round = at[p].round
<1> DEFINE l == at[p]
<1>0. LocalAt(p) /\ StandAt(p) /\ PatchAt(p) /\ ChainAt(p) /\ EarnedAt(p)
  BY DEF IndInv, ProcAt
<1>2. /\ IsLocal(at'[p]) /\ at'[p].pc = pc /\ at'[p].round = l.round
      /\ at'[p].applied = l.applied /\ at'[p].answers = l.answers
      /\ at'[p].status = l.status /\ at'[p].paper = l.paper
      /\ at'[p].final = l.final /\ at'[p].receipt = l.receipt
  BY <1>0 DEF LocalAt, IsLocal
<1>3. LocalAt(p)'
  BY <1>0, <1>2 DEF LocalAt, Pcs
<1>4. StandAt(p)' /\ PatchAt(p)'
  BY <1>0, <1>2 DEF StandAt, PatchAt
<1>5. ChainAt(p)'
  BY <1>0, <1>2, ChainKept
<1>6. EarnedAt(p)'
  <2>1. CASE l.status = Promising
    <3>1. /\ l.round > 0 /\ l.final = l.round
          /\ l.receipt.decision # "blocked" /\ l.receipt.paper = l.paper
          /\ ~SnapshotRefused(l.receipt.tree)
          /\ rounds[l.final].review # NoDocument
          /\ rounds[l.final].review.receipt = l.receipt
          /\ AllPromising(rounds[l.final].review.answers)
          /\ pc \in {"manifest", "done", "killed"}
      BY <1>0, <2>1 DEF EarnedAt
    <3> QED  BY <1>2, <3>1 DEF EarnedAt
  <2>2. CASE l.status # Promising
    BY <1>2, <2>2 DEF EarnedAt
  <2> QED  BY <2>1, <2>2
<1> QED  BY <1>2, <1>3, <1>4, <1>5, <1>6 DEF ProcAt

LEMMA RoundTakenStep ==
  ASSUME IndInv, NEW p \in Procs, RoundTaken(p)
  PROVE  IndInv'
<1>1. LocalStep(p) /\ at'[p] = [at[p] EXCEPT !.pc = "raised"]
  BY AtUpdate DEF RoundTaken, Goto, IndInv
<1>2. ProcAt(p)' /\ at'[p].pc = "raised"
  BY <1>1, StoppedKept DEF RoundTaken, out
<1>3. SameInputs => evidence = Derivation[p]
  BY DEF IndInv, ManifestInv, RoundTaken
<1> QED  BY <1>1, <1>2, <1>3, FreeStep DEF RoundTaken, out

LEMMA KillStep ==
  ASSUME IndInv, NEW p \in Procs, Kill(p)
  PROVE  IndInv'
<1>1. LocalStep(p) /\ at'[p] = [at[p] EXCEPT !.pc = "killed"]
  BY AtUpdate DEF Kill, Goto, IndInv
<1>2. /\ ProcAt(p)' /\ at'[p].pc = "killed"
      /\ at'[p].status = at[p].status /\ at'[p].round = at[p].round
  BY <1>1, StoppedKept DEF Kill, out
<1> QED  BY <1>1, <1>2, FreeStep DEF Kill, Ended, out

LEMMA WriteRunStep ==
  ASSUME IndInv, NEW p \in Procs, WriteRun(p)
  PROVE  IndInv'
<1>1. LocalStep(p) /\ at'[p] = [at[p] EXCEPT !.pc = "manifest"]
  BY AtUpdate DEF WriteRun, Goto, IndInv
<1>2. /\ ProcAt(p)' /\ at'[p].pc = "manifest"
      /\ at'[p].status = at[p].status /\ at'[p].round = at[p].round
  BY <1>1, StoppedKept DEF WriteRun
<1>3. /\ ShapeInv' /\ OwnerInv' /\ \A n \in 1..MaxRounds : RoundAt(n)'
      /\ \A q \in Procs : ProcAt(q)'
  BY <1>1, <1>2, RoundsKept DEF WriteRun
<1>4. PICK k \in 1..MaxRounds : k = at[p].round /\ rounds[k].by = p
  BY OwnRound DEF WriteRun
<1>5. run = NoRun /\ manifest = None /\ rounds[1].by = p
  BY <1>4, NoRunYet DEF WriteRun
<1>6. \A q \in Procs : q # p => at'[q] = at[q] /\ at[q].pc # "manifest"
  BY <1>1, <1>5 DEF LocalStep, IndInv, RunInv
<1>7. /\ run'.by = p /\ run'.status = at[p].status /\ run'.rounds = at[p].round
      /\ run' # NoRun
  <2>1. /\ run'.by = p /\ run'.status = at[p].status /\ run'.rounds = at[p].round
    BY DEF WriteRun
  <2>2. NoRun.by = None /\ None # p
    BY LoopAssumption DEF NoRun
  <2> QED  BY <2>1, <2>2
<1>8. RunInv'
  BY <1>2, <1>4, <1>5, <1>6, <1>7 DEF RunInv, WriteRun
<1>9. ManifestInv'
  <2>1. \A q \in Procs : SameInputs /\ at'[q].pc \notin {"idle", "make", "refused", "killed"}
          => evidence = Derivation[q]
    BY <1>2, <1>6 DEF IndInv, ManifestInv, WriteRun
  <2> QED  BY <1>5, <2>1 DEF ManifestInv, WriteRun, SameInputs
<1> QED  BY <1>3, <1>8, <1>9 DEF IndInv

LEMMA WriteManifestStep ==
  ASSUME IndInv, NEW p \in Procs, WriteManifest(p)
  PROVE  IndInv'
<1>1. LocalStep(p) /\ at'[p] = [at[p] EXCEPT !.pc = "done"]
  BY AtUpdate DEF WriteManifest, Goto, IndInv
<1>2. /\ ProcAt(p)' /\ at'[p].pc = "done"
      /\ at'[p].status = at[p].status /\ at'[p].round = at[p].round
  BY <1>1, StoppedKept DEF WriteManifest
<1>3. /\ ShapeInv' /\ OwnerInv' /\ \A n \in 1..MaxRounds : RoundAt(n)'
      /\ \A q \in Procs : ProcAt(q)'
  BY <1>1, <1>2, RoundsKept DEF WriteManifest
<1>4. run # NoRun /\ run.by = p
  BY DEF IndInv, RunInv, WriteManifest
<1>5. \A q \in Procs : q # p => at'[q] = at[q]
  BY <1>1 DEF LocalStep
<1>6. RunInv'
  BY <1>2, <1>4, <1>5 DEF IndInv, RunInv, WriteManifest
<1>7. ManifestInv'
  <2>1. \A q \in Procs : SameInputs /\ at'[q].pc \notin {"idle", "make", "refused", "killed"}
          => evidence = Derivation[q]
    BY <1>2, <1>5 DEF IndInv, ManifestInv, WriteManifest
  <2> QED  BY <1>2, <1>4, <2>1 DEF ManifestInv, WriteManifest, SameInputs
<1> QED  BY <1>3, <1>6, <1>7 DEF IndInv

\* A round starts from the tree judged last, whose receipt goes to the author.
LEMMA SourceSound ==
  ASSUME IndInv, NEW p \in Procs, at[p].pc = "open"
  PROVE  /\ Source(p) \in Trees
         /\ at[p].receipt = NoDocument => at[p].final = 0
         /\ at[p].final > 0 =>
              /\ Source(p).bound = Derivation[p] \/ edits # 0
              /\ edits = 0 => Source(p) = at[p].receipt.tree
              /\ at[p].receipt.round = at[p].final
<1> DEFINE l == at[p]
<1>0. LocalAt(p) /\ StandAt(p) /\ ChainAt(p)
  BY DEF IndInv, ProcAt
<1>1. l.final \in 0..MaxRounds
  BY <1>0, LoopAssumption DEF LocalAt
<1>2. CASE l.final = 0
  BY <1>2 DEF Source, IndInv, ShapeInv
<1>3. CASE l.final > 0
  <2>1. l.final \in 1..MaxRounds /\ l.final \in 1..l.final
    BY <1>1, <1>3
  <2>2. RoundAt(l.final) /\ rounds[l.final].by = p
    BY <1>0, <2>1 DEF IndInv, StandAt
  <2>3. Present(l.final) /\ Source(p) = rounds[l.final].tree
    BY <1>3, <2>1, <2>2, PresentIsWritten DEF IndInv, Source
  <2>4. /\ l.receipt = rounds[l.final].receipt /\ l.receipt # NoDocument
        /\ edits = 0 => rounds[l.final].tree = l.receipt.tree
        /\ l.receipt.round = l.final
    BY <1>0, <1>3, <2>1 DEF ChainAt
  <2> QED  BY <1>3, <2>2, <2>3, <2>4 DEF RoundAt
<1> QED  BY <1>1, <1>2, <1>3

\* Binding the evidence of a tree.
Bind(tree, p) == [tree EXCEPT !.bound = Derivation[p]]

LEMMA BindTree ==
  ASSUME NEW tree \in Trees, NEW p \in Procs
  PROVE  /\ Bind(tree, p) \in Trees /\ Bind(tree, p).bound = Derivation[p]
         /\ tree.bound = Derivation[p] => Bind(tree, p) = tree
<1>1. /\ tree = [file |-> tree.file, bound |-> tree.bound]
      /\ tree.file \in [Files -> Contents]
  BY DEF Trees
<1>2. Bind(tree, p) = [file |-> tree.file, bound |-> Derivation[p]]
  BY <1>1 DEF Bind
<1> QED  BY <1>1, <1>2 DEF Trees

LEMMA OpenRoundStep ==
  ASSUME IndInv, NEW p \in Procs, OpenRound(p)
  PROVE  IndInv'
<1> DEFINE l == at[p]
           source == Source(p)
           conflict == source.bound \notin {None, Derivation[p]}
           tree == IF conflict THEN source ELSE Bind(source, p)
           first == l.receipt = NoDocument
           input == IF first THEN Receipt(tree, paperFile, 1, NoDocument) ELSE l.receipt
           new == [by |-> p, tree |-> tree, patch |-> NoDocument,
                   receipt |-> NoDocument, review |-> NoDocument,
                   preflight |-> IF first /\ ~conflict THEN input ELSE NoDocument]
           refused == conflict \/ SnapshotRefused(tree)
<1>0. LocalAt(p) /\ StandAt(p) /\ PatchAt(p) /\ ChainAt(p) /\ EarnedAt(p)
  BY DEF IndInv, ProcAt
<1>1. l.pc = "open" /\ l.round > 0 /\ l.final = l.round - 1
  BY <1>0 DEF StandAt, OpenRound
<1>2. PICK k \in 1..MaxRounds : k = l.round /\ rounds[k] = NoRound
  BY <1>0, <1>1 DEF LocalAt, OpenRound, Round
<1>3. /\ rounds' = [rounds EXCEPT ![k] = new]
      /\ at' = [at EXCEPT ![p] = IF refused THEN [l EXCEPT !.pc = "raised"]
                ELSE [l EXCEPT !.pc = "author", !.input = input, !.base = tree]]
  BY <1>2 DEF OpenRound, IndInv, ShapeInv, Bind
<1>4. /\ LocalStep(p)
      /\ at'[p] = IF refused THEN [l EXCEPT !.pc = "raised"]
                  ELSE [l EXCEPT !.pc = "author", !.input = input, !.base = tree]
  BY <1>3, AtUpdate DEF IndInv
<1>5. /\ tree \in Trees
      /\ ~conflict => tree.bound = Derivation[p]
      /\ l.final > 0 /\ edits = 0 =>
           tree = l.receipt.tree /\ input.tree = tree /\ input.round = l.final
  <2>1. /\ source \in Trees
        /\ first => l.final = 0
        /\ l.final > 0 =>
             /\ source.bound = Derivation[p] \/ edits # 0
             /\ edits = 0 => source = l.receipt.tree
             /\ l.receipt.round = l.final
    BY <1>1, SourceSound
  <2> HIDE DEF source
  <2>2. /\ Bind(source, p) \in Trees /\ Bind(source, p).bound = Derivation[p]
        /\ source.bound = Derivation[p] => Bind(source, p) = source
    BY <2>1, BindTree
  <2>3. /\ tree \in Trees
        /\ ~conflict => tree.bound = Derivation[p]
        /\ source.bound = Derivation[p] => tree = source
    BY <2>1, <2>2
  <2> HIDE DEF tree, conflict
  <2>4. ASSUME l.final > 0, edits = 0
        PROVE  tree = l.receipt.tree /\ input.tree = tree /\ input.round = l.final
    <3>1. source = l.receipt.tree /\ source.bound = Derivation[p] /\ ~first
      BY <2>1, <2>4
    <3> QED  BY <2>1, <2>3, <2>4, <3>1
  <2> QED  BY <2>3, <2>4
<1> HIDE DEF source, conflict, tree, input
<1>6. /\ IsLocal(at'[p]) /\ at'[p].applied = l.applied /\ at'[p].answers = l.answers
      /\ at'[p].status = l.status /\ at'[p].paper = l.paper
      /\ at'[p].round = l.round /\ at'[p].final = l.final
      /\ at'[p].receipt = l.receipt
      /\ \/ at'[p].pc = "raised"
         \/ at'[p].pc = "author" /\ at'[p].input = input /\ at'[p].base = tree
            /\ ~conflict
  BY <1>0, <1>4 DEF LocalAt, IsLocal
<1>7. RoundStep(k) /\ rounds'[k] = new
  BY <1>3 DEF IndInv, ShapeInv, RoundStep
<1>8. \A n \in 1..MaxRounds : n # k => rounds'[n] = rounds[n]
  BY <1>7 DEF RoundStep
<1>9. None \notin Procs /\ NoRound.by = None
  BY LoopAssumption DEF NoRound
<1>10. RoundAt(k)'
  <2>1. IsRound(new) /\ new.by = p /\ new.tree = tree
    BY DEF IsRound
  <2>2. new.receipt = NoDocument /\ new.review = NoDocument
    OBVIOUS
  <2> HIDE DEF new
  <2> QED  BY <1>5, <1>7, <2>1, <2>2 DEF RoundAt
<1>11. \A n \in 1..l.final : n \in 1..MaxRounds /\ n # k /\ rounds'[n] = rounds[n]
  <2>1. \A n \in 1..(k - 1) : n \in 1..MaxRounds /\ n # k
    BY LoopAssumption
  <2> QED  BY <1>1, <1>2, <1>8, <2>1
<1>12. ProcAt(p)'
  <2>1. LocalAt(p)'
    BY <1>0, <1>6 DEF LocalAt, Pcs
  <2>2. StandAt(p)'
    <3>1. \A n \in 1..l.final : rounds'[n].by = p
      BY <1>0, <1>11 DEF StandAt
    <3>2. /\ rounds'[k].by = p /\ rounds'[k].receipt = NoDocument
          /\ rounds'[k].review = NoDocument
      BY <1>7
    <3> QED  BY <1>1, <1>2, <1>6, <3>1, <3>2 DEF StandAt
  <2>3. PatchAt(p)'
    <3>1. l.round > 1 => l.final > 0
      BY <1>1, <1>2
    <3>2. CASE at'[p].pc = "raised"
      BY <3>2 DEF PatchAt
    <3>3. CASE at'[p].pc = "author"
      <4>1. at'[p].input = input /\ at'[p].base = tree /\ ~conflict
        BY <1>6, <3>3
      <4>2. edits' = edits /\ at'[p].round = l.round /\ l.final = l.round - 1
        BY <1>1, <1>6 DEF OpenRound
      <4> QED  BY <1>5, <3>1, <3>3, <4>1, <4>2 DEF PatchAt
    <3> QED  BY <1>6, <3>2, <3>3
  <2>4. ChainAt(p)'
    BY <1>0, <1>6, <1>11, ChainKept DEF OpenRound
  <2>5. EarnedAt(p)'
    BY <1>0, <1>1, <1>6 DEF EarnedAt
  <2> QED  BY <2>1, <2>2, <2>3, <2>4, <2>5 DEF ProcAt
<1>13. ShapeInv' /\ (\A n \in 1..MaxRounds : RoundAt(n)') /\ \A q \in Procs : ProcAt(q)'
  BY <1>2, <1>4, <1>7, <1>9, <1>10, <1>12, OthersKept DEF OpenRound
<1>14. /\ 1 \in 1..MaxRounds
       /\ k # 1 => rounds[1].by = p /\ Present(1)
  <2>1. 1 \in 1..MaxRounds /\ (k # 1 => 1 \in 1..l.final)
    BY <1>1, <1>2, LoopAssumption
  <2> QED  BY <1>0, <1>9, <2>1 DEF StandAt, Present
<1>15. \A n \in 1..MaxRounds : Present(n) => rounds[n].by = p
  BY <1>2, <1>14 DEF IndInv, OwnerInv, Present
<1>16. OwnerInv'
  <2>1. \A n \in 1..MaxRounds : Present(n)' => rounds'[n].by = p
    BY <1>7, <1>8, <1>15 DEF Present
  <2>2. Present(1)'
    BY <1>7, <1>8, <1>9, <1>14 DEF Present
  <2> QED  BY <2>1, <2>2 DEF OwnerInv
<1>17. run = NoRun /\ manifest = None
  <2>1. run # NoRun => rounds[1].by \in Procs /\ rounds[1].by = run.by
    BY DEF IndInv, RunInv
  <2>2. run # NoRun => run.by = p
    BY <1>9, <1>14, <1>15, <2>1 DEF Present
  <2> QED  BY <1>1, <2>2 DEF IndInv, RunInv, ManifestInv
<1>18. RunInv' /\ ManifestInv'
  <2>1. \A q \in Procs : q # p => at'[q] = at[q]
    BY <1>4 DEF LocalStep
  <2>2. \A q \in Procs : at[q].pc # "manifest" /\ at'[q].pc # "manifest"
    BY <1>6, <1>17, <2>1 DEF IndInv, RunInv
  <2>3. SameInputs => \A q \in Procs :
          at'[q].pc \notin {"idle", "make", "refused", "killed"} =>
            evidence' = Derivation[q]
    BY <1>1, <2>1 DEF IndInv, ManifestInv, OpenRound
  <2> QED  BY <1>17, <2>2, <2>3 DEF RunInv, ManifestInv, SameInputs, OpenRound
<1> QED  BY <1>13, <1>16, <1>18 DEF IndInv

(***************************************************************************)
(* The operator                                                            *)
(***************************************************************************)
\* While a provider answers one invocation, no other applies or validates.
LEMMA CallsAlone ==
  ASSUME IndInv, Calling
  PROVE  \A q \in Procs : at[q].pc \notin {"apply", "validate"}
<1>1. PICK p \in Procs : at[p].pc \in {"author", "reviewing"}
  BY DEF Calling
<1>2. ASSUME NEW q \in Procs, at[q].pc \in {"apply", "validate"}
      PROVE  FALSE
  <2>1. PICK m \in 1..MaxRounds : rounds[m].by = p /\ Present(m)
    BY <1>1, OwnRound DEF Looping
  <2>2. PICK n \in 1..MaxRounds : rounds[n].by = q /\ Present(n)
    BY <1>2, OwnRound DEF Looping
  <2>3. p = q
    BY <2>1, <2>2 DEF IndInv, OwnerInv
  <2> QED  BY <1>1, <1>2, <2>3
<1> QED  BY <1>2

\* An edit that leaves the rounds' writers and documents alone.
LEMMA EditStep ==
  ASSUME IndInv, Edited, ShapeInv', UNCHANGED <<evidence, run, manifest, at>>,
         \A n \in 1..MaxRounds :
           /\ Present(n)' <=> Present(n)
           /\ RoundAt(n)'
           /\ rounds'[n].by = rounds[n].by /\ rounds'[n].patch = rounds[n].patch
           /\ rounds'[n].receipt = rounds[n].receipt
           /\ rounds'[n].review = rounds[n].review
  PROVE  IndInv'
<1>1. edits' # 0
  BY DEF Edited, IndInv, ShapeInv
<1>2. ASSUME NEW q \in Procs PROVE ProcAt(q)'
  <2>1. ProcAt(q) /\ at[q].pc \notin {"apply", "validate"}
    BY CallsAlone DEF IndInv, Edited
  <2> QED  BY <1>1, <2>1, Frame
<1>3. 1 \in 1..MaxRounds
  BY LoopAssumption
<1>4. OwnerInv'
  BY <1>3 DEF IndInv, OwnerInv
<1>5. RunInv'
  BY <1>3 DEF IndInv, RunInv
<1>6. ManifestInv'
  BY <1>1 DEF IndInv, ManifestInv, SameInputs
<1> QED  BY <1>2, <1>4, <1>5, <1>6 DEF IndInv

LEMMA EditTreeStep ==
  ASSUME IndInv, EditTree
  PROVE  IndInv'
<1>1. DOMAIN rounds = 1..MaxRounds
  BY DEF IndInv, ShapeInv
<1>2. PICK n \in 1..MaxRounds, f \in Files, c \in Contents :
        /\ rounds[n] # NoRound
        /\ rounds' = [rounds EXCEPT ![n].tree.file[f] = c]
  BY <1>1 DEF EditTree
<1>3. /\ IsRound(rounds[n]) /\ rounds[n].by \in Procs /\ rounds[n].tree \in Trees
  BY <1>2 DEF IndInv, RoundAt, Present
<1> DEFINE tree == [rounds[n].tree EXCEPT !.file[f] = c]
<1>4. tree \in Trees
  <2>1. /\ rounds[n].tree = [file |-> rounds[n].tree.file, bound |-> rounds[n].tree.bound]
        /\ rounds[n].tree.file \in [Files -> Contents]
    BY <1>3 DEF Trees
  <2>2. tree = [file |-> [rounds[n].tree.file EXCEPT ![f] = c],
                bound |-> rounds[n].tree.bound]
    BY <2>1
  <2> QED  BY <1>3, <2>1, <2>2 DEF Trees
<1>5. /\ RoundStep(n) /\ IsRound(rounds'[n]) /\ rounds'[n].by = rounds[n].by
      /\ rounds'[n].tree = tree
      /\ rounds'[n].patch = rounds[n].patch
      /\ rounds'[n].receipt = rounds[n].receipt
      /\ rounds'[n].review = rounds[n].review
  <2>1. rounds' = [rounds EXCEPT ![n] = [rounds[n] EXCEPT !.tree = tree]]
    BY <1>2 DEF IndInv, ShapeInv
  <2> HIDE DEF tree
  <2> QED  BY <1>3, <2>1 DEF IndInv, ShapeInv, RoundStep, IsRound
<1>6. Present(n) /\ Present(n)'
  <2>1. None \notin Procs /\ NoRound.by = None
    BY LoopAssumption DEF NoRound
  <2> QED  BY <1>2, <1>3, <1>5, <2>1 DEF Present
<1>7. RoundAt(n) /\ RoundAt(n)'
  <2> HIDE DEF tree
  <2>1. RoundAt(n)
    BY DEF IndInv
  <2> QED  BY <1>3, <1>4, <1>5, <1>6, <2>1 DEF RoundAt
<1>8. \A m \in 1..MaxRounds : m # n => rounds'[m] = rounds[m]
  BY <1>5 DEF RoundStep
<1>9. ASSUME NEW m \in 1..MaxRounds
      PROVE  /\ Present(m)' <=> Present(m)
             /\ RoundAt(m)'
             /\ rounds'[m].by = rounds[m].by /\ rounds'[m].patch = rounds[m].patch
             /\ rounds'[m].receipt = rounds[m].receipt
             /\ rounds'[m].review = rounds[m].review
  <2>1. CASE m = n
    BY <1>5, <1>6, <1>7, <2>1
  <2>2. CASE m # n
    BY <1>8, <2>2 DEF IndInv, RoundAt, Present
  <2> QED  BY <2>1, <2>2
<1>10. ShapeInv'
  <2>1. rounds' = [m \in 1..MaxRounds |-> rounds'[m]]
    BY <1>2 DEF IndInv, ShapeInv
  <2>2. edits' \in 0..MaxEdits
    BY LoopAssumption DEF IndInv, ShapeInv, EditTree, Edited
  <2>3. UNCHANGED <<seed, at>>
    BY DEF EditTree
  <2> QED  BY <2>1, <2>2, <2>3 DEF IndInv, ShapeInv
<1> QED  BY <1>9, <1>10, EditStep DEF EditTree

LEMMA EditOtherStep ==
  ASSUME IndInv, EditSeed \/ EditPaper
  PROVE  IndInv'
<1>1. UNCHANGED rounds
  BY DEF EditSeed, EditPaper, out
<1>2. seed' \in Trees
  <2>1. CASE EditPaper
    BY <2>1 DEF EditPaper, IndInv, ShapeInv
  <2>2. CASE EditSeed
    <3>1. PICK f \in Files : seed' = [seed EXCEPT !.file[f] = "weak"]
      BY <2>2 DEF EditSeed
    <3>2. /\ seed = [file |-> seed.file, bound |-> seed.bound]
          /\ seed.file \in [Files -> Contents] /\ seed \in Trees
      BY DEF IndInv, ShapeInv, Trees
    <3>3. seed' = [file |-> [seed.file EXCEPT ![f] = "weak"], bound |-> seed.bound]
      BY <3>1, <3>2
    <3> QED  BY <3>2, <3>3 DEF Trees, Contents
  <2> QED  BY <2>1, <2>2
<1>3. ShapeInv'
  <2>1. Edited /\ edits \in 0..MaxEdits /\ UNCHANGED at
    BY DEF EditSeed, EditPaper, IndInv, ShapeInv
  <2>2. edits' \in 0..MaxEdits
    BY <2>1, LoopAssumption DEF Edited
  <2> QED  BY <1>1, <1>2, <2>1, <2>2 DEF IndInv, ShapeInv
<1>4. \A n \in 1..MaxRounds : RoundAt(n)' /\ (Present(n)' <=> Present(n))
  BY <1>1 DEF IndInv, RoundAt, Present
<1> QED  BY <1>1, <1>3, <1>4, EditStep DEF EditSeed, EditPaper, out

(***************************************************************************)
(* The theorems                                                            *)
(***************************************************************************)
LEMMA InitInv ==
  ASSUME Init
  PROVE  IndInv
<1>1. MaxRounds \in Nat \ {0} /\ 0 \in 0..MaxEdits /\ Reviewers \in Nat
  BY LoopAssumption
<1>2. ShapeInv
  BY <1>1, InputAssumption DEF Init, ShapeInv
<1>3. OwnerInv /\ \A n \in 1..MaxRounds : RoundAt(n) /\ ~Present(n)
  BY DEF Init, OwnerInv, Present, RoundAt
<1>4. \A p \in Procs : at[p] = Idle
  BY DEF Init
<1>5. RunInv /\ ManifestInv
  BY <1>4 DEF Init, RunInv, ManifestInv, Idle
<1>6. ASSUME NEW p \in Procs PROVE ProcAt(p)
  <2>1. LocalAt(p)
    <3>1. <<>> \in Seq(Answers) /\ Len(<<>>) = 0
      OBVIOUS
    <3>2. IsLocal(Idle)
      BY DEF IsLocal, Idle
    <3>3. /\ Idle.pc \in Pcs /\ Idle.status \in Statuses /\ Idle.round = 0
          /\ Idle.final = 0 /\ Idle.applied = 0 /\ Idle.answers = <<>>
      BY DEF Idle, Pcs, Statuses
    <3>4. 0 \in 0..MaxRounds /\ 0 \in 0..0 /\ 0 \in Nat /\ 0 <= Reviewers
      BY <1>1
    <3>5. at[p] = Idle
      BY <1>4
    <3> QED  BY <3>1, <3>2, <3>3, <3>4, <3>5, Zenon DEF LocalAt
  <2>2. StandAt(p) /\ PatchAt(p) /\ ChainAt(p) /\ EarnedAt(p)
    BY <1>4 DEF StandAt, PatchAt, ChainAt, EarnedAt, Idle, Promising
  <2> QED  BY <2>1, <2>2 DEF ProcAt
<1> QED  BY <1>2, <1>3, <1>5, <1>6 DEF IndInv

LEMMA StepInv ==
  ASSUME IndInv, [Next]_vars
  PROVE  IndInv'
<1>1. ASSUME NEW p \in Procs, Begin(p) \/ Kill(p)
      PROVE  IndInv'
  BY <1>1, BeginStep, KillStep
<1>2. ASSUME NEW p \in Procs, Iterate(p)
      PROVE  IndInv'
  <2>1. CASE MakeOutput(p) \/ RoundTaken(p) \/ OpenRound(p)
    BY <2>1, MakeOutputStep, RoundTakenStep, OpenRoundStep
  <2>2. CASE ProviderFails(p) \/ AuthorReply(p) \/ ApplyPatch(p) \/ Validate(p)
    BY <2>2, ProviderFailsStep, AuthorReplyStep, ApplyPatchStep, ValidateStep
  <2>3. CASE BeginReview(p) \/ ReviewerAnswers(p) \/ WriteReview(p)
    BY <2>3, BeginReviewStep, ReviewerAnswersStep, WriteReviewStep
  <2>4. CASE WriteRun(p) \/ WriteManifest(p)
    BY <2>4, WriteRunStep, WriteManifestStep
  <2> QED  BY <1>2, <2>1, <2>2, <2>3, <2>4 DEF Iterate
<1>3. CASE EditTree \/ EditSeed \/ EditPaper
  BY <1>3, EditTreeStep, EditOtherStep
<1>4. CASE UNCHANGED vars
  <2>1. UNCHANGED <<seed, paperFile, evidence, rounds, run, manifest, at, edits>>
    BY <1>4 DEF vars, out
  <2>2. ShapeInv' /\ OwnerInv' /\ RunInv' /\ ManifestInv'
    BY <2>1 DEF IndInv, ShapeInv, OwnerInv, RunInv, ManifestInv, Present, SameInputs
  <2>3. \A n \in 1..MaxRounds : RoundAt(n)'
    BY <2>1 DEF IndInv, RoundAt, Present
  <2>4. \A p \in Procs : ProcAt(p)'
    BY <2>1, Frame DEF IndInv
  <2> QED  BY <2>2, <2>3, <2>4 DEF IndInv
<1> QED  BY <1>1, <1>2, <1>3, <1>4 DEF Next

\* Every reachable state has the invariant.
THEOREM Inductive == Spec => []IndInv
<1>1. Init => IndInv
  BY InitInv
<1>2. IndInv /\ [Next]_vars => IndInv'
  BY StepInv
<1> QED  BY <1>1, <1>2, PTL DEF Spec

LEMMA InvType ==
  ASSUME IndInv
  PROVE  TypeOK
<1>1. DOMAIN rounds = 1..MaxRounds
  BY DEF IndInv, ShapeInv
<1>2. \A n \in 1..MaxRounds : RoundAt(n)
  BY DEF IndInv
<1>3. \A p \in Procs : LocalAt(p)
  BY DEF IndInv, ProcAt
<1>4. seed \in Trees /\ edits \in 0..MaxEdits
  BY DEF IndInv, ShapeInv
<1> QED  BY <1>1, <1>2, <1>3, <1>4 DEF TypeOK, RoundAt, Present, LocalAt

\* run.json says promising only when the last round's reviewers all said so of the
\* receipt that passed the static gate, chained to every receipt before it:
\* iterate's own claim, for any number of invocations, rounds, edits and kills.
THEOREM PromisingAlwaysEarned == Spec => []PromisingEarned
<1>1. IndInv => PromisingEarned
  <2> SUFFICES ASSUME IndInv, run # NoRun, run.status = Promising
               PROVE  PromisingEarned
    BY DEF PromisingEarned, Promising
  <2> DEFINE p == run.by  l == at[p]  last == rounds[run.rounds]
  <2>1. /\ p \in Procs /\ run.rounds = l.round /\ l.status = Promising
    BY DEF IndInv, RunInv
  <2>2. ChainAt(p) /\ EarnedAt(p)
    BY <2>1 DEF IndInv, ProcAt
  <2>3. /\ l.round > 0 /\ l.final = l.round
        /\ l.receipt.decision # "blocked" /\ l.receipt.paper = l.paper
        /\ ~SnapshotRefused(l.receipt.tree)
        /\ last.review # NoDocument /\ last.review.receipt = l.receipt
        /\ AllPromising(last.review.answers)
    BY <2>1, <2>2 DEF EarnedAt
  <2>4. /\ l.receipt = last.receipt /\ l.receipt # NoDocument
        /\ Failing(last.receipt.tree) = {}
        /\ \A n \in 2..run.rounds : rounds[n].receipt.previous = rounds[n - 1].receipt
    BY <2>1, <2>2, <2>3 DEF ChainAt
  <2> QED  BY <2>3, <2>4 DEF PromisingEarned, AllPromising
<1> QED  BY <1>1, Inductive, PTL

\* What the static gate judged is the tree the author was shown with the author's
\* files on it, whoever edits what during a provider call.
THEOREM ValidatedAlwaysPatched == Spec => []ValidatedIsPatched
<1>1. IndInv => ValidatedIsPatched
  <2> SUFFICES ASSUME IndInv PROVE ValidatedIsPatched
    OBVIOUS
  <2>1. \A p \in Procs : PatchAt(p)
    BY DEF IndInv, ProcAt
  <2>2. DOMAIN rounds = 1..MaxRounds /\ \A n \in 1..MaxRounds : RoundAt(n)
    BY DEF IndInv, ShapeInv
  <2> QED  BY <2>1, <2>2 DEF ValidatedIsPatched, PatchAt, RoundAt, Present
<1> QED  BY <1>1, Inductive, PTL

\* Invocations that are given one derivation never mix their work in an output
\* directory, also when several of them find it empty.
THEOREM AlwaysOneWriter == SameInputs => (Spec => []OneWriter)
<1>1. SameInputs /\ IndInv => OneWriter
  <2> SUFFICES ASSUME SameInputs, IndInv PROVE OneWriter
    OBVIOUS
  <2>1. DOMAIN rounds = 1..MaxRounds /\ 1 \in 1..MaxRounds
    BY LoopAssumption DEF IndInv, ShapeInv
  <2>2. \A m, n \in 1..MaxRounds :
          Present(m) /\ Present(n) => rounds[m].by = rounds[n].by
    BY DEF IndInv, OwnerInv
  <2>3. run # NoRun => \A n \in 1..MaxRounds : Present(n) => rounds[n].by = run.by
    BY <2>1 DEF IndInv, OwnerInv, RunInv
  <2>4. manifest # None /\ edits = 0 => manifest = <<evidence, rounds, run>>
    BY DEF IndInv, ManifestInv
  <2> QED  BY <2>1, <2>2, <2>3, <2>4, InvType DEF OneWriter, Present
<1>2. SUFFICES ASSUME SameInputs PROVE Spec => []OneWriter
  OBVIOUS
<1>3. IndInv => OneWriter
  BY <1>1, <1>2
<1> QED  BY <1>3, Inductive, PTL
=============================================================================
