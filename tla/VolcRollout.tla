----------------------------- MODULE VolcRollout -----------------------------
(***************************************************************************)
(* volc_rollout.run_rollout: the screening of one task with provider       *)
(* models.  An oracle and a NOP control go through the verifier container  *)
(* first; only when both behave does every model get its repetitions at    *)
(* every hint level.  Each trial is a provider call, a candidate solver    *)
(* and a verifier container stopped at a deadline and at an output cap by  *)
(* _bounded_process (module AgentProcess).  The report aggregates trials   *)
(* into arms and decides whether the models are separated.                 *)
(*                                                                         *)
(* Trials are folded into the arms' tallies as they end: the report keeps  *)
(* nothing else of their order.  Rates are kept as successes and           *)
(* denominators, which is what the code recovers from them.                *)
(***************************************************************************)
EXTENDS ScreeningRules

CONSTANTS
  Requests,   \* records [models, hints, repetitions, visible, tests]: calls of
              \* run_rollout; visible: the public files can be read;
              \* tests: the task has a tests directory
  Outcomes,   \* records [failure, code, ctrf, reward]: what a verifier
              \* container leaves behind
  Malformed   \* a CTRF file that is not a report

\* The ways a container ends: _bounded_process names no other, and none "timeout".
Failures == {None, "agent_exit_nonzero", "wall_clock_timeout",
             "output_limit_exceeded", "launch_error"}
Counts == [tests : Nat, passed : Nat, failed : Nat, other : Nat]

ASSUME RequestAssumption ==
  \A q \in Requests : /\ q.models \in Seq(Range(q.models))
                      /\ q.hints \in Seq(Int) /\ q.repetitions \in Int
                      /\ q.visible \in BOOLEAN /\ q.tests \in BOOLEAN
ASSUME OutcomeAssumption ==
  /\ None # Malformed /\ Counts \cap {None, Malformed} = {}
  /\ None \notin {"0", "1", "timeout"}
  /\ \A o \in Outcomes : /\ o.failure \in Failures
                         /\ o.ctrf \in Counts \cup {None, Malformed}

VARIABLES
  phase,     \* "idle", "oracle", "nop", "gates", "trials", "report", "done", "error"
  request,   \* the arguments of the call
  expected,  \* expected_tests: the oracle's number of tests, 0 unknown
  control,   \* control[c]: the trial record of control c, None before it ran
  next,      \* trials that have ended
  arms,      \* arms[a]: the tally of arm a = <<model, hint level>>
  report,    \* screening-report.json, None before it is written
  truth      \* truth[a]: what really happened in arm a (history)

rolloutVars == <<phase, request, expected, control, next, arms, report, truth>>

-----------------------------------------------------------------------------
(* _run_container *)

IsCounts(ctrf) == ctrf \notin {None, Malformed}

Consistent(ctrf) ==
  /\ ctrf.tests > 0
  /\ ctrf.passed + ctrf.failed + ctrf.other = ctrf.tests

\* The reward agrees with the counts: 1 with every test passed, 0 with one
\* failed.
Agrees(reward, ctrf) == IF reward = "1" THEN ctrf.passed = ctrf.tests
                        ELSE ctrf.failed > 0

Infra(error) == [status |-> "infra_error", error |-> error, valid |-> FALSE,
                 tests |-> 0]

\* Mutant: the test count of the oracle is not passed on.
RunContainerAnyCount(o, wanted) ==
  IF o.failure = None /\ o.code = 0 /\ IsCounts(o.ctrf) /\ o.reward # None
  THEN IF Consistent(o.ctrf) /\ o.reward \in {"0", "1"}
            /\ Agrees(o.reward, o.ctrf)
       THEN [status |-> IF o.reward = "1" THEN "pass" ELSE "fail",
             error |-> None, valid |-> TRUE, tests |-> o.ctrf.tests]
       ELSE Infra("VerifierReceiptInconsistent")
  ELSE Infra("VerifierReceiptMissing")

\* wanted: expected_tests, 0 when the count is not known yet.
RunContainer(o, wanted) ==
  CASE o.failure = "launch_error" -> Infra("VolcRolloutError")
    [] o.failure = "timeout" ->
         [Infra("VerifierTimeout") EXCEPT !.status = "timeout"]
    [] o.failure = "output_limit_exceeded" ->
         Infra("VerifierOutputLimitExceeded")
    [] o.failure \notin {"launch_error", "timeout", "output_limit_exceeded"} ->
         CASE o.code # 0 -> Infra("VerifierEntrypointError")
           [] o.code = 0 /\ (o.ctrf = None \/ o.reward = None) ->
                Infra("VerifierReceiptMissing")
           [] o.code = 0 /\ o.ctrf = Malformed /\ o.reward # None ->
                Infra("VerifierReceiptMalformed")
           [] OTHER ->
                IF ~Consistent(o.ctrf) THEN Infra("VerifierReceiptInconsistent")
                ELSE IF wanted # 0 /\ o.ctrf.tests # wanted
                THEN Infra("VerifierTestCountMismatch")
                ELSE IF o.reward \notin {"0", "1"}
                THEN Infra("VerifierRewardMalformed")
                ELSE IF ~Agrees(o.reward, o.ctrf)
                THEN Infra("VerifierReceiptInconsistent")
                ELSE [status |-> IF o.reward = "1" THEN "pass" ELSE "fail",
                      error |-> None, valid |-> TRUE, tests |-> o.ctrf.tests]

-----------------------------------------------------------------------------
(* The control gates *)

Gate(c) ==
  CASE control[c] = None -> "missing"
    [] control[c] # None /\ ~control[c].valid -> "infrastructure-error"
    [] OTHER -> IF control[c].status = (IF c = "oracle" THEN "pass" ELSE "fail")
                THEN "pass" ELSE "fail"

ControlFailure == \E c \in {"oracle", "nop"} : Gate(c) # "pass"

-----------------------------------------------------------------------------
(* _summarize_trials *)

OutcomeStatuses == {"pass", "fail", "invalid_output"}

\* infra: some trial has an exception; late: the failure mode
\* verifier_timeout_inconclusive is listed.
NoTrials == [n |-> 0, solve |-> 0, passed |-> 0, infra |-> FALSE,
             late |-> FALSE]

One(condition) == IF condition THEN 1 ELSE 0

\* One more trial of an arm.
Summarize(entry, trial) ==
  [n |-> entry.n + 1,
   solve |-> entry.solve + One(trial.status \in OutcomeStatuses),
   passed |-> entry.passed + One(trial.status = "pass"),
   infra |-> entry.infra \/ trial.status \notin OutcomeStatuses,
   late |-> entry.late \/ trial.status = "timeout"]

-----------------------------------------------------------------------------
RolloutInit ==
  /\ phase = "idle"
  /\ request \in Requests
  /\ expected = 0
  /\ control = [c \in {"oracle", "nop"} |-> None]
  /\ next = 0
  /\ arms = [a \in {} |-> NoTrials] /\ truth = [a \in {} |-> NoTrials]
  /\ report = None

\* run_rollout checks its arguments; the first use of a task without tests
\* raises out of the oracle control.
CheckRequest ==
  /\ phase = "idle"
  /\ phase' = IF /\ request.repetitions > 0 /\ request.hints # <<>>
              /\ \A i \in DOMAIN request.hints : request.hints[i] >= 0
              /\ request.tests
           THEN "oracle" ELSE "error"
  /\ UNCHANGED <<request, expected, control, next, arms, report, truth>>

\* _run_control_trial("oracle"): the verifier's test count becomes the count
\* every later container has to report.  The solution may be missing.
RunOracle ==
  /\ phase = "oracle"
  /\ \E r \in {RunContainer(o, 0) : o \in Outcomes}
              \cup {Infra("OracleSolverMissing")} :
       /\ control' = [control EXCEPT !["oracle"] = r]
       /\ expected' = r.tests
  /\ phase' = "nop"
  /\ UNCHANGED <<request, next, arms, report, truth>>

RunNop ==
  /\ phase = "nop"
  /\ \E o \in Outcomes :
       control' = [control EXCEPT !["nop"] = RunContainer(o, expected)]
  /\ phase' = "gates"
  /\ UNCHANGED <<request, expected, next, arms, report, truth>>

CheckGates ==
  /\ phase = "gates"
  /\ phase' = IF ControlFailure THEN "report" ELSE "trials"
  /\ UNCHANGED <<request, expected, control, next, arms, report, truth>>

\* The arm of trial number i, counted from 0: models, then hints, then
\* repetitions.
ArmOf(i) ==
  LET cell == i \div request.repetitions
  IN  <<request.models[(cell \div Len(request.hints)) + 1],
        request.hints[(cell % Len(request.hints)) + 1]>>

Planned == Len(request.models) * Len(request.hints) * request.repetitions

Tally(f, a) == IF a \in DOMAIN f THEN f[a] ELSE NoTrials
Put(f, a, v) == [x \in DOMAIN f \cup {a} |-> IF x = a THEN v ELSE f[x]]

\* A trial really counts when its verifier exited by itself, its output complete,
\* and reported on all the tests the oracle was judged by.
Judged(o) ==
  /\ o.failure \notin {"launch_error", "output_limit_exceeded"} /\ o.code = 0
  /\ IsCounts(o.ctrf) /\ o.reward \in {"0", "1"}
  /\ o.ctrf.tests = expected /\ Consistent(o.ctrf) /\ Agrees(o.reward, o.ctrf)
Solved(o) == Judged(o) /\ o.ctrf.passed = expected

Trial(record, counts, solved) ==
  LET a == ArmOf(next)
      old == Tally(truth, a)
  IN  /\ arms' = Put(arms, a, Summarize(Tally(arms, a), record))
      /\ truth' = Put(truth, a, [n |-> old.n + 1,
                                 solve |-> old.solve + One(counts),
                                 passed |-> old.passed + One(solved)])
      /\ next' = next + 1

\* _run_trial: the provider fails, its answer holds no solver, or the candidate
\* goes through the verifier.
ProviderFails ==
  Trial([status |-> "infra_error", error |-> "VolcReviewError"], FALSE, FALSE)
InvalidOutput ==
  Trial([status |-> "invalid_output", error |-> None], TRUE, FALSE)
Verified ==
  \E o \in Outcomes : Trial(RunContainer(o, expected), Judged(o), Solved(o))

RunTrial ==
  /\ phase = "trials" /\ next < Planned /\ request.visible
  /\ ProviderFails \/ InvalidOutput \/ Verified
  /\ UNCHANGED <<phase, request, expected, control, report>>

\* The prompt cannot be built from the public files: the error leaves
\* run_rollout, the controls' results are lost.
PromptFails ==
  /\ phase = "trials" /\ next < Planned /\ ~request.visible
  /\ phase' = "error"
  /\ UNCHANGED <<request, expected, control, next, arms, report, truth>>

TrialsDone ==
  /\ phase = "trials" /\ next = Planned
  /\ phase' = "report"
  /\ UNCHANGED <<request, expected, control, next, arms, report, truth>>

WriteReport ==
  /\ phase = "report"
  /\ report' = [arms |-> arms, failed |-> ControlFailure,
                decision |-> Decision(ControlFailure, request.models, arms,
                                      request.repetitions),
                gap |-> ObservedGap(request.models, arms, request.repetitions),
                level |-> IF ControlFailure THEN "E1" ELSE "E3"]
  /\ phase' = "done"
  /\ UNCHANGED <<request, expected, control, next, arms, truth>>

RolloutNext == \/ CheckRequest \/ RunOracle \/ RunNop \/ CheckGates
               \/ RunTrial \/ PromptFails \/ TrialsDone \/ WriteReport

RolloutSpec == RolloutInit /\ [][RolloutNext]_rolloutVars

-----------------------------------------------------------------------------
RolloutTypeOK ==
  /\ phase \in {"idle", "oracle", "nop", "gates", "trials", "report", "done",
             "error"}
  /\ request \in Requests /\ next \in {0} \cup 1 .. Planned
  /\ DOMAIN arms = DOMAIN truth
  /\ \A a \in DOMAIN arms : arms[a].passed <= arms[a].solve
                            /\ arms[a].solve <= arms[a].n

\* The rates of a report are those of trials that were judged: a solved trial
\* is one whose verifier exited by itself and passed every test the oracle was
\* judged by, and nothing that a provider failure, a cut-off, a missing or
\* contradictory receipt or a smaller test suite left behind enters a
\* denominator.  The report accounts for every planned trial exactly once, each
\* in its arm, or for none when a control failed; then nothing was spent on a
\* model.
RatesHonest ==
  /\ RolloutTypeOK
  /\ \A a \in DOMAIN arms : /\ arms[a].solve = truth[a].solve
                            /\ arms[a].passed = truth[a].passed
  /\ report # None =>
       IF report.failed THEN DOMAIN report.arms = {}
       ELSE /\ DOMAIN report.arms
                 = Range(request.models) \X Range(request.hints)
            /\ \A a \in DOMAIN report.arms :
                 report.arms[a].n
                   = Cardinality({i \in 0 .. Planned - 1 : ArmOf(i) = a})

\* "review-promising" rests on a separation no shortcut can produce: two different
\* models, five or more repetitions each, all of them judged, and a gap of five
\* successes, the least that the 95% Wilson intervals of any number of repetitions
\* from five on can be apart.
PromisingSound ==
  report # None /\ report.decision = "review-promising" =>
    \E best, worst \in Range(request.models) :
      /\ best # worst
      /\ request.repetitions >= 5
      /\ \A m \in {best, worst} :
           /\ truth[<<m, 0>>].n = request.repetitions
           /\ truth[<<m, 0>>].solve = request.repetitions
      /\ truth[<<best, 0>>].passed - truth[<<worst, 0>>].passed >= 5

=============================================================================
