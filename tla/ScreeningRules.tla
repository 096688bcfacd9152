--------------------------- MODULE ScreeningRules ---------------------------
(***************************************************************************)
(* How a screening report decides: volc_rollout._discrimination_summary    *)
(* and the decision of run_rollout.  A tally gives, for an arm             *)
(* <<model, hint level>>, the number of trials, the number with an         *)
(* outcome, the number solved and whether some trial has an exception.     *)
(***************************************************************************)
EXTENDS Integers, Sequences, FiniteSets, FiniteSetsExt

CONSTANT None

\* What the tallies of a report are: solved trials among those with an outcome,
\* among all trials of the arm.
TalliesFit(tally) ==
  \A a \in DOMAIN tally : /\ tally[a].n \in Nat /\ tally[a].solve \in 0 .. tally[a].n
                          /\ tally[a].passed \in 0 .. tally[a].solve

MIN_DISCRIMINATION_REPETITIONS == 5

\* The two-sided 95% Wilson interval of k successes in n is
\*   (k + z2/2 +- z sqrt(k(n-k)/n + z2/4)) / (n + z2).
\* For two cells of the same n the lower end of the better one is above the
\* upper end of the worse one iff their distance d exceeds the two radii.
\* Squared twice to stay in the integers, with z2 = 3.8415 taken as 23/6, which
\* decides every pair as the code does for every n up to 12 (TLC's integers
\* hold the products for n up to 6).
WilsonSeparated(best, worst, n) ==
  LET spread(k) == 23 * (24 * k * (n - k) + 23 * n)
      slack == 144 * n * (best - worst) * (best - worst)
                 - spread(best) - spread(worst)
  IN  /\ best > worst
      /\ slack > 0
      /\ slack * slack > 4 * spread(best) * spread(worst)

\* The unassisted arms with a rate, one cell per position of the model list.
Cells(models, tally) ==
  {i \in DOMAIN models : /\ <<models[i], 0>> \in DOMAIN tally
                         /\ tally[<<models[i], 0>>].solve > 0}

\* Mutant: the rectangle is not required to be free of infrastructure failures.
RectangularAnyCount(models, tally, repetitions) ==
  /\ Len(models) >= 2
  /\ Cells(models, tally) = DOMAIN models

Rectangular(models, tally, repetitions) ==
  /\ Len(models) >= 2
  /\ Cells(models, tally) = DOMAIN models
  /\ \A i \in DOMAIN models :
       /\ tally[<<models[i], 0>>].solve = repetitions
       /\ ~tally[<<models[i], 0>>].infra

Promising(models, tally, repetitions) ==
  /\ Rectangular(models, tally, repetitions)
  /\ repetitions >= MIN_DISCRIMINATION_REPETITIONS
  /\ LET passed == {tally[<<models[i], 0>>].passed : i \in DOMAIN models}
     IN  WilsonSeparated(Max(passed), Min(passed), repetitions)

\* The observed gap in successes of one repetition each; None if not a rectangle.
ObservedGap(models, tally, repetitions) ==
  IF ~Rectangular(models, tally, repetitions) THEN None
  ELSE LET passed == {tally[<<models[i], 0>>].passed : i \in DOMAIN models}
       IN  Max(passed) - Min(passed)

Decision(failed, models, tally, repetitions) ==
  IF failed THEN "revise-or-drop"
  ELSE IF Promising(models, tally, repetitions) THEN "review-promising"
  ELSE "collect-more-evidence"

=============================================================================
