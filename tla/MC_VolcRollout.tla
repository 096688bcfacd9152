--------------------------- MODULE MC_VolcRollout ---------------------------
(* Small instances of VolcRollout. *)
EXTENDS VolcRollout

CONSTANTS m1, m2

Call(models, hints, repetitions) ==
  [models |-> models, hints |-> hints, repetitions |-> repetitions,
   visible |-> TRUE, tests |-> TRUE]

\* Two models at the minimum of repetitions, and short, repeated, hinted and
\* malformed calls.
MCRequests ==
  {Call(<<m1, m2>>, <<0>>, 5), Call(<<m1, m2>>, <<0>>, 6),
   Call(<<m1, m2>>, <<0>>, 4),
   Call(<<m1, m2>>, <<0, 1>>, 1), Call(<<m1, m1>>, <<0>>, 2),
   Call(<<m1>>, <<0, 0>>, 3), Call(<<m1, m2>>, <<2, 1>>, 1),
   Call(<<m1>>, <<0>>, 0),
   [Call(<<m1, m2>>, <<0>>, 5) EXCEPT !.visible = FALSE],
   [Call(<<m1, m2>>, <<0>>, 5) EXCEPT !.tests = FALSE]}

Ctrf(t, p, f) == [tests |-> t, passed |-> p, failed |-> f,
                    other |-> t - p - f]
Ended(ctrf, reward) == [failure |-> None, code |-> 0, ctrf |-> ctrf,
                        reward |-> reward]
Cut(failure, code) == [failure |-> failure, code |-> code, ctrf |-> None,
                       reward |-> None]

\* A verifier of two tests: every way its container and its receipts can end.
\* At the deadline or the cap it may just have exited, its receipts written.
Passed(failure) == [failure |-> failure, code |-> 0, ctrf |-> Ctrf(2, 2, 0),
                    reward |-> "1"]
MCOutcomes ==
  {Ended(Ctrf(2, 2, 0), "1"), Ended(Ctrf(2, 1, 1), "0"),
   Ended(Ctrf(2, 1, 0), "0"), Ended(Ctrf(2, 1, 1), "1"),
   Ended(Ctrf(1, 1, 0), "1"), Ended(Ctrf(0, 0, 0), "0"),
   Ended(Ctrf(2, 2, 0), "other"), Ended(Malformed, "1"),
   Ended(None, "1"), Ended(Ctrf(2, 2, 0), None),
   Cut("agent_exit_nonzero", 1), Cut("wall_clock_timeout", -9),
   Passed("wall_clock_timeout"), Passed("output_limit_exceeded"),
   Cut("output_limit_exceeded", -9), Cut("launch_error", None)}
=============================================================================
