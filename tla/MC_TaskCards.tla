---------------------------- MODULE MC_TaskCards ----------------------------
(* A small instance of TaskCards: two models, and the results of a screening *)
(* that matter: separated, not separated, too few repetitions, an exception  *)
(* in an arm, failed controls.                                               *)
EXTENDS TaskCards

CONSTANTS m1, m2
MCModels == <<m1, m2>>

Arm(n, solve, passed) == [n |-> n, solve |-> solve, passed |-> passed,
                          infra |-> solve < n]
Result(n, x, y) == [repetitions |-> n, failed |-> FALSE,
                    arms |-> [a \in {<<m1, 0>>, <<m2, 0>>} |->
                                IF a[1] = m1 THEN x ELSE y]]
MCRollouts ==
  {Result(5, Arm(5, 5, 5), Arm(5, 5, 0)), Result(5, Arm(5, 5, 3), Arm(5, 5, 0)),
   Result(3, Arm(3, 3, 3), Arm(3, 3, 0)), Result(5, Arm(5, 4, 4), Arm(5, 5, 0)),
   [Result(5, Arm(5, 5, 5), Arm(5, 5, 0)) EXCEPT !.failed = TRUE]}
=============================================================================
