---------------------------- MODULE MatrixLedger ----------------------------
(***************************************************************************)
(* What the Harbor model matrix promises to whoever pays for it: a job is  *)
(* charged, then started, once, then perhaps complete for good, and a      *)
(* receipt names a complete job of every model.  Nothing else about        *)
(* processes, directories, retries or crashes is visible here;             *)
(* HarborModelMatrix implements it.                                        *)
(***************************************************************************)
EXTENDS Naturals

CONSTANTS Models, Attempts, None

VARIABLES
  charged,    \* charged[m]: the attempts of model m that are paid for
  started,    \* started[m][n]: how often attempt n was started
  complete,   \* complete[m]: the attempts with a complete result
  published   \* the job the receipt names for each model

account == <<charged, started, complete, published>>

Init ==
  /\ charged = [m \in Models |-> {}]
  /\ started = [m \in Models |-> [n \in Attempts |-> 0]]
  /\ complete = [m \in Models |-> {}]
  /\ published = None

Charge(m, n) ==
  /\ n \notin charged[m]
  /\ charged' = [charged EXCEPT ![m] = @ \cup {n}]
  /\ UNCHANGED <<started, complete, published>>

Start(m, n) ==
  /\ n \in charged[m] /\ started[m][n] = 0
  /\ started' = [started EXCEPT ![m][n] = 1]
  /\ UNCHANGED <<charged, complete, published>>

Finish(m, n) ==
  /\ started[m][n] = 1
  /\ complete' = [complete EXCEPT ![m] = @ \cup {n}]
  /\ UNCHANGED <<charged, started, published>>

Publish(jobs) ==
  /\ \A m \in Models : jobs[m] \in complete[m]
  /\ published' = jobs
  /\ UNCHANGED <<charged, started, complete>>

Next ==
  \/ \E m \in Models, n \in Attempts : Charge(m, n) \/ Start(m, n) \/ Finish(m, n)
  \/ \E jobs \in [Models -> Attempts] : Publish(jobs)

Spec == Init /\ [][Next]_account
=============================================================================
