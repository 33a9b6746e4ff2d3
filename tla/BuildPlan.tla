------------------------------ MODULE BuildPlan ------------------------------
(***************************************************************************)
(* What the record of a build promises whoever reads it, whatever happens  *)
(* to the machine or to the supervisor: host/cg-build's state.json seen as *)
(* a plan of work.  A stage is begun only when what it needs is done, its  *)
(* lock is free and there is room; one that was begun is done, failed, or  *)
(* waiting again; done is for good; the build is finished when all is.     *)
(***************************************************************************)
EXTENDS Integers, FiniteSets

CONSTANTS Stages, Needs, LockOf, MaxParallel

VARIABLES
  status,    \* per stage: waiting, running, done or failed
  finished   \* the build is said to be complete

planVars == <<status, finished>>

With(s) == {n \in Stages : status[n] = s}

PlanInit ==
  /\ status = [n \in Stages |-> "waiting"]
  /\ finished = FALSE

Begin(n) ==
  /\ status[n] = "waiting"
  /\ Needs[n] \subseteq With("done")
  /\ \A m \in With("running") : LockOf[m] \cap LockOf[n] = {}
  /\ Cardinality(With("running")) < MaxParallel
  /\ status' = [status EXCEPT ![n] = "running"]
  /\ UNCHANGED finished

Settle(n, outcome) ==
  /\ status[n] = "running"
  /\ status' = [status EXCEPT ![n] = outcome]
  /\ UNCHANGED finished

\* The supervisor was cut off: all that was running waits again.
PutBack ==
  /\ status' = [n \in Stages |-> IF status[n] = "running" THEN "waiting" ELSE status[n]]
  /\ UNCHANGED finished

\* A person had what failed run again, with nothing running.
Redo ==
  /\ With("running") = {}
  /\ status' = [n \in Stages |-> IF status[n] = "failed" THEN "waiting" ELSE status[n]]
  /\ UNCHANGED finished

Conclude ==
  /\ With("done") = Stages
  /\ finished' = TRUE
  /\ UNCHANGED status

PlanNext ==
  \/ \E n \in Stages :
       \/ Begin(n)
       \/ \E outcome \in {"done", "failed", "waiting"} : Settle(n, outcome)
  \/ PutBack \/ Redo \/ Conclude

PlanSpec == PlanInit /\ [][PlanNext]_planVars
=============================================================================
