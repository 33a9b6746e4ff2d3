--------------------------- MODULE BuildSupervisor ---------------------------
(***************************************************************************)
(* host/cg-build, the service that builds a box: it runs the stages of a   *)
(* plan in parallel, keeps a record of them in state.json, and picks up    *)
(* from that record after a crash, a reboot or `cg-build retry`.           *)
(*                                                                         *)
(* `disk` is state.json; `mem` is the supervisor's copy of it.  A handler  *)
(* of the loop changes `mem` at once and leaves in `todo`, in order, the   *)
(* deeds the code performs next (save the record, append a verdict to      *)
(* events.jsonl, write the result file, launch the attempt's thread), so   *)
(* that a crash may come between any two of them.                          *)
(***************************************************************************)
EXTENDS Integers, Sequences, FiniteSets

CONSTANTS
  Stages,       \* the names of the plan's stages
  Order,        \* the plan: the stages in their order
  Needs,        \* what each stage needs done first
  Locks,        \* the locks a stage may take (the package installer's)
  LockOf,       \* the set of locks of a stage: empty or one
  Retries,      \* how often a stage that failed is tried again
  RebootAfter,  \* the stages after which the box reboots
  MaxParallel,  \* how many stages may run together
  Faults,       \* what may go wrong: "process" (the supervisor is cut off),
                \* "box" (the machine is), "reboot_refused"
  MaxCrashes,   \* bound: how many times something is cut off
  MaxRetries,   \* bound: how many `cg-build retry` commands are given
  RetryBusy,    \* may `cg-build retry` be given while the supervisor works?
  Nameable      \* the stages a person may name to it; {} for the bare command

ASSUME PlanAssumption ==
  /\ IsFiniteSet(Stages)
  /\ Order \in Seq(Stages)
  /\ \A n \in Stages : \E i \in 1..Len(Order) : Order[i] = n
  /\ \A i, j \in 1..Len(Order) : Order[i] = Order[j] => i = j
  /\ Needs \in [Stages -> SUBSET Stages]
  /\ LockOf \in [Stages -> SUBSET Locks]
  /\ Retries \in [Stages -> Nat]
  /\ RebootAfter \subseteq Stages
  /\ MaxParallel \in Nat \ {0}
  /\ Faults \subseteq {"process", "box", "reboot_refused"}
  /\ MaxCrashes \in Nat
  /\ MaxRetries \in Nat
  /\ RetryBusy \in BOOLEAN
  /\ Nameable \subseteq Stages

\* The plan has no loop: every set of stages that is closed under "all it needs
\* are in" is all of them, which is what load_plan's sweep establishes.
ASSUME NoLoops ==
  \A S \in SUBSET Stages :
     (\A n \in Stages : Needs[n] \subseteq S => n \in S) => S = Stages

VARIABLES
  disk,      \* state.json
  mem,       \* the supervisor's copy of it
  held,      \* the locks taken by what it runs
  attempt,   \* per stage: no attempt, one running, or its result in the queue
  pc,        \* where the supervisor is
  at,        \* the next place in the plan of the pass it is in
  todo,      \* the deeds the current handler has still to perform, in order
  cooling,   \* the stages waiting out their retry pause
  rc,        \* what it has written in the result file of the old reader (on an
             \* AWS box the user-data script has put its own 0 there before)
  log,       \* the verdicts in events.jsonl, in order
  ready,     \* the marker that says the desktop is up
  cmd,       \* the `cg-build retry` process: what it has done so far
  edit,      \* the record as that process has changed it
  targets,   \* the stages it makes run again
  fails,     \* history: clean failures of a stage since it was last reset
  ran,       \* history: the stages whose script has exited cleanly
  wanted,    \* history: the stages a retry asked for that have not run since
  crashes, retries  \* bounds: how many have happened

superVars == <<mem, held, pc, at, todo>>
cmdVars   == <<cmd, edit, targets, retries>>
histVars  == <<fails, ran, wanted>>
vars == <<disk, mem, held, attempt, pc, at, todo, cooling, rc, log, ready,
          cmd, edit, targets, fails, ran, wanted, crashes, retries>>

StageState == {"pending", "running", "done", "failed", "blocked"}
Record == [st       : [Stages -> StageState],
           att      : [Stages -> Nat],
           complete : BOOLEAN,
           reported : SUBSET [Stages -> StageState]]

Deed == [do : {"save", "spawn", "say_complete", "say_failed", "rc0", "rc1"},
         stages : SUBSET Stages]
Do(what) == [do |-> what, stages |-> {}]
Spawn(n) == [do |-> "spawn", stages |-> {n}]

-----------------------------------------------------------------------------
Running   == {n \in Stages : mem.st[n] = "running"}
Live      == {n \in Stages : attempt[n] = "live"}
AllDone(r) == \A n \in Stages : r.st[n] = "done"
GaveUp(r) == {n \in Stages : r.st[n] \in {"failed", "blocked"}}
Up        == pc \notin {"starting", "over"}
Idle      == Up /\ todo = <<>>      \* between two handlers of the loop

Unstarted == [st       |-> [n \in Stages |-> "pending"],
              att      |-> [n \in Stages |-> 0],
              complete |-> FALSE,
              reported |-> {}]

Init ==
  /\ disk = Unstarted /\ mem = Unstarted /\ edit = Unstarted
  /\ held = {} /\ attempt = [n \in Stages |-> "none"]
  /\ pc = "starting" /\ at = 1 /\ todo = <<>> /\ cooling = {}
  /\ rc = "none" /\ log = <<>> /\ ready = FALSE
  /\ cmd = "idle" /\ targets = {}
  /\ fails = [n \in Stages |-> 0] /\ ran = {} /\ wanted = {}
  /\ crashes = 0 /\ retries = 0

-----------------------------------------------------------------------------
(* The start of a run: what was running is pending again and did not use up *)
(* a retry, what was blocked is pending; a finished build is left alone.    *)

\* Faulty variants, each a slip that would be easy to make, used to see the
\* properties fail: they are no part of the specification.
Recovered_spent(r) ==
  [r EXCEPT !.st = [n \in Stages |-> IF r.st[n] \in {"running", "blocked"}
                                     THEN "pending" ELSE r.st[n]]]
Recovered_fromScratch(r) ==
  [r EXCEPT !.st  = [n \in Stages |-> "pending"],
            !.att = [n \in Stages |-> 0]]

Recovered(r) ==
  [r EXCEPT
     !.st  = [n \in Stages |-> IF r.st[n] \in {"running", "blocked"}
                               THEN "pending" ELSE r.st[n]],
     !.att = [n \in Stages |-> IF r.st[n] = "running" /\ r.att[n] > 0
                               THEN r.att[n] - 1 ELSE r.att[n]]]

Startup ==
  /\ pc = "starting"
  /\ mem' = Recovered(disk)
  /\ held' = {}
  /\ todo' = <<Do("save")>>
  /\ pc' = IF disk.complete THEN "exiting" ELSE "drain"
  /\ at' = 1
  /\ UNCHANGED <<disk, attempt, cooling, rc, log, ready, cmdVars, histVars, crashes>>

Exit ==
  /\ pc = "exiting" /\ todo = <<>>
  /\ pc' = "over"
  /\ UNCHANGED <<disk, mem, held, attempt, at, todo, cooling, rc, log, ready,
                 cmdVars, histVars, crashes>>

(* The next deed of the current handler. *)
Perform ==
  /\ todo # <<>>
  /\ LET d == Head(todo) IN
     /\ disk' = IF d.do = "save" THEN mem ELSE disk
     /\ attempt' = [n \in Stages |-> IF d.do = "spawn" /\ n \in d.stages
                                     THEN "live" ELSE attempt[n]]
     /\ wanted' = IF d.do = "spawn" THEN wanted \ d.stages ELSE wanted
     /\ log' = CASE d.do = "say_complete" -> Append(log, "complete")
                 [] d.do = "say_failed"   -> Append(log, "failed")
                 [] OTHER                 -> log
     /\ rc' = CASE d.do = "rc0" -> "0" [] d.do = "rc1" -> "1" [] OTHER -> rc
  /\ todo' = Tail(todo)
  /\ UNCHANGED <<mem, held, pc, at, cooling, ready, cmdVars, fails, ran, crashes>>

-----------------------------------------------------------------------------
(* An attempt's own thread: its script exits cleanly, or it fails (exits    *)
(* with an error, times out, or could not be rendered).                     *)

AttemptOK(n) ==
  /\ attempt[n] = "live"
  /\ attempt' = [attempt EXCEPT ![n] = "ok"]
  /\ ran' = ran \cup {n}
  /\ UNCHANGED <<disk, superVars, cooling, rc, log, ready, cmdVars, fails, wanted, crashes>>

AttemptFails(n) ==
  /\ attempt[n] = "live"
  /\ attempt' = [attempt EXCEPT ![n] = "bad"]
  /\ UNCHANGED <<disk, superVars, cooling, rc, log, ready, cmdVars, histVars, crashes>>

(* The retry pause of a stage is over. *)
CoolOff(n) ==
  /\ n \in cooling
  /\ cooling' = cooling \ {n}
  /\ UNCHANGED <<disk, superVars, attempt, rc, log, ready, cmdVars, histVars, crashes>>

-----------------------------------------------------------------------------
(* The loop.  First the results in the queue, one by one. *)

Finish_lockKept(n, st) ==
  /\ pc = "drain" /\ todo = <<>>
  /\ mem' = [mem EXCEPT !.st[n] = st]
  /\ held' = held
  /\ attempt' = [attempt EXCEPT ![n] = "none"]
  /\ todo' = <<Do("save")>>
  /\ UNCHANGED <<disk, at, rc, log, ready, cmdVars, ran, wanted, crashes>>

Finish(n, st) ==
  /\ pc = "drain" /\ todo = <<>>
  /\ mem' = [mem EXCEPT !.st[n] = st]
  /\ held' = held \ LockOf[n]
  /\ attempt' = [attempt EXCEPT ![n] = "none"]
  /\ todo' = <<Do("save")>>
  /\ UNCHANGED <<disk, at, rc, log, ready, cmdVars, ran, wanted, crashes>>

FinishDone_noReboot(n) ==
  /\ attempt[n] = "ok"
  /\ Finish(n, "done")
  /\ UNCHANGED <<pc, cooling, fails>>

FinishDone(n) ==
  /\ attempt[n] = "ok"
  /\ Finish(n, "done")
  /\ pc' = IF n \notin RebootAfter THEN "drain"
           ELSE IF AllDone(mem') THEN "conclude" ELSE "reboot"
  /\ UNCHANGED <<cooling, fails>>

FinishRetry(n) ==
  /\ attempt[n] = "bad"
  /\ mem.att[n] <= Retries[n]
  /\ Finish(n, "pending")
  /\ cooling' = cooling \cup {n}
  /\ fails' = [fails EXCEPT ![n] = @ + 1]
  /\ UNCHANGED pc

FinishFailed(n) ==
  /\ attempt[n] = "bad"
  /\ mem.att[n] > Retries[n]
  /\ Finish(n, "failed")
  /\ fails' = [fails EXCEPT ![n] = @ + 1]
  /\ UNCHANGED <<pc, cooling>>

(* The queue is empty: one pass over the plan to block what waits on a      *)
(* failed stage, then one to start what can start, each in plan order.      *)

Move(from, to) ==
  /\ pc = from /\ todo = <<>>
  /\ pc' = to /\ at' = 1
  /\ UNCHANGED <<disk, mem, held, attempt, todo, cooling, rc, log, ready,
                 cmdVars, histVars, crashes>>

Drained == Move("drain", "block") /\ \A n \in Stages : attempt[n] \notin {"ok", "bad"}

Blockable ==
  {n \in Stages : mem.st[n] = "pending" /\ Needs[n] \cap GaveUp(mem) # {}}

MayStart_anyLock(n) ==
  /\ mem.st[n] = "pending"
  /\ n \notin cooling
  /\ \A d \in Needs[n] : mem.st[d] = "done"
  /\ n \in RebootAfter => Running = {}
MayStart_needsNotFailed(n) ==
  /\ mem.st[n] = "pending"
  /\ n \notin cooling
  /\ \A d \in Needs[n] : mem.st[d] # "failed"
  /\ LockOf[n] \cap held = {}

MayStart(n) ==
  /\ mem.st[n] = "pending"
  /\ n \notin cooling
  /\ \A d \in Needs[n] : mem.st[d] = "done"
  /\ LockOf[n] \cap held = {}
  /\ n \in RebootAfter => Running = {}

Startable == {n \in Stages : MayStart(n)}

\* The places of the plan the current pass has still to look at, and the next
\* of them whose stage is in S.
Ahead == at..Len(Order)
NextIn(S, i) == /\ i \in Ahead /\ Order[i] \in S
                /\ \A j \in Ahead : j < i => Order[j] \notin S

Block(i) ==
  /\ pc = "block" /\ todo = <<>>
  /\ NextIn(Blockable, i)
  /\ mem' = [mem EXCEPT !.st[Order[i]] = "blocked"]
  /\ wanted' = wanted \ {Order[i]}
  /\ todo' = <<Do("save")>>
  /\ at' = i + 1
  /\ UNCHANGED <<disk, held, attempt, pc, cooling, rc, log, ready, cmdVars,
                 fails, ran, crashes>>

Blocked == Move("block", "start") /\ \A i \in Ahead : Order[i] \notin Blockable

StartStep(i, deeds) ==
  /\ pc = "start" /\ todo = <<>>
  /\ NextIn(Startable, i)
  /\ mem' = [mem EXCEPT !.st[Order[i]] = "running", !.att[Order[i]] = @ + 1]
  /\ held' = held \cup LockOf[Order[i]]
  /\ todo' = deeds
  /\ at' = i + 1
  /\ UNCHANGED <<disk, attempt, pc, cooling, rc, log, ready, cmdVars, histVars, crashes>>

Start(i) ==
  /\ Cardinality(Running) < MaxParallel
  /\ StartStep(i, <<Do("save"), Spawn(Order[i])>>)

\* The pass is over.  Nothing running and nothing left to start ends the loop;
\* otherwise it goes round again.
Rest == Running = {} /\ \A n \in Stages : mem.st[n] # "pending"
PassOver ==
  /\ \/ Cardinality(Running) >= MaxParallel
     \/ \A i \in Ahead : Order[i] \notin Startable
  /\ Move("start", IF Rest THEN "end" ELSE "drain")

-----------------------------------------------------------------------------
(* The verdict.  Conclude is reached from finish() of the stage that        *)
(* reboots, and from end(); it says nothing the second time.                *)

Verdict(from, to, record, deeds) ==
  /\ pc = from /\ todo = <<>>
  /\ mem' = record
  /\ todo' = deeds
  /\ pc' = to
  /\ UNCHANGED <<disk, held, attempt, at, cooling, rc, log, ready, cmdVars,
                 histVars, crashes>>

Conclude(from, to) ==
  IF mem.complete
  THEN Verdict(from, to, mem, <<>>)
  ELSE Verdict(from, to, [mem EXCEPT !.complete = TRUE],
               <<Do("save"), Do("say_complete"), Do("rc0")>>)

ConcludeFirst == Conclude("conclude", "reboot")
EndDone       == AllDone(mem) /\ Conclude("end", "exiting")

\* The same failure is said once, not again each time the service starts.
EndFailed ==
  /\ ~AllDone(mem)
  /\ IF mem.reported = {mem.st}
     THEN Verdict("end", "exiting", mem, <<>>)
     ELSE Verdict("end", "exiting", [mem EXCEPT !.reported = {mem.st}],
                  <<Do("save"), Do("say_failed"), Do("rc1")>>)

-----------------------------------------------------------------------------
(* The service and the box.  A supervisor that is cut off takes its         *)
(* attempts with it (KillMode=control-group) and is started again; so is    *)
(* one on a box that reboots.  A reboot after the last stage ran brings up  *)
(* the desktop, whose unit writes the ready marker.                         *)

CutOff ==
  /\ mem' = disk /\ held' = {} /\ todo' = <<>> /\ at' = 1
  /\ attempt' = [n \in Stages |-> "none"]
  /\ pc' = "starting"

BootBox ==
  /\ CutOff
  /\ ready' = (ready \/ ran \cap RebootAfter # {})
  /\ cmd' = "idle" /\ targets' = {} /\ edit' = Unstarted
  /\ UNCHANGED <<disk, cooling, rc, log, retries, histVars>>

Reboot ==
  /\ pc = "reboot" /\ todo = <<>>
  /\ BootBox
  /\ UNCHANGED crashes

RebootRefused == "reboot_refused" \in Faults /\ Move("reboot", "drain")

ProcessCrash ==
  /\ "process" \in Faults /\ crashes < MaxCrashes
  /\ Up
  /\ CutOff
  /\ crashes' = crashes + 1
  /\ UNCHANGED <<disk, cooling, rc, log, ready, cmdVars, histVars>>

BoxCrash ==
  /\ "box" \in Faults /\ crashes < MaxCrashes
  /\ BootBox
  /\ crashes' = crashes + 1

-----------------------------------------------------------------------------
(* `cg-build retry`, a process of its own: it reads state.json, changes the *)
(* stages that failed (or the named ones), writes it back, and restarts the *)
(* service.  Nothing keeps the supervisor from saving in between.           *)

RetryRead_attemptsOnly(T) ==
  /\ cmd = "idle" /\ retries < MaxRetries
  /\ RetryBusy \/ pc = "over"
  /\ targets' = T
  /\ edit' = [disk EXCEPT
                !.att = [n \in Stages |-> IF n \in T THEN 0 ELSE disk.att[n]],
                !.reported = {}]
  /\ cmd' = "read"
  /\ retries' = retries + 1
  /\ UNCHANGED <<disk, superVars, attempt, cooling, rc, log, ready, histVars, crashes>>

RetryRead(T) ==
  /\ cmd = "idle" /\ retries < MaxRetries
  /\ RetryBusy \/ pc = "over"
  /\ targets' = T
  /\ edit' = [disk EXCEPT
                !.st  = [n \in Stages |-> IF n \in T THEN "pending" ELSE disk.st[n]],
                !.att = [n \in Stages |-> IF n \in T THEN 0 ELSE disk.att[n]],
                !.reported = {}]
  /\ cmd' = "read"
  /\ retries' = retries + 1
  /\ UNCHANGED <<disk, superVars, attempt, cooling, rc, log, ready, histVars, crashes>>

RetrySave ==
  /\ cmd = "read"
  /\ disk' = edit
  /\ cooling' = cooling \ targets
  /\ fails' = [n \in Stages |-> IF n \in targets THEN 0 ELSE fails[n]]
  /\ wanted' = wanted \cup targets
  /\ cmd' = "saved"
  /\ UNCHANGED <<superVars, attempt, rc, log, ready, edit, targets, retries, ran, crashes>>

RetryRestart ==
  /\ cmd = "saved"
  /\ CutOff
  /\ cmd' = "idle" /\ targets' = {} /\ edit' = Unstarted
  /\ UNCHANGED <<disk, cooling, rc, log, ready, retries, histVars, crashes>>

RetryAll   == RetryRead(GaveUp(disk))
RetryNamed == \E T \in (SUBSET Nameable) \ {{}} : RetryRead(T)

-----------------------------------------------------------------------------
Supervise ==
  \/ Startup \/ Exit \/ Perform
  \/ \E n \in Stages : FinishDone(n) \/ FinishRetry(n) \/ FinishFailed(n)
  \/ Drained \/ Blocked \/ PassOver
  \/ \E i \in 1..Len(Order) : Block(i) \/ Start(i)
  \/ ConcludeFirst \/ EndDone \/ EndFailed
  \/ Reboot

RetryCommand == RetryAll \/ RetryNamed \/ RetrySave \/ RetryRestart

Next ==
  \/ Supervise
  \/ \E n \in Stages : AttemptOK(n) \/ AttemptFails(n) \/ CoolOff(n)
  \/ RebootRefused \/ ProcessCrash \/ BoxCrash
  \/ RetryCommand

(* The supervisor's thread runs, an attempt ends (its timeout kills it), a  *)
(* pause ends, and a retry command that has read the record goes on.        *)
Fairness ==
  /\ WF_vars(Supervise)
  /\ \A n \in Stages : WF_vars(AttemptOK(n) \/ AttemptFails(n))
  /\ \A n \in Stages : WF_vars(CoolOff(n))
  /\ WF_vars(RetrySave \/ RetryRestart)

Spec     == Init /\ [][Next]_vars
FairSpec == Spec /\ Fairness
-----------------------------------------------------------------------------
(* What the supervisor promises. *)

TypeOK ==
  /\ disk \in Record /\ mem \in Record /\ edit \in Record
  /\ held \subseteq Locks
  /\ attempt \in [Stages -> {"none", "live", "ok", "bad"}]
  /\ pc \in {"starting", "drain", "block", "start", "conclude", "reboot",
             "end", "exiting", "over"}
  /\ at \in Nat
  /\ todo \in Seq(Deed)
  /\ cooling \subseteq Stages
  /\ rc \in {"none", "0", "1"}
  /\ log \in Seq({"complete", "failed"})
  /\ ready \in BOOLEAN
  /\ cmd \in {"idle", "read", "saved"}
  /\ targets \subseteq Stages
  /\ fails \in [Stages -> Nat]
  /\ ran \subseteq Stages /\ wanted \subseteq Stages
  /\ crashes \in Nat /\ retries \in Nat

\* Two stages that take the same lock (the package installer's) never run at
\* the same time, through failures, retries, crashes and restarts.
LockExclusive ==
  \A m, n \in Live : m # n => LockOf[m] \cap LockOf[n] = {}

\* A stage's script runs only when the script of every stage it needs has
\* exited cleanly and is recorded done.
NeedsFirst ==
  \A n \in Live : \A d \in Needs[n] : d \in ran /\ mem.st[d] = "done"

\* Never more scripts at once than the plan's max_parallel.
ParallelBound == Cardinality(Live) <= MaxParallel

\* The record on disk says "running" before the script starts and until it has
\* ended, so that a stage that is cut off at any moment is run again.
RecordedFirst == \A n \in Live : disk.st[n] = "running"

\* The machine is never rebooted under a stage that is still running.
RebootAlone == pc = "reboot" => Live = {}

\* A stage is done only when it has run and exited cleanly.
DoneMeansRan == \A n \in Stages : disk.st[n] = "done" => n \in ran

\* A stage is given up only after it failed, by itself, once more than its
\* retries: being cut off never spends one.
GivenItsRetries ==
  \A n \in Stages : disk.st[n] = "failed" => fails[n] > Retries[n]

\* "complete" is said, and the result file says success, only of a build whose
\* every stage is recorded done; and it is the last thing ever said.
CompleteIsTrue ==
  /\ rc = "0" => disk.complete
  /\ disk.complete => AllDone(disk)
  /\ \A i \in 1..Len(log) : log[i] = "complete" => disk.complete /\ i = Len(log)

\* A failed build is said to be so once, and once more only after a retry.
FailedSaidOnce ==
  Cardinality({i \in 1..Len(log) : log[i] = "failed"}) <= retries + 1

\* A stage that is cut off, by a crash, a restart or the build's own reboot,
\* loses nothing by it: it is recorded as running and so run again, it is not
\* cut off by a reboot of ours, and it has all its retries still.
CutOffCostsNothing == RecordedFirst /\ RebootAlone /\ GivenItsRetries

\* What the supervisor says of the build - in the events and the result file -
\* is true of its record, whatever was cut off between the saying and the doing.
SaysWhatIs == CompleteIsTrue /\ FailedSaidOnce

\* When the supervisor stops by itself nothing is left behind: what is not done
\* has failed, or waits on a stage that did not finish.
NothingLeftBehind ==
  pc = "over" /\ cmd = "idle" =>
    \A n \in Stages : \/ disk.st[n] \in {"done", "failed"}
                      \/ /\ disk.st[n] = "blocked"
                         /\ \E d \in Needs[n] : d \in GaveUp(disk)

\* The record can be trusted, by a person who reads it and by the supervisor that
\* starts on it again: what it says of the build is so, a stage that is cut off
\* pays nothing for it, and at the end every stage is accounted for.
RecordIsTrue == SaysWhatIs /\ CutOffCostsNothing /\ NothingLeftBehind

\* When the supervisor stops by itself, its verdict is in the result file.
VerdictSaid == pc = "over" /\ cmd = "idle" => rc # "none"

\* What a `cg-build retry` asked for has been run again (or found blocked) by
\* the time the supervisor stops by itself.
RetryAnswered == pc = "over" /\ cmd = "idle" => wanted = {}

\* The record on disk is that of BuildPlan: a stage that was pending or blocked
\* waits, and complete is finished.
Status(st) == IF st \in {"pending", "blocked"} THEN "waiting" ELSE st
Plan == INSTANCE BuildPlan WITH
          status   <- [n \in Stages |-> Status(disk.st[n])],
          finished <- disk.complete

\* Through every crash, restart and retry, what state.json says of the stages
\* changes only as the plan allows.
FollowsThePlan == Plan!PlanSpec

\* The build always ends: it stops by itself and stays so.
ComesToRest == <>[](pc = "over")

\* Once the last stage is done and recorded, the box comes up with its desktop.
DesktopComesUp ==
  (\E n \in RebootAfter : disk.st[n] = "done") ~> ready
=============================================================================
