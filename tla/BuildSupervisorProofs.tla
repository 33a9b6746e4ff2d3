------------------------ MODULE BuildSupervisorProofs ------------------------
(* Theorems about BuildSupervisor, for every plan and every bound. *)
EXTENDS BuildSupervisor, BoxPlan, FoldProofs, FiniteSetTheorems, TLAPS

-----------------------------------------------------------------------------
(* Type correctness. *)

LEMMA DeedTypes ==
  /\ \A s \in {"save", "say_complete", "say_failed", "rc0", "rc1"} : Do(s) \in Deed
  /\ \A n \in Stages : Spawn(n) \in Deed
BY DEF Do, Spawn, Deed

LEMMA TodoTypes ==
  /\ <<>> \in Seq(Deed)
  /\ <<Do("save")>> \in Seq(Deed)
  /\ \A n \in Stages : <<Do("save"), Spawn(n)>> \in Seq(Deed)
  /\ <<Do("save"), Do("say_complete"), Do("rc0")>> \in Seq(Deed)
  /\ <<Do("save"), Do("say_failed"), Do("rc1")>> \in Seq(Deed)
BY DeedTypes, SMTT(30)

LEMMA RecordUpdates ==
  ASSUME NEW r \in Record
  PROVE  /\ \A n \in Stages, s \in StageState : [r EXCEPT !.st[n] = s] \in Record
         /\ \A f \in [Stages -> StageState], g \in [Stages -> Nat] :
              /\ [r EXCEPT !.st = f, !.att = g] \in Record
              /\ [r EXCEPT !.st = f, !.att = g, !.reported = {}] \in Record
         /\ [r EXCEPT !.complete = TRUE] \in Record
         /\ [r EXCEPT !.reported = {r.st}] \in Record
BY DEF Record

LEMMA StartedType ==
  ASSUME NEW r \in Record, NEW n \in Stages
  PROVE  [r EXCEPT !.st[n] = "running", !.att[n] = @ + 1] \in Record
<1> DEFINE f == [r.st EXCEPT ![n] = "running"]
           g == [r.att EXCEPT ![n] = @ + 1]
<1>1. f \in [Stages -> StageState] /\ g \in [Stages -> Nat]
  BY DEF Record, StageState
<1>2. [r EXCEPT !.st[n] = "running", !.att[n] = @ + 1] = [r EXCEPT !.st = f, !.att = g]
  BY DEF Record
<1>3. QED BY <1>1, <1>2, RecordUpdates

LEMMA RecoveredType == ASSUME NEW r \in Record PROVE Recovered(r) \in Record
<1>1. [n \in Stages |-> IF r.st[n] \in {"running", "blocked"} THEN "pending" ELSE r.st[n]]
        \in [Stages -> StageState]
  BY DEF Record, StageState
<1>2. [n \in Stages |-> IF r.st[n] = "running" /\ r.att[n] > 0 THEN r.att[n] - 1 ELSE r.att[n]]
        \in [Stages -> Nat]
  BY SMTT(30) DEF Record
<1>3. QED BY <1>1, <1>2, RecordUpdates DEF Recovered

LEMMA ResetType ==
  ASSUME NEW r \in Record, NEW T \in SUBSET Stages
  PROVE  [r EXCEPT !.st  = [n \in Stages |-> IF n \in T THEN "pending" ELSE r.st[n]],
                   !.att = [n \in Stages |-> IF n \in T THEN 0 ELSE r.att[n]],
                   !.reported = {}] \in Record
<1>1. [n \in Stages |-> IF n \in T THEN "pending" ELSE r.st[n]] \in [Stages -> StageState]
  BY DEF Record, StageState
<1>2. [n \in Stages |-> IF n \in T THEN 0 ELSE r.att[n]] \in [Stages -> Nat]
  BY DEF Record
<1>3. QED BY <1>1, <1>2, RecordUpdates

LEMMA OrderType == \A i \in 1..Len(Order) : Order[i] \in Stages
BY PlanAssumption

LEMMA UnstartedType == Unstarted \in Record
BY DEF Unstarted, Record, StageState

LEMMA TypeInit == Init => TypeOK
<1> SUFFICES ASSUME Init PROVE TypeOK
  OBVIOUS
<1>1. /\ disk \in Record /\ mem \in Record /\ edit \in Record
      /\ todo \in Seq(Deed)
  BY UnstartedType, TodoTypes DEF Init
<1>2. attempt \in [Stages -> {"none", "live", "ok", "bad"}] /\ fails \in [Stages -> Nat]
  BY DEF Init
<1>3. log \in Seq({"complete", "failed"})
  BY DEF Init
<1>4. QED BY <1>1, <1>2, <1>3 DEF Init, TypeOK

LEMMA TypeCutOff == ASSUME TypeOK, CutOff
                    PROVE  /\ mem' \in Record /\ held' \subseteq Locks
                           /\ todo' \in Seq(Deed) /\ at' \in Nat
                           /\ attempt' \in [Stages -> {"none", "live", "ok", "bad"}]
                           /\ pc' = "starting"
BY DEF TypeOK, CutOff

LEMMA TypeNext == TypeOK /\ [Next]_vars => TypeOK'
<1> SUFFICES ASSUME TypeOK, [Next]_vars PROVE TypeOK'
  OBVIOUS
<1> USE TodoTypes
<1>1. CASE Startup
  BY <1>1, RecoveredType DEF Startup, TypeOK, cmdVars, histVars
<1>2. CASE Exit
  BY <1>2 DEF Exit, TypeOK, cmdVars, histVars
<1>3. CASE Perform
  <2>1. /\ todo' \in Seq(Deed) /\ log' \in Seq({"complete", "failed"})
    BY <1>3 DEF Perform, TypeOK
  <2>2. QED BY <1>3, <2>1 DEF Perform, TypeOK, cmdVars, histVars
<1>4. ASSUME NEW n \in Stages, FinishDone(n) \/ FinishRetry(n) \/ FinishFailed(n)
      PROVE  TypeOK'
  <2>1. PICK st \in {"done", "pending", "failed"} : Finish(n, st)
    BY <1>4 DEF FinishDone, FinishRetry, FinishFailed
  <2>2. mem' \in Record
    BY <2>1, RecordUpdates DEF Finish, TypeOK, StageState
  <2>3. cooling' \subseteq Stages
    BY <1>4 DEF FinishDone, FinishRetry, FinishFailed, TypeOK
  <2>4. fails' \in [Stages -> Nat]
    <3>1. fails \in [Stages -> Nat]
      BY DEF TypeOK
    <3>2. fails' = fails \/ fails' = [fails EXCEPT ![n] = @ + 1]
      BY <1>4 DEF FinishDone, FinishRetry, FinishFailed
    <3>3. QED BY <3>1, <3>2
  <2>5. pc' \in {"drain", "conclude", "reboot"}
    BY <1>4, <2>1 DEF FinishDone, FinishRetry, FinishFailed, Finish
  <2>6. QED
    BY <2>1, <2>2, <2>3, <2>4, <2>5 DEF Finish, TypeOK, cmdVars, histVars
<1>5. ASSUME NEW from, NEW to \in {"block", "start", "end", "drain"}, Move(from, to)
      PROVE  TypeOK'
  BY <1>5 DEF Move, TypeOK, cmdVars, histVars
<1>6. ASSUME NEW i \in 1..Len(Order), Block(i)
      PROVE  TypeOK'
  <2>1. mem' \in Record
    BY <1>6, RecordUpdates, OrderType DEF Block, TypeOK, StageState
  <2>2. QED BY <1>6, <2>1, SMTT(30) DEF Block, TypeOK, cmdVars, histVars
<1>7. ASSUME NEW i \in 1..Len(Order), Start(i)
      PROVE  TypeOK'
  <2>1. mem' \in Record
    BY <1>7, StartedType, OrderType DEF Start, StartStep, TypeOK
  <2>2. held' \subseteq Locks /\ todo' \in Seq(Deed)
    BY <1>7, OrderType, PlanAssumption DEF Start, StartStep, TypeOK
  <2>3. QED BY <1>7, <2>1, <2>2 DEF Start, StartStep, TypeOK, cmdVars, histVars
<1>8. ASSUME NEW from, NEW to \in {"reboot", "exiting"}, Conclude(from, to)
      PROVE  TypeOK'
  <2>1. mem' \in Record /\ todo' \in Seq(Deed)
    BY <1>8, RecordUpdates DEF Conclude, Verdict, TypeOK
  <2>2. QED BY <1>8, <2>1 DEF Conclude, Verdict, TypeOK, cmdVars, histVars
<1>9. CASE EndFailed
  <2>1. mem' \in Record /\ todo' \in Seq(Deed)
    BY <1>9, RecordUpdates DEF EndFailed, Verdict, TypeOK
  <2>2. QED BY <1>9, <2>1, SMTT(30) DEF EndFailed, Verdict, TypeOK, cmdVars, histVars
<1>10. CASE Reboot \/ BoxCrash
  <2>1. CutOff /\ ready' \in BOOLEAN
    BY <1>10 DEF Reboot, BoxCrash, BootBox, TypeOK
  <2>2. crashes' \in Nat
    BY <1>10 DEF Reboot, BoxCrash, TypeOK
  <2>3. QED
    BY <1>10, <2>1, <2>2, TypeCutOff, UnstartedType DEF Reboot, BoxCrash, BootBox, TypeOK, histVars
<1>11. CASE ProcessCrash
  BY <1>11, TypeCutOff DEF ProcessCrash, TypeOK, cmdVars, histVars
<1>12. ASSUME NEW n \in Stages, AttemptOK(n) \/ AttemptFails(n) \/ CoolOff(n)
       PROVE  TypeOK'
  BY <1>12 DEF AttemptOK, AttemptFails, CoolOff, TypeOK, superVars, cmdVars, histVars
<1>13. ASSUME NEW T \in SUBSET Stages, RetryRead(T)
       PROVE  TypeOK'
  <2>1. edit' \in Record
    BY <1>13, ResetType DEF RetryRead, TypeOK
  <2>2. QED BY <1>13, <2>1 DEF RetryRead, TypeOK, superVars, histVars
<1>14. CASE RetrySave
  BY <1>14 DEF RetrySave, TypeOK, superVars
<1>15. CASE RetryRestart
  BY <1>15, TypeCutOff, UnstartedType DEF RetryRestart, TypeOK, histVars
<1>16. CASE UNCHANGED vars
  BY <1>16 DEF vars, TypeOK
<1>17. QED
  <2>1. CASE Drained \/ Blocked \/ PassOver \/ RebootRefused
    BY <2>1, <1>5 DEF Drained, Blocked, PassOver, RebootRefused
  <2>2. CASE ConcludeFirst \/ EndDone
    BY <2>2, <1>8 DEF ConcludeFirst, EndDone
  <2>3. CASE RetryAll \/ RetryNamed
    BY <2>3, <1>13, PlanAssumption DEF RetryAll, RetryNamed, GaveUp
  <2>4. QED
    BY <1>1, <1>2, <1>3, <1>4, <1>6, <1>7, <1>9, <1>10, <1>11, <1>12, <1>14, <1>15,
       <1>16, <2>1, <2>2, <2>3 DEF Next, Supervise, RetryCommand

\* Every variable of the supervisor, its record and its commands always has its type.
THEOREM TypeCorrect == Spec => []TypeOK
BY TypeInit, TypeNext, PTL DEF Spec

-----------------------------------------------------------------------------
(* The inductive invariant behind the safety of what runs.  The promises     *)
(* speak of scripts that are alive; the code decides by its record, by the   *)
(* locks it notes as taken, and by what the current handler has left to do.  *)

\* What the supervisor believes to be running may run together.
RunsWell ==
  Up => /\ \A m, n \in Running : m # n => LockOf[m] \cap LockOf[n] = {}
        /\ \A n \in Running : LockOf[n] \subseteq held
        /\ \A n \in Running : \A d \in Needs[n] : mem.st[d] = "done"
        /\ Cardinality(Running) <= MaxParallel

\* Nothing runs when the loop has ended, and a supervisor that is not up has
\* nothing left to do.
EndsQuiet ==
  /\ pc \in {"end", "exiting"} => Running = {}
  /\ ~Up => todo = <<>>

\* A script that is alive, or whose result is queued, or that is about to be
\* launched, is one the supervisor believes to be running.
AttemptsRun ==
  /\ \A n \in Stages : attempt[n] # "none" => Up /\ n \in Running
  /\ \A i \in 1..Len(todo) : todo[i].stages \subseteq Running

\* Nothing is taken for done, in any copy of the record, but what has exited cleanly.
DoneRan(r) == \A n \in Stages : r.st[n] = "done" => n \in ran
DoneIsTrue ==
  /\ DoneRan(disk) /\ DoneRan(mem) /\ DoneRan(edit)
  /\ \A n \in Stages : attempt[n] = "ok" => n \in ran

IndInv == RunsWell /\ EndsQuiet /\ AttemptsRun /\ DoneIsTrue

LEMMA IndInit == Init => IndInv
<1> SUFFICES ASSUME Init PROVE IndInv
  OBVIOUS
<1>1. Running = {} /\ ~(Up)
  BY DEF Init, Running, Up, Unstarted
<1>2. QED
  BY <1>1 DEF Init, IndInv, RunsWell, EndsQuiet, AttemptsRun, DoneIsTrue, DoneRan, Unstarted

\* Cutting the supervisor off leaves nothing running and the record as it was.
LEMMA IndCutOff ==
  ASSUME TypeOK, IndInv, CutOff, UNCHANGED <<disk, ran>>, edit' = edit \/ edit' = Unstarted
  PROVE  IndInv'
<1>1. RunsWell' /\ EndsQuiet'
  BY DEF CutOff, RunsWell, EndsQuiet, Up
<1>2. AttemptsRun'
  BY DEF CutOff, AttemptsRun
<1>3. DoneIsTrue'
  BY DEF CutOff, IndInv, DoneIsTrue, DoneRan, Unstarted
<1>4. QED BY <1>1, <1>2, <1>3 DEF IndInv

\* A step that leaves the supervisor and its attempts alone.
LEMMA IndElsewhere ==
  ASSUME IndInv, UNCHANGED <<superVars, attempt>>, DoneIsTrue'
  PROVE  IndInv'
BY DEF IndInv, superVars, RunsWell, EndsQuiet, AttemptsRun, Up, Running

\* A step that moves the loop on and changes no stage's state.
LEMMA IndVerdict ==
  ASSUME TypeOK, IndInv,
         UNCHANGED <<disk, held, attempt, edit, ran>>, mem'.st = mem.st,
         \A i \in 1..Len(todo') : todo'[i].stages = {},
         Up, pc' \in {"starting", "over"} => todo' = <<>> /\ Running = {},
         pc' \in {"end", "exiting"} => Running = {}
  PROVE  IndInv'
<1>1. Running' = Running
  BY DEF Running
<1>2. RunsWell'
  BY <1>1 DEF IndInv, RunsWell
<1>3. EndsQuiet'
  BY <1>1 DEF EndsQuiet, Up
<1>4. AttemptsRun'
  BY <1>1 DEF IndInv, AttemptsRun, Up
<1>5. DoneIsTrue'
  BY DEF IndInv, DoneIsTrue, DoneRan
<1>6. QED BY <1>2, <1>3, <1>4, <1>5 DEF IndInv

LEMMA FiniteRunning == TypeOK => IsFiniteSet(Running) /\ Cardinality(Running) \in Nat
BY PlanAssumption, FS_Subset, FS_CardinalityType DEF Running

LEMMA IndFinish ==
  ASSUME TypeOK, IndInv, NEW n \in Stages, NEW st \in {"done", "pending", "failed"},
         Finish(n, st), attempt[n] # "none",
         st = "done" => attempt[n] = "ok", UNCHANGED edit,
         pc' \in {"drain", "conclude", "reboot"}
  PROVE  IndInv'
<1>1. n \in Running /\ Up
  BY DEF IndInv, AttemptsRun
<1>2. \A m \in Stages : mem'.st[m] = IF m = n THEN st ELSE mem.st[m]
  BY DEF Finish, TypeOK, Record
<1>3. Running' = Running \ {n}
  BY <1>1, <1>2 DEF Running
<1>4. RunsWell'
  <2>1. \A m \in Running' : LockOf[m] \cap LockOf[n] = {}
    BY <1>1, <1>3 DEF IndInv, RunsWell
  <2>2. \A m \in Running' : LockOf[m] \subseteq held'
    BY <1>1, <1>3, <2>1 DEF IndInv, RunsWell, Finish
  <2>3. \A m \in Running' : \A d \in Needs[m] : mem'.st[d] = "done"
    <3>1. \A m \in Running' : \A d \in Needs[m] : mem.st[d] = "done" /\ d \in Stages
      BY <1>1, <1>3, PlanAssumption DEF IndInv, RunsWell, Running
    <3>2. QED BY <1>1, <1>2, <3>1 DEF Running
  <2>4. Cardinality(Running') <= MaxParallel
    <3>1. IsFiniteSet(Running') /\ Cardinality(Running') <= Cardinality(Running)
      BY <1>3, FiniteRunning, FS_Subset
    <3>2. Cardinality(Running') \in Nat /\ Cardinality(Running) <= MaxParallel
      BY <1>1, <3>1, FS_CardinalityType DEF IndInv, RunsWell
    <3>3. QED BY <3>1, <3>2, FiniteRunning, PlanAssumption
  <2>5. \A m, k \in Running' : m # k => LockOf[m] \cap LockOf[k] = {}
    BY <1>1, <1>3 DEF IndInv, RunsWell
  <2>6. QED BY <2>2, <2>3, <2>4, <2>5 DEF RunsWell
<1>5. EndsQuiet'
  BY DEF EndsQuiet, Up
<1>6. AttemptsRun'
  <2>1. \A m \in Stages : attempt'[m] # "none" => m # n /\ attempt[m] # "none"
    BY DEF Finish, TypeOK
  <2>2. Up'
    BY DEF Up
  <2>3. \A i \in 1..Len(todo') : todo'[i].stages = {}
    BY DEF Finish, Do
  <2>4. QED BY <1>3, <2>1, <2>2, <2>3 DEF IndInv, AttemptsRun
<1>7. DoneIsTrue'
  BY <1>2 DEF IndInv, DoneIsTrue, DoneRan, Finish, TypeOK
<1>8. QED BY <1>4, <1>5, <1>6, <1>7 DEF IndInv

LEMMA IndStart ==
  ASSUME TypeOK, IndInv, NEW i \in 1..Len(Order), Start(i)
  PROVE  IndInv'
<1> DEFINE n == Order[i]
<1>1. n \in Stages /\ n \in Startable /\ Up /\ pc' = pc /\ pc = "start" /\ todo = <<>>
  BY OrderType DEF Start, StartStep, NextIn, Ahead, Up
<1>2. \A m \in Stages : mem'.st[m] = IF m = n THEN "running" ELSE mem.st[m]
  BY <1>1 DEF Start, StartStep, TypeOK, Record
<1>3. Running' = Running \cup {n} /\ n \notin Running
  BY <1>1, <1>2 DEF Running, Startable, MayStart
<1>4. /\ \A d \in Needs[n] : mem.st[d] = "done"
      /\ LockOf[n] \cap held = {}
  BY <1>1 DEF Startable, MayStart
<1>5. RunsWell'
  <2>1. held' = held \cup LockOf[n]
    BY DEF Start, StartStep
  <2>2. \A m \in Running : LockOf[m] \cap LockOf[n] = {}
    BY <1>1, <1>4 DEF IndInv, RunsWell
  <2>3. \A m, k \in Running' : m # k => LockOf[m] \cap LockOf[k] = {}
    BY <1>1, <1>3, <2>2 DEF IndInv, RunsWell
  <2>4. \A m \in Running' : LockOf[m] \subseteq held'
    BY <1>1, <1>3, <2>1 DEF IndInv, RunsWell
  <2>5. \A m \in Running' : \A d \in Needs[m] : mem'.st[d] = "done"
    <3>1. \A m \in Running' : \A d \in Needs[m] : mem.st[d] = "done" /\ d \in Stages
      BY <1>1, <1>3, <1>4, PlanAssumption DEF IndInv, RunsWell, Running
    <3>2. mem.st[n] = "pending"
      BY <1>1 DEF Startable, MayStart
    <3>3. QED BY <1>2, <3>1, <3>2
  <2>6. Cardinality(Running') <= MaxParallel
    <3>1. Cardinality(Running) < MaxParallel
      BY DEF Start
    <3>2. Cardinality(Running') = Cardinality(Running) + 1
      BY <1>3, FiniteRunning, FS_AddElement
    <3>3. QED BY <3>1, <3>2, FiniteRunning, PlanAssumption
  <2>7. QED BY <2>3, <2>4, <2>5, <2>6 DEF RunsWell
<1>6. EndsQuiet'
  BY <1>1 DEF EndsQuiet, Up
<1>7. AttemptsRun'
  <2>1. todo' = <<Do("save"), Spawn(n)>> /\ UNCHANGED <<attempt, pc>>
    BY DEF Start, StartStep
  <2>2. \A j \in 1..Len(todo') : todo'[j].stages \subseteq {n}
    BY <2>1 DEF Do, Spawn
  <2>3. QED BY <1>1, <1>3, <2>1, <2>2 DEF IndInv, AttemptsRun, Up
<1>8. DoneIsTrue'
  BY <1>2 DEF IndInv, DoneIsTrue, DoneRan, Start, StartStep, histVars, cmdVars
<1>9. QED BY <1>5, <1>6, <1>7, <1>8 DEF IndInv

LEMMA IndPerform == ASSUME TypeOK, IndInv, Perform PROVE IndInv'
<1>1. Up /\ pc' = pc /\ mem' = mem /\ held' = held /\ Running' = Running /\ Up'
  BY DEF Perform, IndInv, EndsQuiet, Up, Running
<1>2. todo # <<>> /\ todo \in Seq(Deed) /\ todo' = Tail(todo)
  BY DEF Perform, TypeOK
<1>3. RunsWell' /\ EndsQuiet'
  BY <1>1 DEF IndInv, RunsWell, EndsQuiet, Up
<1>4. AttemptsRun'
  <2>1. \A i \in 1..Len(todo') : i + 1 \in 1..Len(todo) /\ todo'[i] = todo[i + 1]
    BY <1>2
  <2>2. \A i \in 1..Len(todo') : todo'[i].stages \subseteq Running'
    BY <1>1, <2>1 DEF IndInv, AttemptsRun
  <2>3. Head(todo) = todo[1] /\ 1 \in 1..Len(todo)
    BY <1>2
  <2>4. \A n \in Stages : attempt'[n] # attempt[n] => n \in Head(todo).stages
    BY DEF Perform, TypeOK
  <2>5. \A n \in Stages : attempt'[n] # "none" => n \in Running
    BY <2>3, <2>4 DEF IndInv, AttemptsRun
  <2>6. QED BY <1>1, <2>2, <2>5 DEF AttemptsRun
<1>5. DoneIsTrue'
  <2>1. disk' \in {disk, mem} /\ edit' = edit /\ ran' = ran
    BY DEF Perform, cmdVars
  <2>2. \A n \in Stages : attempt'[n] = "ok" => attempt[n] = "ok"
    BY DEF Perform, TypeOK
  <2>3. QED BY <1>1, <2>1, <2>2 DEF IndInv, DoneIsTrue, DoneRan
<1>6. QED BY <1>3, <1>4, <1>5 DEF IndInv

LEMMA IndStartup == ASSUME TypeOK, IndInv, Startup PROVE IndInv'
<1>1. \A n \in Stages : /\ mem'.st[n] # "running"
                        /\ mem'.st[n] = "done" => disk.st[n] = "done"
  BY DEF Startup, Recovered, TypeOK, Record
<1>2. Running' = {} /\ Up'
  BY <1>1 DEF Running, Startup, Up
<1>3. \A n \in Stages : attempt'[n] = "none"
  BY DEF Startup, IndInv, AttemptsRun, Up
<1>4. \A i \in 1..Len(todo') : todo'[i].stages = {}
  BY DEF Startup, Do
<1>5. RunsWell'
  <2>1. Cardinality({}) = 0
    BY FS_EmptySet
  <2>2. QED BY <1>2, <2>1, PlanAssumption DEF RunsWell
<1>6. EndsQuiet'
  BY <1>2 DEF EndsQuiet
<1>7. AttemptsRun'
  BY <1>2, <1>3, <1>4 DEF AttemptsRun
<1>8. DoneIsTrue'
  BY <1>1, <1>3 DEF IndInv, DoneIsTrue, DoneRan, Startup, cmdVars, histVars
<1>9. QED BY <1>5, <1>6, <1>7, <1>8 DEF IndInv

LEMMA IndBlock ==
  ASSUME TypeOK, IndInv, NEW i \in 1..Len(Order), Block(i)
  PROVE  IndInv'
<1> DEFINE n == Order[i]
<1>1. n \in Stages /\ mem.st[n] = "pending" /\ Up /\ pc = "block"
  BY OrderType DEF Block, NextIn, Ahead, Blockable, Up
<1>2. \A m \in Stages : mem'.st[m] = IF m = n THEN "blocked" ELSE mem.st[m]
  BY <1>1 DEF Block, TypeOK, Record
<1>3. Running' = Running
  BY <1>1, <1>2 DEF Running
<1>4. RunsWell'
  <2>1. \A m \in Running : \A d \in Needs[m] : d \in Stages /\ mem.st[d] = "done"
    BY <1>1, PlanAssumption DEF IndInv, RunsWell, Running
  <2>2. \A m \in Running : \A d \in Needs[m] : mem'.st[d] = "done"
    BY <1>1, <1>2, <2>1
  <2>3. QED BY <1>1, <1>3, <2>2 DEF IndInv, RunsWell, Block
<1>5. EndsQuiet'
  BY <1>1 DEF EndsQuiet, Block, Up
<1>6. AttemptsRun'
  <2>1. \A j \in 1..Len(todo') : todo'[j].stages = {}
    BY DEF Block, Do
  <2>2. QED BY <1>1, <1>3, <2>1 DEF IndInv, AttemptsRun, Block, Up
<1>7. DoneIsTrue'
  BY <1>2 DEF IndInv, DoneIsTrue, DoneRan, Block, cmdVars
<1>8. QED BY <1>4, <1>5, <1>6, <1>7 DEF IndInv

LEMMA IndNext == TypeOK /\ IndInv /\ [Next]_vars => IndInv'
<1> SUFFICES ASSUME TypeOK, IndInv, [Next]_vars PROVE IndInv'
  OBVIOUS
<1>1. CASE Startup
  BY <1>1, IndStartup
<1>2. CASE Exit
  <2>1. Up /\ Running = {} /\ todo' = <<>>
    BY <1>2 DEF Exit, Up, IndInv, EndsQuiet
  <2>2. QED BY <1>2, <2>1, IndVerdict DEF Exit, cmdVars, histVars
<1>3. CASE Perform
  BY <1>3, IndPerform
<1>4. ASSUME NEW n \in Stages, FinishDone(n) \/ FinishRetry(n) \/ FinishFailed(n)
      PROVE  IndInv'
  <2>1. PICK st \in {"done", "pending", "failed"} :
          Finish(n, st) /\ (st = "done" => attempt[n] = "ok")
    BY <1>4 DEF FinishDone, FinishRetry, FinishFailed
  <2>2. attempt[n] # "none" /\ pc' \in {"drain", "conclude", "reboot"} /\ edit' = edit
    BY <1>4, <2>1 DEF FinishDone, FinishRetry, FinishFailed, Finish, cmdVars
  <2>3. QED BY <2>1, <2>2, IndFinish
<1>5. ASSUME NEW from \in {"drain", "block", "start", "reboot"},
             NEW to \in {"block", "start", "end", "drain"},
             Move(from, to), to = "end" => Running = {}
      PROVE  IndInv'
  <2>1. Up /\ todo' = <<>> /\ pc' = to
    BY <1>5 DEF Move, Up
  <2>2. QED BY <1>5, <2>1, IndVerdict DEF Move, cmdVars, histVars
<1>6. CASE Drained \/ Blocked \/ PassOver \/ RebootRefused
  BY <1>5, <1>6 DEF Drained, Blocked, PassOver, RebootRefused, Rest
<1>7. ASSUME NEW from \in {"conclude", "end"}, NEW to \in {"reboot", "exiting"},
             to = "exiting" => from = "end", Conclude(from, to)
      PROVE  IndInv'
  <2>1. /\ Up /\ pc' = to /\ mem'.st = mem.st
        /\ UNCHANGED <<disk, held, attempt, edit, ran>>
    BY <1>7 DEF Conclude, Verdict, Up, cmdVars, histVars, TypeOK, Record
  <2>2. \A i \in 1..Len(todo') : todo'[i].stages = {}
    BY <1>7 DEF Conclude, Verdict, Do
  <2>3. pc' \in {"end", "exiting"} => Running = {}
    BY <1>7, <2>1 DEF Conclude, Verdict, IndInv, EndsQuiet
  <2>4. QED BY <2>1, <2>2, <2>3, IndVerdict
<1>8. CASE ConcludeFirst \/ EndDone
  BY <1>7, <1>8 DEF ConcludeFirst, EndDone
<1>9. CASE EndFailed
  <2>1. /\ Up /\ pc' = "exiting" /\ Running = {} /\ mem'.st = mem.st
        /\ UNCHANGED <<disk, held, attempt, edit, ran>>
    BY <1>9 DEF EndFailed, Verdict, Up, cmdVars, histVars, IndInv, EndsQuiet, TypeOK, Record
  <2>2. \A i \in 1..Len(todo') : todo'[i].stages = {}
    BY <1>9 DEF EndFailed, Verdict, Do
  <2>3. QED BY <2>1, <2>2, IndVerdict
<1>10. ASSUME NEW i \in 1..Len(Order), Block(i) \/ Start(i)
       PROVE  IndInv'
  BY <1>10, IndBlock, IndStart
<1>11. CASE Reboot \/ BoxCrash \/ ProcessCrash \/ RetryRestart
  BY <1>11, IndCutOff DEF Reboot, BoxCrash, BootBox, ProcessCrash, RetryRestart, cmdVars, histVars
<1>12. ASSUME NEW n \in Stages, AttemptOK(n)
       PROVE  IndInv'
  <2>1. \A m \in Stages : attempt'[m] = IF m = n THEN "ok" ELSE attempt[m]
    BY <1>12 DEF AttemptOK, TypeOK
  <2>2. Up /\ n \in Running /\ UNCHANGED <<mem, held, pc, todo, disk, edit>> /\ ran' = ran \cup {n}
    BY <1>12 DEF AttemptOK, IndInv, AttemptsRun, superVars, cmdVars
  <2>3. RunsWell' /\ EndsQuiet' /\ AttemptsRun'
    BY <2>1, <2>2 DEF IndInv, RunsWell, EndsQuiet, AttemptsRun, Up, Running
  <2>4. DoneIsTrue'
    BY <2>1, <2>2 DEF IndInv, DoneIsTrue, DoneRan
  <2>5. QED BY <2>3, <2>4 DEF IndInv
<1>13. ASSUME NEW n \in Stages, AttemptFails(n)
       PROVE  IndInv'
  <2>1. \A m \in Stages : attempt'[m] = IF m = n THEN "bad" ELSE attempt[m]
    BY <1>13 DEF AttemptFails, TypeOK
  <2>2. Up /\ n \in Running /\ UNCHANGED <<mem, held, pc, todo, disk, edit, ran>>
    BY <1>13 DEF AttemptFails, IndInv, AttemptsRun, superVars, cmdVars, histVars
  <2>3. RunsWell' /\ EndsQuiet' /\ AttemptsRun'
    BY <2>1, <2>2 DEF IndInv, RunsWell, EndsQuiet, AttemptsRun, Up, Running
  <2>4. DoneIsTrue'
    BY <2>1, <2>2 DEF IndInv, DoneIsTrue, DoneRan
  <2>5. QED BY <2>3, <2>4 DEF IndInv
<1>14. ASSUME NEW n \in Stages, CoolOff(n)
       PROVE  IndInv'
  <2>1. DoneIsTrue'
    BY <1>14 DEF CoolOff, IndInv, DoneIsTrue, DoneRan, superVars, cmdVars, histVars
  <2>2. QED BY <1>14, <2>1, IndElsewhere DEF CoolOff
<1>15. ASSUME NEW T \in SUBSET Stages, RetryRead(T)
       PROVE  IndInv'
  <2>1. \A n \in Stages : edit'.st[n] = "done" => disk.st[n] = "done"
    BY <1>15 DEF RetryRead, TypeOK, Record
  <2>2. DoneIsTrue'
    BY <1>15, <2>1 DEF RetryRead, IndInv, DoneIsTrue, DoneRan, superVars, histVars
  <2>3. QED BY <1>15, <2>2, IndElsewhere DEF RetryRead
<1>16. CASE RetryAll \/ RetryNamed
  BY <1>15, <1>16, PlanAssumption DEF RetryAll, RetryNamed, GaveUp
<1>17. CASE RetrySave
  <2>1. DoneIsTrue'
    BY <1>17 DEF RetrySave, IndInv, DoneIsTrue, DoneRan, superVars
  <2>2. QED BY <1>17, <2>1, IndElsewhere DEF RetrySave
<1>18. CASE UNCHANGED vars
  <2>1. DoneIsTrue'
    BY <1>18 DEF vars, IndInv, DoneIsTrue, DoneRan
  <2>2. QED BY <1>18, <2>1, IndElsewhere DEF vars, superVars
<1>19. QED
  BY <1>1, <1>2, <1>3, <1>4, <1>6, <1>8, <1>9, <1>10, <1>11, <1>12, <1>13, <1>14,
     <1>16, <1>17, <1>18 DEF Next, Supervise, RetryCommand

LEMMA Inductive == Spec => []IndInv
BY IndInit, IndNext, TypeCorrect, PTL DEF Spec

-----------------------------------------------------------------------------
\* Two stages that take the same lock never run at the same time, whatever the
\* plan, however often the supervisor or the box is cut off, and whatever
\* `cg-build retry` writes into the record meanwhile.
THEOREM LocksExclude == Spec => []LockExclusive
<1>1. IndInv => LockExclusive
  BY DEF IndInv, RunsWell, AttemptsRun, LockExclusive, Live
<1>2. QED BY <1>1, Inductive, PTL

\* A script runs only when the script of everything it needs has exited cleanly.
THEOREM NeedsComeFirst == Spec => []NeedsFirst
<1>1. IndInv => NeedsFirst
  BY PlanAssumption DEF IndInv, RunsWell, AttemptsRun, DoneIsTrue, DoneRan, NeedsFirst, Live, Running
<1>2. QED BY <1>1, Inductive, PTL

\* There are never more scripts at once than max_parallel.
THEOREM ParallelBounded == Spec => []ParallelBound
<1>1. TypeOK /\ IndInv => ParallelBound
  <2> SUFFICES ASSUME TypeOK, IndInv PROVE ParallelBound
    OBVIOUS
  <2>1. Live \subseteq Running
    BY DEF IndInv, AttemptsRun, Live
  <2>2. IsFiniteSet(Live) /\ Cardinality(Live) <= Cardinality(Running)
    BY <2>1, FiniteRunning, FS_Subset
  <2>3. CASE Live = {}
    BY <2>3, FS_EmptySet, PlanAssumption DEF ParallelBound
  <2>4. CASE Live # {}
    <3>1. Cardinality(Running) <= MaxParallel
      BY <2>4 DEF IndInv, AttemptsRun, RunsWell, Live
    <3>2. QED
      BY <2>2, <3>1, FiniteRunning, FS_CardinalityType, PlanAssumption DEF ParallelBound
  <2>5. QED BY <2>3, <2>4
<1>2. QED BY <1>1, Inductive, TypeCorrect, PTL

\* What the record on disk calls done has run and exited cleanly, even when a
\* retry has written an old copy of the record over a newer one.
THEOREM DoneIsEarned == Spec => []DoneMeansRan
<1>1. IndInv => DoneMeansRan
  BY DEF IndInv, DoneIsTrue, DoneRan, DoneMeansRan
<1>2. QED BY <1>1, Inductive, PTL
-----------------------------------------------------------------------------
(* The record can be trusted.  What follows holds when `cg-build retry` is   *)
(* given bare and to a supervisor that has stopped: one that writes the      *)
(* record beside a running supervisor can undo a save, and one that names a  *)
(* stage can put back what others were built on.  The plan ends with its     *)
(* reboot: whatever the stage that reboots does not wait for, directly or    *)
(* not, could run beside it.  (BoxPlan shows the box's plan to be so.)       *)
Patient == ~RetryBusy /\ Nameable = {}
RebootLast ==
  \A n \in RebootAfter : \A S \in SUBSET Stages :
    n \in S /\ (\A m \in S : Needs[m] \subseteq S) => S = Stages

\* What the current handler has still to do.
Saving == todo # <<>> /\ Head(todo).do = "save"
Tells(what) == \E i \in 1..Len(todo) : todo[i].do = what
Shapes ==
  \/ todo \in {<<>>, <<Do("save")>>}
  \/ \E n \in Stages : todo \in {<<Do("save"), Spawn(n)>>, <<Spawn(n)>>}
  \/ todo \in {<<Do("save"), Do("say_complete"), Do("rc0")>>, <<Do("say_complete"), Do("rc0")>>, <<Do("rc0")>>}
  \/ todo \in {<<Do("save"), Do("say_failed"), Do("rc1")>>, <<Do("say_failed"), Do("rc1")>>, <<Do("rc1")>>}

\* A build that has come to its end without being done.
Settled(s) ==
  \A n \in Stages : \/ s[n] \in {"done", "failed"}
                    \/ s[n] = "blocked" /\ \E d \in Needs[n] : s[d] \in {"failed", "blocked"}

\* A record, on disk or in memory, that says nothing untrue of the build.
SoundSt(r) ==
  /\ r.complete => AllDone(r)
  /\ \A n \in Stages : r.st[n] = "done" => \A d \in Needs[n] : r.st[d] = "done"
  /\ \A n \in Stages : r.st[n] = "blocked" => \E d \in Needs[n] : r.st[d] \in {"failed", "blocked"}
SoundAtt(r) ==
  /\ \A n \in Stages : r.st[n] = "failed" => fails[n] > Retries[n]
  /\ \A n \in Stages : r.att[n] <= fails[n] + (IF r.st[n] \in {"running", "done"} THEN 1 ELSE 0)
\* The end it has reported is the one it would come to again.
SoundRep(r) ==
  \A s \in r.reported :
    /\ Settled(s)
    /\ \A n \in Stages : r.st[n] = s[n] \/ (r.st[n] = "pending" /\ s[n] = "blocked")
Sound(r) == SoundSt(r) /\ SoundAtt(r) /\ SoundRep(r)

\* The record as `cg-build retry` changes it.
Reset(r) == [r EXCEPT !.st  = [n \in Stages |-> IF n \in GaveUp(r) THEN "pending" ELSE r.st[n]],
                      !.att = [n \in Stages |-> IF n \in GaveUp(r) THEN 0 ELSE r.att[n]],
                      !.reported = {}]

\* How one save may differ from the one before it.
RunningIn(r) == {n \in Stages : r.st[n] = "running"}
Same(r, q) == q.complete = r.complete /\ \A n \in Stages : Status(q.st[n]) = Status(r.st[n])
PutsBack(r, q) ==
  /\ q.complete = r.complete
  /\ \A n \in Stages : Status(q.st[n]) = IF r.st[n] = "running" THEN "waiting" ELSE Status(r.st[n])
Moves(r, q, n, from, to) ==
  /\ q.complete = r.complete
  /\ r.st[n] = from /\ q.st[n] = to /\ \A m \in Stages \ {n} : q.st[m] = r.st[m]
Settles(r, q) == \E n \in Stages, to \in {"done", "failed", "pending"} : Moves(r, q, n, "running", to)
Begins(r, q) ==
  \E n \in Stages :
    /\ Moves(r, q, n, "pending", "running")
    /\ \A d \in Needs[n] : r.st[d] = "done"
    /\ \A k \in RunningIn(r) : LockOf[k] \cap LockOf[n] = {}
    /\ Cardinality(RunningIn(r)) < MaxParallel
Concludes(r, q) == q.complete /\ AllDone(r) /\ q.st = r.st
PlanStep(r, q) == Same(r, q) \/ PutsBack(r, q) \/ Settles(r, q) \/ Begins(r, q) \/ Concludes(r, q)

Trusted == Sound(disk) /\ (Up => Sound(mem))
Saved ==
  /\ Up /\ ~Saving => mem = disk
  /\ Saving => PlanStep(disk, mem)
  /\ Up => (disk.complete => mem.complete) /\ (disk.reported # {} => mem.reported # {})

\* What has been said, and is about to be, is so.
Completes ==
  /\ rc = "0" => disk.complete
  /\ \A i \in 1..Len(log) : log[i] = "complete" => disk.complete /\ i = Len(log)
  /\ Tells("say_complete") \/ Tells("rc0") => mem.complete
  /\ Tells("say_complete") => \A i \in 1..Len(log) : log[i] # "complete"
  /\ Tells("say_failed") => ~mem.complete
SaidFailed(l) == Cardinality({i \in 1..Len(l) : l[i] = "failed"})
MaySay(r) == retries + (IF r.reported = {} THEN 0 ELSE 1) - (IF cmd = "read" THEN 1 ELSE 0)
Counted == SaidFailed(log) <= MaySay(disk) /\ (Tells("say_failed") => SaidFailed(log) < MaySay(mem))

\* Where the supervisor and the command are in their courses.
Places ==
  /\ pc \in {"conclude", "reboot"} => AllDone(mem)
  /\ pc \in {"end", "exiting"} => Rest
  /\ pc = "over" /\ cmd # "saved" => \A n \in Stages : disk.st[n] \notin {"pending", "running"}
  /\ cmd # "idle" => pc = "over"
  /\ cmd = "read" => targets = GaveUp(disk) /\ edit = Reset(disk) /\ retries > 0

\* What a retry asked for is still to be run.
Asked ==
  /\ \A n \in wanted : disk.st[n] \in {"pending", "running"}
  /\ Up => \A n \in wanted : \/ mem.st[n] = "pending"
                             \/ mem.st[n] = "running" /\ \E i \in 1..Len(todo) : todo[i] = Spawn(n)

RecInv == Shapes /\ Trusted /\ Saved /\ Completes /\ Counted /\ Places /\ Asked /\ RecordedFirst

-----------------------------------------------------------------------------
(* Lemmas about records.                                                     *)
LEMMA SoundMono ==
  ASSUME NEW r \in Record, TypeOK, Sound(r), \A n \in Stages : fails'[n] \in Nat /\ fails'[n] >= fails[n]
  PROVE  /\ \A n \in Stages : r.st[n] = "failed" => fails'[n] > Retries[n]
         /\ \A n \in Stages : r.att[n] <= fails'[n] + (IF r.st[n] \in {"running", "done"} THEN 1 ELSE 0)
<1>1. \A n \in Stages : r.att[n] \in Nat /\ fails[n] \in Nat /\ Retries[n] \in Nat
  BY PlanAssumption DEF Record, TypeOK
<1>2. QED BY <1>1 DEF Sound, SoundAtt

\* A report stands only while nothing has begun since.
LEMMA NothingBegun ==
  ASSUME NEW r, Sound(r), NEW n \in Stages, r.st[n] = "running"
  PROVE  r.reported = {} /\ ~r.complete
<1>1. ~r.complete
  BY DEF Sound, SoundSt, AllDone
<1>2. ASSUME NEW s \in r.reported PROVE FALSE
  BY DEF Sound, SoundRep, Settled
<1>3. QED BY <1>1, <1>2

LEMMA SoundRecovered == ASSUME NEW r \in Record, TypeOK, Sound(r) PROVE Sound(Recovered(r))
<1> DEFINE q == Recovered(r)
<1>1. /\ \A n \in Stages : q.st[n] = IF r.st[n] \in {"running", "blocked"} THEN "pending" ELSE r.st[n]
      /\ \A n \in Stages : q.att[n] = IF r.st[n] = "running" /\ r.att[n] > 0 THEN r.att[n] - 1 ELSE r.att[n]
      /\ q.complete = r.complete /\ q.reported = r.reported
  BY DEF Recovered, Record
<1>2. SoundSt(q)
  <2>1. \A n \in Stages : \A d \in Needs[n] : d \in Stages
    BY PlanAssumption
  <2>2. QED BY <1>1, <2>1 DEF Sound, SoundSt, AllDone
<1>3. SoundAtt(q)
  <2>1. \A n \in Stages : r.att[n] \in Nat /\ fails[n] \in Nat
    BY DEF Record, TypeOK
  <2>2. QED BY <1>1, <2>1 DEF Sound, SoundAtt
<1>4. SoundRep(q)
  BY <1>1 DEF Sound, SoundRep, Settled
<1>5. QED BY <1>2, <1>3, <1>4 DEF Sound

LEMMA Recovers == ASSUME NEW r \in Record PROVE PutsBack(r, Recovered(r))
BY DEF PutsBack, Recovered, Record, Status

\* A step of the loop that changes one stage.
LEMMA OneMoved ==
  ASSUME NEW r \in Record, NEW n \in Stages, NEW to, NEW q, q = [r EXCEPT !.st[n] = to]
  PROVE  /\ Moves(r, q, n, r.st[n], to)
         /\ q.att = r.att /\ q.complete = r.complete /\ q.reported = r.reported
BY DEF Record, Moves

LEMMA SoundStMoved ==
  ASSUME NEW r \in Record, NEW q, NEW n \in Stages, NEW from \in {"pending", "running"}, NEW to \in StageState,
         Sound(r), Moves(r, q, n, from, to), ~r.complete,
         to = "done" => \A d \in Needs[n] : r.st[d] = "done",
         to = "blocked" => \E d \in Needs[n] : r.st[d] \in {"failed", "blocked"}
  PROVE  SoundSt(q)
<1>1. \A m \in Stages : \A d \in Needs[m] : d \in Stages
  BY PlanAssumption
<1>2. \A m \in Stages : m # n => q.st[m] = r.st[m]
  BY DEF Moves
<1>3. q.st[n] = to /\ r.st[n] \notin {"done", "failed", "blocked"} /\ ~q.complete
  BY DEF Moves
<1>4. \A m \in Stages : r.st[m] \in {"done", "failed", "blocked"} => q.st[m] = r.st[m]
  BY <1>2, <1>3
<1>5. ASSUME NEW m \in Stages, q.st[m] = "done" PROVE \A d \in Needs[m] : q.st[d] = "done"
  BY <1>1, <1>2, <1>3, <1>4, <1>5 DEF Sound, SoundSt
<1>6. ASSUME NEW m \in Stages, q.st[m] = "blocked" PROVE \E d \in Needs[m] : q.st[d] \in {"failed", "blocked"}
  <2>1. \E d \in Needs[m] : r.st[d] \in {"failed", "blocked"}
    BY <1>2, <1>3, <1>6 DEF Sound, SoundSt
  <2>2. QED BY <1>1, <1>4, <2>1
<1>7. QED BY <1>3, <1>5, <1>6 DEF SoundSt

-----------------------------------------------------------------------------
(* The kinds of step, as the record sees them.                               *)

\* A step of an attempt, a pause or nobody: neither copy of the record moves.
LEMMA RecElsewhere ==
  ASSUME RecInv, UNCHANGED <<disk, mem, pc, todo, rc, log, cmd, edit, targets, retries, fails, wanted>>,
         \A n \in Stages : attempt'[n] = "live" => attempt[n] = "live"
  PROVE  RecInv'
<1>1. Shapes' /\ Trusted'
  BY DEF RecInv, Shapes, Trusted, Sound, SoundSt, SoundAtt, SoundRep, Up, AllDone
<1>2. Saved' /\ Completes' /\ Counted'
  BY DEF RecInv, Saved, Completes, Counted, Saving, Tells, MaySay, Up
<1>3. Places' /\ Asked'
  BY DEF RecInv, Places, Asked, Up, Rest, Running
<1>4. RecordedFirst'
  BY DEF RecInv, RecordedFirst, Live
<1>5. QED BY <1>1, <1>2, <1>3, <1>4 DEF RecInv

\* Counting what has been said.
LEMMA SaidType ==
  ASSUME NEW l \in Seq({"complete", "failed"})
  PROVE  SaidFailed(l) \in Nat /\ IsFiniteSet({i \in 1..Len(l) : l[i] = "failed"})
<1>1. IsFiniteSet(1..Len(l))
  BY FS_Interval
<1>2. IsFiniteSet({i \in 1..Len(l) : l[i] = "failed"})
  BY <1>1, FS_Subset
<1>3. QED BY <1>2, FS_CardinalityType DEF SaidFailed

LEMMA SaidMore ==
  ASSUME NEW l \in Seq({"complete", "failed"}), NEW what \in {"complete", "failed"}
  PROVE  /\ what = "failed"   => SaidFailed(Append(l, what)) = SaidFailed(l) + 1
         /\ what = "complete" => SaidFailed(Append(l, what)) = SaidFailed(l)
<1> DEFINE S == {i \in 1..Len(l) : l[i] = "failed"}
           k == Append(l, what)
<1>1. /\ Len(l) \in Nat /\ Len(k) = Len(l) + 1 /\ k[Len(l) + 1] = what
      /\ \A i \in 1..Len(l) : k[i] = l[i]
  OBVIOUS
<1>2. IsFiniteSet(S) /\ Cardinality(S) \in Nat /\ Len(l) + 1 \notin S
  BY SaidType DEF SaidFailed
<1> SUFFICES /\ what = "failed"   => SaidFailed(k) = SaidFailed(l) + 1
             /\ what = "complete" => SaidFailed(k) = SaidFailed(l)
  OBVIOUS
<1> HIDE DEF k
<1>3. CASE what = "failed"
  <2>1. {i \in 1..Len(k) : k[i] = "failed"} = S \cup {Len(l) + 1}
    BY <1>1, <1>3
  <2>2. QED BY <1>2, <1>3, <2>1, FS_AddElement DEF SaidFailed
<1>4. CASE what = "complete"
  <2>1. \A i \in 1..Len(k) : i \in 1..Len(l) \/ k[i] = "complete"
    BY <1>1, <1>4
  <2>2. {i \in 1..Len(k) : k[i] = "failed"} = S
    BY <1>1, <2>1
  <2>3. SaidFailed(k) = SaidFailed(l)
    BY <2>2, Zenon DEF SaidFailed
  <2>4. QED BY <1>4, <2>3
<1>5. QED BY <1>3, <1>4

\* The supervisor is cut off: what counts is on disk.
LEMMA RecCutOff ==
  ASSUME TypeOK, RecInv, CutOff, UNCHANGED <<disk, rc, log, retries, fails, wanted>>, cmd' = "idle"
  PROVE  RecInv'
<1>1. pc' = "starting" /\ todo' = <<>> /\ ~(Up')
  BY DEF CutOff, Up
<1>2. \A w \in {"say_complete", "rc0", "say_failed"} : ~Tells(w)'
  BY <1>1 DEF Tells
<1>3. Shapes' /\ Trusted'
  BY <1>1 DEF RecInv, Shapes, Trusted, Sound, SoundSt, SoundAtt, SoundRep, AllDone
<1>4. Saved'
  BY <1>1 DEF Saved, Saving
<1>5. Completes'
  BY <1>2 DEF RecInv, Completes
<1>6. Counted'
  <2>1. SaidFailed(log) <= MaySay(disk) /\ retries \in Nat /\ SaidFailed(log) \in Nat
    BY SaidType DEF RecInv, Counted, TypeOK
  <2>2. SaidFailed(log)' <= MaySay(disk)'
    BY <2>1 DEF MaySay
  <2>3. QED BY <1>2, <2>2 DEF Counted
<1>7. Places'
  BY <1>1 DEF Places
<1>8. Asked'
  BY <1>1 DEF RecInv, Asked
<1>9. RecordedFirst'
  BY DEF CutOff, RecordedFirst, Live
<1>10. QED BY <1>3, <1>4, <1>5, <1>6, <1>7, <1>8, <1>9 DEF RecInv

\* A step of the loop that owes nothing and changes no record.
LEMMA RecMoves ==
  ASSUME RecInv, Up, todo = <<>>, Up' \/ pc' = "over",
         UNCHANGED <<disk, mem, todo, attempt, rc, log, cmdVars, fails, wanted>>,
         pc' \in {"conclude", "reboot"} => AllDone(mem),
         pc' \in {"end", "exiting", "over"} => Rest
  PROVE  RecInv'
<1>1. mem = disk /\ cmd = "idle" /\ ~Saving
  BY DEF RecInv, Saved, Saving, Places, Up
<1>2. Shapes' /\ Trusted'
  BY DEF RecInv, Shapes, Trusted, Sound, SoundSt, SoundAtt, SoundRep, Up, AllDone
<1>3. Saved' /\ Completes' /\ Counted'
  BY <1>1 DEF RecInv, Saved, Completes, Counted, Saving, Tells, MaySay, cmdVars
<1>4. Places'
  BY <1>1 DEF RecInv, Places, Rest, Running, cmdVars, AllDone
<1>5. Asked' /\ RecordedFirst'
  BY DEF RecInv, Asked, RecordedFirst, Live
<1>6. QED BY <1>2, <1>3, <1>4, <1>5 DEF RecInv

\* A handler that changes the record in memory, and saves it first of all.
LEMMA RecSaves ==
  ASSUME TypeOK, RecInv, pc # "over", Up',
         UNCHANGED <<disk, rc, log, cmdVars>>,
         \A n \in Stages : attempt'[n] = "live" => attempt[n] = "live",
         Shapes', Saving', PlanStep(disk, mem'),
         Sound(disk)', Sound(mem)',
         disk.complete => mem'.complete, disk.reported # {} => mem'.reported # {},
         Tells("say_complete")' \/ Tells("rc0")' => mem'.complete /\ ~disk.complete,
         Tells("say_failed")' => ~mem'.complete /\ mem'.reported # {} /\ disk.reported = {},
         pc' \in {"conclude", "reboot"} => AllDone(mem'),
         pc' \in {"end", "exiting"} => Rest',
         wanted' \subseteq wanted,
         \A n \in wanted' : \/ mem'.st[n] = "pending"
                            \/ mem'.st[n] = "running" /\ \E i \in 1..Len(todo') : todo'[i] = Spawn(n)
  PROVE  RecInv'
<1>1. cmd = "idle"
  BY DEF RecInv, Places
<1>2. Trusted' /\ Saved'
  BY DEF Trusted, Saved
<1>3. Completes'
  <2>1. ~disk.complete => \A i \in 1..Len(log) : log[i] # "complete"
    BY DEF RecInv, Completes
  <2>2. QED BY <2>1 DEF RecInv, Completes
<1>4. Counted'
  <2>1. SaidFailed(log) <= MaySay(disk) /\ retries \in Nat /\ SaidFailed(log) \in Nat
    BY SaidType DEF RecInv, Counted, TypeOK
  <2>2. SaidFailed(log)' <= MaySay(disk)'
    BY <1>1, <2>1 DEF MaySay, cmdVars
  <2>3. Tells("say_failed")' => SaidFailed(log)' < MaySay(mem)'
    BY <1>1, <2>1 DEF MaySay, cmdVars
  <2>4. QED BY <2>2, <2>3 DEF Counted
<1>5. Places'
  BY <1>1 DEF Places, cmdVars, Up
<1>6. Asked'
  BY DEF RecInv, Asked
<1>7. RecordedFirst'
  BY DEF RecInv, RecordedFirst, Live
<1>8. QED BY <1>2, <1>3, <1>4, <1>5, <1>6, <1>7 DEF RecInv

\* A deed that tells something of a record already saved.
LEMMA RecTells ==
  ASSUME TypeOK, RecInv, Up, ~Saving, ~Saving', Shapes', todo' \in Seq(Deed),
         UNCHANGED <<disk, mem, pc, attempt, cmdVars, fails, wanted>>,
         \A i \in 1..Len(todo) : todo[i].do # "spawn",
         Completes', Counted'
  PROVE  RecInv'
<1>1. Trusted' /\ Saved'
  BY DEF RecInv, Trusted, Saved, Sound, SoundSt, SoundAtt, SoundRep, Up, AllDone
<1>2. Places'
  BY DEF RecInv, Places, cmdVars, Rest, Running, AllDone
<1>3. wanted \subseteq Stages /\ \A n \in Stages, i \in 1..Len(todo) : todo[i] # Spawn(n)
  BY DEF Spawn, TypeOK
<1>4. Asked' /\ RecordedFirst'
  BY <1>3 DEF RecInv, Asked, RecordedFirst, Live, Up
<1>5. QED BY <1>1, <1>2, <1>4 DEF RecInv

LEMMA DoIs == \A w : Do(w).do = w /\ \A n : Spawn(n).do = "spawn"
BY DEF Do, Spawn

LEMMA RecSave ==
  ASSUME TypeOK, IndInv, RecInv, Perform, Saving
  PROVE  RecInv'
<1>1. /\ Up /\ Up' /\ pc # "over" /\ disk' = mem /\ todo' = Tail(todo) /\ todo # <<>> /\ todo \in Seq(Deed)
      /\ UNCHANGED <<mem, pc, attempt, rc, log, wanted, fails, cmdVars>>
  <2>1. todo # <<>> /\ Head(todo).do = "save"
    BY DEF Saving
  <2>2. Up
    BY <2>1 DEF IndInv, EndsQuiet
  <2>3. attempt' = attempt
    BY <2>1 DEF Perform, TypeOK
  <2>4. QED BY <2>1, <2>2, <2>3 DEF Perform, Up, TypeOK
<1>2. Shapes' /\ ~Saving'
  <2>1. \A a, b : /\ Tail(<<a>>) = <<>> /\ Head(<<a>>) = a
                 /\ Tail(<<a, b>>) = <<b>> /\ Head(<<a, b>>) = a
    OBVIOUS
  <2>2. \A a, b, c : Tail(<<a, b, c>>) = <<b, c>> /\ Head(<<a, b, c>>) = a
    OBVIOUS
  <2>3. Head(todo).do = "save"
    BY DEF Saving
  <2>4. \/ todo' = <<>> \/ \E n \in Stages : todo' = <<Spawn(n)>>
        \/ todo' \in {<<Do("say_complete"), Do("rc0")>>, <<Do("say_failed"), Do("rc1")>>}
    <3>1. \A n \in Stages : todo # <<Spawn(n)>>
      BY <2>1, <2>3, DoIs
    <3>2. /\ todo \notin {<<Do("say_complete"), Do("rc0")>>, <<Do("say_failed"), Do("rc1")>>}
          /\ todo \notin {<<Do("rc0")>>, <<Do("rc1")>>}
      BY <2>1, <2>3, DoIs
    <3>3. CASE todo = <<Do("save")>>
      BY <1>1, <2>1, <3>3
    <3>4. CASE \E n \in Stages : todo = <<Do("save"), Spawn(n)>>
      BY <1>1, <2>1, <3>4
    <3>5. CASE todo \in {<<Do("save"), Do("say_complete"), Do("rc0")>>, <<Do("save"), Do("say_failed"), Do("rc1")>>}
      BY ZenonT(30), <1>1, <2>2, <3>5
    <3>6. Shapes /\ todo # <<>>
      BY <1>1 DEF RecInv
    <3>7. QED BY <3>1, <3>2, <3>3, <3>4, <3>5, <3>6 DEF Shapes
  <2>5. Shapes'
    BY <2>4 DEF Shapes
  <2>6. todo' # <<>> => Head(todo').do # "save"
    BY <2>1, <2>4, DoIs
  <2>7. QED BY <2>5, <2>6 DEF Saving
<1>3. \A i \in 1..Len(todo') : i + 1 \in 1..Len(todo) /\ todo'[i] = todo[i + 1]
  BY <1>1
<1>4. \A w \in {"say_complete", "rc0", "say_failed"} : Tells(w)' => Tells(w)
  BY <1>3 DEF Tells
<1>5. Trusted' /\ Saved'
  BY <1>1, <1>2 DEF RecInv, Trusted, Saved, Sound, SoundSt, SoundAtt, SoundRep, AllDone
<1>6. Completes'
  BY <1>1, <1>4 DEF RecInv, Completes, Saved
<1>7. Counted'
  <2>1. SaidFailed(log) <= MaySay(disk) /\ retries \in Nat /\ SaidFailed(log) \in Nat
    BY SaidType DEF RecInv, Counted, TypeOK
  <2>2. disk.reported # {} => mem.reported # {}
    BY <1>1 DEF RecInv, Saved
  <2>3. SaidFailed(log)' <= MaySay(disk)'
    BY <1>1, <2>1, <2>2 DEF MaySay, cmdVars
  <2>4. Tells("say_failed")' => SaidFailed(log)' < MaySay(mem)'
    BY <1>1, <1>4 DEF RecInv, Counted, MaySay, cmdVars
  <2>5. QED BY <2>3, <2>4 DEF Counted
<1>8. Places'
  BY <1>1 DEF RecInv, Places, cmdVars, Rest, Running, AllDone
<1>9. Asked'
  <2>1. ASSUME NEW n \in Stages, NEW i \in 1..Len(todo), todo[i] = Spawn(n)
        PROVE  \E j \in 1..Len(todo') : todo'[j] = Spawn(n)
    <3>1. i # 1
      BY <1>1, <2>1, DoIs DEF Saving
    <3>2. i - 1 \in 1..Len(todo') /\ todo'[i - 1] = todo[i]
      BY <1>1, <3>1
    <3>3. QED BY <2>1, <3>2
  <2>2. wanted \subseteq Stages
    BY DEF TypeOK
  <2>3. QED BY <1>1, <2>1, <2>2 DEF RecInv, Asked
<1>10. RecordedFirst'
  BY <1>1 DEF IndInv, AttemptsRun, RecordedFirst, Live, Running
<1>11. QED BY <1>2, <1>5, <1>6, <1>7, <1>8, <1>9, <1>10 DEF RecInv

LEMMA RecPerform == ASSUME TypeOK, IndInv, RecInv, Perform PROVE RecInv'
<1>1. CASE Saving
  BY <1>1, RecSave
<1>2. CASE ~Saving
  <2>1. /\ Up /\ Up' /\ mem = disk /\ todo # <<>> /\ todo' = Tail(todo) /\ todo' \in Seq(Deed)
        /\ UNCHANGED <<disk, mem, pc, fails, cmdVars>>
    <3>1. Up /\ todo # <<>>
      BY DEF Perform, IndInv, EndsQuiet
    <3>2. mem = disk
      BY <1>2, <3>1 DEF RecInv, Saved
    <3>3. Head(todo).do # "save" /\ todo' \in Seq(Deed)
      BY <1>2, <3>1 DEF Saving, Perform, TypeOK
    <3>4. QED BY <3>1, <3>2, <3>3 DEF Perform, Up
  <2>2. ASSUME NEW n \in Stages, todo = <<Spawn(n)>>
        PROVE  RecInv'
    <3>1. /\ todo' = <<>> /\ UNCHANGED <<rc, log>> /\ wanted' = wanted \ {n}
          /\ \A m \in Stages : attempt'[m] = IF m = n THEN "live" ELSE attempt[m]
      <4>1. Head(todo) = Spawn(n) /\ Tail(todo) = <<>>
        BY <2>2
      <4>2. QED BY <4>1, DoIs DEF Perform, Spawn
    <3>2. n \in Running /\ disk.st[n] = "running"
      BY <2>1, <2>2 DEF IndInv, AttemptsRun, Running, Spawn
    <3>3. \A w \in {"say_complete", "rc0", "say_failed"} : ~Tells(w)' /\ ~Tells(w)
      BY <2>2, <3>1, DoIs DEF Tells
    <3>4. Shapes' /\ ~Saving'
      BY <3>1 DEF Shapes, Saving
    <3>5. Trusted' /\ Saved'
      BY <2>1, <3>4 DEF RecInv, Trusted, Saved, Sound, SoundSt, SoundAtt, SoundRep, AllDone
    <3>6. Completes' /\ Counted'
      BY <2>1, <3>1, <3>3 DEF RecInv, Completes, Counted, MaySay, cmdVars
    <3>7. Places'
      BY <2>1 DEF RecInv, Places, cmdVars, Rest, Running, AllDone
    <3>8. Asked'
      <4>1. \A m \in wanted', i \in 1..Len(todo) : todo[i] # Spawn(m)
        BY <2>2, <3>1 DEF Spawn
      <4>2. QED BY <2>1, <3>1, <4>1 DEF RecInv, Asked
    <3>9. RecordedFirst'
      BY <2>1, <3>1, <3>2 DEF RecInv, RecordedFirst, Live
    <3>10. QED BY <3>4, <3>5, <3>6, <3>7, <3>8, <3>9 DEF RecInv
  <2>3. ASSUME \A i \in 1..Len(todo) : todo[i].do # "spawn", Head(todo).do # "spawn",
               Completes', Counted', Shapes', ~Saving'
        PROVE  RecInv'
    <3>1. attempt' = attempt /\ wanted' = wanted
      BY <2>3 DEF Perform, TypeOK
    <3>2. QED BY <1>2, <2>1, <2>3, <3>1, RecTells
  <2>4. CASE todo = <<Do("say_complete"), Do("rc0")>>
    <3>1. Head(todo) = Do("say_complete") /\ todo' = <<Do("rc0")>> /\ Tells("say_complete")
      BY <2>1, <2>4, DoIs DEF Tells
    <3>2. log' = Append(log, "complete") /\ rc' = rc /\ log \in Seq({"complete", "failed"})
      BY <3>1, DoIs DEF Perform, TypeOK
    <3>3. disk.complete /\ \A i \in 1..Len(log) : log[i] # "complete"
      BY <2>1, <3>1 DEF RecInv, Completes
    <3>4. ~Tells("say_complete")' /\ ~Tells("say_failed")'
      BY <3>1, DoIs DEF Tells
    <3>5. Completes'
      BY <2>1, <3>2, <3>3, <3>4 DEF Completes
    <3>6. Counted'
      <4>1. SaidFailed(log') = SaidFailed(log) /\ SaidFailed(log) \in Nat
        BY <3>2, SaidMore, SaidType
      <4>2. QED BY <2>1, <3>4, <4>1 DEF RecInv, Counted, MaySay, cmdVars
    <3>7. Shapes' /\ ~Saving' /\ Head(todo).do # "spawn" /\ \A i \in 1..Len(todo) : todo[i].do # "spawn"
      BY <2>4, <3>1, DoIs DEF Shapes, Saving
    <3>8. QED BY <2>3, <3>5, <3>6, <3>7
  <2>5. CASE todo = <<Do("rc0")>>
    <3>1. Head(todo) = Do("rc0") /\ todo' = <<>> /\ Tells("rc0")
      BY <2>1, <2>5, DoIs DEF Tells
    <3>2. log' = log /\ rc' = "0"
      BY <3>1, DoIs DEF Perform
    <3>3. disk.complete
      BY <2>1, <3>1 DEF RecInv, Completes
    <3>4. \A w : ~Tells(w)'
      BY <3>1 DEF Tells
    <3>5. Completes' /\ Counted'
      BY <2>1, <3>2, <3>3, <3>4 DEF RecInv, Completes, Counted, MaySay, cmdVars
    <3>6. Shapes' /\ ~Saving' /\ Head(todo).do # "spawn" /\ \A i \in 1..Len(todo) : todo[i].do # "spawn"
      BY <2>5, <3>1, DoIs DEF Shapes, Saving
    <3>7. QED BY <2>3, <3>5, <3>6
  <2>6. CASE todo = <<Do("say_failed"), Do("rc1")>>
    <3>1. Head(todo) = Do("say_failed") /\ todo' = <<Do("rc1")>> /\ Tells("say_failed")
      BY <2>1, <2>6, DoIs DEF Tells
    <3>2. log' = Append(log, "failed") /\ rc' = rc /\ log \in Seq({"complete", "failed"})
      BY <3>1, DoIs DEF Perform, TypeOK
    <3>3. ~disk.complete /\ ~mem.complete
      BY <2>1, <3>1 DEF RecInv, Completes
    <3>4. \A w \in {"say_complete", "rc0", "say_failed"} : ~Tells(w)'
      BY <3>1, DoIs DEF Tells
    <3>5. Completes'
      <4>1. \A i \in 1..Len(log) : log[i] # "complete"
        BY <3>3 DEF RecInv, Completes
      <4>2. \A i \in 1..Len(log') : log'[i] # "complete"
        BY <3>2, <4>1
      <4>3. QED BY <2>1, <3>2, <3>4, <4>2 DEF RecInv, Completes
    <3>6. Counted'
      <4>1. SaidFailed(log') = SaidFailed(log) + 1 /\ SaidFailed(log) \in Nat
        BY <3>2, SaidMore, SaidType
      <4>2. SaidFailed(log) < MaySay(disk) /\ retries \in Nat
        BY <2>1, <3>1 DEF RecInv, Counted, TypeOK
      <4>3. SaidFailed(log') <= MaySay(disk)'
        BY <2>1, <4>1, <4>2 DEF MaySay, cmdVars
      <4>4. QED BY <3>4, <4>3 DEF Counted
    <3>7. Shapes' /\ ~Saving' /\ Head(todo).do # "spawn" /\ \A i \in 1..Len(todo) : todo[i].do # "spawn"
      BY <2>6, <3>1, DoIs DEF Shapes, Saving
    <3>8. QED BY <2>3, <3>5, <3>6, <3>7
  <2>7. CASE todo = <<Do("rc1")>>
    <3>1. Head(todo) = Do("rc1") /\ todo' = <<>>
      BY <2>1, <2>7
    <3>2. log' = log /\ rc' = "1"
      BY <3>1, DoIs DEF Perform
    <3>3. \A w : ~Tells(w)'
      BY <3>1 DEF Tells
    <3>4. Completes' /\ Counted'
      BY <2>1, <3>2, <3>3 DEF RecInv, Completes, Counted, MaySay, cmdVars
    <3>5. Shapes' /\ ~Saving' /\ Head(todo).do # "spawn" /\ \A i \in 1..Len(todo) : todo[i].do # "spawn"
      BY <2>7, <3>1, DoIs DEF Shapes, Saving
    <3>6. QED BY <2>3, <3>4, <3>5
  <2>8. QED
    <3>1. \A a, b : Head(<<Do("save")>>).do = "save" /\ Head(<<Do("save"), a>>).do = "save"
                    /\ Head(<<Do("save"), a, b>>).do = "save"
      BY DoIs
    <3>2. QED BY <1>2, <2>1, <2>2, <2>4, <2>5, <2>6, <2>7, <3>1 DEF RecInv, Shapes, Saving
<1>3. QED BY <1>1, <1>2

LEMMA OnlySaves ==
  ASSUME todo' = <<Do("save")>>
  PROVE  /\ Saving' /\ Shapes'
         /\ \A w \in {"say_complete", "rc0", "say_failed"} : ~Tells(w)'
BY DoIs DEF Saving, Shapes, Tells

LEMMA RecStartup == ASSUME TypeOK, RecInv, Startup, TypeOK' PROVE RecInv'
<1>1. /\ mem' = Recovered(disk) /\ todo' = <<Do("save")>> /\ pc = "starting"
      /\ pc' = (IF disk.complete THEN "exiting" ELSE "drain")
      /\ UNCHANGED <<disk, attempt, rc, log, fails, wanted>> /\ UNCHANGED cmdVars
  BY DEF Startup, histVars
<1>2. Saving' /\ Shapes' /\ \A w \in {"say_complete", "rc0", "say_failed"} : ~Tells(w)'
  BY <1>1, OnlySaves
<1>3. disk \in Record /\ Sound(disk) /\ Up'
  BY <1>1 DEF TypeOK, RecInv, Trusted, Up
<1>4. Sound(mem)' /\ Sound(disk)'
  <2>1. Sound(Recovered(disk))
    BY <1>3, SoundRecovered
  <2>2. QED BY <1>1, <1>3, <2>1 DEF Sound, SoundSt, SoundAtt, SoundRep, AllDone
<1>5. PlanStep(disk, mem')
  BY <1>1, <1>3, Recovers DEF PlanStep
<1>6. mem'.complete = disk.complete /\ mem'.reported = disk.reported
  BY <1>1, <1>3 DEF Recovered, Record
<1>7. \A n \in Stages : mem'.st[n] = IF disk.st[n] \in {"running", "blocked"} THEN "pending" ELSE disk.st[n]
  BY <1>1, <1>3 DEF Recovered, Record
<1>8. pc' \in {"end", "exiting"} => Rest'
  <2>1. disk.complete => AllDone(disk)
    BY <1>3 DEF Sound, SoundSt
  <2>2. QED BY <1>1, <1>7, <2>1 DEF Rest, Running, AllDone
<1>9. \A n \in wanted' : mem'.st[n] = "pending"
  BY <1>1, <1>7 DEF RecInv, Asked, TypeOK
<1>10. QED
  BY <1>1, <1>2, <1>3, <1>4, <1>5, <1>6, <1>8, <1>9, RecSaves

\* What holds when the loop takes up its next handler.
LEMMA AtHandler ==
  ASSUME TypeOK, RecInv, Up, todo = <<>>
  PROVE  /\ mem = disk /\ cmd = "idle" /\ mem \in Record /\ Sound(mem) /\ Sound(disk)
         /\ \A n \in wanted : n \in Stages /\ mem.st[n] = "pending"
<1>1. mem = disk /\ cmd = "idle" /\ Sound(mem) /\ Sound(disk)
  BY DEF RecInv, Saved, Saving, Places, Trusted, Up
<1>2. \A n \in wanted : n \in Stages /\ mem.st[n] = "pending"
  BY DEF RecInv, Asked, TypeOK
<1>3. QED BY <1>1, <1>2 DEF TypeOK

LEMMA RecFinish ==
  ASSUME RebootLast, TypeOK, IndInv, RecInv, TypeOK',
         NEW n \in Stages, FinishDone(n) \/ FinishRetry(n) \/ FinishFailed(n)
  PROVE  RecInv'
<1>1. PICK to \in {"done", "pending", "failed"} : Finish(n, to) /\ (to = "done" <=> FinishDone(n))
                                                  /\ (to = "failed" => FinishFailed(n))
  BY DEF FinishDone, FinishRetry, FinishFailed
<1>2. /\ pc = "drain" /\ Up /\ Up' /\ todo = <<>> /\ todo' = <<Do("save")>>
      /\ mem' = [mem EXCEPT !.st[n] = to]
      /\ UNCHANGED <<disk, rc, log, wanted>> /\ UNCHANGED cmdVars
      /\ \A m \in Stages : attempt'[m] = "live" => attempt[m] = "live"
      /\ pc' \in {"drain", "conclude", "reboot"}
  BY <1>1 DEF Finish, Up, TypeOK, FinishDone, FinishRetry, FinishFailed
<1>3. /\ mem = disk /\ cmd = "idle" /\ mem \in Record /\ Sound(mem) /\ Sound(disk)
      /\ \A m \in wanted : m \in Stages /\ mem.st[m] = "pending"
  BY <1>2, AtHandler
<1>4. mem.st[n] = "running" /\ ~mem.complete /\ mem.reported = {}
  <2>1. mem.st[n] = "running"
    BY DEF FinishDone, FinishRetry, FinishFailed, IndInv, AttemptsRun, Running
  <2>2. QED BY <1>3, <2>1, NothingBegun
<1>5. /\ Moves(mem, mem', n, "running", to)
      /\ mem'.att = mem.att /\ mem'.complete = mem.complete /\ mem'.reported = mem.reported
  BY <1>2, <1>3, <1>4, OneMoved
<1>6. \A m \in Stages : fails[m] \in Nat /\ fails'[m] = IF m = n /\ to # "done" THEN fails[m] + 1 ELSE fails[m]
  <2>1. fails \in [Stages -> Nat]
    BY DEF TypeOK
  <2>2. fails' = IF to # "done" THEN [fails EXCEPT ![n] = @ + 1] ELSE fails
    BY <1>1 DEF FinishDone, FinishRetry, FinishFailed
  <2>3. QED BY <2>1, <2>2
<1>7. Sound(disk)'
  <2>1. \A m \in Stages : fails'[m] \in Nat /\ fails'[m] >= fails[m]
    BY <1>6
  <2>2. SoundAtt(disk)'
    BY <1>2, <1>3, <2>1, SoundMono DEF SoundAtt
  <2>3. QED BY <1>2, <1>3, <2>2 DEF Sound, SoundSt, SoundRep, AllDone
<1>8. Sound(mem)'
  <2>1. \A d \in Needs[n] : mem.st[d] = "done"
    BY <1>2, <1>4 DEF IndInv, RunsWell, Running
  <2>2. SoundSt(mem')
    BY <1>3, <1>4, <1>5, <2>1, SoundStMoved DEF StageState
  <2>3. \A m \in Stages : mem.att[m] \in Nat /\ Retries[m] \in Nat
    BY <1>3, PlanAssumption DEF Record
  <2>4. to = "failed" => mem.att[n] > Retries[n]
    BY <1>1 DEF FinishFailed
  <2>5. ASSUME NEW m \in Stages
        PROVE  /\ mem'.st[m] = "failed" => fails'[m] > Retries[m]
               /\ mem'.att[m] <= fails'[m] + (IF mem'.st[m] \in {"running", "done"} THEN 1 ELSE 0)
    <3>1. CASE m = n
      BY <1>3, <1>4, <1>5, <1>6, <2>3, <2>4, <3>1 DEF Sound, SoundAtt, Moves
    <3>2. CASE m # n
      BY <1>3, <1>5, <1>6, <3>2 DEF Sound, SoundAtt, Moves
    <3>3. QED BY <3>1, <3>2
  <2>6. SoundAtt(mem)'
    BY <2>5 DEF SoundAtt
  <2>7. SoundRep(mem')
    BY <1>4, <1>5 DEF SoundRep
  <2>8. QED BY <2>2, <2>6, <2>7 DEF Sound, SoundSt, SoundRep, AllDone
<1>9. PlanStep(disk, mem')
  BY <1>3, <1>5 DEF PlanStep, Settles
<1>10. pc' \in {"conclude", "reboot"} => AllDone(mem')
  <2>1. SUFFICES ASSUME pc' \in {"conclude", "reboot"} PROVE AllDone(mem')
    OBVIOUS
  <2>2. to = "done" /\ n \in RebootAfter
    BY <1>1, <1>2, <2>1 DEF FinishDone, FinishRetry, FinishFailed
  <2>3. mem'.st[n] = "done" /\ SoundSt(mem')
    BY <1>5, <1>8, <2>2 DEF Moves, Sound, SoundSt, AllDone
  <2> DEFINE S == {m \in Stages : mem'.st[m] = "done"}
  <2>4. n \in S /\ \A m \in S : Needs[m] \subseteq S
    BY <2>3, PlanAssumption DEF SoundSt
  <2>5. S = Stages
    BY <2>2, <2>4 DEF RebootLast
  <2>6. QED BY <2>5 DEF AllDone
<1>11. \A m \in wanted' : mem'.st[m] = "pending"
  BY <1>2, <1>3, <1>4, <1>5 DEF Moves
<1>12. Saving' /\ Shapes' /\ \A w \in {"say_complete", "rc0", "say_failed"} : ~Tells(w)'
  BY <1>2, OnlySaves
<1>13. QED
  BY <1>2, <1>3, <1>5, <1>7, <1>8, <1>9, <1>10, <1>11, <1>12, RecSaves

LEMMA RecBlock ==
  ASSUME TypeOK, RecInv, TypeOK', NEW i \in 1..Len(Order), Block(i)
  PROVE  RecInv'
<1> DEFINE n == Order[i]
<1>1. /\ n \in Stages /\ pc = "block" /\ pc' = pc /\ Up /\ Up' /\ todo = <<>> /\ todo' = <<Do("save")>>
      /\ mem' = [mem EXCEPT !.st[n] = "blocked"] /\ wanted' = wanted \ {n}
      /\ UNCHANGED <<disk, rc, log, attempt, fails>> /\ UNCHANGED cmdVars
  BY OrderType DEF Block, Up
<1>2. mem.st[n] = "pending" /\ \E d \in Needs[n] : mem.st[d] \in {"failed", "blocked"}
  BY <1>1 DEF Block, NextIn, Ahead, Blockable, GaveUp
<1> HIDE DEF n
<1>3. /\ mem = disk /\ cmd = "idle" /\ mem \in Record /\ Sound(mem) /\ Sound(disk)
      /\ \A m \in wanted : m \in Stages /\ mem.st[m] = "pending"
  BY <1>1, AtHandler
<1>4. /\ Moves(mem, mem', n, "pending", "blocked")
      /\ mem'.att = mem.att /\ mem'.complete = mem.complete /\ mem'.reported = mem.reported
  BY <1>1, <1>2, <1>3, OneMoved
<1>5. ~mem.complete
  BY <1>1, <1>2, <1>3 DEF Sound, SoundSt, AllDone
<1>6. Sound(disk)'
  BY <1>1, <1>3 DEF Sound, SoundSt, SoundAtt, SoundRep, AllDone
<1>7. Sound(mem)'
  <2>1. SoundSt(mem')
    BY <1>1, <1>2, <1>3, <1>4, <1>5, SoundStMoved DEF StageState
  <2>2. SoundAtt(mem')
    BY <1>1, <1>3, <1>4 DEF Sound, SoundAtt, Moves
  <2>3. SoundRep(mem')
    <3>1. ASSUME NEW s \in mem.reported
          PROVE  /\ Settled(s)
                 /\ \A m \in Stages : mem'.st[m] = s[m] \/ (mem'.st[m] = "pending" /\ s[m] = "blocked")
      <4>1. /\ Settled(s)
            /\ \A m \in Stages : mem.st[m] = s[m] \/ (mem.st[m] = "pending" /\ s[m] = "blocked")
        BY <1>3, <3>1 DEF Sound, SoundRep
      <4>2. QED BY <1>4, <4>1 DEF Moves, Settled
    <3>2. QED BY <1>4, <3>1 DEF SoundRep
  <2>4. QED BY <1>1, <2>1, <2>2, <2>3 DEF Sound, SoundSt, SoundAtt, SoundRep, AllDone
<1>8. PlanStep(disk, mem')
  <2>1. \A m \in Stages : Status(mem'.st[m]) = Status(mem.st[m])
    BY <1>4 DEF Moves, Status
  <2>2. QED BY <1>3, <1>4, <2>1 DEF PlanStep, Same
<1>9. \A m \in wanted' : mem'.st[m] = "pending"
  BY <1>1, <1>3, <1>4 DEF Moves
<1>10. Saving' /\ Shapes' /\ \A w \in {"say_complete", "rc0", "say_failed"} : ~Tells(w)'
  BY <1>1, OnlySaves
<1>11. QED
  BY <1>1, <1>3, <1>4, <1>6, <1>7, <1>8, <1>9, <1>10, RecSaves

LEMMA RecStart ==
  ASSUME TypeOK, IndInv, RecInv, TypeOK', NEW i \in 1..Len(Order), Start(i)
  PROVE  RecInv'
<1> DEFINE n == Order[i]
<1>1. /\ n \in Stages /\ pc = "start" /\ pc' = pc /\ Up /\ Up' /\ todo = <<>>
      /\ todo' = <<Do("save"), Spawn(n)>>
      /\ mem' = [mem EXCEPT !.st[n] = "running", !.att[n] = @ + 1]
      /\ UNCHANGED <<disk, rc, log, attempt, fails, wanted>> /\ UNCHANGED cmdVars
  BY OrderType DEF Start, StartStep, Up, histVars
<1>2. MayStart(n) /\ Cardinality(Running) < MaxParallel
  BY <1>1 DEF Start, StartStep, NextIn, Ahead, Startable
<1> HIDE DEF n
<1>3. /\ mem = disk /\ cmd = "idle" /\ mem \in Record /\ Sound(mem) /\ Sound(disk)
      /\ \A m \in wanted : m \in Stages /\ mem.st[m] = "pending"
  BY <1>1, AtHandler
<1>4. mem.st[n] = "pending" /\ \A d \in Needs[n] : mem.st[d] = "done"
  BY <1>2 DEF MayStart
<1>5. /\ Moves(mem, mem', n, "pending", "running")
      /\ \A m \in Stages : mem'.att[m] = IF m = n THEN mem.att[m] + 1 ELSE mem.att[m]
      /\ mem'.complete = mem.complete /\ mem'.reported = mem.reported
  BY <1>1, <1>3, <1>4 DEF Moves, Record
<1>6. ~mem.complete /\ mem.reported = {}
  <2>1. ~mem.complete
    BY <1>1, <1>3, <1>4 DEF Sound, SoundSt, AllDone
  <2>2. ASSUME NEW s \in mem.reported PROVE FALSE
    <3>1. s[n] = "blocked" /\ Settled(s)
      BY <1>1, <1>3, <1>4 DEF Sound, SoundRep, Settled
    <3>2. PICK d \in Needs[n] : s[d] \in {"failed", "blocked"}
      BY <1>1, <3>1 DEF Settled
    <3>3. d \in Stages
      BY <1>1, PlanAssumption
    <3>4. QED BY <1>3, <1>4, <3>2, <3>3 DEF Sound, SoundRep
  <2>3. QED BY <2>1, <2>2
<1>7. Sound(disk)'
  BY <1>1, <1>3 DEF Sound, SoundSt, SoundAtt, SoundRep, AllDone
<1>8. Sound(mem)'
  <2>1. SoundSt(mem')
    BY <1>1, <1>3, <1>5, <1>6, SoundStMoved DEF StageState
  <2>2. SoundAtt(mem')
    <3>1. \A m \in Stages : mem.att[m] \in Nat /\ fails[m] \in Nat
      BY <1>3 DEF Record, TypeOK
    <3>2. QED BY <1>3, <1>4, <1>5, <3>1 DEF Sound, SoundAtt, Moves
  <2>3. SoundRep(mem')
    BY <1>5, <1>6 DEF SoundRep
  <2>4. QED BY <1>1, <2>1, <2>2, <2>3 DEF Sound, SoundSt, SoundAtt, SoundRep, AllDone
<1>9. PlanStep(disk, mem')
  <2>1. RunningIn(disk) = Running
    BY <1>3 DEF RunningIn, Running
  <2>2. \A k \in RunningIn(disk) : LockOf[k] \cap LockOf[n] = {}
    BY <1>1, <1>2, <2>1 DEF IndInv, RunsWell, MayStart
  <2>3. QED BY <1>1, <1>2, <1>3, <1>4, <1>5, <2>1, <2>2 DEF PlanStep, Begins
<1>10. Saving' /\ Shapes' /\ \A w \in {"say_complete", "rc0", "say_failed"} : ~Tells(w)'
  BY <1>1, DoIs DEF Saving, Shapes, Tells
<1>11. \A m \in wanted' : \/ mem'.st[m] = "pending"
                          \/ mem'.st[m] = "running" /\ \E j \in 1..Len(todo') : todo'[j] = Spawn(m)
  <2>1. 2 \in 1..Len(todo') /\ todo'[2] = Spawn(n)
    BY <1>1
  <2>2. QED BY <1>1, <1>3, <1>5, <2>1 DEF Moves
<1>12. QED
  BY <1>1, <1>3, <1>5, <1>7, <1>8, <1>9, <1>10, <1>11, RecSaves

\* The verdicts.
LEMMA RecConclude ==
  ASSUME TypeOK, RecInv, TypeOK',
         NEW from \in {"conclude", "end"}, NEW to \in {"reboot", "exiting"},
         to = "exiting" => from = "end", AllDone(mem), Conclude(from, to)
  PROVE  RecInv'
<1>1. /\ Up /\ Up' /\ todo = <<>> /\ pc' = to /\ pc = from
      /\ UNCHANGED <<disk, rc, log, attempt, fails, wanted>> /\ UNCHANGED cmdVars
  BY DEF Conclude, Verdict, Up, histVars
<1>2. /\ mem = disk /\ cmd = "idle" /\ mem \in Record /\ Sound(mem) /\ Sound(disk)
      /\ \A m \in wanted : m \in Stages /\ mem.st[m] = "pending"
  BY <1>1, AtHandler
<1>3. Rest
  BY DEF Rest, Running, AllDone
<1>4. CASE mem.complete
  <2>1. UNCHANGED <<mem, todo>>
    BY <1>1, <1>4 DEF Conclude, Verdict
  <2>2. QED BY <1>1, <1>3, <2>1, RecMoves
<1>5. CASE ~mem.complete
  <2>1. mem' = [mem EXCEPT !.complete = TRUE] /\ todo' = <<Do("save"), Do("say_complete"), Do("rc0")>>
    BY <1>5 DEF Conclude, Verdict
  <2>2. mem'.complete /\ mem'.st = mem.st /\ mem'.att = mem.att /\ mem'.reported = mem.reported
    BY <1>2, <2>1 DEF Record
  <2>3. Sound(disk)' /\ Sound(mem)'
    BY <1>1, <1>2, <2>2 DEF Sound, SoundSt, SoundAtt, SoundRep, AllDone
  <2>4. PlanStep(disk, mem')
    BY <1>2, <2>2 DEF PlanStep, Concludes
  <2>5. Saving' /\ Shapes' /\ ~Tells("say_failed")'
    BY <2>1, DoIs DEF Saving, Shapes, Tells
  <2>6. pc' \in {"conclude", "reboot"} => AllDone(mem')
    BY <2>2 DEF AllDone
  <2>7. Rest'
    BY <1>3, <2>2 DEF Rest, Running
  <2>8. QED BY <1>1, <1>2, <1>5, <2>2, <2>3, <2>4, <2>5, <2>6, <2>7, RecSaves
<1>6. QED BY <1>4, <1>5

LEMMA RecEndFailed == ASSUME TypeOK, RecInv, TypeOK', EndFailed PROVE RecInv'
<1>1. /\ Up /\ Up' /\ todo = <<>> /\ pc' = "exiting" /\ pc = "end" /\ ~AllDone(mem)
      /\ UNCHANGED <<disk, rc, log, attempt, fails, wanted>> /\ UNCHANGED cmdVars
  BY DEF EndFailed, Verdict, Up, histVars
<1>2. /\ mem = disk /\ cmd = "idle" /\ mem \in Record /\ Sound(mem) /\ Sound(disk)
      /\ \A m \in wanted : m \in Stages /\ mem.st[m] = "pending"
  BY <1>1, AtHandler
<1>3. Rest
  BY <1>1 DEF RecInv, Places
<1>4. CASE mem.reported = {mem.st}
  <2>1. UNCHANGED <<mem, todo>>
    BY <1>1, <1>4 DEF EndFailed, Verdict
  <2>2. QED BY <1>1, <1>3, <2>1, RecMoves
<1>5. CASE mem.reported # {mem.st}
  <2>1. mem' = [mem EXCEPT !.reported = {mem.st}] /\ todo' = <<Do("save"), Do("say_failed"), Do("rc1")>>
    BY <1>1, <1>5 DEF EndFailed, Verdict
  <2>2. mem'.complete = mem.complete /\ mem'.st = mem.st /\ mem'.att = mem.att /\ mem'.reported = {mem.st}
    BY <1>2, <2>1 DEF Record
  <2>3. ~mem.complete
    BY <1>1, <1>2 DEF Sound, SoundSt
  <2>4. mem.reported = {}
    \* What it had reported is what it has come to again.
    <3>1. ASSUME NEW s \in mem.reported PROVE s = mem.st
      <4>1. s \in [Stages -> StageState] /\ mem.st \in [Stages -> StageState]
        BY <1>2 DEF Record
      <4>2. \A n \in Stages : mem.st[n] = s[n]
        BY <1>2, <1>3 DEF Sound, SoundRep, Rest
      <4>3. QED BY <4>1, <4>2
    <3>2. QED BY <1>5, <3>1
  <2>5. Settled(mem.st)
    <3>1. \A n \in Stages : mem.st[n] \in {"done", "failed", "blocked"}
      BY <1>2, <1>3 DEF Rest, Running, Record, StageState
    <3>2. QED BY <1>2, <3>1 DEF Settled, Sound, SoundSt
  <2>6. Sound(disk)' /\ Sound(mem)'
    BY <1>1, <1>2, <2>2, <2>5 DEF Sound, SoundSt, SoundAtt, SoundRep, Settled, AllDone
  <2>7. PlanStep(disk, mem')
    BY <1>2, <2>2 DEF PlanStep, Same
  <2>8. Saving' /\ Shapes' /\ ~Tells("say_complete")' /\ ~Tells("rc0")'
    BY <2>1, DoIs DEF Saving, Shapes, Tells
  <2>9. Rest'
    BY <1>3, <2>2 DEF Rest, Running
  <2>10. QED BY <1>1, <1>2, <2>2, <2>3, <2>4, <2>6, <2>7, <2>8, <2>9, RecSaves
<1>6. QED BY <1>4, <1>5

-----------------------------------------------------------------------------
(* `cg-build retry`, given bare to a supervisor that has stopped.            *)
LEMMA ResetIs ==
  ASSUME NEW r \in Record
  PROVE  /\ \A n \in Stages : Reset(r).st[n] = IF r.st[n] \in {"failed", "blocked"} THEN "pending" ELSE r.st[n]
         /\ \A n \in Stages : Reset(r).att[n] = IF r.st[n] \in {"failed", "blocked"} THEN 0 ELSE r.att[n]
         /\ Reset(r).complete = r.complete /\ Reset(r).reported = {}
BY DEF Reset, GaveUp, Record

LEMMA RecRetryRead ==
  ASSUME Patient, TypeOK, IndInv, RecInv, RetryAll \/ RetryNamed
  PROVE  RecInv'
<1>1. RetryRead(GaveUp(disk))
  BY DEF RetryAll, RetryNamed, Patient
<1>2. /\ cmd = "idle" /\ pc = "over" /\ cmd' = "read" /\ retries' = retries + 1 /\ targets' = GaveUp(disk)
      /\ UNCHANGED <<disk, mem, pc, todo, attempt, rc, log, fails, wanted>>
  BY <1>1 DEF RetryRead, Patient, superVars, histVars
<1>3. edit' = Reset(disk)
  BY <1>1 DEF RetryRead, Reset
<1>4. todo = <<>> /\ ~Saving /\ \A w : ~Tells(w)
  BY <1>2 DEF IndInv, EndsQuiet, Up, Saving, Tells
<1>5. Shapes' /\ Trusted' /\ Saved' /\ Completes'
  BY <1>2, <1>4 DEF RecInv, Shapes, Trusted, Saved, Completes, Sound, SoundSt, SoundAtt, SoundRep, Up,
     AllDone, Saving, Tells
<1>6. Counted'
  <2>1. SaidFailed(log) <= MaySay(disk) /\ retries \in Nat
    BY DEF RecInv, Counted, TypeOK
  <2>2. MaySay(disk)' = MaySay(disk)
    BY <1>2, <2>1 DEF MaySay
  <2>3. SaidFailed(log)' = SaidFailed(log) /\ ~Tells("say_failed")'
    BY <1>2, <1>4 DEF Tells
  <2>4. QED BY <2>1, <2>2, <2>3 DEF Counted
<1>7. Places'
  <2>1. retries' > 0
    BY <1>2 DEF TypeOK
  <2>2. Reset(disk)' = Reset(disk) /\ GaveUp(disk)' = GaveUp(disk)
    BY <1>2 DEF Reset, GaveUp
  <2>3. QED BY <1>2, <1>3, <2>1, <2>2 DEF RecInv, Places
<1>8. Asked' /\ RecordedFirst'
  BY <1>2 DEF RecInv, Asked, RecordedFirst, Live, Up
<1>9. QED BY <1>5, <1>6, <1>7, <1>8 DEF RecInv

LEMMA RecRetrySave ==
  ASSUME TypeOK, IndInv, RecInv, RetrySave
  PROVE  RecInv'
<1>1. /\ cmd = "read" /\ pc = "over" /\ cmd' = "saved" /\ disk' = Reset(disk) /\ targets = GaveUp(disk)
      /\ wanted' = wanted \cup GaveUp(disk) /\ retries > 0
      /\ fails' = [n \in Stages |-> IF n \in GaveUp(disk) THEN 0 ELSE fails[n]]
      /\ UNCHANGED <<mem, pc, todo, attempt, rc, log, retries>>
  BY DEF RetrySave, RecInv, Places, superVars
<1>2. todo = <<>> /\ ~(Up') /\ \A w : ~Tells(w)'
  BY <1>1 DEF IndInv, EndsQuiet, Up, Tells
<1>3. /\ disk \in Record /\ Sound(disk)
      /\ \A n \in Stages : fails[n] \in Nat /\ disk.att[n] \in Nat /\ disk.st[n] \in StageState
      /\ \A n \in Stages : fails'[n] = IF disk.st[n] \in {"failed", "blocked"} THEN 0 ELSE fails[n]
  BY <1>1 DEF TypeOK, RecInv, Trusted, Record, GaveUp
<1>4. /\ \A n \in Stages : disk'.st[n] = IF disk.st[n] \in {"failed", "blocked"} THEN "pending" ELSE disk.st[n]
      /\ \A n \in Stages : disk'.att[n] = IF disk.st[n] \in {"failed", "blocked"} THEN 0 ELSE disk.att[n]
      /\ disk'.complete = disk.complete /\ disk'.reported = {}
  BY <1>1, <1>3, ResetIs
<1>5. Sound(disk)'
  <2>1. SoundSt(disk')
    <3>1. \A n \in Stages : \A d \in Needs[n] : d \in Stages
      BY PlanAssumption
    <3>2. QED BY <1>3, <1>4, <3>1 DEF Sound, SoundSt, AllDone
  <2>2. SoundAtt(disk)'
    BY <1>3, <1>4 DEF Sound, SoundAtt
  <2>3. SoundRep(disk')
    BY <1>4 DEF SoundRep
  <2>4. QED BY <2>1, <2>2, <2>3 DEF Sound, SoundSt, SoundRep, AllDone
<1>6. Shapes' /\ Trusted' /\ Saved'
  BY <1>1, <1>2, <1>5 DEF Shapes, Trusted, Saved, Saving
<1>7. Completes'
  BY <1>1, <1>2, <1>4 DEF RecInv, Completes
<1>8. Counted'
  <2>1. SaidFailed(log) <= MaySay(disk) /\ retries \in Nat /\ SaidFailed(log) \in Nat
    BY SaidType DEF RecInv, Counted, TypeOK
  <2>2. SaidFailed(log) <= retries
    BY <1>1, <2>1 DEF MaySay
  <2>3. MaySay(disk)' = retries
    BY <1>1, <1>4, <2>1 DEF MaySay
  <2>4. QED BY <1>1, <1>2, <2>2, <2>3 DEF Counted
<1>9. Places'
  BY <1>1 DEF Places
<1>10. Asked'
  <2>1. wanted \subseteq Stages /\ GaveUp(disk) = {n \in Stages : disk.st[n] \in {"failed", "blocked"}}
    BY DEF TypeOK, GaveUp
  <2>2. QED BY <1>1, <1>2, <1>4, <2>1 DEF RecInv, Asked
<1>11. RecordedFirst'
  <2>1. Live' = {}
    BY <1>1 DEF IndInv, AttemptsRun, Up, Live
  <2>2. QED BY <2>1 DEF RecordedFirst
<1>12. QED BY <1>6, <1>7, <1>8, <1>9, <1>10, <1>11 DEF RecInv

-----------------------------------------------------------------------------
LEMMA RecInit == Init => RecInv
<1> SUFFICES ASSUME Init PROVE RecInv
  OBVIOUS
<1>1. /\ pc = "starting" /\ todo = <<>> /\ log = <<>> /\ rc = "none" /\ cmd = "idle" /\ wanted = {} /\ retries = 0
      /\ ~disk.complete /\ disk.reported = {}
      /\ \A n \in Stages : disk.st[n] = "pending" /\ disk.att[n] = 0 /\ fails[n] = 0 /\ attempt[n] = "none"
  BY DEF Init, Unstarted
<1>2. Sound(disk)
  BY <1>1 DEF Sound, SoundSt, SoundAtt, SoundRep
<1>3. Shapes /\ Trusted /\ Saved
  BY <1>1, <1>2 DEF Shapes, Trusted, Saved, Saving, Up
<1>4. \A w : ~Tells(w)
  BY <1>1 DEF Tells
<1>5. Completes /\ Places /\ Asked /\ RecordedFirst
  BY <1>1, <1>4 DEF Completes, Places, Asked, RecordedFirst, Live
<1>6. Counted
  <2>1. SaidFailed(log) = 0
    BY <1>1, FS_EmptySet DEF SaidFailed
  <2>2. QED BY <1>1, <1>4, <2>1 DEF Counted, MaySay
<1>7. QED BY <1>3, <1>5, <1>6 DEF RecInv

LEMMA RecNext ==
  ASSUME Patient, RebootLast, TypeOK, IndInv, RecInv, [Next]_vars
  PROVE  RecInv'
<1> USE DEF cmdVars, histVars, superVars
<1>0. TypeOK'
  BY TypeNext
<1>1. CASE Startup
  BY <1>0, <1>1, RecStartup
<1>2. CASE Perform
  BY <1>2, RecPerform
<1>3. ASSUME NEW n \in Stages, FinishDone(n) \/ FinishRetry(n) \/ FinishFailed(n)
      PROVE  RecInv'
  BY <1>0, <1>3, RecFinish
<1>4. ASSUME NEW i \in 1..Len(Order), Block(i) \/ Start(i)
      PROVE  RecInv'
  BY <1>0, <1>4, RecBlock, RecStart
<1>5. CASE ConcludeFirst
  <2>1. AllDone(mem)
    BY <1>5 DEF ConcludeFirst, Conclude, Verdict, RecInv, Places
  <2>2. QED BY <1>0, <1>5, <2>1, RecConclude DEF ConcludeFirst
<1>6. CASE EndDone
  BY <1>0, <1>6, RecConclude DEF EndDone
<1>7. CASE EndFailed
  BY <1>0, <1>7, RecEndFailed
<1>8. CASE Drained \/ Blocked \/ PassOver \/ RebootRefused
  <2>1. /\ Up /\ Up' /\ todo = <<>> /\ pc' \notin {"conclude", "reboot", "exiting", "over"}
        /\ UNCHANGED <<disk, mem, todo, attempt, rc, log, cmdVars, fails, wanted>>
    BY <1>8 DEF Drained, Blocked, PassOver, RebootRefused, Move, Up
  <2>2. pc' = "end" => Rest
    BY <1>8 DEF Drained, Blocked, PassOver, RebootRefused, Move
  <2>3. QED BY <2>1, <2>2, RecMoves
<1>9. CASE Exit
  <2>1. Rest
    BY <1>9 DEF Exit, RecInv, Places
  <2>2. /\ Up /\ todo = <<>> /\ pc' = "over"
        /\ UNCHANGED <<disk, mem, todo, attempt, rc, log, cmdVars, fails, wanted>>
    BY <1>9 DEF Exit, Up
  <2>3. QED BY <2>1, <2>2, RecMoves
<1>10. CASE Reboot \/ BoxCrash \/ RetryRestart
  BY <1>10, RecCutOff DEF Reboot, BoxCrash, BootBox, RetryRestart
<1>11. CASE ProcessCrash
  <2>1. cmd = "idle"
    BY <1>11 DEF ProcessCrash, RecInv, Places, Up
  <2>2. QED BY <1>11, <2>1, RecCutOff DEF ProcessCrash
<1>12. ASSUME NEW n \in Stages, AttemptOK(n) \/ AttemptFails(n) \/ CoolOff(n)
       PROVE  RecInv'
  <2>1. \A m \in Stages : attempt'[m] = "live" => attempt[m] = "live"
    BY <1>12 DEF AttemptOK, AttemptFails, CoolOff, TypeOK
  <2>2. QED BY <1>12, <2>1, RecElsewhere DEF AttemptOK, AttemptFails, CoolOff
<1>13. CASE RetryAll \/ RetryNamed
  BY <1>13, RecRetryRead
<1>14. CASE RetrySave
  BY <1>14, RecRetrySave
<1>15. CASE UNCHANGED vars
  BY <1>15, RecElsewhere DEF vars
<1>16. QED
  BY <1>1, <1>2, <1>3, <1>4, <1>5, <1>6, <1>7, <1>8, <1>9, <1>10, <1>11, <1>12, <1>13,
     <1>14, <1>15 DEF Next, Supervise, RetryCommand

LEMMA RecordInductive == ASSUME Patient, RebootLast PROVE Spec => []RecInv
<1>1. TypeOK /\ IndInv /\ RecInv /\ [Next]_vars => RecInv'
  BY RecNext
<1>2. QED BY <1>1, RecInit, Inductive, TypeCorrect, PTL DEF Spec

-----------------------------------------------------------------------------
\* The record can be trusted, whatever is cut off and however often: what the
\* supervisor says of the build is so and its last word, a failure is said once
\* to each command, a stage that is cut off loses nothing by it, no reboot comes
\* upon a running stage, and at the end every stage is accounted for.
THEOREM RecordTrusted == ASSUME Patient, RebootLast PROVE Spec => []RecordIsTrue
<1>1. ASSUME TypeOK, IndInv, RecInv PROVE RecordIsTrue
  <2>1. Sound(disk)
    BY <1>1 DEF RecInv, Trusted
  <2>2. CompleteIsTrue
    BY <1>1, <2>1 DEF RecInv, Completes, Sound, SoundSt, CompleteIsTrue
  <2>3. FailedSaidOnce
    <3>1. SaidFailed(log) <= MaySay(disk) /\ retries \in Nat /\ SaidFailed(log) \in Nat
      BY <1>1, SaidType DEF RecInv, Counted, TypeOK
    <3>2. SaidFailed(log) <= retries + 1
      BY <3>1 DEF MaySay
    <3>3. QED BY <3>2 DEF SaidFailed, FailedSaidOnce
  <2>4. RebootAlone
    BY <1>1 DEF RecInv, Places, IndInv, AttemptsRun, RebootAlone, Live, Running, AllDone
  <2>5. GivenItsRetries
    BY <2>1 DEF Sound, SoundAtt, GivenItsRetries
  <2>6. NothingLeftBehind
    <3>1. SUFFICES ASSUME pc = "over", cmd = "idle", NEW n \in Stages
                   PROVE  \/ disk.st[n] \in {"done", "failed"}
                          \/ disk.st[n] = "blocked" /\ \E d \in Needs[n] : d \in GaveUp(disk)
      BY DEF NothingLeftBehind
    <3>2. disk.st[n] \in StageState \ {"pending", "running"}
      BY <1>1, <3>1 DEF RecInv, Places, TypeOK, Record
    <3>3. CASE disk.st[n] = "blocked"
      <4>1. PICK d \in Needs[n] : disk.st[d] \in {"failed", "blocked"}
        BY <2>1, <3>3 DEF Sound, SoundSt
      <4>2. d \in Stages
        BY PlanAssumption
      <4>3. QED BY <3>3, <4>1, <4>2 DEF GaveUp
    <3>4. QED BY <3>2, <3>3 DEF StageState
  <2>7. RecordedFirst
    BY <1>1 DEF RecInv
  <2>8. QED
    BY <2>2, <2>3, <2>4, <2>5, <2>6, <2>7 DEF RecordIsTrue, SaysWhatIs, CutOffCostsNothing
<1>2. QED BY <1>1, RecordInductive, Inductive, TypeCorrect, PTL

\* What a `cg-build retry` asked for has run again, or was found blocked, by the
\* time the supervisor stops: nothing that is asked for is lost to a crash.
THEOREM RetriesAnswered == ASSUME Patient, RebootLast PROVE Spec => []RetryAnswered
<1>1. TypeOK /\ RecInv => RetryAnswered
  BY DEF RecInv, Places, Asked, RetryAnswered, TypeOK
<1>2. QED BY <1>1, RecordInductive, TypeCorrect, PTL
-----------------------------------------------------------------------------
(* Each save moves the record on disk as BuildPlan allows, and nothing else  *)
(* touches it: the supervisor implements the plan.                           *)
PlanStatus(r) == [n \in Stages |-> Status(r.st[n])]

LEMMA PlanWith ==
  ASSUME disk \in Record
  PROVE  /\ Plan!With("done") = {n \in Stages : disk.st[n] = "done"}
         /\ Plan!With("running") = RunningIn(disk)
<1>1. \A n \in Stages : disk.st[n] \in StageState
  BY DEF Record
<1>2. \A n \in Stages : /\ Status(disk.st[n]) = "done" <=> disk.st[n] = "done"
                        /\ Status(disk.st[n]) = "running" <=> disk.st[n] = "running"
  BY <1>1 DEF Status, StageState
<1>3. QED BY <1>2 DEF Plan!With, RunningIn

\* The instance's Cardinality is ours.
LEMMA PlanCounts == \A S : Plan!Cardinality(S) = Cardinality(S)
BY DEF Plan!Cardinality, Cardinality

\* One save, as a step of the plan.
LEMMA SavePlans ==
  ASSUME TypeOK, TypeOK', PlanStep(disk, disk')
  PROVE  [Plan!PlanNext]_(Plan!planVars)
<1> DEFINE old == PlanStatus(disk)
           new == PlanStatus(disk')
<1>1. /\ disk \in Record /\ disk' \in Record
      /\ \A n \in Stages : disk.st[n] \in StageState /\ disk'.st[n] \in StageState
      /\ \A n \in Stages : old[n] = Status(disk.st[n]) /\ new[n] = Status(disk'.st[n])
  BY DEF TypeOK, Record, PlanStatus
<1>2. CASE Same(disk, disk')
  <2>1. new = old
    BY <1>2 DEF Same, PlanStatus
  <2>2. QED BY <1>2, <2>1 DEF Same, Plan!planVars, PlanStatus
<1>3. CASE PutsBack(disk, disk')
  <2>1. \A n \in Stages : new[n] = IF old[n] = "running" THEN "waiting" ELSE old[n]
    BY <1>1, <1>3 DEF PutsBack, Status, StageState
  <2>2. new = [n \in Stages |-> IF old[n] = "running" THEN "waiting" ELSE old[n]]
    BY <2>1 DEF PlanStatus
  <2>3. Plan!PutBack
    BY <1>3, <2>2 DEF Plan!PutBack, PutsBack, PlanStatus
  <2>4. QED BY <2>3 DEF Plan!PlanNext
<1>4. CASE Settles(disk, disk')
  <2>1. PICK n \in Stages, to \in {"done", "failed", "pending"} : Moves(disk, disk', n, "running", to)
    BY <1>4 DEF Settles
  <2>2. new = [old EXCEPT ![n] = Status(to)] /\ old[n] = "running"
    BY <1>1, <2>1 DEF Moves, Status, PlanStatus
  <2>3. Plan!Settle(n, Status(to)) /\ Status(to) \in {"done", "failed", "waiting"}
    BY <2>1, <2>2 DEF Plan!Settle, Moves, PlanStatus, Status
  <2>4. QED BY <2>3 DEF Plan!PlanNext
<1>5. CASE Begins(disk, disk')
  <2>1. PICK n \in Stages : /\ Moves(disk, disk', n, "pending", "running")
                            /\ \A d \in Needs[n] : disk.st[d] = "done"
                            /\ \A k \in RunningIn(disk) : LockOf[k] \cap LockOf[n] = {}
                            /\ Cardinality(RunningIn(disk)) < MaxParallel
    BY <1>5 DEF Begins
  <2>2. new = [old EXCEPT ![n] = "running"] /\ old[n] = "waiting"
    BY <1>1, <2>1 DEF Moves, Status, PlanStatus
  <2>3. Needs[n] \subseteq Plan!With("done")
    <3>1. \A d \in Needs[n] : d \in Stages
      BY PlanAssumption
    <3>2. QED BY <1>1, <2>1, <3>1, PlanWith
  <2>4. Plan!Begin(n)
    <3>1. Plan!With("running") = RunningIn(disk)
      BY <1>1, PlanWith
    <3>2. /\ \A m \in Plan!With("running") : LockOf[m] \cap LockOf[n] = {}
          /\ Cardinality(Plan!With("running")) < MaxParallel
      BY <2>1, <3>1
    <3>3. disk'.complete = disk.complete
      BY <2>1 DEF Moves
    <3>4. QED BY <2>2, <2>3, <3>2, <3>3, PlanCounts DEF Plan!Begin, PlanStatus
  <2>5. QED BY <2>4 DEF Plan!PlanNext
<1>6. CASE Concludes(disk, disk')
  <2>1. Plan!With("done") = Stages
    BY <1>1, <1>6, PlanWith DEF Concludes, AllDone
  <2>2. new = old
    BY <1>6 DEF Concludes, PlanStatus
  <2>3. Plan!Conclude
    BY <1>6, <2>1, <2>2 DEF Plan!Conclude, Concludes, PlanStatus
  <2>4. QED BY <2>3 DEF Plan!PlanNext
<1>7. QED BY <1>2, <1>3, <1>4, <1>5, <1>6 DEF PlanStep

\* The command's own save, which it makes when nothing is recorded as running.
LEMMA RetryPlans ==
  ASSUME TypeOK, TypeOK', RecInv, RetrySave
  PROVE  Plan!Redo
<1>1. /\ disk \in Record /\ disk' = Reset(disk)
      /\ \A n \in Stages : disk.st[n] \in StageState /\ disk.st[n] # "running"
  BY DEF RetrySave, RecInv, Places, TypeOK, Record
<1>2. /\ \A n \in Stages : disk'.st[n] = IF disk.st[n] \in {"failed", "blocked"} THEN "pending" ELSE disk.st[n]
      /\ disk'.complete = disk.complete
  BY <1>1, ResetIs
<1>3. Plan!With("running") = {}
  BY <1>1, PlanWith DEF RunningIn
<1>4. PlanStatus(disk') = [n \in Stages |-> IF PlanStatus(disk)[n] = "failed" THEN "waiting" ELSE PlanStatus(disk)[n]]
  BY <1>1, <1>2 DEF PlanStatus, Status, StageState
<1>5. QED BY <1>2, <1>3, <1>4 DEF Plan!Redo, PlanStatus

LEMMA PlanFollowed ==
  ASSUME TypeOK, TypeOK', RecInv, [Next]_vars
  PROVE  [Plan!PlanNext]_(Plan!planVars)
<1> USE DEF cmdVars, histVars, superVars
<1>1. CASE UNCHANGED disk
  BY <1>1 DEF Plan!planVars
<1>2. CASE Perform
  <2>1. CASE Head(todo).do = "save"
    <3>1. disk' = mem /\ PlanStep(disk, mem)
      BY <1>2, <2>1 DEF Perform, RecInv, Saved, Saving
    <3>2. QED BY <3>1, SavePlans
  <2>2. CASE Head(todo).do # "save"
    BY <1>1, <1>2, <2>2 DEF Perform
  <2>3. QED BY <2>1, <2>2
<1>3. CASE RetrySave
  BY <1>3, RetryPlans DEF Plan!PlanNext
<1>4. CASE Startup \/ Exit \/ Drained \/ Blocked \/ PassOver \/ RebootRefused
  BY <1>1, <1>4 DEF Startup, Exit, Drained, Blocked, PassOver, RebootRefused, Move
<1>5. CASE Reboot \/ ProcessCrash \/ BoxCrash \/ RetryRestart
  BY <1>1, <1>5 DEF Reboot, ProcessCrash, BoxCrash, RetryRestart, BootBox
<1>6. ASSUME NEW n \in Stages, \/ FinishDone(n) \/ FinishRetry(n) \/ FinishFailed(n)
                               \/ AttemptOK(n) \/ AttemptFails(n) \/ CoolOff(n)
      PROVE  UNCHANGED disk
  BY <1>6 DEF FinishDone, FinishRetry, FinishFailed, Finish, AttemptOK, AttemptFails, CoolOff
<1>7. ASSUME NEW i \in 1..Len(Order), Block(i) \/ Start(i)
      PROVE  UNCHANGED disk
  BY <1>7 DEF Block, Start, StartStep
<1>8. CASE ConcludeFirst \/ EndDone \/ EndFailed
  <2>1. UNCHANGED disk
    BY <1>8 DEF ConcludeFirst, EndDone, EndFailed, Conclude, Verdict
  <2>2. QED BY <1>1, <2>1
<1>9. CASE RetryAll \/ RetryNamed
  <2>1. UNCHANGED disk
    BY <1>9 DEF RetryAll, RetryNamed, RetryRead
  <2>2. QED BY <1>1, <2>1
<1>10. CASE UNCHANGED vars
  BY <1>1, <1>10 DEF vars
<1>11. QED
  BY <1>1, <1>2, <1>3, <1>4, <1>5, <1>6, <1>7, <1>8, <1>9, <1>10 DEF Next, Supervise, RetryCommand

\* state.json is a record of a plan being carried out, through every crash,
\* restart and retry: the supervisor implements BuildPlan.
THEOREM SupervisorFollowsPlan == ASSUME Patient, RebootLast PROVE Spec => FollowsThePlan
<1>1. Init => Plan!PlanInit
  BY DEF Init, Unstarted, Plan!PlanInit, Status
<1>2. TypeOK /\ TypeOK' /\ RecInv /\ [Next]_vars => [Plan!PlanNext]_(Plan!planVars)
  BY PlanFollowed
<1>3. QED
  BY <1>1, <1>2, RecordInductive, TypeCorrect, PTL DEF Spec, FollowsThePlan, Plan!PlanSpec
-----------------------------------------------------------------------------
(* The sweeps for loops (BoxPlan), over any plan.                             *)

\* A set of stages in which is whatever can start after them.
Closed(plan, S) == \A s \in Range(plan) : s.needs \subseteq S => s.name \in S

\* The stages that come to run: the least such set.
WillRun(plan, L) ==
  L \subseteq NamesOf(plan) /\ Closed(plan, L) /\ \A S \in SUBSET NamesOf(plan) : Closed(plan, S) => L \subseteq S

\* One round of a sweep finds at least what can start after d, and nothing that cannot.
Round(plan, d, e) ==
  /\ d \subseteq e /\ e \subseteq NamesOf(plan)
  /\ \A s \in Range(plan) : s.needs \subseteq d => s.name \in e
  /\ \A S \in SUBSET NamesOf(plan) : d \subseteq S /\ Closed(plan, S) => e \subseteq S

Plans(plan) ==
  Len(plan) \in Nat /\ DOMAIN plan = 1..Len(plan)

LEMMA NamesAre ==
  ASSUME NEW plan, Plans(plan)
  PROVE  /\ IsFiniteSet(NamesOf(plan)) /\ Cardinality(NamesOf(plan)) <= Len(plan)
         /\ Range(plan) = { plan[i] : i \in 1..Len(plan) }
         /\ NamesOf(plan) = { s.name : s \in Range(plan) }
<1>1. IsFiniteSet(1..Len(plan)) /\ Cardinality(1..Len(plan)) = Len(plan)
  BY CountTo DEF Plans
<1>. DEFINE names == [i \in 1..Len(plan) |-> plan[i].name]
<1>2. names \in Surjection(1..Len(plan), NamesOf(plan))
  BY DEF Surjection, NamesOf
<1>. HIDE DEF names
<1>3. IsFiniteSet(NamesOf(plan)) /\ Cardinality(NamesOf(plan)) <= Len(plan)
  BY <1>1, <1>2, FS_Surjection
<1>. QED BY <1>3 DEF Plans, Range, NamesOf

LEMMA RoundsReach ==
  ASSUME NEW plan, Plans(plan), NEW after, after[0] = {},
         \A k \in 1..Len(plan) : after[k - 1] \subseteq NamesOf(plan) => Round(plan, after[k - 1], after[k])
  PROVE  WillRun(plan, after[Len(plan)])
<1>. DEFINE N == Len(plan)
            Names == NamesOf(plan)
            Far(k) == /\ after[k] \subseteq Names
                      /\ \A S \in SUBSET Names : Closed(plan, S) => after[k] \subseteq S
                      /\ Closed(plan, after[k]) \/ Cardinality(after[k]) >= k
            Good == { k \in 0..N : Far(k) }
<1>0. N \in Nat /\ IsFiniteSet(Names) /\ Cardinality(Names) <= N /\ Cardinality(Names) \in Nat
  BY NamesAre, FS_CardinalityType DEF Plans
<1>1. 0 \in Good
  <2>1. Cardinality({}) = 0
    BY FS_EmptySet
  <2>2. Far(0)
    BY <2>1
  <2>. HIDE DEF Far
  <2>. QED BY <1>0, <2>2
<1>2. ASSUME NEW k \in 1..N, k - 1 \in Good PROVE k \in Good
  <2>. DEFINE d == after[k - 1]
              e == after[k]
  <2>1. Far(k - 1) /\ k - 1 \in Nat
    BY <1>2
  <2>2. Round(plan, d, e)
    BY <2>1
  <2>3. d \subseteq e /\ e \subseteq Names /\ IsFiniteSet(d) /\ IsFiniteSet(e)
    BY <1>0, <2>1, <2>2, FS_Subset DEF Round
  <2>4. \A S \in SUBSET Names : Closed(plan, S) => e \subseteq S
    BY <2>1, <2>2 DEF Round
  <2>5. CASE Closed(plan, d)
    <3>1. e = d
      BY <2>1, <2>3, <2>4, <2>5
    <3>. QED BY <2>3, <2>4, <2>5, <3>1
  <2>6. CASE ~Closed(plan, d)
    <3>1. PICK s \in Range(plan) : s.needs \subseteq d /\ s.name \notin d
      BY <2>6 DEF Closed
    <3>2. d \cup {s.name} \subseteq e
      BY <2>2, <3>1 DEF Round
    <3>3. Cardinality(d) >= k - 1 /\ Cardinality(d) \in Nat /\ Cardinality(e) \in Nat
      BY <2>1, <2>3, <2>6, FS_CardinalityType
    <3>4. Cardinality(d \cup {s.name}) = Cardinality(d) + 1
      <4>. DEFINE n == s.name
      <4>1. IsFiniteSet(d) /\ n \notin d
        BY <2>3, <3>1
      <4>. HIDE DEF d, n
      <4>2. Cardinality(d \cup {n}) = Cardinality(d) + 1
        BY <4>1, FS_AddElement
      <4>. QED BY <4>2 DEF n
    <3>5. Cardinality(d \cup {s.name}) <= Cardinality(e)
      BY <2>3, <3>2, FS_Subset
    <3>6. Cardinality(e) >= k
      BY <3>3, <3>4, <3>5
    <3>. QED BY <2>3, <2>4, <3>6
  <2>. QED BY <2>5, <2>6
<1>. HIDE DEF Good
<1>3. \A k \in 0..N : k \in Good
  BY <1>0, <1>1, <1>2, ByNumbers
<1>4. Far(N)
  BY <1>0, <1>3 DEF Good
<1>5. Closed(plan, after[N])
  <2>. SUFFICES ASSUME Cardinality(after[N]) >= N PROVE Closed(plan, after[N])
    BY <1>4
  <2>1. Cardinality(after[N]) <= Cardinality(Names) /\ Cardinality(after[N]) \in Nat
    BY <1>0, <1>4, FS_Subset, FS_CardinalityType
  <2>2. Cardinality(Names) = Cardinality(after[N])
    BY <1>0, <2>1
  <2>3. after[N] = Names
    BY <1>0, <1>4, <2>2, FS_Subset
  <2>. QED BY <2>3, NamesAre DEF Closed
<1>. QED BY <1>4, <1>5 DEF WillRun

\* What ValidatePlan finds in a pass, and load_plan in a round.
LEMMA PassIsRound ==
  ASSUME NEW plan, Plans(plan), NEW done \in SUBSET NamesOf(plan)
  PROVE  Round(plan, done, OnePass(plan, done))
<1>. DEFINE N == Len(plan)
            Names == NamesOf(plan)
            goes(i, d) == IF plan[i].needs \subseteq d THEN d \cup {plan[i].name} ELSE d
            step == [k \in 1..N |-> [d \in SUBSET Names |-> goes(k, d)]]
            Upto(u) == u = [i \in 0..N |-> IF i = 0 THEN done ELSE goes(i, u[i - 1])]
<1>0. N \in Nat
  BY DEF Plans
<1>1. \E u : Upto(u)
  <2>1. done \in SUBSET Names /\ step \in [1..N -> [SUBSET Names -> SUBSET Names]]
    <3>1. \A k \in 1..N : plan[k].name \in Names
      BY DEF NamesOf
    <3>. QED BY <3>1
  <2>. HIDE DEF step
  <2>a. \A k \in 1..N : \A d \in SUBSET Names : step[k][d] = goes(k, d)
    BY DEF step
  <2>. DEFINE D == SUBSET Names
  <2>b. \E it \in [0..N -> D] : it[0] = done /\ \A k \in 1..N : it[k] = step[k][it[k - 1]]
    <3>1. RunsIn(N, D, done, step)
      BY <2>1 DEF RunsIn
    <3>2. \E it : IsRun(N, D, done, step, it)
      <4>. HIDE DEF D, N
      <4>. QED BY <1>0, <3>1, RunsStay
    <3>. QED BY <3>2 DEF IsRun
  <2>2. PICK it \in [0..N -> SUBSET Names] : it[0] = done /\ \A k \in 1..N : it[k] = step[k][it[k - 1]]
    BY <2>b
  <2>3. \A k \in 1..N : it[k] = goes(k, it[k - 1])
    <3>. SUFFICES ASSUME NEW k \in 1..N PROVE it[k] = goes(k, it[k - 1])
      OBVIOUS
    <3>1. it[k - 1] \in SUBSET Names /\ it[k] = step[k][it[k - 1]]
      BY <1>0, <2>2
    <3>. HIDE DEF goes
    <3>. QED BY <2>a, <3>1
  <2>4. \A k \in 0..N : it[k] = IF k = 0 THEN done ELSE goes(k, it[k - 1])
    <3>. SUFFICES ASSUME NEW k \in 0..N PROVE it[k] = IF k = 0 THEN done ELSE goes(k, it[k - 1])
      OBVIOUS
    <3>1. k = 0 \/ k \in 1..N
      BY <1>0
    <3>. HIDE DEF goes
    <3>. QED BY <2>2, <2>3, <3>1
  <2>5. it = [k \in 0..N |-> it[k]]
    BY <2>2
  <2>6. Upto(it)
    <3>. HIDE DEF goes
    <3>. QED BY <2>4, <2>5, SMTT(30)
  <2>. QED BY <2>6
<1>. DEFINE upto == CHOOSE u : Upto(u)
<1>2. Upto(upto)
  BY <1>1
<1>3. OnePass(plan, done) = upto[N]
  BY DEF OnePass
<1>. HIDE DEF upto
<1>4. upto[0] = done /\ \A i \in 1..N : upto[i] = goes(i, upto[i - 1])
  <2>1. \A i \in 0..N : upto[i] = IF i = 0 THEN done ELSE goes(i, upto[i - 1])
    BY <1>2
  <2>2. 0 \in 0..N /\ \A i \in 1..N : i \in 0..N /\ i # 0
    BY <1>0
  <2>. HIDE DEF goes
  <2>. QED BY <2>1, <2>2
<1>. DEFINE Far(k) == /\ done \subseteq upto[k] /\ upto[k] \subseteq Names
                      /\ \A i \in 1..k : plan[i].needs \subseteq done => plan[i].name \in upto[k]
                      /\ \A S \in SUBSET Names : done \subseteq S /\ Closed(plan, S) => upto[k] \subseteq S
            Good == { k \in 0..N : Far(k) }
<1>5. 0 \in Good
  BY <1>0, <1>4
<1>6. ASSUME NEW k \in 1..N, k - 1 \in Good PROVE k \in Good
  <2>1. Far(k - 1) /\ upto[k] = goes(k, upto[k - 1])
    BY <1>4, <1>6
  <2>2. plan[k] \in Range(plan) /\ plan[k].name \in Names
    BY NamesAre, ZenonT(40) DEF NamesOf
  <2>3. upto[k - 1] \subseteq upto[k] /\ done \subseteq upto[k] /\ upto[k] \subseteq Names
    BY <2>1, <2>2
  <2>4. ASSUME NEW i \in 1..k, plan[i].needs \subseteq done PROVE plan[i].name \in upto[k]
    <3>1. CASE i = k
      BY <2>1, <2>4, <3>1
    <3>2. CASE i # k
      <4>1. i \in 1..(k - 1)
        BY <3>2
      <4>. QED BY <2>1, <2>3, <2>4, <4>1
    <3>. QED BY <3>1, <3>2
  <2>5. ASSUME NEW S \in SUBSET Names, done \subseteq S, Closed(plan, S) PROVE upto[k] \subseteq S
    <3>1. upto[k - 1] \subseteq S
      BY <2>1, <2>5
    <3>2. plan[k].needs \subseteq S => plan[k].name \in S
      BY <2>2, <2>5 DEF Closed
    <3>. QED BY <2>1, <3>1, <3>2
  <2>. QED BY <2>3, <2>4, <2>5
<1>. HIDE DEF Good
<1>7. \A k \in 0..N : k \in Good
  BY <1>0, <1>5, <1>6, ByNumbers
<1>8. Far(N)
  BY <1>0, <1>7 DEF Good
<1>. QED BY <1>3, <1>8, NamesAre DEF Round
\* As long as rounds are made of rounds, a sweep of as many as there are stages finds
\* all that can come to run.
LEMMA SweepFinds ==
  ASSUME NEW plan, Plans(plan), NEW round \in [SUBSET NamesOf(plan) -> SUBSET NamesOf(plan)],
         \A d \in SUBSET NamesOf(plan) : Round(plan, d, round[d])
  PROVE  /\ \E u \in [0..Len(plan) -> SUBSET NamesOf(plan)] :
              u[0] = {} /\ \A k \in 1..Len(plan) : u[k] = round[u[k - 1]]
         /\ \A u : u[0] = {} /\ (\A k \in 1..Len(plan) : u[k - 1] \subseteq NamesOf(plan) => u[k] = round[u[k - 1]])
                => WillRun(plan, u[Len(plan)])
<1>. DEFINE N == Len(plan)
            Names == NamesOf(plan)
            step == [k \in 1..N |-> round]
<1>1. N \in Nat /\ {} \in SUBSET Names /\ step \in [1..N -> [SUBSET Names -> SUBSET Names]]
  BY DEF Plans
<1>2. \A k \in 1..N : \A d \in SUBSET Names : step[k][d] = round[d]
  OBVIOUS
<1>. HIDE DEF step
<1>. DEFINE D == SUBSET Names
<1>a. \E u \in [0..N -> D] : u[0] = {} /\ \A k \in 1..N : u[k] = step[k][u[k - 1]]
  <2>1. RunsIn(N, D, {}, step)
    BY <1>1 DEF RunsIn
  <2>2. \E u : IsRun(N, D, {}, step, u)
    <3>. HIDE DEF D, N
    <3>. QED BY <1>1, <2>1, RunsStay
  <2>. QED BY <2>2 DEF IsRun
<1>3. PICK u \in [0..N -> SUBSET Names] : u[0] = {} /\ \A k \in 1..N : u[k] = step[k][u[k - 1]]
  BY <1>a
<1>4. \A k \in 1..N : u[k] = round[u[k - 1]]
  <2>1. \A k \in 1..N : u[k - 1] \in SUBSET Names
    BY <1>1, <1>3
  <2>. QED BY <1>2, <1>3, <2>1
<1>5. ASSUME NEW v, v[0] = {}, \A k \in 1..N : v[k - 1] \subseteq Names => v[k] = round[v[k - 1]]
      PROVE  WillRun(plan, v[N])
  <2>1. \A k \in 1..N : v[k - 1] \subseteq Names => Round(plan, v[k - 1], v[k])
    BY <1>5
  <2>. QED BY <1>5, <2>1, RoundsReach
<1>. QED BY <1>3, <1>4, <1>5

LEMMA LaptopFinds ==
  ASSUME NEW plan, Plans(plan) PROVE WillRun(plan, LaptopSweep(plan))
<1>. DEFINE N == Len(plan)
            Names == NamesOf(plan)
            next(d) == IF d = Names THEN d ELSE OnePass(plan, d)
            round == [d \in SUBSET Names |-> next(d)]
            After(u) == u = [k \in 0..N |-> IF k = 0 THEN {} ELSE next(u[k - 1])]
<1>0. N \in Nat
  BY DEF Plans
<1>1. ASSUME NEW d \in SUBSET Names PROVE Round(plan, d, next(d)) /\ next(d) \in SUBSET Names
  <2>1. CASE d = Names
    BY <2>1, NamesAre DEF Round
  <2>2. CASE d # Names
    BY <2>2, PassIsRound DEF Round
  <2>. QED BY <2>1, <2>2
<1>. HIDE DEF next
<1>2. round \in [SUBSET Names -> SUBSET Names] /\ \A d \in SUBSET Names : round[d] = next(d) /\ Round(plan, d, round[d])
  BY <1>1
<1>. HIDE DEF round
<1>3. PICK u \in [0..N -> SUBSET Names] : u[0] = {} /\ \A k \in 1..N : u[k] = round[u[k - 1]]
  BY <1>2, SweepFinds
<1>4. After(u)
  <2>1. \A k \in 0..N : u[k] = IF k = 0 THEN {} ELSE next(u[k - 1])
    <3>1. \A k \in 0..N : k # 0 => k \in 1..N /\ k - 1 \in 0..N
      BY <1>0
    <3>. QED BY <1>2, <1>3, <3>1
  <2>2. u = [k \in 0..N |-> u[k]]
    BY <1>3
  <2>. QED BY <2>1, <2>2
<1>. DEFINE after == CHOOSE v : After(v)
<1>5. After(after)
  BY <1>4
<1>6. LaptopSweep(plan) = after[N]
  BY DEF LaptopSweep, next
<1>. HIDE DEF after
<1>7. after[0] = {} /\ \A k \in 1..N : after[k - 1] \subseteq Names => after[k] = round[after[k - 1]]
  <2>1. 0 \in 0..N /\ \A k \in 1..N : k \in 0..N /\ k # 0
    BY <1>0
  <2>. QED BY <1>2, <1>5, <2>1
<1>8. WillRun(plan, after[N])
  BY <1>2, <1>7, SweepFinds
<1>. QED BY <1>6, <1>8

LEMMA BoxFinds ==
  ASSUME NEW plan, Plans(plan) PROVE WillRun(plan, BoxSweep(plan))
<1>. DEFINE N == Len(plan)
            Names == NamesOf(plan)
            next(d) == d \cup { s.name : s \in { t \in Range(plan) : t.needs \subseteq d } }
            round == [d \in SUBSET Names |-> next(d)]
            After(u) == u = [k \in 0..N |-> IF k = 0 THEN {} ELSE next(u[k - 1])]
<1>0. N \in Nat
  BY DEF Plans
<1>1. ASSUME NEW d \in SUBSET Names PROVE Round(plan, d, next(d)) /\ next(d) \in SUBSET Names
  BY NamesAre DEF Round, Closed
<1>. HIDE DEF next
<1>2. round \in [SUBSET Names -> SUBSET Names] /\ \A d \in SUBSET Names : round[d] = next(d) /\ Round(plan, d, round[d])
  BY <1>1
<1>. HIDE DEF round
<1>3. PICK u \in [0..N -> SUBSET Names] : u[0] = {} /\ \A k \in 1..N : u[k] = round[u[k - 1]]
  BY <1>2, SweepFinds
<1>4. After(u)
  <2>1. \A k \in 0..N : u[k] = IF k = 0 THEN {} ELSE next(u[k - 1])
    <3>1. \A k \in 0..N : k # 0 => k \in 1..N /\ k - 1 \in 0..N
      BY <1>0
    <3>. QED BY <1>2, <1>3, <3>1
  <2>2. u = [k \in 0..N |-> u[k]]
    BY <1>3
  <2>. QED BY <2>1, <2>2
<1>. DEFINE after == CHOOSE v : After(v)
<1>5. After(after)
  BY <1>4
<1>6. BoxSweep(plan) = after[N]
  BY DEF BoxSweep, next
<1>. HIDE DEF after
<1>7. after[0] = {} /\ \A k \in 1..N : after[k - 1] \subseteq Names => after[k] = round[after[k - 1]]
  <2>1. 0 \in 0..N /\ \A k \in 1..N : k \in 0..N /\ k # 0
    BY <1>0
  <2>. QED BY <1>2, <1>5, <2>1
<1>8. WillRun(plan, after[N])
  BY <1>2, <1>7, SweepFinds
<1>. QED BY <1>6, <1>8

\* The laptop, before a box is paid for, and the box, before it runs a stage, accept the
\* same plans: those without a loop, which is what NoLoops assumes of the plan
\* (stages.go ValidatePlan, cg-build load_plan).  Whatever the stages and their order.
THEOREM LoopsAreFound ==
  ASSUME NEW Recs, NEW plan \in Seq(Recs)
  PROVE  /\ LaptopSweep(plan) = BoxSweep(plan)
         /\ LaptopSweep(plan) = NamesOf(plan) <=> LoopFree(plan)
<1>1. Plans(plan)
  BY DEF Plans
<1>2. WillRun(plan, LaptopSweep(plan)) /\ WillRun(plan, BoxSweep(plan))
  BY <1>1, LaptopFinds, BoxFinds
<1>3. LaptopSweep(plan) = BoxSweep(plan)
  BY <1>2 DEF WillRun
<1>4. LoopFree(plan) <=> \A S \in SUBSET NamesOf(plan) : Closed(plan, S) => S = NamesOf(plan)
  BY DEF LoopFree, Closed
<1>. QED BY <1>2, <1>3, <1>4 DEF WillRun
=============================================================================
