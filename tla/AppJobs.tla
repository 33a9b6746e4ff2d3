------------------------------- MODULE AppJobs -------------------------------
(* The desktop app: its window asks for runs of `cg`, its main process starts *)
(* them - those that change something alone (main/index.js, main/runner.js)   *)
(* - and the window shows what they answer (renderer/app.js).  Requests,      *)
(* replies and ends travel in order between the two; the runs themselves end  *)
(* in any order.                                                             *)
EXTENDS Naturals, Sequences, FiniteSets

CONSTANTS
  CgAnswers, \* `cg --contract` can be read
  Env,       \* what .env may hold at first: 0 shuts the gate, 1 does not
  Given,     \* bound: commands a person gives
  Fails,     \* bound: runs that fail
  Calls      \* bound: 1..n, the runs that are asked for or go on at one time

ASSUME CallsAssumption == Calls \subseteq Nat /\ 1 \in Calls

Alone  == {"destroy", "open", "disk"}   \* contract.go, RunsAlone
Beside == {"disk"}                      \* index.js, BESIDE_SESSION
Reads  == {"config", "machines"}        \* a read of the gate, and one behind it
Kinds  == Alone \cup Reads \cup {"set"} \* "set": `cg config set`

VARIABLES
  ask,       \* the window's runs: kind, where it is, what follows
  parked,    \* its reads that were turned away, to ask again (jobEnded)
  toMain,    \* requests on their way
  toWin,     \* replies and ends on their way
  jobs,      \* the main process's runs, and which of them only read
  proc,      \* what is left of each: "starts", "ends", "over"
  world,     \* .env: what blocks is set right from 1 on
  saw,       \* what a read found there
  shown,     \* what the window shows of it; Unread: nothing yet
  gateShut,  \* the reads behind the gate were skipped
  behind,    \* (ghost) they have been asked for in this window
  bounds       \* what the bounds have left

window == <<ask, parked, shown, gateShut, behind>>
outside == <<proc, world, saw>>
appVars == <<window, toMain, toWin, jobs, outside, bounds>>

Unread == Given + 2
NoAsk  == [kind |-> "none", st |-> "none", then |-> "nothing"]

AppTypeOK ==
  /\ ask \in [Calls -> [kind : Kinds \cup {"none"},
                        st : {"none", "sent", "parked", "runs"},
                        then : {"nothing", "refreshAll"}]]
  /\ parked \in Seq(Calls) /\ toMain \in Seq(Calls)
  /\ {parked[i] : i \in DOMAIN parked} = {c \in Calls : ask[c].st = "parked"}
  /\ toWin \in Seq([what : {"started", "busy", "exit"}, call : Calls, ok : BOOLEAN])
  /\ jobs \subseteq [call : Calls, readOnly : BOOLEAN]
  /\ proc \in [Calls -> {"none", "starts", "ends", "cut", "over"}]
  /\ world \in 0..Given + 1 /\ shown \in 0..Unread
  /\ saw \in [Calls -> 0..Unread]
  /\ gateShut \in BOOLEAN /\ behind \in BOOLEAN
  /\ bounds \in [given : 0..Given, fails : 0..Fails]

-----------------------------------------------------------------------------
(* The window asks for a list of runs at once (runCg), as many as there is    *)
(* Room for.  A run takes a number that is free, the lowest first, and gives  *)
(* it back when its end has been heard.                                      *)
Free == {c \in Calls : ask[c].st = "none"}
Place(c) == Cardinality({d \in Free : d < c}) + 1
FreeOne(i) == CHOOSE c \in Free : Place(c) = i
Room(list) == \A i \in 1..Len(list) : \E c \in Free : Place(c) = i
Numbers(list) == [i \in 1..Len(list) |-> FreeOne(i)]

Sent(what) == [kind |-> what[1], st |-> "sent", then |-> what[2]]

Asked(list, was) ==
  [c \in Calls |->
     IF \E i \in 1..Len(list) : FreeOne(i) = c
     THEN Sent(list[CHOOSE i \in 1..Len(list) : FreeOne(i) = c])
     ELSE was[c]]

Blocks(s) == s = 0                          \* gateBlocked
RefreshAll == <<<<"config", "refreshAll">>>>
BehindGate == <<<<"machines", "nothing">>>>

AppInit ==
  /\ ask = [c \in Calls |-> IF c = 1
              THEN Sent(<<"config", "refreshAll">>) ELSE NoAsk]
  /\ toMain = <<1>> /\ toWin = <<>> /\ parked = <<>>
  /\ jobs = {}
  /\ proc = [c \in Calls |-> "none"]
  /\ world \in Env /\ saw = [c \in Calls |-> Unread]
  /\ shown = Unread /\ gateShut = FALSE /\ behind = FALSE
  /\ bounds = [given |-> Given, fails |-> Fails]

Gives(k) ==
  /\ bounds.given > 0 /\ Room(<<k>>)
  /\ bounds' = [bounds EXCEPT !.given = @ - 1]
  /\ ask' = Asked(<<<<k, "nothing">>>>, ask)
  /\ toMain' = toMain \o Numbers(<<k>>)
  /\ UNCHANGED <<parked, shown, gateShut, behind, toWin, jobs, outside>>

(* Without cg's contract every command is taken for a write (runsAlone).      *)
ReadOnly(k) == CgAnswers /\ k \notin Alone

(* retryReads: the reads under way are interrupted, and all of them asked     *)
(* again.                                                                    *)
RetryReads ==
  /\ bounds.given > 0 /\ Room(RefreshAll)
  /\ bounds' = [bounds EXCEPT !.given = @ - 1]
  /\ proc' = [c \in Calls |->
               IF ask[c].st = "runs" /\ ReadOnly(ask[c].kind)
                  /\ proc[c] \in {"starts", "ends"} THEN "cut" ELSE proc[c]]
  /\ ask' = Asked(RefreshAll, ask)
  /\ toMain' = toMain \o Numbers(RefreshAll)
  /\ gateShut' = FALSE
  /\ UNCHANGED <<parked, shown, behind, toWin, jobs, world, saw>>

-----------------------------------------------------------------------------
(* startJob.                                                                 *)
WaitsFor(c, j) == ~(ask[c].kind \in Beside /\ ask[j.call].kind = "open")

Blockers_bothWays(c) ==
  {j \in jobs : /\ ~(ask[c].kind = "open" /\ ask[j.call].kind \in Reads)
                /\ WaitsFor(c, j) /\ (ReadOnly(ask[c].kind) => ~j.readOnly)}

Blockers(c) ==
  {j \in jobs : WaitsFor(c, j) /\ (ReadOnly(ask[c].kind) => ~j.readOnly)}

StartJob ==
  /\ toMain # <<>>
  /\ toMain' = Tail(toMain)
  /\ LET c == Head(toMain) IN
     IF Blockers(c) # {}
     THEN /\ toWin' = Append(toWin, [what |-> "busy", call |-> c, ok |-> FALSE])
          /\ UNCHANGED <<jobs, proc>>
     ELSE /\ jobs' = jobs \cup {[call |-> c, readOnly |-> ReadOnly(ask[c].kind)]}
          /\ proc' = [proc EXCEPT ![c] = IF ask[c].kind \in {"config", "set"}
                                         THEN "starts" ELSE "ends"]
          /\ toWin' = Append(toWin, [what |-> "started", call |-> c, ok |-> TRUE])
  /\ UNCHANGED <<window, world, saw, bounds>>

(* run, settle: however a run ends - it could not be started, it exited, its  *)
(* pipes closed - the window is told once.  One that fails has changed        *)
(* nothing.                                                                  *)
Settles(c, ok) ==
  /\ \/ ok /\ proc[c] = "ends" /\ UNCHANGED bounds
     \/ ~ok /\ proc[c] = "cut" /\ UNCHANGED bounds
     \/ /\ ~ok /\ proc[c] = "starts" /\ bounds.fails > 0
        /\ bounds' = [bounds EXCEPT !.fails = @ - 1]
  /\ proc' = [proc EXCEPT ![c] = "over"]
  /\ jobs' = {j \in jobs : j.call # c}
  /\ toWin' = Append(toWin, [what |-> "exit", call |-> c, ok |-> ok])
  /\ UNCHANGED <<window, toMain, world, saw>>

(* cg itself: a save lands in .env, a read finds what is there then.          *)
TouchesEnv(c) ==
  /\ proc[c] = "starts"
  /\ proc' = [proc EXCEPT ![c] = "ends"]
  /\ IF ask[c].kind = "set" THEN world' = world + 1 /\ UNCHANGED saw
     ELSE saw' = [saw EXCEPT ![c] = world] /\ UNCHANGED world
  /\ UNCHANGED <<window, toMain, toWin, jobs, bounds>>

-----------------------------------------------------------------------------
(* runCg, the reply: a read that was turned away is asked again when a run    *)
(* ends, or said to have failed when none is there to wait for.               *)
Running(a) == {c \in Calls : a[c].st = "runs"}

Replied(c, what) ==
  /\ IF what = "started"
     THEN ask' = [ask EXCEPT ![c].st = "runs"] /\ UNCHANGED parked
     ELSE IF ask[c].kind \in Reads /\ Running(ask) # {}
     THEN ask' = [ask EXCEPT ![c].st = "parked"] /\ parked' = Append(parked, c)
     ELSE ask' = [ask EXCEPT ![c] = NoAsk] /\ UNCHANGED parked
  /\ UNCHANGED <<shown, gateShut, behind, toMain, proc, saw>>

(* The end of a run: what it found is painted, the reads turned away are asked*)
(* again, a gate read that cleared the last blocking stage opens the gate     *)
(* (gateMayOpen), a write is followed by refreshAll (afterWrite), a save by   *)
(* its own read (editSetting), and refreshAll goes on behind the gate or      *)
(* leaves it shut.                                                           *)
Paints(c, ok) ==
  shown' = IF ok /\ ask[c].kind = "config" THEN saw[c] ELSE shown

MayOpen(c) == gateShut /\ ask[c].kind = "config" /\ ~Blocks(shown')

AtOnce(c) == (IF MayOpen(c) THEN BehindGate ELSE <<>>)
             \o (IF ~ReadOnly(ask[c].kind) THEN RefreshAll ELSE <<>>)

Goes(c) == ask[c].then = "refreshAll"
Then(c, ok) ==
  (IF Goes(c) /\ ~Blocks(shown') THEN BehindGate ELSE <<>>)
  \o (IF ask[c].kind = "set" /\ ok THEN <<<<"config", "nothing">>>> ELSE <<>>)

AskedAgain_never == <<>>
AskedAgain == parked

Woken(a) == [c \in Calls |-> IF a[c].st = "parked" THEN [a[c] EXCEPT !.st = "sent"]
                                                 ELSE a[c]]

GivesBack(c, a) ==
  /\ ask' = [a EXCEPT ![c] = NoAsk]
  /\ proc' = [proc EXCEPT ![c] = "none"]
  /\ saw' = [saw EXCEPT ![c] = Unread]

Ended(c, ok) ==
  LET first == AtOnce(c)
      all   == first \o Then(c, ok)
      nums  == Numbers(all)
  IN /\ Paints(c, ok)
     /\ Room(all)
     /\ GivesBack(c, Asked(all, Woken(ask)))
     /\ toMain' = toMain \o SubSeq(nums, 1, Len(first)) \o AskedAgain
                         \o SubSeq(nums, Len(first) + 1, Len(nums))
     /\ parked' = <<>>
     /\ behind' = (behind \/ \E i \in DOMAIN all : all[i][1] = "machines")
     /\ gateShut' = IF Goes(c) THEN Blocks(shown')
                    ELSE gateShut /\ ~MayOpen(c) /\ ReadOnly(ask[c].kind)

WindowHears ==
  /\ toWin # <<>>
  /\ toWin' = Tail(toWin)
  /\ LET m == Head(toWin) IN
     IF m.what = "exit" THEN Ended(m.call, m.ok) ELSE Replied(m.call, m.what)
  /\ UNCHANGED <<jobs, world, bounds>>

AppNext ==
  \/ \E k \in Alone \cup {"config", "set"} : Gives(k)
  \/ StartJob
  \/ \E c \in Calls, ok \in BOOLEAN : Settles(c, ok)
  \/ \E c \in Calls : TouchesEnv(c)
  \/ RetryReads
  \/ WindowHears

AppSpec == AppInit /\ [][AppNext]_appVars

(* The app's two processes go on; a run of cg goes on and ends, a session too. *)
AppFairness ==
  /\ WF_appVars(StartJob) /\ WF_appVars(WindowHears)
  /\ \A c \in Calls : WF_appVars(TouchesEnv(c)) /\ WF_appVars(\E ok \in BOOLEAN : Settles(c, ok))

AppLiveSpec == AppSpec /\ AppFairness

-----------------------------------------------------------------------------
(* A run that changes something has no other beside it, but for room added    *)
(* during a session: a destroy never races a build (index.js, startJob).      *)
Alive(c) == proc[c] \in {"starts", "ends", "cut"}
Together(c, d) == Alive(c) /\ Alive(d) /\ c # d

AloneMeansAlone ==
  \A c, d \in Calls :
    Together(c, d) /\ ask[c].kind \in Alone
      => {ask[c].kind, ask[d].kind} = {"open", "disk"}

(* Every run asked for is answered, one that was turned away too, and the     *)
(* window comes to rest: no read stays at "checking" for ever (app.js, runCg) *)
(* - nor, when cg cannot be asked which commands run alone, does running      *)
(* everything alone do worse than be slow: "slow and correct rather than fast *)
(* and wrong" (index.js).                                                    *)
ComesToRest ==
  []<>(Free = Calls)

(* Once nothing blocks, as far as the window knows, the reads behind the gate*)
(* are asked for, from wherever the last fix came (app.js, gateShut).        *)
GateOpens ==
  shown \notin {0, Unread} ~> behind \/ Blocks(shown)

(* The window gets to where a person waits for it to: at rest, and past a gate*)
(* that no longer has a reason to be shut.                                   *)
WindowSettles == ComesToRest /\ GateOpens
==============================================================================
