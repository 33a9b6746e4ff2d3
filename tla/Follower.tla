------------------------------- MODULE Follower -------------------------------
(***************************************************************************)
(* internal/build/follow.go: the laptop's view of a build that runs on     *)
(* another machine.  Every ten seconds it asks over ssh for what is new in *)
(* the supervisor's numbered record (cg-build events), or in the build's   *)
(* log where there is no record, then for the ready marker, then, reading  *)
(* the log, for how the build ended.  Each question is a step of its own:  *)
(* the machine moves in between, and each may go unanswered.               *)
(*                                                                         *)
(* The machine's half is FollowedBox (an AWS box) or FollowedHost (a       *)
(* machine of yours), which extend this module; Followed is either.        *)
(***************************************************************************)
EXTENDS Integers, Sequences

CONSTANTS
  MaxPolls,     \* the 40 minutes of the wait, in polls of ten seconds
  StateEvery,   \* how many polls there are in a minute
  Clouds,       \* what cloud-init may say there while the build runs
  Faults,       \* what may go wrong: "drop" (a question goes unanswered),
                \* "host_key" (ssh refuses the machine), "crash" (it goes down)
  MaxFollows    \* bound: how many times the follower is started

ASSUME FollowerAssumption ==
  /\ MaxPolls \in Nat \ {0} /\ StateEvery \in Nat \ {0} /\ MaxFollows \in Nat
  /\ Clouds \subseteq {"running", "done", "error"} /\ Clouds # {}
  /\ Faults \subseteq {"drop", "host_key", "crash"}

VARIABLES
  (* the machine *)
  supervised, \* is the build run by cg-build there?  an AWS box's is; it stays so
  build,      \* how the build really stands; the follower never sees it
  up,         \* does the machine answer ssh?
  installed,  \* is cg-build there?
  events,     \* its record: the number of an event is its place here
  lines,      \* the build's log
  rc,         \* the result file: none, "0" or "1"
  ready,      \* the ready marker
  (* the follower *)
  pc,         \* the question it asks next
  via,        \* where this poll's news came from
  evSeq,      \* the last event read
  seen,       \* the lines of the log read
  evOnly,     \* has the record had anything in it?
  failedSeen, \* has a failure been shown?
  waited,     \* polls done
  result,     \* what it told its caller
  told,       \* history: what was shown in this run, in order
  asked_at,   \* history: how long the log was when the record was last asked
              \* for and there was nothing in it
  clear,      \* history: was the build over, and answered for, all this poll?
  late,       \* history: such polls in a row that ended with no verdict
  follows     \* bound

machineVars == <<build, up, installed, events, lines, rc, ready>>
readVars    == <<evSeq, seen, evOnly, failedSeen, told>>
followVars  == <<pc, via, readVars, asked_at, waited, result, clear, late, follows>>
vars == <<machineVars, followVars>>

Build  == {"unlaunched", "prelude", "dying", "stages", "rebooting", "finishing",
           "settled", "failed", "cut"}
EventKind == {"note", "check", "fail", "complete", "failed"}
LineKind  == {"note", "FAILED", "complete"}

FollowerInit ==
  /\ pc = "off" /\ via = "none"
  /\ evSeq = 0 /\ seen = 0 /\ evOnly = FALSE /\ failedSeen = FALSE /\ told = <<>>
  /\ asked_at = 0 /\ waited = 0 /\ result = "none" /\ clear = FALSE /\ late = 0 /\ follows = 0

-----------------------------------------------------------------------------
(* The build is over: it failed and said so, or the desktop is up. *)
Over == build = "failed" \/ ready

\* What is not shown yet of a sequence of which n elements were.
News(s, n) == SubSeq(s, n + 1, Len(s))
Has(s, kind) == \E i \in 1..Len(s) : s[i] = kind
Failing(batch) == Has(batch, "fail") \/ Has(batch, "check")
Shown(where, from, upto) == [i \in 1..(upto - from) |-> <<where, from + i>>]

Answered == up
Unanswered == ~up \/ "drop" \in Faults

(* A run of the follower begins: cg init, or cg host setup. *)
Begin ==
  /\ follows < MaxFollows
  /\ pc' = "record" /\ via' = "none"
  /\ evSeq' = 0 /\ seen' = 0 /\ evOnly' = FALSE /\ failedSeen' = FALSE /\ told' = <<>>
  /\ asked_at' = 0 /\ waited' = 0 /\ result' = "none" /\ late' = 0
  /\ follows' = follows + 1

(* The laptop is closed, or the app ended: the run is gone. *)
Closed ==
  /\ pc \notin {"off", "over"}
  /\ pc' = "off"
  /\ UNCHANGED <<machineVars, via, readVars, asked_at, waited, result, clear, late, follows>>

Stop(verdict) ==
  /\ pc' = "over" /\ result' = verdict
  /\ UNCHANGED <<machineVars, asked_at, waited, clear, late, follows>>

Ask(question, from, answered) ==
  /\ pc' = question /\ via' = from
  /\ clear' = (clear /\ answered)
  /\ asked_at' = IF question = "log" THEN Len(lines) ELSE asked_at
  /\ UNCHANGED <<machineVars, waited, result, late, follows>>

(* A poll has nothing more to ask. *)
PollEnds(answered) ==
  /\ waited' = waited + 1
  /\ late' = IF clear /\ answered THEN late + 1 ELSE 0
  /\ pc' = IF waited + 1 = MaxPolls THEN "over" ELSE "record"
  /\ result' = IF waited + 1 = MaxPolls THEN "timeout" ELSE "none"
  /\ clear' = Over
  /\ UNCHANGED <<machineVars, via, readVars, asked_at, follows>>

-----------------------------------------------------------------------------
(* Question 1: what is new in the record?  "command not found" sends it to  *)
(* the log; so does a record with nothing in it yet.                        *)

\* Faulty variants, used to see the properties fail.
ReadEvents_forgets(batch) ==
  /\ told' = told \o Shown("ev", evSeq, Len(events))
  /\ evSeq' = Len(events)
  /\ failedSeen' = (failedSeen \/ Failing(batch))
  /\ UNCHANGED <<seen, evOnly>>
ReadEvents(batch) ==
  /\ told' = told \o Shown("ev", evSeq, Len(events))
  /\ evSeq' = Len(events)
  /\ evOnly' = (evOnly \/ batch # <<>>)
  /\ failedSeen' = (failedSeen \/ Failing(batch))
  /\ UNCHANGED seen

AskRecord ==
  /\ pc = "record" /\ supervised /\ Answered /\ installed
  /\ LET batch == News(events, evSeq) IN
     \/ /\ batch = <<>> /\ ~evOnly
        /\ Ask("log", "events", TRUE) /\ UNCHANGED readVars
     \/ /\ batch # <<>> \/ evOnly
        /\ ReadEvents(batch)
        /\ IF Has(batch, "failed") THEN Stop("stopped") /\ UNCHANGED via
                                   ELSE Ask("ready", "events", TRUE)

NoRecord ==
  /\ pc = "record"
  /\ ~supervised \/ (Answered /\ ~installed)
  /\ Ask("log", "log", TRUE) /\ UNCHANGED readVars

RecordUnanswered ==
  /\ pc = "record" /\ supervised /\ Unanswered
  /\ PollEnds(FALSE)

(* ssh refuses the machine: its key is not the one this laptop knows. *)
HostKeyChanged ==
  /\ "host_key" \in Faults /\ up
  /\ \/ pc = "record" /\ supervised
     \/ pc = "log" /\ via = "log"
  /\ Stop("refused") /\ UNCHANGED <<via, readVars>>

(* Question 2: what is new in the log? *)

ReadLog(batch) ==
  /\ told' = told \o Shown("log", seen, Len(lines))
  /\ seen' = Len(lines)
  /\ failedSeen' = (failedSeen \/ Has(batch, "FAILED"))
  /\ UNCHANGED <<evSeq, evOnly>>

AskLog ==
  /\ pc = "log" /\ Answered
  /\ ReadLog(News(lines, seen))
  /\ Ask("ready", "log", TRUE)

LogUnanswered ==
  /\ pc = "log" /\ Unanswered
  /\ IF via = "log" THEN PollEnds(FALSE)
                    ELSE Ask("ready", "events", FALSE) /\ UNCHANGED readVars

(* Question 3: is the ready marker there? *)

AskReady ==
  /\ pc = "ready" /\ Answered /\ ready
  /\ Stop("complete") /\ UNCHANGED <<via, readVars>>

NotReady(answered) ==
  /\ pc = "ready"
  /\ IF answered THEN Answered /\ ~ready ELSE Unanswered
  /\ IF via = "log" /\ (failedSeen \/ waited % StateEvery = 0)
     THEN Ask("state", via, answered) /\ UNCHANGED readVars
     ELSE PollEnds(answered)

(* Question 4, of the log's reader only: how did the build end?  The result *)
(* file's word, or cloud-init's where there is none.                        *)

Aborted_failedOnly(ci) == failedSeen /\ (rc = "1" \/ (rc = "none" /\ ci = "error"))
Aborted(ci) ==
  \/ rc = "1"
  \/ rc = "none" /\ failedSeen /\ ci = "error" /\ ~Has(lines, "complete")

AskState ==
  /\ pc = "state" /\ Answered
  /\ \E ci \in Clouds :
       IF Aborted(ci) THEN Stop("stopped") /\ UNCHANGED <<via, readVars>>
                      ELSE PollEnds(TRUE)

StateUnanswered ==
  /\ pc = "state" /\ Unanswered
  /\ PollEnds(FALSE)

Follow ==
  \/ AskRecord \/ NoRecord \/ RecordUnanswered \/ HostKeyChanged
  \/ AskLog \/ LogUnanswered
  \/ AskReady \/ (\E answered \in BOOLEAN : NotReady(answered))
  \/ AskState \/ StateUnanswered

-----------------------------------------------------------------------------
FollowerTypeOK ==
  /\ build \in Build /\ up \in BOOLEAN /\ installed \in BOOLEAN
  /\ events \in Seq(EventKind) /\ lines \in Seq(LineKind)
  /\ rc \in {"none", "0", "1"} /\ ready \in BOOLEAN
  /\ pc \in {"off", "record", "log", "ready", "state", "over"}
  /\ via \in {"none", "events", "log"}
  /\ evSeq \in 0..Len(events) /\ seen \in Nat /\ asked_at \in Nat
  /\ evOnly \in BOOLEAN /\ failedSeen \in BOOLEAN
  /\ waited \in 0..MaxPolls
  /\ result \in {"none", "complete", "stopped", "refused", "timeout"}
  /\ clear \in BOOLEAN /\ late \in Nat /\ follows \in 0..MaxFollows

\* What one run has shown is the first `seen` lines of the log and then the first
\* evSeq events of the record, each once and in order.
ShownInTurn == told = Shown("log", 0, seen) \o Shown("ev", 0, evSeq)

\* A person is told that the build stopped only when it is over: nothing is
\* running there that could still finish it.
StoppedIsOver ==
  [][result' = "stopped" /\ result # "stopped" => build \in {"failed", "dying", "cut"}]_vars

\* A build that is over is said to be so within a minute of polls that all got
\* through, and not at the end of the 40-minute wait.
SaidWithinAMinute == late <= StateEvery
=============================================================================
