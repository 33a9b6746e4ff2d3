----------------------------- MODULE FollowedHost -----------------------------
(* A machine of yours that `cg host setup` builds (internal/commands/        *)
(* hostcmd/setup.go): the whole build is one detached script, which writes   *)
(* the ready marker at its end (99-finish.sh) and its status in the result   *)
(* file as it exits (00-header.sh).  Setup may be run again.                 *)
EXTENDS Follower

CONSTANTS
  MaxLines,     \* bound: the lines a script says
  SetupBusy     \* may setup be run again while its build is still running?

VARIABLES
  older         \* a script of an earlier setup beside this one's: none, still
                \* running, or one that ended since this one was started

allVars == <<vars, older>>

Init ==
  /\ build = "unlaunched" /\ up = TRUE /\ installed = FALSE
  /\ events = <<>> /\ lines = <<>> /\ rc = "none" /\ ready = FALSE
  /\ older = "none"
  /\ FollowerInit

(* The last run's marker, result and log go first; then the script is        *)
(* started, detached, and followed.                                          *)
\* Faulty variants, used to see the properties fail.
Fresh_markerKept == UNCHANGED ready /\ rc' = "none" /\ lines' = <<>>

Fresh == ready' = FALSE /\ rc' = "none" /\ lines' = <<>>

Alive == build \in {"prelude", "dying"}

Setup ==
  /\ pc \in {"off", "over"} /\ up
  /\ SetupBusy \/ ~(Alive \/ older = "running")
  /\ build # "finishing"
  /\ Fresh
  /\ older' = IF Alive \/ older = "running" THEN "running" ELSE "none"
  /\ build' = "prelude"
  /\ Begin
  /\ clear' = FALSE
  /\ UNCHANGED <<up, installed, events>>

(* The script goes on; a failure it says ends it. *)
Says(kind) ==
  /\ build = "prelude" /\ up /\ Len(lines) < MaxLines
  /\ lines' = Append(lines, kind)
  /\ build' = IF kind = "FAILED" THEN "dying" ELSE "prelude"
  /\ UNCHANGED <<up, installed, events, rc, ready, followVars, older>>

Fails ==
  /\ Alive /\ up
  /\ rc' = "1" /\ build' = "failed"
  /\ UNCHANGED <<up, installed, events, lines, ready, followVars, older>>

Done ==
  /\ build = "prelude" /\ up
  /\ ready' = TRUE /\ build' = "finishing"
  /\ lines' = Append(lines, "complete")
  /\ UNCHANGED <<up, installed, events, rc, followVars, older>>

Exits ==
  /\ build = "finishing" /\ up
  /\ rc' = "0" /\ build' = "settled"
  /\ UNCHANGED <<up, installed, events, lines, ready, followVars, older>>

(* An earlier script ends as it would have; its log is no longer the one     *)
(* that is read.                                                             *)
OlderEnds(status) ==
  /\ older = "running" /\ up
  /\ older' = "ended"
  /\ rc' = status
  /\ ready' = (ready \/ status = "0")
  /\ UNCHANGED <<build, up, installed, events, lines, followVars>>

(* The machine goes down under its script, which then says nothing.          *)
Crash ==
  /\ "crash" \in Faults /\ up
  /\ up' = FALSE
  /\ older' = IF older = "running" THEN "ended" ELSE older
  /\ build' = CASE Alive                -> "cut"
              [] build = "finishing" -> "settled"
              [] OTHER               -> build
  /\ UNCHANGED <<installed, events, lines, rc, ready, followVars>>

Boot ==
  /\ ~up /\ up' = TRUE
  /\ UNCHANGED <<build, installed, events, lines, rc, ready, followVars, older>>

Machine ==
  \/ \E kind \in {"note", "FAILED"} : Says(kind)
  \/ Fails \/ Done \/ Exits
  \/ \E status \in {"0", "1"} : OlderEnds(status)
  \/ Crash \/ Boot

Next ==
  \/ Machine
  \/ Setup
  \/ (Follow \/ Closed) /\ UNCHANGED older

TypeOK ==
  /\ FollowerTypeOK
  /\ seen <= Len(lines)
  /\ older \in {"none", "running", "ended"}

\* With no other script beside it, the verdict a person is told is that of the
\* build they started, not of the last one on that machine: stopped when it can
\* no longer finish, complete when it has.
VerdictIsThisBuilds ==
  older = "none" /\ result' # result =>
    /\ result' = "stopped"  => build \in {"failed", "dying", "cut"}
    /\ result' = "complete" => build \in {"finishing", "settled"}
=============================================================================
