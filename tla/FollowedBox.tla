----------------------------- MODULE FollowedBox ------------------------------
(* An AWS box that is being built and the laptop that follows it (cg init).  *)
(* The user-data script (lib/bootstrap.d/00-header.sh and                    *)
(* lib/supervised) joins the tailnet and starts cg-build; cg-build keeps the *)
(* record.  BuildSupervisor has what a record may say and when; here it is   *)
(* only notes, a failed check, a stage's failure, and the two verdicts.      *)
(*                                                                           *)
(* cg-build also goes on writing the old log, for a reader that does not     *)
(* know the record: a stage's own markers and failed checks, a retry, the    *)
(* reboot, the end.  An event and its line are one step here.                *)
EXTENDS Follower

CONSTANTS MaxEvents, MaxLines, MaxRetries, MaxCrashes

VARIABLES
  retries, crashes,
  copies      \* history: the line <<i>> of the log and the event <<j>> of the
              \* record that say the same, as <<i, j>>

boxVars == <<retries, crashes, copies>>
allVars == <<vars, boxVars>>

Init ==
  /\ build = "prelude" /\ up = TRUE /\ installed = FALSE
  /\ events = <<>> /\ lines = <<>> /\ rc = "none" /\ ready = FALSE
  /\ retries = 0 /\ crashes = 0 /\ copies = {}
  /\ FollowerInit

(* The user-data script says a line, one of which may be a failure; it ends  *)
(* with its status in the result file.                                       *)
PreludeSays(kind) ==
  /\ build = "prelude" /\ up /\ Len(lines) < MaxLines
  /\ lines' = Append(lines, kind)
  /\ build' = IF kind = "FAILED" THEN "dying" ELSE "prelude"
  /\ UNCHANGED <<up, installed, events, rc, ready, followVars, boxVars>>

PreludeFails ==
  /\ build \in {"prelude", "dying"} /\ up
  /\ rc' = "1" /\ build' = "failed"
  /\ UNCHANGED <<up, installed, events, lines, ready, followVars, boxVars>>

InstallSupervisor ==
  /\ build = "prelude" /\ up /\ ~installed
  /\ installed' = TRUE
  /\ UNCHANGED <<build, up, events, lines, rc, ready, followVars, boxVars>>

StartSupervisor ==
  /\ build = "prelude" /\ up /\ installed
  /\ build' = "stages" /\ rc' = "0"
  /\ events' = Append(events, "note")
  /\ UNCHANGED <<up, installed, lines, ready, followVars, boxVars>>

(* The supervisor's record: what only the record has,                        *)
Emit(kind) ==
  /\ build = "stages" /\ up /\ Len(events) < MaxEvents
  /\ events' = Append(events, kind)
  /\ UNCHANGED <<build, up, installed, lines, rc, ready, followVars, boxVars>>

(* and what is said in both: a new line, and the events it says again.       *)
Mirrored(event, line, again) ==
  /\ events' = Append(events, event)
  /\ lines' = Append(lines, line)
  /\ copies' = copies \cup { <<Len(lines) + 1, i>> : i \in again }

(* A stage's marker, or a check of its that failed; a retry.                 *)
EmitBoth(event, line) ==
  /\ build = "stages" /\ up /\ Len(events) < MaxEvents /\ Len(lines) < MaxLines
  /\ Mirrored(event, line, {Len(events) + 1})
  /\ UNCHANGED <<build, up, installed, rc, ready, followVars, retries, crashes>>

(* The stages that failed since the build last ended: their lines are one    *)
(* here.                                                                     *)
Unreported ==
  { i \in 1..Len(events) : events[i] = "fail" /\ \A j \in i..Len(events) : events[j] # "failed" }

StagesFail ==
  /\ build = "stages" /\ up
  /\ Unreported # {}
  /\ Mirrored("failed", "FAILED", Unreported)
  /\ rc' = "1" /\ build' = "failed"
  /\ UNCHANGED <<up, installed, ready, followVars, retries, crashes>>

StagesDone ==
  /\ build = "stages" /\ up
  /\ Mirrored("complete", "complete", {Len(events) + 1})
  /\ rc' = "0" /\ build' = "rebooting"
  /\ UNCHANGED <<up, installed, ready, followVars, retries, crashes>>

GoDown ==
  /\ build = "rebooting" /\ up
  /\ up' = FALSE
  /\ Mirrored("note", "note", {Len(events) + 1})
  /\ UNCHANGED <<build, installed, rc, ready, followVars, retries, crashes>>

Crash ==
  /\ "crash" \in Faults /\ crashes < MaxCrashes
  /\ build \in {"stages", "failed"} /\ installed /\ up
  /\ up' = FALSE /\ crashes' = crashes + 1
  /\ UNCHANGED <<build, installed, events, lines, rc, ready, followVars, retries, copies>>

(* It is up again: the supervisor, where it was ever started, starts and     *)
(* says so; a failed build stays as it is, its failure already said.         *)
Boot ==
  /\ ~up
  /\ up' = TRUE
  /\ events' = IF events = <<>> THEN events ELSE Append(events, "note")
  /\ build' = IF build = "rebooting" THEN "settled" ELSE build
  /\ UNCHANGED <<installed, lines, rc, ready, followVars, boxVars>>

DesktopUp ==
  /\ build = "settled" /\ up /\ ~ready
  /\ ready' = TRUE
  /\ UNCHANGED <<build, up, installed, events, lines, rc, followVars, boxVars>>

(* `cg-build retry`, typed on the box by a person. *)
Retry ==
  /\ build = "failed" /\ up /\ installed /\ Len(events) > 0
  /\ retries < MaxRetries /\ retries' = retries + 1
  /\ build' = "stages"
  /\ events' = Append(events, "note")
  /\ UNCHANGED <<up, installed, lines, rc, ready, followVars, crashes, copies>>

Machine ==
  \/ \E kind \in {"note", "FAILED"} : PreludeSays(kind)
  \/ PreludeFails \/ InstallSupervisor \/ StartSupervisor
  \/ \E kind \in {"note", "fail"} : Emit(kind)
  \/ EmitBoth("note", "note") \/ EmitBoth("check", "FAILED")
  \/ StagesFail \/ StagesDone \/ GoDown \/ Crash \/ Boot \/ DesktopUp \/ Retry

(* `cg init`, or `cg init` again: a re-run finds the same instance. *)
CgInit ==
  /\ pc \in {"off", "over"}
  /\ Begin
  /\ clear' = Over
  /\ UNCHANGED <<machineVars, boxVars>>

Next ==
  \/ Machine
  \/ CgInit
  \/ (Follow \/ Closed) /\ UNCHANGED boxVars

TypeOK ==
  /\ FollowerTypeOK
  /\ seen <= Len(lines)
  /\ retries \in 0..MaxRetries /\ crashes \in 0..MaxCrashes
  /\ copies \subseteq (1..Len(lines)) \X (1..Len(events))

\* What was shown as a line of the log and again as an event was written between
\* the two questions of one poll: after the record was found empty, and before
\* the log was read.
TwiceOnlyAsItStarts ==
  \A c \in copies : c[1] <= seen /\ c[2] <= evSeq => c[1] > asked_at

\* On a box where nobody has typed `cg-build retry`, a person is told that the
\* build stopped only when it has, whatever crashed, dropped or was closed.
FirstStopIsOver ==
  retries = 0 /\ result' = "stopped" /\ result # "stopped" => build \in {"failed", "dying"}
=============================================================================
