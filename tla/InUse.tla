-------------------------------- MODULE InUse --------------------------------
(* What may go on beside another command: a session (`cg open`), and room    *)
(* added for games (`cg disk add`), which the app lets run beside a session. *)
EXTENDS TakeDown

VARIABLE session   \* `cg open`: where it is, and the machine it read in .env

sessions == <<account, cmd, given>>

NoSession == [step |-> "closed", box |-> 0]
(* Open: a machine that is gone cannot be started, nor one whose spot request*)
(* is not active; one that is stopping is waited for.                        *)
OpenBegins ==
  /\ session = NoSession /\ env.id # 0
  /\ LET s == St(env.id) IN
     /\ s \notin {"none", "shutting-down", "terminated"}
     /\ s # "running" /\ box[env.id].kind # "on demand" => box[env.id].req
     /\ session' = [step |-> IF s = "running" THEN "connects" ELSE "starts",
                    box  |-> env.id]
  /\ UNCHANGED sessions

OpenStarts ==
  /\ session.step = "starts" /\ St(session.box) \in {"stopped", "pending"}
  /\ Becomes(session.box, "pending")
  /\ session' = [session EXCEPT !.step = "connects"]
  /\ UNCHANGED <<nodes, env, policy, guards, image, disk, trouble, asked, cmd, given>>

OpenPlays ==
  /\ session.step = "connects" /\ Reachable(session.box)
  /\ session' = [session EXCEPT !.step = "plays"]
  /\ UNCHANGED sessions

(* AWS does not start it, it never answers, the player closes it, or a       *)
(* destroy does (sessionEndFirst).                                           *)
OpenEnds ==
  /\ session # NoSession
  /\ \/ session.step \in {"starts", "plays"}
     \/ session.step = "connects" /\ ~Reachable(session.box)
  /\ session' = NoSession
  /\ UNCHANGED sessions

SessionSteps == OpenBegins \/ OpenStarts \/ OpenPlays \/ OpenEnds

-----------------------------------------------------------------------------
(* AddDisk: a disk already added is made bigger, else one is made.           *)
DiskLooks ==
  /\ At("disks")
  /\ IF ~Reachable(env.id) THEN Ends /\ UNCHANGED disk
     ELSE IF disk.at = env.id THEN Goes("grows") /\ UNCHANGED disk
     ELSE /\ disk.st = "none"          \* bound: one added disk at a time
          /\ disk' = [st |-> "free", at |-> 0, goes |-> FALSE]
          /\ Goes("attaches")
  /\ UNCHANGED <<box, nodes, env, policy, guards, image, trouble, asked>>

(* addSecondDisk: a disk that cannot be attached is deleted again.           *)
DiskAttaches ==
  /\ At("attaches")
  /\ IF St(env.id) \in {"running", "stopped"}
     THEN /\ disk' = [disk EXCEPT !.st = "in-use", !.at = env.id]
          /\ Goes("marks")
     ELSE disk' = NoDisk /\ Ends
  /\ UNCHANGED <<box, nodes, env, policy, guards, image, trouble, asked>>

(* It is marked to go with the machine; a mark AWS refuses is only said.     *)
DiskMarks ==
  /\ At("marks")
  /\ IF disk.at # env.id THEN UNCHANGED <<disk, trouble>>
     ELSE \/ disk' = [disk EXCEPT !.goes = TRUE] /\ UNCHANGED trouble
          \/ CanFail /\ Failed /\ UNCHANGED disk
  /\ Goes("sets up")
  /\ UNCHANGED <<box, nodes, env, policy, guards, image, asked>>

DiskSetsUp ==
  /\ At("sets up")
  /\ Ends
  /\ IF disk.at = env.id /\ Reachable(env.id)
     THEN disk' = [disk EXCEPT !.st = "ready"] ELSE UNCHANGED disk
  /\ UNCHANGED <<box, nodes, env, policy, guards, image, trouble, asked>>

(* growDisk: paid for first, then taken up by the machine.                   *)
DiskGrows ==
  /\ At("grows")
  /\ Ends
  /\ UNCHANGED account

(* A call refused or a wait that ran out: the disk made is deleted again     *)
(* before it is attached, and stays once it is.                              *)
DiskFails ==
  /\ At(cmd.step)
  /\ cmd.step \in {"attaches", "marks", "sets up"}
  /\ CanFail /\ Failed
  /\ disk' \in (IF cmd.step = "attaches" THEN {NoDisk, disk} ELSE {disk})
  /\ Ends
  /\ UNCHANGED <<box, nodes, env, policy, guards, image, asked>>

DiskSteps ==
  DiskLooks \/ DiskAttaches \/ DiskMarks \/ DiskSetsUp \/ DiskGrows \/ DiskFails
=============================================================================
