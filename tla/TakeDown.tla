------------------------------ MODULE TakeDown ------------------------------
(* `cg destroy`, with --force, --no-push and --all, and `cg stop`, which is  *)
(* a destroy on a spot machine.                                              *)
EXTENDS BringUp

(* Deps.Push: it needs the machine over ssh.  Games it could not save do not *)
(* make it fail; --force goes on after one that failed.                      *)
Pushes(b, next) ==
  \/ /\ Reachable(b)
     /\ \/ Saves /\ box' = [box EXCEPT ![b].games = IF @ = "new" THEN "saved" ELSE @]
        \/ SavesNotAll /\ UNCHANGED box
     /\ Goes(next)
  \/ /\ IF Reachable(b) THEN CanFail /\ Failed ELSE UNCHANGED trouble
     /\ IF cmd.mode = "force" THEN Goes(next) ELSE Ends
     /\ UNCHANGED box

-----------------------------------------------------------------------------
(* DestroyBox: --no-push takes the role's write access away first, and does  *)
(* not start without that; --all does not push; a plain destroy looks at the *)
(* machine .env names, and one that cannot be read counts as running.        *)
DestroyLocks ==
  /\ At("mode") /\ cmd.mode = "no-push"
  /\ policy' = IF policy = "none" THEN "none" ELSE "ro"
  /\ asked'  = asked \cup (Boxes \ Was({"none", "terminated"}))
  /\ Goes("plans")
  /\ UNCHANGED <<box, nodes, env, guards, image, disk, trouble>>

DestroyLooks ==
  /\ At("mode") /\ cmd.mode # "no-push"
  /\ \/ /\ Goes(IF cmd.mode # "all" /\ env.id # 0 /\ St(env.id) = "running"
                THEN "pushes" ELSE "plans")
        /\ UNCHANGED trouble
     \/ cmd.mode # "all" /\ env.id # 0 /\ CanFail /\ Failed /\ Goes("pushes")
  /\ UNCHANGED <<box, nodes, env, policy, guards, image, disk, asked>>

DestroyPushes ==
  /\ At("pushes")
  /\ Pushes(env.id, "plans")
  /\ UNCHANGED <<nodes, env, policy, guards, image, disk, asked>>

(* destroy.Read: what there is now, by cg's own tag: machines, images, disks *)
(* attached to nothing.                                                      *)
DestroyPlans ==
  /\ At("plans")
  /\ cmd' = [cmd EXCEPT
       !.step   = "cancels",
       !.boxes  = Existing,
       !.things = {t \in {"image", "disk"} :
                     \/ t = "image" /\ image = "whole"
                     \/ t = "disk" /\ disk.st = "free"}]
  /\ UNCHANGED account

(* Remover.Run, the spot requests: a machine whose request cannot be found   *)
(* or cancelled is not ended.                                                *)
DestroyCancels ==
  /\ At("cancels")
  /\ \E kept \in SUBSET cmd.boxes :
       /\ Cardinality(kept) <= 1
       /\ IF kept = {} THEN UNCHANGED trouble ELSE CanFail /\ Failed
       /\ box' = [b \in Boxes |-> [box[b] EXCEPT
                    !.req = @ /\ b \notin cmd.boxes \ kept]]
       /\ cmd' = [cmd EXCEPT !.step = "terminates", !.boxes = @ \ kept,
                             !.bad = kept # {}, !.left = kept # {}]
  /\ UNCHANGED <<nodes, env, policy, guards, image, disk, asked>>

(* TerminateInstances, one call for all of them.                             *)
DestroyTerminates ==
  /\ At("terminates")
  /\ \/ /\ box' = [b \in Boxes |->
                     IF b \in cmd.boxes /\ St(b) # "terminated"
                     THEN [box[b] EXCEPT !.st = "shutting-down"] ELSE box[b]]
        /\ Goes("waits")
        /\ UNCHANGED trouble
     \/ /\ cmd.boxes # {} /\ CanFail /\ Failed
        /\ cmd' = [cmd EXCEPT !.step = "cleans", !.bad = TRUE, !.left = TRUE]
        /\ UNCHANGED box
  /\ UNCHANGED <<nodes, env, policy, guards, image, disk, asked>>

(* Waited for until it is gone; a plain destroy is content, after 45 seconds,*)
(* with one that is shutting down.                                           *)
DestroyWaits ==
  /\ At("waits")
  /\ \/ /\ \A b \in cmd.boxes :
              St(b) \in {"terminated"} \cup
                        (IF cmd.mode \in {"plain", "force"}
                         THEN {"shutting-down"} ELSE {})
        /\ Goes("images") /\ UNCHANGED trouble
     \/ /\ CanFail /\ Failed
        /\ \E b \in cmd.boxes : St(b) # "terminated"
        /\ cmd' = [cmd EXCEPT !.step = "images", !.bad = TRUE, !.left = TRUE]
  /\ UNCHANGED <<box, nodes, env, policy, guards, image, disk, asked>>

(* The plan's images, their snapshots after them, and its disks.             *)
DestroyClears ==
  /\ At("images")
  /\ \E refused \in {"nothing", "image", "snapshots", "disk"} :
       LET went == "image" \in cmd.things /\ refused # "image" IN
       /\ \/ refused = "nothing" /\ UNCHANGED trouble
          \/ /\ (IF refused = "snapshots" THEN "image" ELSE refused) \in cmd.things
             /\ CanFail /\ Failed
       /\ image' = IF ~went THEN image
                   ELSE IF refused = "snapshots" THEN "snapshots" ELSE "none"
       /\ disk'  = IF "disk" \in cmd.things \ {refused} /\ disk.st = "free"
                   THEN NoDisk ELSE disk
       /\ cmd'   = [cmd EXCEPT !.step = "cleans", !.bad = @ \/ refused # "nothing"]
  /\ UNCHANGED <<box, nodes, env, policy, guards, asked>>

(* What belonged to the machines is taken out of .env once they are gone;    *)
(* --no-push gives the role its access back, if nothing at all failed; --all *)
(* takes the budget and the tailnet's nodes whatever happened.               *)
DestroyForgets_always ==
  /\ At("cleans")
  /\ env' = [id |-> 0, node |-> 0]
  /\ IF cmd.mode = "all"
     THEN /\ \/ guards' = guards \ {"budget"} /\ UNCHANGED trouble
             \/ CanFail /\ Failed /\ UNCHANGED guards
          /\ nodes' = {}
          /\ IF cmd.left THEN Ends ELSE Goes("empties")
          /\ UNCHANGED <<policy, asked>>
     ELSE /\ Ends
          /\ UNCHANGED <<nodes, guards>>
          /\ IF cmd.mode = "no-push" /\ ~cmd.bad
             THEN \/ /\ policy' = IF policy = "none" THEN "none" ELSE "rw"
                     /\ asked' = asked \ Existing
                     /\ UNCHANGED trouble
                  \/ CanFail /\ Failed /\ UNCHANGED <<policy, asked>>
             ELSE UNCHANGED <<policy, trouble, asked>>
  /\ UNCHANGED <<box, image, disk>>

DestroyForgets ==
  /\ At("cleans")
  /\ env' = IF cmd.left THEN env ELSE [id |-> 0, node |-> 0]
  /\ IF cmd.mode = "all"
     THEN /\ \/ guards' = guards \ {"budget"} /\ UNCHANGED trouble
             \/ CanFail /\ Failed /\ UNCHANGED guards
          /\ nodes' = {}
          /\ IF cmd.left THEN Ends ELSE Goes("empties")
          /\ UNCHANGED <<policy, asked>>
     ELSE /\ Ends
          /\ UNCHANGED <<nodes, guards>>
          /\ IF cmd.mode = "no-push" /\ ~cmd.bad
             THEN \/ /\ policy' = IF policy = "none" THEN "none" ELSE "rw"
                     /\ asked' = asked \ Existing
                     /\ UNCHANGED trouble
                  \/ CanFail /\ Failed /\ UNCHANGED <<policy, asked>>
             ELSE UNCHANGED <<policy, trouble, asked>>
  /\ UNCHANGED <<box, image, disk>>

(* destroyEverything's irreversible part: the archive and its bucket, the    *)
(* role, the watchdog, and cg's images, snapshots and disks everywhere.      *)
DestroyEmpties ==
  /\ At("empties")
  /\ \E kept \in SUBSET {"bucket", "role", "watchdog", "image", "disk"} :
       /\ Cardinality(kept) <= 1
       /\ IF kept = {} THEN UNCHANGED trouble ELSE CanFail /\ Failed
       /\ guards' = guards \cap kept
       /\ policy' = IF "role" \in kept THEN policy ELSE "none"
       /\ image'  = IF "image" \in kept THEN image ELSE "none"
       /\ disk'   = IF disk.st = "free" /\ "disk" \notin kept THEN NoDisk
                                                            ELSE disk
  /\ asked' = asked \cup (Boxes \ Was({"none", "terminated"}))
  /\ Ends
  /\ UNCHANGED <<box, nodes, env>>

(* The role cannot be locked, or AWS does not say what there is.             *)
DestroyFails ==
  /\ At(cmd.step)
  /\ \/ cmd.step = "mode" /\ cmd.mode = "no-push"
     \/ cmd.step = "plans"
  /\ CanFail /\ Failed
  /\ Ends
  /\ UNCHANGED <<box, nodes, env, policy, guards, image, disk, asked>>

-----------------------------------------------------------------------------
(* Stop: on spot there is nothing to stop, and it becomes a destroy; else    *)
(* the games are pushed first.                                               *)
StopLooks ==
  LET kind == IF env.id = 0 THEN "on demand" ELSE box[env.id].kind IN
  /\ At("halts")
  /\ \/ /\ kind # "on demand"
        /\ cmd' = [cmd EXCEPT !.step = "mode", !.mode = "plain"]
        /\ UNCHANGED <<box, trouble>>
     \/ /\ kind = "on demand" /\ St(env.id) = "stopped"
        /\ Ends
        /\ UNCHANGED <<box, trouble>>
     \/ /\ kind = "on demand" /\ St(env.id) # "stopped"
        /\ Pushes(env.id, "halted")
  /\ UNCHANGED <<nodes, env, policy, guards, image, disk, asked>>

(* StopInstances: AWS refuses it for a machine that is going already.        *)
StopHalts ==
  /\ At("halted")
  /\ Ends
  /\ IF env.id # 0 /\ St(env.id) = "running"
     THEN Becomes(env.id, "stopping") ELSE UNCHANGED box
  /\ UNCHANGED <<nodes, env, policy, guards, image, disk, trouble, asked>>

TakeDownSteps ==
  \/ DestroyLocks \/ DestroyLooks \/ DestroyPushes \/ DestroyPlans
  \/ DestroyCancels \/ DestroyTerminates \/ DestroyWaits
  \/ DestroyClears \/ DestroyForgets \/ DestroyEmpties \/ DestroyFails
  \/ StopLooks \/ StopHalts
=============================================================================
