------------------------------- MODULE BringUp -------------------------------
(* `cg init`: the guards first, then the archive's bucket and role, then one *)
(* machine - the one there is, or a new one - then its place on the tailnet. *)
(* One command runs at a time, which is the app's own rule (index.js,        *)
(* startJob); what it knows is `cmd`.                                        *)
EXTENDS Account

VARIABLES
  cmd,      \* the command that runs, and what it holds from earlier steps
  given     \* commands given so far

Commands == [step : {"idle",
                     "looks", "ensures", "launches", "records", "starts",
                     "finds", "builds",
                     "mode", "pushes", "plans", "cancels", "terminates",
                     "waits", "images", "cleans", "empties",
                     "halts", "halted",
                     "disks", "attaches", "marks", "sets up", "grows"},
             mode : {"plain", "force", "no-push", "all"},
             boxes : SUBSET Boxes, seen : SUBSET Boxes,
             things : SUBSET {"image", "disk"},
             reused : BOOLEAN, bad : BOOLEAN, left : BOOLEAN]

Idle == [step |-> "idle", mode |-> "plain", boxes |-> {}, seen |-> {},
         things |-> {}, reused |-> FALSE, bad |-> FALSE, left |-> FALSE]

Goes(s) == cmd' = [cmd EXCEPT !.step = s]
Ends    == cmd' = Idle
At(s)   == cmd.step = s /\ UNCHANGED given

Mine == CHOOSE b \in cmd.boxes : TRUE

-----------------------------------------------------------------------------
(* Run, first half: the watchdog and the budget, which no failure stops; the *)
(* keys of the nodes there are; and whether a machine is already there (an   *)
(* answer AWS does not give counts as none).                                 *)
InitLooks ==
  /\ At("looks")
  /\ \E armed \in SUBSET {"watchdog", "budget"}, answered \in BOOLEAN :
       /\ guards' = guards \cup armed
       /\ cmd' = [cmd EXCEPT !.step = "ensures", !.seen = nodes,
                             !.reused = answered /\ Existing # {}]
       /\ IF armed = {"watchdog", "budget"} /\ answered
          THEN UNCHANGED trouble ELSE CanFail /\ Failed
  /\ UNCHANGED <<box, nodes, env, policy, image, disk, asked>>

(* provision, first half: PruneStale, and Ensure of provision/library.go,    *)
(* which gives the role its write access back on every run.                  *)
InitEnsures_newRoleOnly ==
  /\ At("ensures")
  /\ nodes'  = nodes \cap Was({"running"})
  /\ guards' = guards \cup {"bucket"}
  /\ policy' = IF policy = "none" THEN "rw" ELSE policy
  /\ asked'  = asked \ Existing
  /\ Goes("launches")
  /\ UNCHANGED <<box, env, image, disk, trouble>>

InitEnsures ==
  /\ At("ensures")
  /\ \E pruned \in BOOLEAN :
       /\ nodes'  = IF pruned THEN nodes \cap Was({"running"}) ELSE nodes
       /\ IF pruned THEN UNCHANGED trouble ELSE CanFail /\ Failed
  /\ guards' = guards \cup {"bucket"}
  /\ policy' = "rw"
  /\ asked'  = asked \ Existing
  /\ Goes("launches")
  /\ UNCHANGED <<box, env, image, disk>>

(* Provisioner.Run: the machine that exists is the one used.                 *)
InitReuses ==
  /\ At("launches")
  /\ \E b \in Existing :
       cmd' = [cmd EXCEPT !.step = "records", !.boxes = {b}]
  /\ UNCHANGED account

(* launch: RunInstances, bought on demand or by a one-time spot request.     *)
InitLaunches ==
  /\ At("launches") /\ Existing = {}
  /\ \E b \in Boxes, k \in Kinds :
       /\ b = Cardinality(Boxes \ Was({"none"})) + 1
       /\ box' = [box EXCEPT ![b] = [st |-> "pending", kind |-> k,
                                     req |-> k = "spot", games |-> "saved"]]
       /\ cmd' = [cmd EXCEPT !.step = "records", !.boxes = {b}]
  /\ UNCHANGED <<nodes, env, policy, guards, image, disk, trouble, asked>>

(* The allowance is still held by a machine that is shutting down: waited    *)
(* for, six minutes at most.                                                 *)
InitHasNoAllowance ==
  /\ At("launches") /\ Existing = {} /\ Was({"shutting-down"}) # {}
  /\ Ends
  /\ UNCHANGED account

(* The machine's id is written to .env as soon as it is known; then what a   *)
(* shutdown does to it is checked.  A machine of a persistent request stops, *)
(* which is wrong for a spot machine.                                        *)
InitRecords ==
  /\ At("records")
  /\ env' = [env EXCEPT !.id = Mine]
  /\ IF box[Mine].kind = "old" THEN Ends ELSE Goes("starts")
  /\ UNCHANGED <<box, nodes, policy, guards, image, disk, trouble, asked>>

(* A machine that is stopped now is started; one in any other state is not.  *)
InitStarts ==
  /\ At("starts")
  /\ IF St(Mine) = "stopped" THEN Becomes(Mine, "pending") ELSE UNCHANGED box
  /\ Goes("finds")
  /\ UNCHANGED <<nodes, env, policy, guards, image, disk, trouble, asked>>

(* findNode: of a reused machine, the node .env names, or else one that      *)
(* answers, or else any of the host's; of a new one, the node whose key was  *)
(* not there before.                                                         *)
Found ==
  LET up == nodes \cap Was({"running"}) IN
  IF cmd.reused /\ nodes # {}
  THEN IF env.node \in nodes THEN {env.node} ELSE IF up # {} THEN up ELSE nodes
  ELSE IF env.node \in up THEN {env.node}
  ELSE nodes \ cmd.seen

InitFinds ==
  /\ At("finds")
  /\ \E n \in Found : env' = [env EXCEPT !.node = n]
  /\ Goes("builds")
  /\ UNCHANGED <<box, nodes, policy, guards, image, disk, trouble, asked>>

(* Half an hour goes by with no new node.                                    *)
InitFindsNone ==
  /\ At("finds") /\ Found = {}
  /\ St(Mine) \notin {"pending", "running"}
  /\ Ends
  /\ UNCHANGED account

(* finish: the build followed to its end, or given up.                       *)
InitBuilds ==
  /\ At("builds")
  /\ Ends
  /\ UNCHANGED account

(* Any of them may be told no by AWS, or stop at the checks, and die.        *)
InitFails ==
  /\ At(cmd.step)
  /\ cmd.step \in {"looks", "ensures", "launches", "records", "finds"}
  /\ CanFail /\ Failed
  /\ guards' \in {guards, guards \cup (CASE cmd.step = "looks"   -> {"watchdog"}
                                      [] cmd.step = "ensures" -> {"bucket"}
                                      [] OTHER -> {})}
  /\ env' = IF cmd.step = "records" THEN [env EXCEPT !.id = Mine] ELSE env
  /\ Ends
  /\ UNCHANGED <<box, nodes, policy, image, disk, asked>>

InitSteps ==
  \/ InitLooks \/ InitEnsures \/ InitReuses \/ InitLaunches
  \/ InitHasNoAllowance \/ InitRecords \/ InitStarts \/ InitFinds
  \/ InitFindsNone \/ InitBuilds \/ InitFails
=============================================================================
