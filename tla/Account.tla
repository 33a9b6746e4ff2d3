------------------------------- MODULE Account -------------------------------
(* What the commands of `cg` and AWS share: the machines, the settings file  *)
(* .env, the tailnet, the archive's policy, the guards, a saved image and    *)
(* the disk added for games - and what happens to them that no command does. *)
EXTENDS Naturals, FiniteSets

CONSTANTS
  Boxes,      \* the machines that may come to be, 1..n in launch order
  Kinds,      \* how a new one may be bought: "on demand", "spot"
  Before,     \* what the account may hold at first: "nothing", "old box", "image"
  Troubles,   \* calls to AWS that fail, pushes that do, waits that run out, in a
              \* behaviour
  Interrupts  \* commands cut off (Ctrl-C, a closed laptop), in a behaviour

ASSUME BoxesAssumption ==
  IsFiniteSet(Boxes) /\ Boxes = 1..Cardinality(Boxes) /\ Boxes # {}
ASSUME KindsAssumption == Kinds \subseteq {"on demand", "spot"}
ASSUME BoundsAssumption == Troubles \in Nat /\ Interrupts \in Nat

VARIABLES
  box,      \* the machines, and of each the games played since the last push
            \* that saved them: none, "new" ones, or "lost" with its drive
  nodes,    \* the machines with a node on the tailnet, on or off
  env,      \* .env: GAME_INSTANCE_ID and GAME_TS_NODE (0: not set)
  policy,   \* what the box's role may do with the archive; "none": no role
  guards,   \* of the bucket, the cloud watchdog and the budget, those there
  image,    \* a saved image: "whole", its "snapshots" alone, or "none"
  disk,     \* the disk added for games
  trouble,  \* calls that may still fail, commands that may still be cut off
  asked     \* (ghost) machines whose games somebody gave up: --no-push, --all

account == <<box, nodes, env, policy, guards, image, disk, trouble,
             asked>>

States == {"none", "pending", "running", "stopping", "stopped",
           "shutting-down", "terminated"}
NoDisk == [st |-> "none", at |-> 0, goes |-> FALSE]
Whole  == {"bucket", "watchdog", "budget"}

AccountTypeOK ==
  /\ box \in [Boxes -> [st : States, kind : {"on demand", "spot", "old"},
                        req : BOOLEAN, games : {"saved", "new", "lost"}]]
  /\ nodes \subseteq Boxes
  /\ env \in [id : Boxes \cup {0}, node : Boxes \cup {0}]
  /\ policy \in {"none", "rw", "ro"}
  /\ guards \subseteq Whole
  /\ image \in {"none", "whole", "snapshots"}
  /\ disk \in [st : {"none", "free", "in-use", "ready"},
               at : Boxes \cup {0}, goes : BOOLEAN]
  /\ trouble \in [aws : 0..Troubles, cut : 0..Interrupts]
  /\ asked \subseteq Boxes

(* An empty account; or one with a machine of an earlier version, bought by  *)
(* a persistent spot request; or one with an image an earlier version saved. *)
AccountInit ==
  \E what \in Before :
    /\ box = [b \in Boxes |->
                IF what = "old box" /\ b = 1
                THEN [st |-> "running", kind |-> "old", req |-> TRUE,
                      games |-> "saved"]
                ELSE [st |-> "none", kind |-> "on demand", req |-> FALSE,
                      games |-> "saved"]]
    /\ nodes  = IF what = "old box" THEN {1} ELSE {}
    /\ env    = IF what = "old box" THEN [id |-> 1, node |-> 1]
                                    ELSE [id |-> 0, node |-> 0]
    /\ policy = IF what = "old box" THEN "rw" ELSE "none"
    /\ guards = IF what = "old box" THEN Whole ELSE {}
    /\ image  = IF what = "image" THEN "whole" ELSE "none"
    /\ disk    = NoDisk
    /\ trouble = [aws |-> Troubles, cut |-> Interrupts]
    /\ asked = {}

-----------------------------------------------------------------------------
CanFail  == trouble.aws > 0
Failed   == trouble' = [trouble EXCEPT !.aws = @ - 1]

St(b)    == IF b \in Boxes THEN box[b].st ELSE "none"
Was(s)   == {b \in Boxes : St(b) \in s}

(* What the commands look for: Existing, and the destroy's plan.  A machine  *)
(* that is shutting down is not among them.                                  *)
Existing_upOnly == Was({"pending", "running", "stopped"})
Existing == Was({"pending", "running", "stopping", "stopped"})

Becomes(b, s) == box' = [box EXCEPT ![b].st = s]
CanWrite      == policy = "rw" /\ "bucket" \in guards

(* cg-library push, run over ssh: it needs the machine on the tailnet and    *)
(* its role able to write.                                                   *)
Reachable(b) == b # 0 /\ St(b) = "running" /\ b \in nodes

-----------------------------------------------------------------------------
(* AWS and the machine itself.                                               *)
Boots(b) ==
  /\ St(b) = "pending"
  /\ Becomes(b, "running")
  /\ UNCHANGED <<nodes, env, policy, guards, image, disk, trouble, asked>>

Joins(b) ==
  /\ St(b) = "running" /\ b \notin nodes
  /\ nodes' = nodes \cup {b}
  /\ UNCHANGED <<box, env, policy, guards, image, disk, trouble, asked>>

Plays(b) ==
  /\ Reachable(b) /\ box[b].games # "new"
  /\ box' = [box EXCEPT ![b].games = "new"]
  /\ UNCHANGED <<nodes, env, policy, guards, image, disk, trouble, asked>>

(* `shutdown -h`, by the idle watchdog: terminate on a one-time spot machine,*)
(* stop on the others.                                                       *)
SwitchesOff(b) ==
  /\ St(b) = "running"
  /\ Becomes(b, IF box[b].kind = "spot" THEN "shutting-down" ELSE "stopping")
  /\ UNCHANGED <<nodes, env, policy, guards, image, disk, trouble, asked>>

(* A push saves the new games, or not all of them: its role may not write, a *)
(* call fails, a skipped game is left, it is cut off.                        *)
Saves       == CanWrite /\ UNCHANGED trouble
SavesNotAll == IF CanWrite THEN CanFail /\ Failed ELSE UNCHANGED trouble

(* A machine going down mirrors its games, and then its drive is wiped,      *)
(* whatever came of the mirror.  The disk stays with one that stopped; with  *)
(* one that is gone it goes if it was marked to, and is left behind if not.  *)
(* A persistent spot request that still stands launches another, under the   *)
(* same tags: the model gives it the same number.                            *)
GoesDown(b) ==
  LET over == St(b) = "shutting-down"
      Wiped(games) ==
        box' = [box EXCEPT ![b].st = IF ~over THEN "stopped"
                                     ELSE IF box[b].kind = "old" /\ box[b].req
                                     THEN "pending" ELSE "terminated",
                           ![b].games = games]
  IN
  /\ St(b) \in {"stopping", "shutting-down"}
  /\ \/ box[b].games # "new" /\ Wiped(box[b].games) /\ UNCHANGED trouble
     \/ box[b].games = "new" /\ Saves /\ Wiped("saved")
     \/ box[b].games = "new" /\ SavesNotAll /\ Wiped("lost")
  /\ disk' = IF ~over \/ disk.at # b THEN disk
             ELSE IF disk.goes THEN NoDisk
             ELSE [disk EXCEPT !.st = "free", !.at = 0]
  /\ UNCHANGED <<nodes, env, policy, guards, image, asked>>

OfThemselves ==
  \/ \E b \in Boxes : Boots(b)
  \/ \E b \in Boxes : Joins(b)
  \/ \E b \in Boxes : Plays(b)
  \/ \E b \in Boxes : SwitchesOff(b)
  \/ \E b \in Boxes : GoesDown(b)
=============================================================================
