------------------------------- MODULE BoxLife -------------------------------
(* A machine's life: `cg init`, `cg destroy`, `cg stop` and `cg disk add`,   *)
(* one at a time, a session beside them, and AWS and the machine themselves  *)
(* doing what they do between any two steps.                                 *)
EXTENDS InUse

CONSTANTS
  Given,     \* commands given, in a behaviour
  Modes      \* the ways a destroy may be given

ASSUME CommandsAssumption ==
  Given \in Nat /\ Modes \subseteq {"plain", "force", "no-push", "all"}

vars == <<account, cmd, given, session>>

(* Type correctness.                                                         *)
TypeOK ==
  /\ AccountTypeOK
  /\ cmd \in Commands
  /\ given \in 0..Given
  /\ session \in [step : {"closed", "starts", "connects", "plays"},
                  box : Boxes \cup {0}]

Init ==
  /\ AccountInit
  /\ cmd = Idle /\ given = 0
  /\ session = NoSession

Begins ==
  /\ cmd = Idle /\ given < Given
  /\ given' = given + 1
  /\ \/ \E s \in {"looks", "disks", "halts"} :
          cmd' = [Idle EXCEPT !.step = s,
                              !.mode = IF s = "halts" /\ "force" \in Modes
                                       THEN "force" ELSE "plain"]
     \/ \E m \in Modes : cmd' = [Idle EXCEPT !.step = "mode", !.mode = m]
  /\ UNCHANGED <<account, session>>

(* Ctrl-C, a closed laptop: whatever was done stays done.                    *)
CutOff ==
  /\ cmd # Idle /\ trouble.cut > 0
  /\ trouble' = [trouble EXCEPT !.cut = @ - 1]
  /\ Ends
  /\ UNCHANGED <<box, nodes, env, policy, guards, image, disk, asked, given, session>>

Next ==
  \/ Begins
  \/ CutOff
  \/ InitSteps /\ UNCHANGED session
  \/ TakeDownSteps /\ UNCHANGED session
  \/ DiskSteps /\ UNCHANGED session
  \/ SessionSteps
  \/ OfThemselves /\ UNCHANGED <<cmd, given, session>>

Spec == Init /\ [][Next]_vars

-----------------------------------------------------------------------------
(* The machines that are there, and bill.                                    *)
Standing == Was({"pending", "running", "stopping", "stopped"})

(* However commands, cut-offs and AWS's own moves follow each other, no two  *)
(* machines bill at once: launch.go's "exactly one box".                     *)
OneBox == Cardinality(Standing) <= 1

(* Games that are not in the archive are lost only with a machine for which  *)
(* somebody gave them up, with --no-push or --all, or because the mirror of  *)
(* its own shutdown did not work: a role left read-only by an earlier        *)
(* --no-push, or a bucket or role taken away, never costs the games of a     *)
(* machine brought up afterwards, and a push of a command that failed, was   *)
(* passed over with --force or left a game out costs none by itself.         *)
Lost(b) == box[b].games = "lost"
MirrorFails == trouble' # trouble
NothingLostUnasked ==
  [][\A b \in Boxes : ~Lost(b) /\ Lost(b)' => b \in asked \/ MirrorFails]_vars

(* .env lets go of a machine only when it is going or gone: the id of one    *)
(* that is still there must not be lost.                                     *)
IdKept ==
  [][env.id # 0 /\ env'.id # env.id => env.id \notin Standing]_vars

(* What guards and feeds a machine - the watchdog, its role, its bucket - is *)
(* never taken away while one is there.                                      *)
GuardsOutliveTheBox ==
  [][Standing # {} =>
       /\ guards \cap {"watchdog", "bucket"} \subseteq guards'
       /\ policy # "none" => policy' # "none"]_vars

(* A destroy that says it is done leaves no machine and nothing that brings  *)
(* one back: "a persistent spot request relaunches the moment its instance   *)
(* dies" (destroy.go), so none is ended whose request still stands.          *)
GoneForGood ==
  [][cmd.step = "cleans" /\ cmd'.step # "cleans" /\ ~cmd.bad /\ trouble' = trouble
       => /\ Standing = {}
          /\ \A b \in Was({"shutting-down"}) : box[b].kind # "old" \/ ~box[b].req]_vars

(* A machine that is there is neither forgotten nor left unguarded, and one    *)
(* said to be gone is gone for good.                                         *)
NothingLetGo == IdKept /\ GuardsOutliveTheBox /\ GoneForGood

-----------------------------------------------------------------------------
(* What a destroy that says it is done leaves behind: nothing that bills, the*)
(* disk added for games included - "the disk was not marked to go with the   *)
(* machine; cg destroy still removes it" (disk.go).                          *)
DoneMeansGone ==
  [][cmd.step = "cleans" /\ cmd' = Idle /\ ~cmd.bad /\ cmd.mode # "all"
       => /\ Standing = {} /\ image = "none"
          /\ disk.st = "none" \/ (disk.goes /\ St(disk.at) = "shutting-down")]_vars

(* A machine `cg init` chose to use again is not left stopped: nothing would *)
(* ever join the tailnet.                                                    *)
ReusedIsStarted ==
  [][cmd.step = "starts" /\ cmd'.step = "finds"
       => St(Mine)' \notin {"stopping", "stopped"}]_vars
=============================================================================
