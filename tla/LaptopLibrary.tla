--------------------------- MODULE LaptopLibrary ---------------------------
(***************************************************************************)
(* `cg library` on the laptop: forget, move, clean, reset, keep-for and    *)
(* account forget (internal/library/mutate.go, librarycmd/mutate.go).  A   *)
(* command reads the indexes first and writes them from what it has read,  *)
(* after deletes and copies that may take hours.  One runs at a time.      *)
(***************************************************************************)
EXTENDS SharedArchive

CONSTANT Commands  \* bound: commands given

ASSUME LaptopAssumption == Commands \in Nat

VARIABLES
  cmd,    \* op, at, from, game, and what it has read: src, dst, orphans
  given   \* commands given

laptop == <<cmd, given>>

NoCmd == [op |-> "none", at |-> "idle", from |-> Here, game |-> CHOOSE g \in Games : TRUE,
          src |-> {}, dst |-> {}, orphans |-> {}]

LaptopInit == cmd = NoCmd /\ given = 0

LaptopTypeOK ==
  /\ cmd \in [op : {"none", "forget", "move", "clean", "keep-for", "login"},
              at : {"idle", "copy", "copied", "files", "index", "delete", "put", "bucket",
                    "clean", "deploy"},
              from : Buckets, game : Games, src : SUBSET Games, dst : SUBSET Games,
              orphans : SUBSET Games]
  /\ given \in 0..Commands

Begins(c) ==
  /\ cmd.at = "idle" /\ given < Commands
  /\ cmd' = c
  /\ given' = given + 1

GoesOn(at) == cmd' = [cmd EXCEPT !.at = at] /\ UNCHANGED given
Ends == cmd' = NoCmd /\ UNCHANGED given
\* AWS refuses: the command says so and ends where it is.
Refused ==
  /\ CanFail /\ trouble' = [trouble EXCEPT !.refused = @ + 1]
  /\ Ends

\* The buckets a step reads or writes.
Uses == CASE cmd.at \in {"copy", "files"} -> {Here, There}
          [] cmd.at \in {"copied", "index", "clean"} -> {Here}
          [] cmd.at \in {"delete", "put", "bucket"} -> {cmd.from}
          [] OTHER -> {}
At(step) == cmd.at = step /\ Uses \subseteq s3.exists

\* A bucket removed meanwhile: every call to it fails.  The copy of the two small
\* files does not look.
BucketGone ==
  /\ ~(Uses \subseteq s3.exists)
  /\ IF cmd.at = "copied" THEN GoesOn("files") ELSE Ends
  /\ UNCHANGED shared

-----------------------------------------------------------------------------
\* Forget: the index is read, then FORGET is typed.
Forget(b, g) ==
  /\ b \in s3.exists /\ g \in s3.index[b]
  /\ Begins([NoCmd EXCEPT !.op = "forget", !.at = "delete", !.from = b, !.game = g,
                          !.src = s3.index[b]])
  /\ UNCHANGED shared

\* ForgetAt: the files, and only when all are gone the index, from what was read.
DeleteFiles ==
  /\ At("delete")
  /\ s3' = Without(s3, cmd.from, {cmd.game})
  /\ GoesOn("put")
  /\ UNCHANGED <<marks, box, deployed, trouble>>

DeletePart ==
  /\ At("delete")
  /\ s3' = Cut(s3, cmd.from, cmd.game)
  /\ Refused
  /\ UNCHANGED <<marks, box, deployed>>

Left == cmd.src \ {cmd.game}

PutLeft ==
  /\ At("put")
  /\ s3' = WithIndex(s3, cmd.from, Left)
  /\ marks' = [marks EXCEPT !.kept[cmd.from][cmd.game] = {}]
  /\ IF Left = {} /\ cmd.from # Here THEN GoesOn("bucket") ELSE Ends
  /\ UNCHANGED <<box, deployed, trouble>>

RemoveBucket ==
  /\ At("bucket")
  /\ s3' = WithoutBucket(s3, cmd.from)
  /\ Ends
  /\ UNCHANGED <<marks, box, deployed, trouble>>

-----------------------------------------------------------------------------
\* Move: both indexes are read, then MOVE is typed.
Move(g) ==
  /\ {Here, There} \subseteq s3.exists /\ g \in s3.index[There]
  /\ Begins([NoCmd EXCEPT !.op = "move", !.at = "copy", !.from = There, !.game = g,
                          !.src = s3.index[There], !.dst = s3.index[Here]])
  /\ UNCHANGED shared

\* syncPrefix: what is missing or different is copied, and nothing is removed.
Joined(here, there) ==
  IF "whole" \in {here, there} THEN "whole"
  ELSE IF "part" \in {here, there} THEN "part" ELSE "none"

\* MoveCopy: the three folders; what stopped is there in part.
CopyFolders ==
  /\ At("copy")
  /\ s3' = [s3 EXCEPT !.folders[Here][cmd.game] = Joined(@, s3.folders[There][cmd.game])]
  /\ GoesOn("copied")
  /\ UNCHANGED <<marks, box, deployed, trouble>>

CopyStops ==
  /\ At("copy")
  /\ s3' = [s3 EXCEPT !.folders[Here][cmd.game] = IF @ = "none" THEN "part" ELSE @]
  /\ Refused
  /\ UNCHANGED <<marks, box, deployed>>

\* The two small files: an error in copying them is not looked at.
CopyFiles ==
  /\ At("copied")
  /\ s3' = [s3 EXCEPT !.files[Here] = @ \cup ({cmd.game} \cap s3.files[There])]
  /\ GoesOn("files")
  /\ UNCHANGED <<marks, box, deployed, trouble>>

CopyFilesFails ==
  /\ At("copied")
  /\ CanFail /\ trouble' = [trouble EXCEPT !.refused = @ + 1]
  /\ GoesOn("files")
  /\ UNCHANGED <<s3, marks, box, deployed>>

\* The folders are counted at both ends; two parts need not be the same one.
CopyMatches ==
  /\ At("files")
  /\ s3.folders[Here][cmd.game] = s3.folders[There][cmd.game]
  /\ GoesOn("index")
  /\ UNCHANGED shared

CopyDiffers ==
  /\ At("files")
  /\ \/ s3.folders[Here][cmd.game] # s3.folders[There][cmd.game]
     \/ s3.folders[Here][cmd.game] = "part"
  /\ Ends
  /\ UNCHANGED shared

\* (mutant) the machine's index is written as it was.
MoveIndex_asItWas ==
  /\ At("index")
  /\ s3' = WithIndex(s3, Here, cmd.dst)
  /\ GoesOn("delete")
  /\ UNCHANGED <<marks, box, deployed, trouble>>

\* MoveIndex: in the machine's index before it leaves the old one.
MoveIndex ==
  /\ At("index")
  /\ s3' = WithIndex(s3, Here, cmd.dst \cup ({cmd.game} \cap cmd.src))
  /\ GoesOn("delete")
  /\ UNCHANGED <<marks, box, deployed, trouble>>

WriteRefused ==
  /\ cmd.at \in {"index", "put", "bucket"}
  /\ Refused
  /\ UNCHANGED <<s3, marks, box, deployed>>

-----------------------------------------------------------------------------
\* Clean: the objects of pushes that never finished.
OrphansIn(b) == {g \in Games : s3.folders[b][g] # "none" /\ g \notin s3.index[b]}

Clean ==
  /\ Here \in s3.exists /\ OrphansIn(Here) # {}
  /\ Begins([NoCmd EXCEPT !.op = "clean", !.at = "clean", !.orphans = OrphansIn(Here)])
  /\ UNCHANGED shared

DeleteOrphans ==
  /\ At("clean")
  /\ s3' = [s3 EXCEPT !.folders[Here] =
              [g \in Games |-> IF g \in cmd.orphans THEN "none" ELSE @[g]]]
  /\ Ends
  /\ UNCHANGED <<marks, box, deployed, trouble>>

\* Reset: the game is counted from today.
Reset(b, g) ==
  /\ b \in s3.exists /\ g \in s3.index[b]
  /\ cmd.at = "idle" /\ Begins(NoCmd)
  /\ marks' = [marks EXCEPT !.kept[b][g] = {0}]
  /\ UNCHANGED <<s3, box, deployed, trouble>>

\* KeepFor: the setting, and then the deployed function.
KeepFor ==
  /\ Begins([NoCmd EXCEPT !.op = "keep-for", !.at = "deploy"])
  /\ UNCHANGED shared

Deploys ==
  /\ At("deploy")
  /\ deployed' = IF deployed = 0 THEN Days ELSE 0
  /\ Ends
  /\ UNCHANGED <<s3, marks, box, trouble>>

\* ForgetLogin: the login, and a bucket nothing points at once it is empty.
ForgetLogin(b) ==
  /\ b \in s3.login
  /\ Begins([NoCmd EXCEPT !.op = "login", !.from = b,
                          !.at = IF b # Here /\ s3.index[b] = {} THEN "bucket" ELSE "idle"])
  /\ s3' = [s3 EXCEPT !.login = @ \ {b}]
  /\ UNCHANGED <<marks, box, deployed, trouble>>

\* The question is answered with something else, or the command is interrupted.
Interrupt ==
  /\ cmd.at # "idle"
  /\ Ends
  /\ UNCHANGED shared

LaptopSteps ==
  \/ DeleteFiles \/ DeletePart \/ PutLeft \/ RemoveBucket
  \/ CopyFolders \/ CopyStops \/ CopyFiles \/ CopyFilesFails \/ CopyMatches \/ CopyDiffers
  \/ MoveIndex \/ WriteRefused
  \/ DeleteOrphans \/ Deploys \/ Interrupt \/ BucketGone

LaptopBegins ==
  \/ Clean \/ KeepFor
  \/ \E b \in Buckets : ForgetLogin(b)
  \/ \E g \in Games : Move(g) \/ \E b \in Buckets : Forget(b, g) \/ Reset(b, g)
=============================================================================
