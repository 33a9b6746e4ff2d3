---------------------------- MODULE ArchiveLife ----------------------------
(***************************************************************************)
(* The life of the saved games: the box that keeps them alive, the cloud   *)
(* watchdog that deletes what is unused (ArchiveExpiry), and the commands  *)
(* of the laptop (LaptopLibrary), on one archive and one set of marks.     *)
(***************************************************************************)
EXTENDS ArchiveExpiry, LaptopLibrary

VARIABLE crossed  \* two programs have been at work on the archive at once

archiveVars == <<shared, expiry, laptop, crossed>>

ArchiveInit == SharedInit /\ ExpiryInit /\ LaptopInit /\ crossed = FALSE

Deleting == check.at \in {"index", "delete", "put"}

\* A box launched in the middle of a check is not up and gone again before its end.
BoxStep ==
  \/ Launch \/ Start
  \/ check.at = "idle" /\ (Stop \/ Terminate \/ \E g \in Games : Push(g))

BoxMoves ==
  /\ BoxStep
  /\ crossed' = (crossed \/ (s3' # s3 /\ cmd.at # "idle"))
  /\ UNCHANGED <<expiry, laptop>>

WatchdogMoves(step) ==
  /\ step
  /\ crossed' = (crossed \/ (Deleting /\ cmd.at # "idle"))
  /\ UNCHANGED laptop

LaptopMoves ==
  /\ LaptopBegins \/ LaptopSteps
  /\ crossed' = (crossed \/ Deleting)
  /\ UNCHANGED expiry

HourGoes == Tick /\ UNCHANGED <<laptop, crossed>>

ArchiveNext == BoxMoves \/ WatchdogMoves(ExpiryNext) \/ LaptopMoves \/ HourGoes

\* EventBridge calls the checks every hour, and hours go by.
ArchiveFairness ==
  /\ WF_archiveVars(WatchdogMoves(Check)) /\ WF_archiveVars(WatchdogMoves(ExpireStopped))
  /\ WF_archiveVars(HourGoes)

ArchiveSpec == ArchiveInit /\ [][ArchiveNext]_archiveVars /\ ArchiveFairness

-----------------------------------------------------------------------------
ArchiveTypeOK == SharedTypeOK /\ ExpiryTypeOK /\ LaptopTypeOK /\ crossed \in BOOLEAN

\* expire_archive: what is deleted has had no box for its days.  The mark may be as
\* old as the last check that saw the box, so an hour and each failed check may be
\* missing, never more.
NothingTooSoon ==
  [][(check.at = "boxes" /\ check'.at = "index") => box.lull + 1 + trouble.missed >= Days]_archiveVars

\* What the user or the window lets go: the game a `forget` is about, one that is due,
\* and whatever two programs do to the archive at once, which nothing prevents.
LetGo(g) ==
  \/ crossed'
  \/ cmd.op = "forget" /\ cmd.game = g
  \/ check.at = "delete" /\ g \in check.due

\* ForgetAt, MoveCopy, Clean, expire_games: no move, clean, refused call or half-done
\* check takes the last listed copy of a game's folders.
Held(g) == \E b \in Buckets : g \in s3.index[b] /\ s3.folders[b][g] = "whole"
NothingLost == [][\A g \in Games : Held(g) /\ ~Held(g)' => LetGo(g)]_archiveVars

\* Once no box exists, no command runs and the days are counted, what was saved goes.
Unused == box.state = "none" /\ cmd.at = "idle" /\ deployed = Days
UnusedGoes == <>[]Unused => <>(\A b \in Buckets : HoldsNothing(b))

\* "Copied server to server, checked file for file, and only then deleted at the
\* source" (mutate.go:273): a game with its manifest is not left without one.
Saved(g) == \E b \in Buckets : Whole(b, g)
MovedWhole == [][\A g \in Games : Saved(g) /\ ~Saved(g)' => LetGo(g)]_archiveVars
=============================================================================
