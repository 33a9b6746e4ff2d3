--------------------------- MODULE ArchiveExpiry ---------------------------
(***************************************************************************)
(* What the cloud watchdog does once an hour about games and boxes nobody  *)
(* uses: expire_stopped, expire_archive, expire_games of                   *)
(* lambda/cloud_watchdog.py, and mark_gone when EC2 says a box has ended.  *)
(* The check asks AWS one thing after another, and other programs work     *)
(* between two questions.  CG_ACCOUNT is set, as cg deploys it.            *)
(***************************************************************************)
EXTENDS SharedArchive

VARIABLES
  check,   \* at, and its function's days, and what it has read: seen, fresh (the games
           \* with a younger mark of their own), kept (every mark), todo, bucket, due, stay, gone
  checked  \* stopped, archive: the two checks are over this hour

expiry == <<check, checked>>

Idle == [at |-> "idle", days |-> 0, seen |-> {}, fresh |-> {}, kept |-> {},
         todo |-> {}, bucket |-> Here, due |-> {}, stay |-> {}, gone |-> {}]

ExpiryInit == check = Idle /\ checked = [stopped |-> FALSE, archive |-> FALSE]

ExpiryTypeOK ==
  /\ check \in [at : {"idle", "size", "trail", "boxes", "index", "delete", "put"},
                days : {0, Days}, seen : Dates, fresh : SUBSET (Buckets \X Games),
                kept : SUBSET (Buckets \X Games), todo : SUBSET Buckets,
                bucket : Buckets, due : SUBSET Games, stay : SUBSET Games,
                gone : SUBSET (Buckets \X Games)]
  /\ checked \in [stopped : BOOLEAN, archive : BOOLEAN]

Done == check' = Idle /\ checked' = [checked EXCEPT !.archive = TRUE]

GoesTo(next) == check' = next /\ UNCHANGED checked

Missed == CanFail /\ trouble' = [trouble EXCEPT !.missed = @ + 1]

-----------------------------------------------------------------------------
\* mark_gone: the countdown starts when the box really ended. The event, or the
\* write, may be lost.
MarkGone ==
  /\ box.ended
  /\ box' = [box EXCEPT !.ended = FALSE]
  /\ marks' = IF deployed = 0 THEN marks ELSE [marks EXCEPT !.seen = {0}]
  /\ UNCHANGED <<s3, deployed, trouble, expiry>>

MarkGoneFails ==
  /\ box.ended /\ Missed
  /\ box' = [box EXCEPT !.ended = FALSE]
  /\ UNCHANGED <<s3, marks, deployed, expiry>>

\* expire_stopped: AWS's date of a stop, else the tag of an earlier check; without
\* either the box is tagged, and counted from then.
ExpireStopped ==
  /\ ~checked.stopped
  /\ checked' = [checked EXCEPT !.stopped = TRUE]
  /\ box' = IF deployed = 0 \/ box.state # "stopped" THEN box
            ELSE IF box.since = {} THEN [box EXCEPT !.since = {0}]
            ELSE IF Within(box.since, deployed) THEN box ELSE NoBox
  /\ UNCHANGED <<s3, marks, deployed, trouble, check>>

\* (mutant) the mark is written once, and not renewed.
SeesBox_once ==
  /\ check.at = "idle" /\ ~checked.archive
  /\ deployed > 0 /\ box.state # "none"
  /\ marks' = [marks EXCEPT !.seen = IF @ # {} THEN @ ELSE {0}]
  /\ Done
  /\ UNCHANGED <<s3, box, deployed, trouble>>

\* expire_archive: while a box exists its mark is renewed, hourly.
SeesBox ==
  /\ check.at = "idle" /\ ~checked.archive
  /\ deployed > 0 /\ box.state # "none"
  /\ marks' = [marks EXCEPT !.seen = IF Within(@, 1) THEN @ ELSE {0}]
  /\ Done
  /\ UNCHANGED <<s3, box, deployed, trouble>>

Off ==
  /\ check.at = "idle" /\ ~checked.archive /\ deployed = 0
  /\ Done
  /\ UNCHANGED shared

SeesNoBox ==
  /\ check.at = "idle" /\ ~checked.archive
  /\ deployed > 0 /\ box.state = "none"
  /\ GoesTo([Idle EXCEPT !.at = "size", !.days = deployed])
  /\ UNCHANGED shared

\* archive_size: nothing is measured for Here, and no other bucket is this rig's.
NothingMeasured == HoldsNothing(Here) /\ s3.exists \subseteq {Here}

FindsNone ==
  /\ check.at = "size" /\ NothingMeasured
  /\ Done
  /\ UNCHANGED shared

StartsCounting ==
  /\ check.at = "size" /\ ~NothingMeasured /\ marks.seen = {}
  /\ marks' = [marks EXCEPT !.seen = {0}]
  /\ Done
  /\ UNCHANGED <<s3, box, deployed, trouble>>

Counting ==
  /\ check.at = "size" /\ ~NothingMeasured /\ Within(marks.seen, check.days)
  /\ Done
  /\ UNCHANGED shared

PastTheWindow ==
  /\ check.at = "size" /\ ~NothingMeasured
  /\ marks.seen # {} /\ ~Within(marks.seen, check.days)
  /\ GoesTo([check EXCEPT !.at = "trail", !.seen = marks.seen])
  /\ UNCHANGED shared

\* last_launch: CloudTrail's RunInstances of the window.
TrailSaysUsed ==
  /\ check.at = "trail" /\ Within(box.run, check.days)
  /\ marks' = [marks EXCEPT !.seen = box.run]
  /\ Done
  /\ UNCHANGED <<s3, box, deployed, trouble>>

TrailSaysUnused ==
  /\ check.at = "trail" /\ ~Within(box.run, check.days)
  /\ GoesTo([check EXCEPT !.at = "boxes"])
  /\ UNCHANGED shared

BoxAppeared ==
  /\ check.at = "boxes" /\ box.state # "none"
  /\ Done
  /\ UNCHANGED shared

Marked(fits(_)) == {bg \in Buckets \X Games : fits(marks.kept[bg[1]][bg[2]])}
Young(date) == Within(date, check.days)
Written(date) == date # {}

\* (mutant) any mark of its own keeps a game, however old.
LastLook_anyMark ==
  /\ check.at = "boxes" /\ box.state = "none"
  /\ GoesTo([check EXCEPT !.at = "index", !.fresh = Marked(Written), !.kept = Marked(Written),
                        !.todo = s3.exists])
  /\ UNCHANGED shared

\* The last look, and kept_marks and own_buckets right after it.
LastLook ==
  /\ check.at = "boxes" /\ box.state = "none"
  /\ GoesTo([check EXCEPT !.at = "index", !.fresh = Marked(Young), !.kept = Marked(Written),
                        !.todo = s3.exists])
  /\ UNCHANGED shared

\* expire_games: a game is due when the later of the two dates is past the window.
PastDue(b, g) == ~Within(check.seen, check.days) /\ <<b, g>> \notin check.fresh

ReadIndex ==
  /\ check.at = "index"
  /\ \E b \in check.todo \cap s3.exists :
       LET due == {g \in s3.index[b] : PastDue(b, g)}
           stay == s3.index[b] \ due IN
       GoesTo([check EXCEPT !.at = IF due = {} /\ stay # {} THEN "index" ELSE "delete",
                          !.todo = @ \ {b}, !.bucket = b, !.due = due, !.stay = stay])
  /\ UNCHANGED shared

\* The games of the bucket at work are gone; its lists are read no more.
WithGone(at, pairs) ==
  [check EXCEPT !.at = at, !.gone = @ \cup pairs, !.due = {},
                !.stay = IF at = "put" THEN @ ELSE {}]

\* A bucket with no game to keep goes whole, its Steam login with it.
DeleteBucketWhole ==
  /\ check.at = "delete" /\ check.stay = {} /\ check.bucket \in s3.exists
  /\ s3' = WithoutBucket(s3, check.bucket)
  /\ GoesTo(WithGone("index", {check.bucket} \X Games))
  /\ UNCHANGED <<marks, box, deployed, trouble>>

DeleteGames ==
  /\ check.at = "delete" /\ check.stay # {} /\ check.bucket \in s3.exists
  /\ s3' = Without(s3, check.bucket, check.due)
  /\ GoesTo(WithGone("put", {check.bucket} \X check.due))
  /\ UNCHANGED <<marks, box, deployed, trouble>>

PutIndex ==
  /\ check.at = "put" /\ check.bucket \in s3.exists
  /\ s3' = WithIndex(s3, check.bucket, check.stay)
  /\ GoesTo(WithGone("index", {}))
  /\ UNCHANGED <<marks, box, deployed, trouble>>

\* The marks that were read of games that are gone keep nothing, and are dropped.
DropMarks ==
  /\ check.at = "index" /\ check.todo = {}
  /\ marks' = [marks EXCEPT !.kept = [b \in Buckets |-> [g \in Games |->
                 IF <<b, g>> \in check.gone \cap check.kept THEN {} ELSE @[b][g]]]]
  /\ Done
  /\ UNCHANGED <<s3, box, deployed, trouble>>

\* Any call of a check may raise: it ends where it was, and is said.
DeleteCutOff ==
  /\ check.at = "delete" /\ check.bucket \in s3.exists /\ Missed
  /\ \E g \in check.due : s3' = Cut(s3, check.bucket, g)
  /\ Done
  /\ UNCHANGED <<marks, box, deployed>>

CheckFails ==
  /\ ~checked.archive /\ Missed
  /\ Done
  /\ UNCHANGED <<s3, marks, box, deployed>>

\* A bucket that another program has removed meanwhile is such an error.
BucketVanished ==
  /\ \/ check.at \in {"delete", "put"} /\ check.bucket \notin s3.exists
     \/ check.at = "index" /\ check.todo \ s3.exists # {}
  /\ Done
  /\ UNCHANGED shared

Check ==
  \/ SeesBox \/ Off \/ SeesNoBox \/ FindsNone \/ StartsCounting \/ Counting \/ PastTheWindow
  \/ TrailSaysUsed \/ TrailSaysUnused \/ BoxAppeared \/ LastLook
  \/ ReadIndex \/ DeleteBucketWhole \/ DeleteGames \/ PutIndex \/ DropMarks \/ BucketVanished

ExpiryNext == Check \/ CheckFails \/ DeleteCutOff \/ ExpireStopped \/ MarkGone \/ MarkGoneFails

\* The checks of an hour are over, and another begins.
Tick ==
  /\ checked = [stopped |-> TRUE, archive |-> TRUE]
  /\ Aged
  /\ checked' = [stopped |-> FALSE, archive |-> FALSE]
  /\ UNCHANGED check
=============================================================================
