------------------------------ MODULE LaptopProofs ------------------------------
(***************************************************************************)
(* What the programs of the laptop do to the account, three things that      *)
(* share no state.  The saved games, beside the cloud watchdog that deletes   *)
(* what is unused: nothing goes before its days, and nothing that nobody let  *)
(* go (ArchiveLife).  Leaving AWS: what is said at the end is so, and a box is *)
(* guarded until it is gone (Leftovers).  The desktop app: a run that changes *)
(* something has no other beside it (AppJobs).                               *)
(***************************************************************************)
EXTENDS ArchiveLife, Leftovers, AppJobs, Functions, TLAPS

-----------------------------------------------------------------------------
(* The saved games: what a bucket holds after each call.                      *)

S3 == [exists : SUBSET Buckets, index : [Buckets -> SUBSET Games],
       folders : [Buckets -> [Games -> {"none", "part", "whole"}]],
       files : [Buckets -> SUBSET Games], login : SUBSET Buckets]

LEMMA WithoutIs ==
  ASSUME NEW s \in S3, NEW b \in Buckets, NEW gs \in SUBSET Games
  PROVE  /\ Without(s, b, gs) \in S3
         /\ Without(s, b, gs).index = s.index
         /\ \A c \in Buckets, g \in Games :
              Without(s, b, gs).folders[c][g] = IF c = b /\ g \in gs THEN "none" ELSE s.folders[c][g]
<1>1. [g \in Games |-> IF g \in gs THEN "none" ELSE s.folders[b][g]] \in [Games -> {"none", "part", "whole"}]
  BY DEF S3
<1>2. QED BY <1>1 DEF Without, S3

LEMMA CutIs ==
  ASSUME NEW s \in S3, NEW b \in Buckets, NEW g \in Games
  PROVE  /\ Cut(s, b, g) \in S3
         /\ Cut(s, b, g).index = s.index
         /\ \A c \in Buckets, h \in Games :
              (c # b \/ h # g) => Cut(s, b, g).folders[c][h] = s.folders[c][h]
BY DEF Cut, S3

LEMMA WithIndexIs ==
  ASSUME NEW s \in S3, NEW b \in Buckets, NEW gs \in SUBSET Games
  PROVE  /\ WithIndex(s, b, gs) \in S3
         /\ WithIndex(s, b, gs).folders = s.folders
         /\ \A c \in Buckets : WithIndex(s, b, gs).index[c] = IF c = b THEN gs ELSE s.index[c]
BY DEF WithIndex, S3

LEMMA WithoutBucketIs ==
  ASSUME NEW s \in S3, NEW b \in Buckets
  PROVE  /\ WithoutBucket(s, b) \in S3
         /\ \A c \in Buckets : c # b => /\ WithoutBucket(s, b).index[c] = s.index[c]
                                        /\ WithoutBucket(s, b).folders[c] = s.folders[c]
         /\ WithoutBucket(s, b).index[b] = {}
<1>. DEFINE t == Without(s, b, Games)
            u == WithIndex(t, b, {})
<1>1. /\ t \in S3 /\ t.index = s.index
      /\ \A c \in Buckets, g \in Games : c # b => t.folders[c][g] = s.folders[c][g]
  BY WithoutIs
<1>2. \A c \in Buckets : c # b => t.folders[c] = s.folders[c]
  BY DEF Without, S3
<1>. HIDE DEF t
<1>3. /\ u \in S3 /\ u.folders = t.folders
      /\ \A c \in Buckets : u.index[c] = IF c = b THEN {} ELSE t.index[c]
  BY <1>1, WithIndexIs
<1>4. WithoutBucket(s, b) = [u EXCEPT !.exists = @ \ {b}, !.login = @ \ {b}]
  BY DEF WithoutBucket, t
<1>. HIDE DEF u
<1>5. [u EXCEPT !.exists = @ \ {b}, !.login = @ \ {b}] \in S3
  BY <1>3 DEF S3
<1>6. /\ [u EXCEPT !.exists = @ \ {b}, !.login = @ \ {b}].index = u.index
      /\ [u EXCEPT !.exists = @ \ {b}, !.login = @ \ {b}].folders = u.folders
  BY <1>3 DEF S3
<1>7. QED BY <1>1, <1>2, <1>3, <1>4, <1>5, <1>6

-----------------------------------------------------------------------------
LEMMA TypeInit == ArchiveInit => ArchiveTypeOK
<1>. SUFFICES ASSUME ArchiveInit PROVE ArchiveTypeOK
  OBVIOUS
<1>. USE SharedAssumption, LaptopAssumption
<1>0. (CHOOSE g \in Games : TRUE) \in Games
  BY DEF SharedAssumption
<1>1. {} \in Dates /\ 0 \in 0..Days /\ 0 \in 0..Launches /\ 0 \in 0..Troubles /\ 0 \in 0..Commands
  BY DEF SharedAssumption, LaptopAssumption, Dates
<1>2. SharedTypeOK
  BY <1>0, <1>1 DEF ArchiveInit, SharedInit, SharedTypeOK, Buckets
<1>3. ExpiryTypeOK
  BY <1>1 DEF ArchiveInit, ExpiryInit, ExpiryTypeOK, Idle, Buckets
<1>4. LaptopTypeOK
  BY <1>0, <1>1 DEF ArchiveInit, LaptopInit, LaptopTypeOK, NoCmd, Buckets
<1>5. QED BY <1>2, <1>3, <1>4 DEF ArchiveTypeOK, ArchiveInit

LEMMA DatesAre ==
  /\ {} \in Dates /\ {0} \in Dates
  /\ \A d \in Dates : /\ Later(d) \in Dates
                      /\ Later(d) = {} <=> d = {}
                      /\ \A n \in d : n \in 0..Days /\ d = {n}
                                      /\ Later(d) = {IF n < Days THEN n + 1 ELSE n}
<1>. USE SharedAssumption DEF SharedAssumption, Dates
<1>1. {} \in Dates /\ {0} \in Dates
  OBVIOUS
<1>2. ASSUME NEW d \in Dates
      PROVE /\ Later(d) \in Dates
            /\ Later(d) = {} <=> d = {}
            /\ \A n \in d : n \in 0..Days /\ d = {n}
                            /\ Later(d) = {IF n < Days THEN n + 1 ELSE n}
  <2>1. CASE d = {}
    BY <2>1 DEF Later
  <2>2. CASE d # {}
    <3>1. PICK n \in 0..Days : d = {n}
      BY <2>2
    <3>2. Later(d) = {IF n < Days THEN n + 1 ELSE n}
      BY <3>1 DEF Later
    <3>3. (IF n < Days THEN n + 1 ELSE n) \in 0..Days
      OBVIOUS
    <3>4. QED BY <3>1, <3>2, <3>3
  <2>3. QED BY <2>1, <2>2
<1>3. QED BY <1>1, <1>2

\* A step of the box, and of the laptop, and of the watchdog.
LEMMA BoxTypes == ArchiveTypeOK /\ BoxMoves => ArchiveTypeOK'
<1>. SUFFICES ASSUME ArchiveTypeOK, BoxMoves PROVE ArchiveTypeOK'
  OBVIOUS
<1>. USE SharedAssumption DEF SharedAssumption
<1>0. ExpiryTypeOK' /\ LaptopTypeOK' /\ crossed' \in BOOLEAN
  BY DEF BoxMoves, ArchiveTypeOK, ExpiryTypeOK, LaptopTypeOK, expiry, laptop
<1>. DEFINE BoxType == [state : {"none", "on", "stopped"}, run : Dates, lull : 0..Days, since : Dates,
                        ended : BOOLEAN, launches : 0..Launches]
<1>a. s3 \in S3 /\ box \in BoxType /\ {} \in Dates /\ {0} \in Dates /\ 0 \in 0..Days /\ Here \in Buckets
  BY DatesAre DEF ArchiveTypeOK, SharedTypeOK, S3, Buckets
<1>b. ASSUME s3' \in S3, box' \in BoxType, UNCHANGED <<marks, deployed, trouble>> PROVE ArchiveTypeOK'
  BY <1>0, <1>b DEF ArchiveTypeOK, SharedTypeOK, S3
<1>1. CASE Launch
  <2>1. box.launches + 1 \in 0..Launches
    BY <1>a, <1>1 DEF Launch
  <2>2. box' \in BoxType /\ s3' \in S3
    BY <1>a, <1>1, <2>1 DEF Launch, S3
  <2>3. QED BY <1>b, <1>1, <2>2 DEF Launch
<1>2. CASE Start
  <2>1. box.launches + 1 \in 0..Launches
    BY <1>a, <1>2 DEF Start
  <2>2. box' \in BoxType
    BY <1>a, <1>2, <2>1 DEF Start
  <2>3. QED BY <1>a, <1>b, <1>2, <2>2 DEF Start
<1>3. CASE Stop
  <2>1. box' \in BoxType
    <3>1. PICK dates \in {{}, {0}} : box' = [box EXCEPT !.state = "stopped", !.since = dates, !.ended = TRUE]
      BY <1>3 DEF Stop
    <3>2. dates \in Dates
      BY <1>a
    <3>3. QED BY <1>a, <3>1, <3>2
  <2>2. QED BY <1>a, <1>b, <1>3, <2>1 DEF Stop
<1>4. CASE Terminate
  <2>1. box' \in BoxType
    BY <1>a, <1>4 DEF Terminate, NoBox
  <2>2. QED BY <1>a, <1>b, <1>4, <2>1 DEF Terminate
<1>5. CASE \E g \in Games : Push(g)
  <2>1. s3' \in S3
    <3>1. PICK g \in Games : Push(g)
      BY <1>5
    <3>. DEFINE own == [s3.folders[Here] EXCEPT ![g] = "whole"]
    <3>2. Here \in Buckets /\ own \in [Games -> {"none", "part", "whole"}]
      BY <1>a DEF Buckets, S3
    <3>3. s3' = [s3 EXCEPT !.index[Here] = s3.index[Here] \cup {g}, !.folders[Here] = own,
                           !.files[Here] = s3.files[Here] \cup {g}, !.login = s3.login \cup {Here}]
      BY <1>a, <3>1 DEF Push, S3
    <3>4. s3.index[Here] \cup {g} \in SUBSET Games /\ s3.files[Here] \cup {g} \in SUBSET Games
          /\ s3.login \cup {Here} \in SUBSET Buckets
      BY <1>a, <3>2 DEF S3
    <3>. HIDE DEF own
    <3>5. QED BY <1>a, <3>2, <3>3, <3>4 DEF S3
  <2>2. QED BY <1>a, <1>b, <1>5, <2>1 DEF Push
<1>6. QED BY <1>1, <1>2, <1>3, <1>4, <1>5 DEF BoxMoves, BoxStep

LEMMA HourTypes == ArchiveTypeOK /\ HourGoes => ArchiveTypeOK'
<1>. SUFFICES ASSUME ArchiveTypeOK, HourGoes PROVE ArchiveTypeOK'
  OBVIOUS
<1>. USE SharedAssumption DEF SharedAssumption
<1>1. ExpiryTypeOK' /\ LaptopTypeOK' /\ crossed' \in BOOLEAN
  BY DEF HourGoes, Tick, ArchiveTypeOK, ExpiryTypeOK, LaptopTypeOK, laptop
<1>2. marks' \in [seen : Dates, kept : [Buckets -> [Games -> Dates]]]
  BY DatesAre DEF HourGoes, Tick, Aged, ArchiveTypeOK, SharedTypeOK
<1>3. box' \in [state : {"none", "on", "stopped"}, run : Dates, lull : 0..Days, since : Dates,
                ended : BOOLEAN, launches : 0..Launches]
  <2>1. box.run \in Dates /\ box.since \in Dates /\ box.lull \in 0..Days
    BY DEF ArchiveTypeOK, SharedTypeOK
  <2>2. Later(box.run) \in Dates /\ Later(box.since) \in Dates
    BY <2>1, DatesAre
  <2>3. (IF box.state # "none" THEN 0 ELSE IF box.lull < Days THEN box.lull + 1 ELSE box.lull) \in 0..Days
    BY <2>1
  <2>4. QED BY <2>2, <2>3 DEF HourGoes, Tick, Aged, ArchiveTypeOK, SharedTypeOK
<1>4. QED BY <1>1, <1>2, <1>3 DEF HourGoes, Tick, Aged, ArchiveTypeOK, SharedTypeOK

LEMMA LaptopTypes == ArchiveTypeOK /\ LaptopMoves => ArchiveTypeOK'
<1>. SUFFICES ASSUME ArchiveTypeOK, LaptopMoves PROVE ArchiveTypeOK'
  OBVIOUS
<1>. USE SharedAssumption, LaptopAssumption DEF SharedAssumption, LaptopAssumption
<1>0. (CHOOSE g \in Games : TRUE) \in Games /\ Here \in Buckets /\ There \in Buckets
  BY DEF Buckets
<1>1. ExpiryTypeOK' /\ crossed' \in BOOLEAN
  BY DEF LaptopMoves, ArchiveTypeOK, ExpiryTypeOK, expiry
<1>. DEFINE CmdType == [op : {"none", "forget", "move", "clean", "keep-for", "login"},
              at : {"idle", "copy", "copied", "files", "index", "delete", "put", "bucket",
                    "clean", "deploy"},
              from : Buckets, game : Games, src : SUBSET Games, dst : SUBSET Games,
              orphans : SUBSET Games]
<1>2. cmd \in CmdType /\ given \in 0..Commands /\ NoCmd \in CmdType
  BY <1>0 DEF ArchiveTypeOK, LaptopTypeOK, NoCmd
<1>3. s3 \in S3 /\ marks \in [seen : Dates, kept : [Buckets -> [Games -> Dates]]]
      /\ deployed \in {0, Days} /\ trouble \in [missed : 0..Troubles, refused : 0..Troubles]
  BY DEF ArchiveTypeOK, SharedTypeOK, S3
<1>4. CanFail => [trouble EXCEPT !.refused = @ + 1] \in [missed : 0..Troubles, refused : 0..Troubles]
  BY <1>3 DEF CanFail
<1>5. ASSUME NEW c \in CmdType, Begins(c) PROVE cmd' \in CmdType /\ given' \in 0..Commands
  BY <1>2, <1>5 DEF Begins
<1>. USE <1>0, <1>2, <1>3
<1>6. CASE LaptopBegins
  <2>1. LaptopTypeOK'
    <3>1. ASSUME NEW b \in Buckets, ForgetLogin(b) PROVE cmd' \in CmdType /\ given' \in 0..Commands
      BY <1>5, <3>1 DEF ForgetLogin, NoCmd
    <3>2. ASSUME NEW g \in Games, Move(g) PROVE cmd' \in CmdType /\ given' \in 0..Commands
      BY <1>5, <3>2 DEF Move, NoCmd, S3
    <3>3. ASSUME NEW g \in Games, NEW b \in Buckets, Forget(b, g) PROVE cmd' \in CmdType /\ given' \in 0..Commands
      BY <1>5, <3>3 DEF Forget, NoCmd, S3
    <3>4. ASSUME NEW g \in Games, NEW b \in Buckets, Reset(b, g) PROVE cmd' \in CmdType /\ given' \in 0..Commands
      BY <1>5, <3>4 DEF Reset, NoCmd
    <3>5. ASSUME Clean PROVE cmd' \in CmdType /\ given' \in 0..Commands
      BY <1>5, <3>5 DEF Clean, NoCmd, OrphansIn
    <3>6. ASSUME KeepFor PROVE cmd' \in CmdType /\ given' \in 0..Commands
      BY <1>5, <3>6 DEF KeepFor, NoCmd
    <3>7. QED BY <1>6, <3>1, <3>2, <3>3, <3>4, <3>5, <3>6 DEF LaptopBegins, LaptopTypeOK
  <2>2. SharedTypeOK'
    <3>1. ASSUME NEW b \in Buckets, ForgetLogin(b) PROVE SharedTypeOK'
      BY <3>1 DEF ForgetLogin, ArchiveTypeOK, SharedTypeOK
    <3>2. ASSUME NEW g \in Games, NEW b \in Buckets, Reset(b, g) PROVE SharedTypeOK'
      BY <3>2, DatesAre DEF Reset, ArchiveTypeOK, SharedTypeOK
    <3>3. CASE UNCHANGED shared
      BY <3>3 DEF shared, ArchiveTypeOK, SharedTypeOK
    <3>4. QED BY <1>6, <3>1, <3>2, <3>3 DEF LaptopBegins, Clean, KeepFor, Move, Forget
  <2>3. QED BY <1>1, <2>1, <2>2 DEF ArchiveTypeOK
<1>7. CASE LaptopSteps
  <2>1. LaptopTypeOK'
    <3>1. \A at \in {"put", "copied", "files", "index", "delete", "bucket"} : GoesOn(at) => cmd' \in CmdType /\ given' \in 0..Commands
      BY DEF GoesOn
    <3>2. Ends => cmd' \in CmdType /\ given' \in 0..Commands
      BY DEF Ends
    <3>3. cmd' \in CmdType /\ given' \in 0..Commands
      BY <1>7, <3>1, <3>2 DEF LaptopSteps, DeleteFiles, DeletePart, PutLeft, RemoveBucket, CopyFolders, CopyStops,
         CopyFiles, CopyFilesFails, CopyMatches, CopyDiffers, MoveIndex, WriteRefused, DeleteOrphans, Deploys,
         Interrupt, BucketGone, Refused
    <3>4. QED BY <3>3 DEF LaptopTypeOK
  <2>2. SharedTypeOK'
    <3>. USE DEF ArchiveTypeOK, SharedTypeOK
    <3>1. CASE DeleteFiles
      <4>1. s3' \in S3
        BY <3>1, WithoutIs DEF DeleteFiles
      <4>2. QED BY <3>1, <4>1 DEF DeleteFiles, S3
    <3>2. CASE DeletePart
      <4>1. s3' \in S3
        BY <3>2, CutIs DEF DeletePart
      <4>2. QED BY <1>4, <3>2, <4>1 DEF DeletePart, Refused, S3
    <3>3. CASE PutLeft
      <4>1. s3' \in S3
        BY <3>3, WithIndexIs DEF PutLeft, Left
      <4>2. marks' \in [seen : Dates, kept : [Buckets -> [Games -> Dates]]]
        BY <3>3, DatesAre DEF PutLeft
      <4>3. QED BY <3>3, <4>1, <4>2 DEF PutLeft, S3
    <3>4. CASE RemoveBucket
      <4>1. s3' \in S3
        BY <3>4, WithoutBucketIs DEF RemoveBucket
      <4>2. QED BY <3>4, <4>1 DEF RemoveBucket, S3
    <3>5. CASE CopyFolders
      BY <3>5 DEF CopyFolders, Joined
    <3>6. CASE CopyStops
      <4>1. (IF s3.folders[Here][cmd.game] = "none" THEN "part" ELSE s3.folders[Here][cmd.game])
              \in {"none", "part", "whole"}
        BY DEF S3
      <4>2. s3' \in S3
        BY <3>6, <4>1 DEF CopyStops, S3
      <4>3. QED BY <1>4, <3>6, <4>2 DEF CopyStops, Refused, S3
    <3>7. CASE CopyFiles
      BY <3>7 DEF CopyFiles
    <3>8. CASE CopyFilesFails
      BY <1>4, <3>8 DEF CopyFilesFails
    <3>9. CASE MoveIndex
      <4>1. s3' \in S3
        BY <3>9, WithIndexIs DEF MoveIndex
      <4>2. QED BY <3>9, <4>1 DEF MoveIndex, S3
    <3>10. CASE WriteRefused
      BY <1>4, <3>10 DEF WriteRefused, Refused
    <3>11. CASE DeleteOrphans
      <4>1. [g \in Games |-> IF g \in cmd.orphans THEN "none" ELSE s3.folders[Here][g]] \in [Games -> {"none", "part", "whole"}]
        BY DEF S3
      <4>2. s3' \in S3
        BY <3>11, <4>1 DEF DeleteOrphans, S3
      <4>3. QED BY <3>11, <4>2 DEF DeleteOrphans, S3
    <3>12. CASE Deploys
      BY <3>12 DEF Deploys
    <3>13. CASE UNCHANGED shared
      BY <3>13 DEF shared
    <3>14. QED BY <1>7, <3>1, <3>2, <3>3, <3>4, <3>5, <3>6, <3>7, <3>8, <3>9, <3>10, <3>11, <3>12, <3>13
              DEF LaptopSteps, CopyMatches, CopyDiffers, Interrupt, BucketGone
  <2>3. QED BY <1>1, <2>1, <2>2 DEF ArchiveTypeOK
<1>8. QED BY <1>6, <1>7 DEF LaptopMoves

LEMMA WatchdogTypes == ArchiveTypeOK /\ WatchdogMoves(ExpiryNext) => ArchiveTypeOK'
<1>. SUFFICES ASSUME ArchiveTypeOK, WatchdogMoves(ExpiryNext) PROVE ArchiveTypeOK'
  OBVIOUS
<1>. USE SharedAssumption DEF SharedAssumption
<1>. DEFINE CheckType == [at : {"idle", "size", "trail", "boxes", "index", "delete", "put"},
                days : {0, Days}, seen : Dates, fresh : SUBSET (Buckets \X Games),
                kept : SUBSET (Buckets \X Games), todo : SUBSET Buckets,
                bucket : Buckets, due : SUBSET Games, stay : SUBSET Games,
                gone : SUBSET (Buckets \X Games)]
            Over == [stopped : BOOLEAN, archive : BOOLEAN]
            BoxType == [state : {"none", "on", "stopped"}, run : Dates, lull : 0..Days, since : Dates,
                        ended : BOOLEAN, launches : 0..Launches]
            MarksType == [seen : Dates, kept : [Buckets -> [Games -> Dates]]]
<1>1. LaptopTypeOK' /\ crossed' \in BOOLEAN
  BY DEF WatchdogMoves, ArchiveTypeOK, LaptopTypeOK, laptop
<1>2. check \in CheckType /\ checked \in Over /\ Idle \in CheckType
  BY DatesAre DEF ArchiveTypeOK, ExpiryTypeOK, Idle, Buckets
<1>3. s3 \in S3 /\ marks \in [seen : Dates, kept : [Buckets -> [Games -> Dates]]]
      /\ deployed \in {0, Days} /\ trouble \in [missed : 0..Troubles, refused : 0..Troubles]
      /\ box \in [state : {"none", "on", "stopped"}, run : Dates, lull : 0..Days, since : Dates,
                  ended : BOOLEAN, launches : 0..Launches]
  BY DEF ArchiveTypeOK, SharedTypeOK, S3
<1>4. Missed => trouble' \in [missed : 0..Troubles, refused : 0..Troubles]
  BY <1>3 DEF CanFail, Missed
<1>5. Done => check' \in CheckType /\ checked' \in Over
  BY <1>2 DEF Done
<1>6. ASSUME NEW c \in CheckType, GoesTo(c) PROVE check' \in CheckType /\ checked' \in Over
  BY <1>2, <1>6 DEF GoesTo
<1>7. ASSUME NEW fits(_) PROVE Marked(fits) \subseteq Buckets \X Games
  BY DEF Marked
<1>8. UNCHANGED expiry => check' \in CheckType /\ checked' \in Over
  BY <1>2 DEF expiry
<1>d. {} \in Dates /\ {0} \in Dates
  BY DatesAre
<1>. USE <1>2, <1>3
<1>9. ExpiryTypeOK'
  <2>. SUFFICES check' \in CheckType /\ checked' \in Over
    BY DEF ExpiryTypeOK
  <2>1. CASE MarkGone \/ MarkGoneFails
    BY <1>8, <2>1 DEF MarkGone, MarkGoneFails
  <2>2. CASE ExpireStopped
    BY <2>2 DEF ExpireStopped
  <2>3. CASE SeesBox \/ Off \/ FindsNone \/ StartsCounting \/ Counting \/ TrailSaysUsed \/ BoxAppeared \/ DropMarks
             \/ DeleteCutOff \/ CheckFails \/ BucketVanished
    BY <1>5, <2>3 DEF SeesBox, Off, FindsNone, StartsCounting, Counting, TrailSaysUsed, BoxAppeared, DropMarks,
       DeleteCutOff, CheckFails, BucketVanished
  <2>4. CASE SeesNoBox
    BY <1>6, <2>4 DEF SeesNoBox, Idle
  <2>5. CASE PastTheWindow
    BY <1>6, <2>5 DEF PastTheWindow
  <2>6. CASE TrailSaysUnused
    BY <1>6, <2>6 DEF TrailSaysUnused
  <2>7. CASE LastLook
    BY <1>6, <1>7, <2>7 DEF LastLook, S3
  <2>8. CASE ReadIndex
    <3>1. PICK b \in check.todo \cap s3.exists :
            LET due == {g \in s3.index[b] : PastDue(b, g)}
                stay == s3.index[b] \ due IN
            GoesTo([check EXCEPT !.at = IF due = {} /\ stay # {} THEN "index" ELSE "delete",
                               !.todo = @ \ {b}, !.bucket = b, !.due = due, !.stay = stay])
      BY <2>8 DEF ReadIndex
    <3>2. b \in Buckets /\ {g \in s3.index[b] : PastDue(b, g)} \subseteq Games
          /\ s3.index[b] \ {g \in s3.index[b] : PastDue(b, g)} \subseteq Games
      BY DEF S3
    <3>3. QED BY <1>6, <3>1, <3>2
  <2>9. CASE DeleteBucketWhole \/ DeleteGames \/ PutIndex
    <3>1. \A pairs \in SUBSET (Buckets \X Games), at \in {"index", "put"} : WithGone(at, pairs) \in CheckType
      BY DEF WithGone
    <3>2. {check.bucket} \X Games \subseteq Buckets \X Games /\ {check.bucket} \X check.due \subseteq Buckets \X Games
      OBVIOUS
    <3>3. CASE DeleteBucketWhole
      BY <1>6, <3>1, <3>2, <3>3 DEF DeleteBucketWhole
    <3>4. CASE DeleteGames
      BY <1>6, <3>1, <3>2, <3>4 DEF DeleteGames
    <3>5. CASE PutIndex
      BY <1>6, <3>1, <3>5 DEF PutIndex
    <3>6. QED BY <2>9, <3>3, <3>4, <3>5
  <2>10. QED BY <2>1, <2>2, <2>3, <2>4, <2>5, <2>6, <2>7, <2>8, <2>9 DEF WatchdogMoves, ExpiryNext, Check
<1>10. SharedTypeOK'
  <2>. USE DEF ArchiveTypeOK, SharedTypeOK
  <2>1. CASE MarkGone \/ MarkGoneFails
    <3>1. box' \in BoxType
      <4>1. box \in BoxType
        BY <1>3
      <4>2. box' = [box EXCEPT !.ended = FALSE]
        BY <2>1 DEF MarkGone, MarkGoneFails
      <4>. HIDE <1>2, <1>3
      <4>3. QED BY <4>1, <4>2
    <3>2. marks' \in MarksType
      BY <1>d, <2>1 DEF MarkGone, MarkGoneFails
    <3>3. QED BY <1>4, <2>1, <3>1, <3>2 DEF MarkGone, MarkGoneFails
  <2>2. CASE ExpireStopped
    BY <2>2, DatesAre DEF ExpireStopped, NoBox
  <2>3. CASE SeesBox \/ StartsCounting \/ TrailSaysUsed
    <3>1. marks' \in MarksType
      BY <1>d, <2>3 DEF SeesBox, StartsCounting, TrailSaysUsed
    <3>2. QED BY <2>3, <3>1 DEF SeesBox, StartsCounting, TrailSaysUsed
  <2>4. CASE UNCHANGED shared
    BY <2>4 DEF shared
  <2>5. CASE DeleteBucketWhole \/ DeleteGames \/ PutIndex \/ DeleteCutOff
    <3>1. s3' \in S3
      BY <2>5, WithoutBucketIs, WithoutIs, WithIndexIs, CutIs DEF DeleteBucketWhole, DeleteGames, PutIndex, DeleteCutOff
    <3>2. QED BY <1>4, <2>5, <3>1 DEF DeleteBucketWhole, DeleteGames, PutIndex, DeleteCutOff, S3
  <2>6. CASE DropMarks
    <3>1. marks' \in MarksType
      <4>1. [b \in Buckets |-> [g \in Games |-> IF <<b, g>> \in check.gone \cap check.kept THEN {} ELSE marks.kept[b][g]]]
              \in [Buckets -> [Games -> Dates]]
        BY <1>d
      <4>2. QED BY <2>6, <4>1 DEF DropMarks
    <3>2. QED BY <2>6, <3>1 DEF DropMarks
  <2>7. CASE CheckFails
    BY <1>4, <2>7 DEF CheckFails
  <2>8. QED BY <2>1, <2>2, <2>3, <2>4, <2>5, <2>6, <2>7
            DEF WatchdogMoves, ExpiryNext, Check, Off, SeesNoBox, FindsNone, Counting, PastTheWindow,
                TrailSaysUnused, BoxAppeared, LastLook, ReadIndex, BucketVanished
<1>11. QED BY <1>1, <1>9, <1>10 DEF ArchiveTypeOK

LEMMA TypeStep == ArchiveTypeOK /\ [ArchiveNext]_archiveVars => ArchiveTypeOK'
<1>1. ArchiveTypeOK /\ UNCHANGED archiveVars => ArchiveTypeOK'
  BY DEF archiveVars, shared, expiry, laptop, ArchiveTypeOK, SharedTypeOK, ExpiryTypeOK, LaptopTypeOK
<1>2. QED BY <1>1, BoxTypes, HourTypes, LaptopTypes, WatchdogTypes DEF ArchiveNext
-----------------------------------------------------------------------------
(* How old the mark may be.                                                   *)

\* The mark, or the last launch, is hardly older than the last box and the checks
\* that were missed: a check that finds a box renews it.
Recent(hours) == \E n \in marks.seen \cup box.run : n <= hours
Counts ==
  (deployed = Days \/ check.at # "idle") /\ marks.seen # {} =>
     IF box.state = "none" THEN Recent(box.lull + trouble.missed + 1)
     ELSE Recent(trouble.missed + (IF checked.archive THEN 0 ELSE 1))

\* A check that goes on began this hour, without a box.
Began ==
  check.at # "idle" =>
    /\ ~checked.archive /\ check.days = Days
    /\ box.state \in {"none", "on"} /\ (box.state = "on" => box.run = {0})

\* Past the window: the mark was as old as it can be, and then the trail too.
Past ==
  check.at \in {"trail", "boxes"} =>
    /\ Days <= box.lull + trouble.missed + 1 \/ \E n \in box.run : n <= box.lull + trouble.missed + 1
    /\ check.at = "boxes" /\ box.state = "none" => ~Within(box.run, Days)

MarkInv == ArchiveTypeOK /\ Counts /\ Began /\ Past

\* The games are not kept for ever for a while and then for days again.
StaysOff == deployed = 0 => deployed' = 0

LEMMA MarkInit == ArchiveInit => MarkInv
BY TypeInit DEF MarkInv, ArchiveInit, SharedInit, ExpiryInit, Idle, Counts, Began, Past

LEMMA MarkNumbers ==
  ASSUME ArchiveTypeOK
  PROVE  /\ Days \in Nat \ {0} /\ box.lull \in 0..Days /\ trouble.missed \in Nat
         /\ marks.seen \in Dates /\ box.run \in Dates /\ check.seen \in Dates
         /\ \A n \in marks.seen \cup box.run : n \in 0..Days
         /\ box.state \in {"none", "on", "stopped"} /\ checked.archive \in BOOLEAN
         /\ deployed \in {0, Days}
<1>1. /\ Days \in Nat \ {0} /\ box.lull \in 0..Days
      /\ marks.seen \in Dates /\ box.run \in Dates /\ check.seen \in Dates
      /\ box.state \in {"none", "on", "stopped"} /\ checked.archive \in BOOLEAN
      /\ deployed \in {0, Days}
  BY SharedAssumption DEF SharedAssumption, ArchiveTypeOK, SharedTypeOK, ExpiryTypeOK
<1>2. trouble.missed \in 0..Troubles /\ Troubles \in Nat
  BY SharedAssumption DEF SharedAssumption, ArchiveTypeOK, SharedTypeOK
<1>3. \A n \in marks.seen \cup box.run : n \in 0..Days
  BY <1>1, DatesAre
<1>4. QED BY <1>1, <1>2, <1>3

\* What is left alone: a later bound is a weaker one.
LEMMA MarkKept ==
  ASSUME MarkInv, ArchiveTypeOK', UNCHANGED <<check, checked, marks, box>>, deployed' = Days => deployed = Days,
         trouble'.missed = trouble.missed
  PROVE  MarkInv'
BY DEF MarkInv, Counts, Began, Past, Recent, Within

LEMMA MarkBox ==
  ASSUME MarkInv, ArchiveTypeOK', BoxMoves
  PROVE  MarkInv'
<1>. USE MarkNumbers DEF MarkInv
<1>0. UNCHANGED <<check, checked, marks, deployed, trouble>>
  BY DEF BoxMoves, BoxStep, expiry, Launch, Start, Stop, Terminate, Push
<1>1. CASE Launch
  <2>1. box'.state = "on" /\ box'.run = {0} /\ box'.lull = 0
    BY <1>1 DEF Launch, ArchiveTypeOK, SharedTypeOK
  <2>2. Counts'
    BY <1>0, <2>1 DEF Counts, Recent
  <2>3. QED BY <1>0, <2>1, <2>2 DEF Began, Past
<1>2. CASE (check.at = "idle" /\ Stop) \/ Start
  <2>1. /\ box.state # "none" /\ box'.state # "none" /\ box'.run = box.run /\ box'.lull = box.lull
        /\ check.at = "idle"
    <3>1. check.at = "idle"
      BY <1>2 DEF Stop, Start, BoxMoves, BoxStep, Began
    <3>2. CASE Stop
      BY <3>1, <3>2 DEF Stop, ArchiveTypeOK, SharedTypeOK
    <3>3. CASE Start
      BY <3>1, <3>3 DEF Start, ArchiveTypeOK, SharedTypeOK
    <3>4. QED BY <1>2, <3>2, <3>3
  <2>2. Counts'
    BY <1>0, <2>1 DEF Counts, Recent
  <2>3. QED BY <1>0, <2>1, <2>2 DEF Began, Past
<1>3. CASE check.at = "idle" /\ Terminate
  <2>1. box.state # "none" /\ box'.state = "none" /\ box'.run = box.run /\ box'.lull = box.lull
    BY <1>3 DEF Terminate, NoBox, ArchiveTypeOK, SharedTypeOK
  <2>2. Counts'
    BY <1>0, <2>1 DEF Counts, Recent
  <2>3. QED BY <1>0, <1>3, <2>1, <2>2 DEF Began, Past
<1>4. CASE \E g \in Games : Push(g)
  BY <1>0, <1>4, MarkKept DEF Push
<1>5. QED BY <1>1, <1>2, <1>3, <1>4 DEF BoxMoves, BoxStep

LEMMA MarkHour ==
  ASSUME MarkInv, ArchiveTypeOK', HourGoes
  PROVE  MarkInv'
<1>. USE MarkNumbers DEF MarkInv
<1>1. /\ check.at = "idle" /\ checked.archive /\ ~checked'.archive
      /\ UNCHANGED <<check, deployed, trouble>>
  BY DEF HourGoes, Tick, Aged, Began
<1>2. /\ marks'.seen = Later(marks.seen) /\ box'.run = Later(box.run) /\ box'.state = box.state
      /\ box'.lull = IF box.state # "none" THEN 0 ELSE IF box.lull < Days THEN box.lull + 1 ELSE box.lull
  BY DEF HourGoes, Tick, Aged, ArchiveTypeOK, SharedTypeOK
<1>3. Counts'
  <2>. SUFFICES ASSUME deployed = Days, marks'.seen # {}
                PROVE  IF box.state = "none" THEN Recent(box.lull + trouble.missed + 1)'
                       ELSE Recent(trouble.missed + 1)'
    BY <1>1, <1>2 DEF Counts, Recent
  <2>1. marks.seen # {}
    BY <1>2, DatesAre
  <2>2. PICK n \in marks.seen \cup box.run :
          n <= IF box.state = "none" THEN box.lull + trouble.missed + 1 ELSE trouble.missed
    BY <1>1, <2>1 DEF Counts, Recent
  <2>3. (IF n < Days THEN n + 1 ELSE n) \in marks'.seen \cup box'.run
    BY <1>2, <2>2, DatesAre
  <2>4. CASE box.state = "none"
    <3>1. (IF n < Days THEN n + 1 ELSE n) <= box'.lull + trouble'.missed + 1
      BY <1>1, <1>2, <2>2, <2>4
    <3>2. QED BY <2>3, <2>4, <3>1 DEF Recent
  <2>5. CASE box.state # "none"
    <3>1. (IF n < Days THEN n + 1 ELSE n) <= trouble'.missed + 1
      BY <1>1, <2>2, <2>5
    <3>2. QED BY <2>3, <2>5, <3>1 DEF Recent
  <2>6. QED BY <2>4, <2>5
<1>4. QED BY <1>1, <1>3 DEF Began, Past

LEMMA MarkLaptop ==
  ASSUME MarkInv, ArchiveTypeOK', LaptopMoves, StaysOff
  PROVE  MarkInv'
<1>1. /\ UNCHANGED <<check, checked, box>> /\ marks'.seen = marks.seen /\ trouble'.missed = trouble.missed
  <2>1. UNCHANGED <<check, checked>>
    BY SMTT(30) DEF LaptopMoves, expiry
  <2>2. LaptopBegins => UNCHANGED <<box, trouble>> /\ marks'.seen = marks.seen
    BY DEF LaptopBegins, Clean, KeepFor, ForgetLogin, Move, Forget, Reset, shared, MarkInv, ArchiveTypeOK, SharedTypeOK
  <2>3. Refused => trouble'.missed = trouble.missed
    BY DEF Refused, MarkInv, ArchiveTypeOK, SharedTypeOK
  <2>4. LaptopSteps => UNCHANGED box /\ trouble'.missed = trouble.missed /\ marks'.seen = marks.seen
    BY <2>3 DEF LaptopSteps, DeleteFiles, DeletePart, PutLeft, RemoveBucket, CopyFolders, CopyStops,
       CopyFiles, CopyFilesFails, CopyMatches, CopyDiffers, MoveIndex, WriteRefused, DeleteOrphans, Deploys,
       Interrupt, BucketGone, shared, MarkInv, ArchiveTypeOK, SharedTypeOK
  <2>5. QED BY <2>1, <2>2, <2>4 DEF LaptopMoves
<1>2. deployed' = Days => deployed = Days
  BY MarkNumbers DEF MarkInv, StaysOff
<1>3. QED BY <1>1, <1>2 DEF MarkInv, Counts, Began, Past, Recent, Within

LEMMA MarkWatchdog ==
  ASSUME MarkInv, ArchiveTypeOK', WatchdogMoves(ExpiryNext)
  PROVE  MarkInv'
<1>. USE MarkNumbers DEF MarkInv
<1>. DEFINE Bound == box.lull + trouble.missed + 1
\* A check that ends.
<1>0. ASSUME Done, UNCHANGED <<box, deployed>>, trouble'.missed >= trouble.missed,
             marks'.seen = marks.seen, box.state = "none" \/ box.run = {0} \/ trouble'.missed > trouble.missed
      PROVE  MarkInv'
  <2>1. check'.at = "idle" /\ checked'.archive
    BY <1>0 DEF Done, Idle, ArchiveTypeOK, ExpiryTypeOK
  <2>2. trouble'.missed \in Nat
    BY DEF ArchiveTypeOK, SharedTypeOK
  <2>3. Counts'
    BY <1>0, <2>1, <2>2 DEF Counts, Recent
  <2>4. QED BY <2>1, <2>3 DEF Began, Past
<1>a. ASSUME Done, UNCHANGED <<box, deployed, trouble>>, \E n \in marks'.seen : n <= trouble.missed
      PROVE  MarkInv'
  <2>1. check'.at = "idle" /\ checked'.archive
    BY <1>a DEF Done, Idle, ArchiveTypeOK, ExpiryTypeOK
  <2>2. \A n \in marks'.seen : n <= trouble.missed => n <= Bound
    BY DEF ArchiveTypeOK, SharedTypeOK, Dates
  <2>3. Counts'
    BY <1>a, <2>1, <2>2 DEF Counts, Recent
  <2>4. QED BY <2>1, <2>3 DEF Began, Past
<1>b. check.at # "idle" => box.state = "none" \/ box.run = {0}
  BY DEF Began
<1>c. Missed => trouble'.missed = trouble.missed + 1
  BY DEF Missed, ArchiveTypeOK, SharedTypeOK
<1>1. CASE MarkGone
  <2>1. UNCHANGED <<check, checked, deployed, trouble>>
    BY <1>1 DEF MarkGone, expiry
  <2>2. /\ box'.run = box.run /\ box'.state = box.state /\ box'.lull = box.lull
        /\ marks'.seen = IF deployed = 0 THEN marks.seen ELSE {0}
    BY <1>1 DEF MarkGone, ArchiveTypeOK, SharedTypeOK
  <2>3. Counts'
    BY <2>1, <2>2 DEF Counts, Recent
  <2>4. QED BY <2>1, <2>2, <2>3 DEF Began, Past, Within
<1>2. CASE MarkGoneFails
  <2>1. UNCHANGED <<check, checked, deployed, marks>> /\ trouble'.missed = trouble.missed + 1
    BY <1>2, <1>c DEF MarkGoneFails, expiry
  <2>2. box'.run = box.run /\ box'.state = box.state /\ box'.lull = box.lull
    BY <1>2 DEF MarkGoneFails, ArchiveTypeOK, SharedTypeOK
  <2>3. Counts'
    BY <2>1, <2>2 DEF Counts, Recent
  <2>4. Past'
    <3>. SUFFICES ASSUME check.at \in {"trail", "boxes"}
                  PROVE  /\ Days <= Bound + 1 \/ \E n \in box.run : n <= Bound + 1
                         /\ check.at = "boxes" /\ box.state = "none" => ~Within(box.run, Days)
      BY <2>1, <2>2 DEF Past, Within
    <3>1. QED BY DEF Past
  <2>5. QED BY <2>1, <2>2, <2>3, <2>4 DEF Began
<1>3. CASE ExpireStopped
  <2>1. UNCHANGED <<check, deployed, marks, trouble>> /\ checked'.archive = checked.archive
    BY <1>3 DEF ExpireStopped, ArchiveTypeOK, ExpiryTypeOK
  <2>2. /\ box'.run = box.run /\ box'.lull = box.lull
        /\ box'.state = box.state \/ (box.state = "stopped" /\ box'.state = "none")
    <3>0. box = [state |-> box.state, run |-> box.run, lull |-> box.lull, since |-> box.since,
                 ended |-> box.ended, launches |-> box.launches]
      BY DEF ArchiveTypeOK, SharedTypeOK
    <3>1. box' = box \/ (box.state = "stopped" /\ (box' = [box EXCEPT !.since = {0}] \/ box' = NoBox))
      BY <1>3 DEF ExpireStopped
    <3>2. [box EXCEPT !.since = {0}].run = box.run /\ [box EXCEPT !.since = {0}].lull = box.lull
          /\ [box EXCEPT !.since = {0}].state = box.state
      BY <3>0
    <3>3. NoBox.run = box.run /\ NoBox.lull = box.lull /\ NoBox.state = "none"
      BY <3>0 DEF NoBox
    <3>4. CASE box' = box
      BY <3>4
    <3>5. CASE box' = [box EXCEPT !.since = {0}]
      BY <3>2, <3>5
    <3>6. CASE box.state = "stopped" /\ box' = NoBox
      BY <3>3, <3>6
    <3>7. QED BY <3>1, <3>4, <3>5, <3>6
  <2>3. Counts'
    BY <2>1, <2>2 DEF Counts, Recent
  <2>4. QED BY <2>1, <2>2, <2>3 DEF Began, Past, Within
<1>4. CASE SeesBox
  <2>1. \E n \in marks'.seen : n <= trouble.missed
    BY <1>4 DEF SeesBox, Within, ArchiveTypeOK, SharedTypeOK
  <2>2. QED BY <1>4, <1>a, <2>1 DEF SeesBox
<1>5. CASE Off
  <2>1. /\ check'.at = "idle" /\ checked'.archive /\ deployed' # Days
    BY <1>5 DEF Off, Done, Idle, shared, ArchiveTypeOK, ExpiryTypeOK
  <2>2. QED BY <2>1 DEF Counts, Began, Past
<1>6. CASE SeesNoBox
  <2>1. /\ check.at = "idle" /\ check'.at = "size" /\ check'.days = deployed /\ deployed = Days
        /\ ~checked.archive /\ box.state = "none" /\ UNCHANGED <<checked, box, marks, deployed, trouble>>
    BY <1>6 DEF SeesNoBox, GoesTo, Idle, shared
  <2>2. Counts'
    BY <2>1 DEF Counts, Recent
  <2>3. QED BY <2>1, <2>2 DEF Began, Past
<1>7. CASE FindsNone \/ Counting \/ BoxAppeared \/ BucketVanished
  BY <1>7, <1>0, <1>b DEF FindsNone, Counting, BoxAppeared, BucketVanished, shared
<1>8. CASE StartsCounting
  <2>1. marks'.seen = {0}
    BY <1>8 DEF StartsCounting, ArchiveTypeOK, SharedTypeOK
  <2>2. QED BY <1>8, <1>a, <2>1 DEF StartsCounting
<1>9. CASE PastTheWindow
  <2>1. /\ check.at = "size" /\ check'.at = "trail" /\ check'.days = check.days
        /\ UNCHANGED <<checked, box, marks, deployed, trouble>>
        /\ marks.seen # {} /\ ~Within(marks.seen, check.days)
    BY <1>9 DEF PastTheWindow, GoesTo, shared, ArchiveTypeOK, ExpiryTypeOK
  <2>2. \A n \in marks.seen : n >= Days
    BY <2>1 DEF Within, Began
  <2>3. Days <= Bound \/ \E n \in box.run : n <= Bound
    BY <1>b, <2>1, <2>2 DEF Counts, Recent
  <2>4. Counts' /\ Began' /\ Past'
    BY <2>1, <2>3 DEF Counts, Recent, Began, Past
  <2>5. QED BY <2>4
<1>10. CASE TrailSaysUsed
  <2>1. /\ check.at = "trail" /\ Within(box.run, Days) /\ marks'.seen = box.run /\ Done
        /\ UNCHANGED <<box, deployed, trouble>>
    BY <1>10 DEF TrailSaysUsed, Began, ArchiveTypeOK, SharedTypeOK
  <2>2. check'.at = "idle" /\ checked'.archive
    BY <2>1 DEF Done, Idle, ArchiveTypeOK, ExpiryTypeOK
  <2>3. PICK n \in box.run : n < Days /\ box.run = {n}
    BY <2>1, DatesAre DEF Within
  <2>4. n <= Bound
    BY <2>1, <2>3 DEF Past
  <2>5. Counts'
    BY <1>b, <2>1, <2>2, <2>3, <2>4 DEF Counts, Recent
  <2>6. QED BY <2>2, <2>5 DEF Began, Past
<1>11. CASE TrailSaysUnused
  <2>1. /\ check.at = "trail" /\ check'.at = "boxes" /\ check'.days = check.days /\ ~Within(box.run, check.days)
        /\ UNCHANGED <<checked, box, marks, deployed, trouble>>
    BY <1>11 DEF TrailSaysUnused, GoesTo, shared, ArchiveTypeOK, ExpiryTypeOK
  <2>2. QED BY <2>1 DEF Counts, Recent, Began, Past, Within
<1>12. CASE LastLook \/ ReadIndex \/ DeleteBucketWhole \/ DeleteGames \/ PutIndex
  <2>1. /\ check.at # "idle" /\ check'.at \in {"index", "delete", "put"} /\ check'.days = check.days
        /\ UNCHANGED <<checked, box, marks, deployed, trouble>>
    <3>1. CASE LastLook
      BY <3>1, SMTT(30) DEF LastLook, GoesTo, shared, ArchiveTypeOK, ExpiryTypeOK
    <3>2. CASE ReadIndex
      BY <3>2, ZenonT(40) DEF ReadIndex, GoesTo, shared, ArchiveTypeOK, ExpiryTypeOK
    <3>3. CASE DeleteBucketWhole \/ DeleteGames \/ PutIndex
      <4>1. CASE DeleteBucketWhole
        BY <4>1 DEF DeleteBucketWhole, GoesTo, WithGone, ArchiveTypeOK, ExpiryTypeOK
      <4>2. CASE DeleteGames
        BY <4>2 DEF DeleteGames, GoesTo, WithGone, ArchiveTypeOK, ExpiryTypeOK
      <4>3. CASE PutIndex
        BY <4>3 DEF PutIndex, GoesTo, WithGone, ArchiveTypeOK, ExpiryTypeOK
      <4>4. QED BY <3>3, <4>1, <4>2, <4>3
    <3>4. QED BY <1>12, <3>1, <3>2, <3>3
  <2>2. QED BY <2>1 DEF Counts, Recent, Began, Past
<1>13. CASE DropMarks
  <2>1. marks'.seen = marks.seen
    BY <1>13 DEF DropMarks, ArchiveTypeOK, SharedTypeOK
  <2>2. QED BY <1>13, <1>0, <1>b, <2>1 DEF DropMarks
<1>14. CASE DeleteCutOff \/ CheckFails
  BY <1>14, <1>0, <1>c DEF DeleteCutOff, CheckFails
<1>15. QED BY <1>1, <1>2, <1>3, <1>4, <1>5, <1>6, <1>7, <1>8, <1>9, <1>10, <1>11, <1>12, <1>13, <1>14
          DEF WatchdogMoves, ExpiryNext, Check

LEMMA MarkStep == MarkInv /\ [ArchiveNext /\ StaysOff]_archiveVars => MarkInv'
<1>1. MarkInv /\ UNCHANGED archiveVars => MarkInv'
  <2>. SUFFICES ASSUME MarkInv, UNCHANGED archiveVars PROVE MarkInv'
    OBVIOUS
  <2>1. ArchiveTypeOK'
    BY TypeStep DEF MarkInv
  <2>2. QED BY <2>1, MarkKept DEF archiveVars, shared, expiry
<1>2. MarkInv /\ ArchiveNext /\ StaysOff => MarkInv'
  BY TypeStep, MarkBox, MarkHour, MarkLaptop, MarkWatchdog DEF MarkInv, ArchiveNext
<1>3. QED BY <1>1, <1>2

LEMMA NotTooSoon ==
  MarkInv /\ [ArchiveNext]_archiveVars =>
    (check.at = "boxes" /\ check'.at = "index" => box.lull + 1 + trouble.missed >= Days)
<1>. SUFFICES ASSUME MarkInv, [ArchiveNext]_archiveVars, check.at = "boxes", check'.at = "index"
              PROVE  box.lull + 1 + trouble.missed >= Days
  OBVIOUS
<1>. USE MarkNumbers DEF MarkInv
<1>1. WatchdogMoves(ExpiryNext)
  BY DEF ArchiveNext, archiveVars, BoxMoves, LaptopMoves, HourGoes, Tick, expiry
<1>2. LastLook
  BY <1>1 DEF WatchdogMoves, ExpiryNext, Check, SeesBox, Off, SeesNoBox, FindsNone, StartsCounting, Counting,
     PastTheWindow, TrailSaysUsed, TrailSaysUnused, BoxAppeared, ReadIndex, DeleteBucketWhole, DeleteGames,
     PutIndex, DropMarks, BucketVanished, DeleteCutOff, CheckFails, ExpireStopped, MarkGone, MarkGoneFails,
     Done, Idle, expiry
<1>3. box.state = "none"
  BY <1>2 DEF LastLook
<1>4. \A n \in box.run : n >= Days
  BY <1>3 DEF Past, Within
<1>5. QED BY <1>4 DEF Past

\* Wherever the games are not kept for ever for a while and then for days again (which
\* takes two commands of keep-for): a check deletes what is unused only when no box
\* has existed for the days, but for an hour and a check for each that was missed
\* (expire_archive).
THEOREM NeverTooSoon == ArchiveSpec /\ [][StaysOff]_archiveVars => NothingTooSoon
<1>1. MarkInv /\ [ArchiveNext]_archiveVars /\ [StaysOff]_archiveVars => MarkInv'
  BY MarkStep
<1>2. QED BY MarkInit, <1>1, NotTooSoon, PTL DEF ArchiveSpec, NothingTooSoon

\* One command is not two.
OnceOff ==
  /\ ArchiveTypeOK
  /\ given = 0 => deployed = Days /\ cmd.at = "idle"
  /\ deployed = 0 => cmd.at = "idle"

LEMMA OnceOffStep ==
  ASSUME Commands <= 1, OnceOff, [ArchiveNext]_archiveVars
  PROVE  OnceOff' /\ [StaysOff]_archiveVars
<1>. USE SharedAssumption, LaptopAssumption DEF SharedAssumption, LaptopAssumption, OnceOff
<1>0. ArchiveTypeOK' /\ given \in 0..Commands /\ deployed \in {0, Days}
  BY TypeStep DEF ArchiveTypeOK, LaptopTypeOK, SharedTypeOK
<1>1. CASE UNCHANGED <<given, cmd, deployed>>
  BY <1>0, <1>1 DEF StaysOff
<1>2. CASE LaptopMoves
  <2>1. CASE LaptopBegins
    <3>1. given = 0 /\ given' = 1 /\ deployed = Days /\ UNCHANGED deployed
      <4>1. given < Commands /\ given' = given + 1
        BY <2>1 DEF LaptopBegins, Clean, KeepFor, ForgetLogin, Move, Forget, Reset, Begins
      <4>2. UNCHANGED deployed
        BY <2>1 DEF LaptopBegins, Clean, KeepFor, ForgetLogin, Move, Forget, Reset, shared
      <4>3. QED BY <1>0, <4>1, <4>2
    <3>2. QED BY <1>0, <3>1 DEF StaysOff
  <2>2. CASE Deploys
    <3>1. cmd.at = "deploy" /\ cmd'.at = "idle" /\ UNCHANGED given
      BY <2>2 DEF Deploys, At, Ends, NoCmd
    <3>2. deployed = Days /\ deployed' = 0
      BY <1>0, <2>2, <3>1 DEF Deploys
    <3>3. QED BY <1>0, <3>1, <3>2 DEF StaysOff
  <2>3. CASE LaptopSteps /\ ~Deploys
    <3>1. cmd.at # "idle" /\ UNCHANGED <<given, deployed>>
      BY <1>0, <2>3 DEF LaptopSteps, DeleteFiles, DeletePart, PutLeft, RemoveBucket, CopyFolders, CopyStops,
       CopyFiles, CopyFilesFails, CopyMatches, CopyDiffers, MoveIndex, WriteRefused, DeleteOrphans,
       Interrupt, BucketGone, shared, GoesOn, Ends, Refused, At, Uses
    <3>2. QED BY <1>0, <3>1 DEF StaysOff
  <2>4. QED BY <1>2, <2>1, <2>2, <2>3 DEF LaptopMoves
<1>3. CASE BoxMoves
  BY <1>1, <1>3 DEF BoxMoves, laptop, BoxStep, Launch, Start, Stop, Terminate, Push
<1>4. CASE HourGoes
  BY <1>1, <1>4 DEF HourGoes, Tick, Aged, laptop
<1>5. CASE WatchdogMoves(ExpiryNext)
  BY <1>1, <1>5 DEF WatchdogMoves, laptop, ExpiryNext, Check, SeesBox, Off, SeesNoBox, FindsNone, StartsCounting, Counting,
     PastTheWindow, TrailSaysUsed, TrailSaysUnused, BoxAppeared, LastLook, ReadIndex, DeleteBucketWhole, DeleteGames,
     PutIndex, DropMarks, BucketVanished, DeleteCutOff, CheckFails, ExpireStopped, MarkGone, MarkGoneFails, shared
<1>6. CASE UNCHANGED archiveVars
  BY <1>1, <1>6 DEF archiveVars, laptop, shared
<1>7. QED BY <1>2, <1>3, <1>4, <1>5, <1>6 DEF ArchiveNext

\* In particular as the run of archive_life has it, with one command.
THEOREM OneCommandNotTooSoon == Commands <= 1 => (ArchiveSpec => NothingTooSoon)
<1>. SUFFICES ASSUME Commands <= 1 PROVE ArchiveSpec => NothingTooSoon
  OBVIOUS
<1>1. ArchiveInit => OnceOff
  BY TypeInit, SharedAssumption DEF OnceOff, ArchiveInit, LaptopInit, SharedInit, NoCmd, SharedAssumption
<1>2. OnceOff /\ [ArchiveNext]_archiveVars => OnceOff' /\ [StaysOff]_archiveVars
  BY OnceOffStep
<1>3. ArchiveSpec => [][StaysOff]_archiveVars
  BY <1>1, <1>2, PTL DEF ArchiveSpec
<1>4. QED BY <1>3, NeverTooSoon
-----------------------------------------------------------------------------
(* What two programs have made of the archive, unless they crossed.           *)

\* What a check has read is so, and no command runs while it deletes.
CheckRead ==
  /\ check.at \in {"delete", "put"} => cmd.at = "idle"
  /\ check.at = "delete" => s3.index[check.bucket] = check.due \cup check.stay
  /\ check.at = "put" =>
       \A g \in s3.index[check.bucket] \ check.stay : s3.folders[check.bucket][g] = "none"

\* What a command has read is so, step by step.
ForgetRead ==
  cmd.op = "forget" =>
    /\ cmd.at \in {"delete", "put", "bucket"}
    /\ cmd.at \in {"delete", "put"} => s3.index[cmd.from] = cmd.src
MoveRead ==
  cmd.op = "move" =>
    /\ cmd.from = There
    /\ cmd.at \in {"copy", "copied", "files", "index", "delete", "put", "bucket"}
    /\ cmd.at # "bucket" => s3.index[There] = cmd.src /\ cmd.game \in cmd.src
    /\ cmd.at \in {"copy", "copied", "files", "index"} => s3.index[Here] = cmd.dst
    /\ cmd.at \in {"index", "delete"} => s3.folders[Here][cmd.game] = s3.folders[There][cmd.game]
    /\ cmd.at = "delete" => cmd.game \in s3.index[Here]
    /\ cmd.at = "put" => s3.folders[There][cmd.game] = "none"
OthersRead ==
  /\ cmd.op = "clean" => cmd.at = "clean" /\ cmd.orphans \cap s3.index[Here] = {}
  /\ cmd.op = "keep-for" => cmd.at = "deploy"
  /\ cmd.op = "login" => cmd.at \in {"idle", "bucket"}
  /\ cmd.op = "none" => cmd.at = "idle"
CommandRead ==
  /\ cmd.at = "bucket" => s3.index[cmd.from] = {}
  /\ cmd.at # "idle" => ForgetRead /\ MoveRead /\ OthersRead

LossInv == ArchiveTypeOK /\ (~crossed => CheckRead /\ CommandRead)

Letting(g) == Held(g) /\ ~Held(g)' => LetGo(g)

LEMMA LossInit == ArchiveInit => LossInv
BY TypeInit DEF LossInv, ArchiveInit, ExpiryInit, LaptopInit, Idle, NoCmd, CheckRead, CommandRead

\* A game is held where it was.
LEMMA HeldStays ==
  ASSUME ArchiveTypeOK, ArchiveTypeOK', NEW g \in Games,
         \A b \in Buckets : g \in s3.index[b] /\ s3.folders[b][g] = "whole" =>
           \E c \in Buckets : g \in s3'.index[c] /\ s3'.folders[c][g] = "whole"
  PROVE  Held(g) => Held(g)'
BY DEF Held

LEMMA S3Typed == ArchiveTypeOK => s3 \in S3 /\ Here \in Buckets /\ There \in Buckets /\ Here # There
BY SharedAssumption DEF SharedAssumption, ArchiveTypeOK, SharedTypeOK, S3, Buckets

LEMMA LossBox ==
  ASSUME LossInv, ArchiveTypeOK', BoxMoves
  PROVE  LossInv' /\ \A g \in Games : Letting(g)
<1>. USE S3Typed DEF LossInv
<1>1. UNCHANGED <<check, cmd>>
  BY DEF BoxMoves, expiry, laptop
<1>2. ASSUME s3'.index = s3.index, s3'.folders = s3.folders
      PROVE  LossInv' /\ \A g \in Games : Letting(g)
  BY <1>1, <1>2 DEF CheckRead, CommandRead, ForgetRead, MoveRead, OthersRead, Letting, Held, BoxMoves
<1>3. CASE Launch
  BY <1>2, <1>3 DEF Launch, S3
<1>4. CASE Stop \/ Start \/ Terminate
  BY <1>2, <1>4 DEF Stop, Start, Terminate
<1>5. CASE \E g \in Games : check.at = "idle" /\ Push(g)
  <2>1. PICK h \in Games : check.at = "idle" /\ Push(h)
    BY <1>5
  <2>2. s3'.index = [s3.index EXCEPT ![Here] = @ \cup {h}] /\ s3'.folders = [s3.folders EXCEPT ![Here][h] = "whole"]
    BY <2>1 DEF Push, S3
  <2>3. \A g \in Games : Held(g) => Held(g)'
    BY <2>2 DEF Held, S3
  <2>4. CASE cmd.at = "idle"
    BY <1>1, <2>1, <2>3, <2>4 DEF CheckRead, CommandRead, Letting
  <2>5. CASE s3' = s3
    BY <1>2, <2>5
  <2>6. CASE crossed'
    BY <2>3, <2>6 DEF Letting
  <2>7. QED BY <2>4, <2>5, <2>6 DEF BoxMoves
<1>6. QED BY <1>3, <1>4, <1>5 DEF BoxMoves, BoxStep

LEMMA LossWatchdog ==
  ASSUME LossInv, ArchiveTypeOK', WatchdogMoves(ExpiryNext)
  PROVE  LossInv' /\ \A g \in Games : Letting(g)
<1>. USE S3Typed DEF LossInv
<1>0. UNCHANGED cmd /\ (~crossed' => ~crossed /\ (Deleting => cmd.at = "idle"))
  BY DEF WatchdogMoves, laptop
<1>1. SUFFICES ASSUME ~crossed'
               PROVE  CheckRead' /\ CommandRead' /\ \A g \in Games : Letting(g)
  BY DEF Letting, LetGo
<1>2. CheckRead /\ CommandRead /\ check \in [at : {"idle", "size", "trail", "boxes", "index", "delete", "put"},
                days : {0, Days}, seen : Dates, fresh : SUBSET (Buckets \X Games),
                kept : SUBSET (Buckets \X Games), todo : SUBSET Buckets,
                bucket : Buckets, due : SUBSET Games, stay : SUBSET Games,
                gone : SUBSET (Buckets \X Games)]
  BY <1>0, <1>1 DEF ArchiveTypeOK, ExpiryTypeOK
<1>3. ASSUME UNCHANGED s3, check'.at \notin {"delete", "put"} \/ UNCHANGED check
      PROVE  CheckRead' /\ CommandRead' /\ \A g \in Games : Letting(g)
  BY <1>0, <1>2, <1>3 DEF CheckRead, CommandRead, ForgetRead, MoveRead, OthersRead, Letting, Held
<1>4. ASSUME cmd.at = "idle" PROVE CommandRead'
  BY <1>0, <1>4 DEF CommandRead
<1>5. CASE ReadIndex
  <2>1. UNCHANGED s3 /\ cmd.at = "idle"
    BY <1>0, <1>1, <1>5 DEF ReadIndex, shared, Deleting
  <2>2. PICK b \in check.todo \cap s3.exists :
          LET due == {g \in s3.index[b] : PastDue(b, g)}
              stay == s3.index[b] \ due IN
          GoesTo([check EXCEPT !.at = IF due = {} /\ stay # {} THEN "index" ELSE "delete",
                             !.todo = @ \ {b}, !.bucket = b, !.due = due, !.stay = stay])
    BY <1>5 DEF ReadIndex
  <2>3. /\ check'.at \in {"index", "delete"} /\ check'.bucket = b
        /\ s3.index[b] = check'.due \cup check'.stay
    BY <1>2, <2>2 DEF GoesTo
  <2>4. QED BY <1>0, <1>4, <2>1, <2>3 DEF CheckRead, Letting, Held
<1>6. CASE DeleteBucketWhole
  <2>1. /\ check.at = "delete" /\ check.stay = {} /\ s3' = WithoutBucket(s3, check.bucket)
        /\ check'.at = "index" /\ cmd.at = "idle"
    BY <1>0, <1>1, <1>2, <1>6 DEF DeleteBucketWhole, GoesTo, WithGone, Deleting
  <2>2. ASSUME NEW g \in Games, Held(g), ~Held(g)' PROVE g \in check.due
    <3>1. PICK b \in Buckets : g \in s3.index[b] /\ s3.folders[b][g] = "whole"
      BY <2>2 DEF Held
    <3>2. \A c \in Buckets : c # check.bucket => s3'.index[c] = s3.index[c] /\ s3'.folders[c] = s3.folders[c]
      <4>1. check.bucket \in Buckets
        BY <1>2
      <4>2. \A c \in Buckets : c # check.bucket => /\ WithoutBucket(s3, check.bucket).index[c] = s3.index[c]
                                                  /\ WithoutBucket(s3, check.bucket).folders[c] = s3.folders[c]
        BY <4>1, WithoutBucketIs
      <4>3. QED BY <2>1, <4>2
    <3>3. b = check.bucket
      BY <2>2, <3>1, <3>2 DEF Held
    <3>4. s3.index[check.bucket] = check.due \cup {}
      BY <1>2, <2>1 DEF CheckRead
    <3>5. QED BY <3>1, <3>3, <3>4
  <2>3. QED BY <1>0, <1>4, <2>1, <2>2 DEF CheckRead, Letting, LetGo
<1>7. CASE DeleteGames
  <2>1. /\ check.at = "delete" /\ s3' = Without(s3, check.bucket, check.due)
        /\ check'.at = "put" /\ check'.bucket = check.bucket /\ check'.stay = check.stay /\ cmd.at = "idle"
    BY <1>0, <1>1, <1>2, <1>7 DEF DeleteGames, GoesTo, WithGone, Deleting
  <2>2. /\ s3'.index = s3.index
        /\ \A c \in Buckets, g \in Games :
             s3'.folders[c][g] = IF c = check.bucket /\ g \in check.due THEN "none" ELSE s3.folders[c][g]
    BY <1>2, <2>1, WithoutIs
  <2>3. ASSUME NEW g \in Games, Held(g), ~Held(g)' PROVE g \in check.due
    BY <2>2, <2>3 DEF Held
  <2>4. CheckRead'
    BY <1>0, <1>2, <2>1, <2>2 DEF CheckRead, S3
  <2>5. QED BY <1>4, <2>1, <2>3, <2>4 DEF Letting, LetGo
<1>8. CASE PutIndex
  <2>1. /\ check.at = "put" /\ s3' = WithIndex(s3, check.bucket, check.stay)
        /\ check'.at = "index" /\ cmd.at = "idle"
    BY <1>0, <1>1, <1>2, <1>8 DEF PutIndex, GoesTo, WithGone, Deleting
  <2>2. /\ s3'.folders = s3.folders
        /\ \A c \in Buckets : s3'.index[c] = IF c = check.bucket THEN check.stay ELSE s3.index[c]
    BY <1>2, <2>1, WithIndexIs
  <2>3. \A g \in Games : Held(g) => Held(g)'
    BY <1>2, <2>1, <2>2 DEF Held, CheckRead
  <2>4. QED BY <1>4, <2>1, <2>3 DEF CheckRead, Letting
<1>9. CASE DeleteCutOff
  <2>1. PICK h \in check.due : s3' = Cut(s3, check.bucket, h)
    BY <1>9 DEF DeleteCutOff
  <2>h. h \in Games /\ check.bucket \in Buckets
    <3>1. check.due \subseteq Games /\ check.bucket \in Buckets
      BY <1>2
    <3>2. QED BY <2>1, <3>1
  <2>2. check.at = "delete" /\ check'.at = "idle" /\ cmd.at = "idle"
    BY <1>0, <1>1, <1>9 DEF DeleteCutOff, Done, Idle, Deleting
  <2>3. /\ s3'.index = s3.index
        /\ \A c \in Buckets, g \in Games : g # h => s3'.folders[c][g] = s3.folders[c][g]
    <3>1. /\ Cut(s3, check.bucket, h).index = s3.index
          /\ \A c \in Buckets, g \in Games :
               (c # check.bucket \/ g # h) => Cut(s3, check.bucket, h).folders[c][g] = s3.folders[c][g]
      BY <2>h, CutIs
    <3>2. QED BY <2>1, <3>1
  <2>4. ASSUME NEW g \in Games, Held(g), ~Held(g)' PROVE g = h
    BY <2>3, <2>4 DEF Held
  <2>5. QED BY <1>4, <2>1, <2>2, <2>4 DEF CheckRead, Letting, LetGo
<1>10. CASE ~(ReadIndex \/ DeleteBucketWhole \/ DeleteGames \/ PutIndex \/ DeleteCutOff)
  <2>1. CASE MarkGone \/ MarkGoneFails \/ ExpireStopped
    BY <1>3, <2>1 DEF MarkGone, MarkGoneFails, ExpireStopped, expiry
  <2>2. CASE CheckFails
    BY <1>3, <2>2 DEF CheckFails, Done, Idle
  <2>3. CASE Check
    <3>1. UNCHANGED s3
      BY <1>10, <2>3 DEF Check, SeesBox, Off, SeesNoBox, FindsNone, StartsCounting, Counting, PastTheWindow,
         TrailSaysUsed, TrailSaysUnused, BoxAppeared, LastLook, DropMarks, BucketVanished, shared
    <3>2. \/ Done
          \/ \E at \in {"size", "trail", "boxes", "index"} : check'.at = at
      <4>1. CASE SeesNoBox
        BY <4>1 DEF SeesNoBox, GoesTo, Idle
      <4>2. CASE PastTheWindow
        BY <1>2, <4>2 DEF PastTheWindow, GoesTo
      <4>3. CASE TrailSaysUnused
        BY <1>2, <4>3 DEF TrailSaysUnused, GoesTo
      <4>4. CASE LastLook
        BY <1>2, <4>4 DEF LastLook, GoesTo
      <4>5. QED BY <1>10, <2>3, <4>1, <4>2, <4>3, <4>4 DEF Check, SeesBox, Off, FindsNone, StartsCounting, Counting,
         TrailSaysUsed, BoxAppeared, DropMarks, BucketVanished
    <3>3. check'.at \notin {"delete", "put"}
      BY <3>2 DEF Done, Idle
    <3>4. QED BY <1>3, <3>1, <3>3
  <2>4. QED BY <1>10, <2>1, <2>2, <2>3 DEF WatchdogMoves, ExpiryNext
<1>11. QED BY <1>5, <1>6, <1>7, <1>8, <1>9, <1>10

\* What a command reads when it begins is so.
LEMMA LossBegins ==
  ASSUME LossInv, ArchiveTypeOK', LaptopMoves, LaptopBegins
  PROVE  LossInv' /\ \A g \in Games : Letting(g)
<1>. USE S3Typed DEF LossInv
<1>1. UNCHANGED check /\ (~crossed' => ~crossed /\ ~Deleting)
  BY DEF LaptopMoves, expiry
<1>2. SUFFICES ASSUME ~crossed'
               PROVE  CheckRead' /\ CommandRead' /\ \A g \in Games : Letting(g)
  BY DEF Letting, LetGo
<1>3. CheckRead'
  BY <1>1, <1>2 DEF CheckRead, Deleting
<1>4. s3'.index = s3.index /\ s3'.folders = s3.folders
  BY DEF LaptopBegins, Clean, KeepFor, ForgetLogin, Move, Forget, Reset, shared, S3
<1>5. \A g \in Games : Letting(g)
  BY <1>4 DEF Letting, Held
<1>. DEFINE g0 == CHOOSE g \in Games : TRUE
<1>6. CommandRead'
  <2>1. CASE Clean
    <3>1. cmd'.op = "clean" /\ cmd'.at = "clean" /\ cmd'.orphans = OrphansIn(Here)
      BY <2>1 DEF Clean, Begins, NoCmd
    <3>2. QED BY <1>4, <3>1 DEF CommandRead, ForgetRead, MoveRead, OthersRead, OrphansIn
  <2>2. CASE KeepFor
    <3>1. cmd'.op = "keep-for" /\ cmd'.at = "deploy"
      BY <2>2 DEF KeepFor, Begins, NoCmd
    <3>2. QED BY <3>1 DEF CommandRead, ForgetRead, MoveRead, OthersRead
  <2>3. ASSUME NEW b \in Buckets, ForgetLogin(b) PROVE CommandRead'
    <3>1. /\ cmd'.op = "login" /\ cmd'.from = b
          /\ cmd'.at = IF b # Here /\ s3.index[b] = {} THEN "bucket" ELSE "idle"
      BY <2>3 DEF ForgetLogin, Begins, NoCmd
    <3>2. QED BY <1>4, <3>1 DEF CommandRead, ForgetRead, MoveRead, OthersRead
  <2>4. ASSUME NEW g \in Games, Move(g) PROVE CommandRead'
    <3>1. /\ cmd'.op = "move" /\ cmd'.at = "copy" /\ cmd'.from = There /\ cmd'.game = g
          /\ cmd'.src = s3.index[There] /\ cmd'.dst = s3.index[Here] /\ g \in s3.index[There]
      BY <2>4 DEF Move, Begins, NoCmd
    <3>2. QED BY <1>4, <3>1 DEF CommandRead, ForgetRead, MoveRead, OthersRead
  <2>5. ASSUME NEW g \in Games, NEW b \in Buckets, Forget(b, g) PROVE CommandRead'
    <3>1. /\ cmd'.op = "forget" /\ cmd'.at = "delete" /\ cmd'.from = b /\ cmd'.game = g
          /\ cmd'.src = s3.index[b]
      BY <2>5 DEF Forget, Begins, NoCmd
    <3>2. QED BY <1>4, <3>1 DEF CommandRead, ForgetRead, MoveRead, OthersRead
  <2>6. ASSUME NEW g \in Games, NEW b \in Buckets, Reset(b, g) PROVE CommandRead'
    BY <2>6 DEF Reset, Begins, NoCmd, CommandRead
  <2>7. QED BY <2>1, <2>2, <2>3, <2>4, <2>5, <2>6 DEF LaptopBegins
<1>7. QED BY <1>3, <1>5, <1>6

\* A step of a command keeps what it has read so, and takes no game but its own.
LEMMA LossSteps ==
  ASSUME LossInv, ArchiveTypeOK', LaptopMoves, LaptopSteps
  PROVE  LossInv' /\ \A g \in Games : Letting(g)
<1>. USE S3Typed DEF LossInv
<1>1. UNCHANGED check /\ (~crossed' => ~crossed /\ ~Deleting)
  BY DEF LaptopMoves, expiry
<1>2. SUFFICES ASSUME ~crossed'
               PROVE  CheckRead' /\ CommandRead' /\ \A g \in Games : Letting(g)
  BY DEF Letting, LetGo
<1>3. CheckRead'
  BY <1>1, <1>2 DEF CheckRead, Deleting
<1>4. /\ CommandRead
      /\ cmd \in [op : {"none", "forget", "move", "clean", "keep-for", "login"},
              at : {"idle", "copy", "copied", "files", "index", "delete", "put", "bucket",
                    "clean", "deploy"},
              from : Buckets, game : Games, src : SUBSET Games, dst : SUBSET Games,
              orphans : SUBSET Games]
  BY <1>1, <1>2 DEF ArchiveTypeOK, LaptopTypeOK
<1>5. Ends => cmd'.at = "idle"
  BY DEF Ends, NoCmd
<1>6. cmd'.at = "idle" => CommandRead'
  BY DEF CommandRead
<1>7. \A at \in {"put", "copied", "files", "index", "delete", "bucket"} : GoesOn(at) =>
        /\ cmd'.at = at /\ cmd'.op = cmd.op /\ cmd'.from = cmd.from /\ cmd'.game = cmd.game
        /\ cmd'.src = cmd.src /\ cmd'.dst = cmd.dst /\ cmd'.orphans = cmd.orphans
  BY <1>4 DEF GoesOn
<1>8. ASSUME s3'.index = s3.index, s3'.folders = s3.folders PROVE \A g \in Games : Letting(g)
  BY <1>8 DEF Letting, Held
<1>9. cmd.at # "idle" => ForgetRead /\ MoveRead /\ OthersRead
  BY <1>4 DEF CommandRead
<1>10. CASE DeleteFiles
  <2>1. /\ cmd.at = "delete" /\ cmd'.at = "put" /\ cmd'.op = cmd.op /\ cmd'.from = cmd.from
        /\ cmd'.game = cmd.game /\ cmd'.src = cmd.src
    BY <1>7, <1>10 DEF DeleteFiles, At
  <2>2. /\ s3'.index = s3.index
        /\ \A c \in Buckets, g \in Games :
             s3'.folders[c][g] = IF c = cmd.from /\ g = cmd.game THEN "none" ELSE s3.folders[c][g]
    <3>1. s3' = Without(s3, cmd.from, {cmd.game}) /\ {cmd.game} \in SUBSET Games
      BY <1>4, <1>10 DEF DeleteFiles
    <3>2. QED BY <1>4, <3>1, WithoutIs
  <2>3. cmd.op \in {"forget", "move"}
    BY <1>4, <1>9, <2>1 DEF OthersRead
  <2>4. ASSUME NEW g \in Games, Held(g), ~Held(g)' PROVE LetGo(g)
    <3>1. PICK b \in Buckets : g \in s3.index[b] /\ s3.folders[b][g] = "whole"
      BY <2>4 DEF Held
    <3>2. b = cmd.from /\ g = cmd.game
      BY <2>2, <2>4, <3>1 DEF Held
    <3>3. cmd.op # "move"
      <4>. SUFFICES ASSUME cmd.op = "move" PROVE FALSE
        OBVIOUS
      <4>1. cmd.from = There /\ g \in s3.index[Here] /\ s3.folders[Here][g] = "whole"
        BY <1>9, <2>1, <3>1, <3>2 DEF MoveRead
      <4>2. g \in s3'.index[Here] /\ s3'.folders[Here][g] = "whole"
        BY <2>2, <4>1
      <4>3. QED BY <2>4, <4>2 DEF Held
    <3>4. QED BY <2>3, <3>2, <3>3 DEF LetGo
  <2>5. CommandRead'
    <3>1. ForgetRead'
      BY <1>9, <2>1, <2>2 DEF ForgetRead
    <3>2. MoveRead'
      BY <1>4, <1>9, <2>1, <2>2 DEF MoveRead
    <3>3. OthersRead'
      BY <2>1, <2>3 DEF OthersRead
    <3>4. QED BY <2>1, <3>1, <3>2, <3>3 DEF CommandRead
  <2>6. QED BY <1>3, <2>4, <2>5 DEF Letting
<1>11. CASE DeletePart
  <2>1. cmd.at = "delete" /\ cmd'.at = "idle"
    BY <1>5, <1>11 DEF DeletePart, At, Refused
  <2>2. /\ s3'.index = s3.index
        /\ \A c \in Buckets, h \in Games :
             (c # cmd.from \/ h # cmd.game) => s3'.folders[c][h] = s3.folders[c][h]
    <3>1. cmd.from \in Buckets /\ cmd.game \in Games
      BY <1>4
    <3>2. /\ Cut(s3, cmd.from, cmd.game).index = s3.index
          /\ \A c \in Buckets, h \in Games :
               (c # cmd.from \/ h # cmd.game) => Cut(s3, cmd.from, cmd.game).folders[c][h] = s3.folders[c][h]
      BY <3>1, CutIs
    <3>3. QED BY <1>11, <3>2 DEF DeletePart
  <2>3. cmd.op \in {"forget", "move"}
    BY <1>4, <1>9, <2>1 DEF OthersRead
  <2>4. ASSUME NEW g \in Games, Held(g), ~Held(g)' PROVE LetGo(g)
    <3>1. PICK b \in Buckets : g \in s3.index[b] /\ s3.folders[b][g] = "whole"
      BY <2>4 DEF Held
    <3>2. b = cmd.from /\ g = cmd.game
      BY <2>2, <2>4, <3>1 DEF Held
    <3>3. cmd.op # "move"
      <4>. SUFFICES ASSUME cmd.op = "move" PROVE FALSE
        OBVIOUS
      <4>1. cmd.from = There /\ g \in s3.index[Here] /\ s3.folders[Here][g] = "whole"
        BY <1>9, <2>1, <3>1, <3>2 DEF MoveRead
      <4>2. g \in s3'.index[Here] /\ s3'.folders[Here][g] = "whole"
        BY <2>2, <4>1
      <4>3. QED BY <2>4, <4>2 DEF Held
    <3>4. QED BY <2>3, <3>2, <3>3 DEF LetGo
  <2>5. QED BY <1>3, <1>6, <2>1, <2>4 DEF Letting
<1>12. CASE PutLeft
  <2>1. cmd.at = "put" /\ cmd.op \in {"forget", "move"}
    BY <1>4, <1>9, <1>12 DEF PutLeft, At, OthersRead
  <2>2. /\ s3'.folders = s3.folders
        /\ \A c \in Buckets : s3'.index[c] = IF c = cmd.from THEN Left ELSE s3.index[c]
    <3>1. s3' = WithIndex(s3, cmd.from, Left) /\ Left \in SUBSET Games
      BY <1>4, <1>12 DEF PutLeft, Left
    <3>2. QED BY <1>4, <3>1, WithIndexIs
  <2>3. s3.index[cmd.from] = cmd.src
    BY <1>9, <2>1 DEF ForgetRead, MoveRead
  <2>4. ASSUME NEW g \in Games, Held(g), ~Held(g)' PROVE LetGo(g)
    <3>1. PICK b \in Buckets : g \in s3.index[b] /\ s3.folders[b][g] = "whole"
      BY <2>4 DEF Held
    <3>2. b = cmd.from /\ g = cmd.game
      BY <2>2, <2>3, <2>4, <3>1 DEF Held, Left
    <3>3. cmd.op # "move"
      BY <1>9, <2>1, <3>1, <3>2 DEF MoveRead
    <3>4. QED BY <2>1, <3>2, <3>3 DEF LetGo
  <2>5. CommandRead'
    <3>1. CASE Ends
      BY <1>5, <1>6, <3>1
    <3>2. CASE Left = {} /\ GoesOn("bucket")
      <4>1. /\ cmd'.at = "bucket" /\ cmd'.op = cmd.op /\ cmd'.from = cmd.from
            /\ s3'.index[cmd.from] = {}
        BY <1>4, <1>7, <2>2, <3>2
      <4>2. cmd.op = "move" => cmd.from = There
        BY <1>9, <2>1 DEF MoveRead
      <4>3. QED BY <2>1, <4>1, <4>2 DEF CommandRead, ForgetRead, MoveRead, OthersRead
    <3>3. QED BY <1>12, <3>1, <3>2 DEF PutLeft
  <2>6. QED BY <1>3, <2>4, <2>5 DEF Letting
<1>13. CASE RemoveBucket
  <2>1. cmd.at = "bucket" /\ cmd'.at = "idle" /\ s3' = WithoutBucket(s3, cmd.from)
    BY <1>5, <1>13 DEF RemoveBucket, At
  <2>2. /\ \A c \in Buckets : c # cmd.from => s3'.index[c] = s3.index[c] /\ s3'.folders[c] = s3.folders[c]
        /\ s3.index[cmd.from] = {}
    <3>1. cmd.from \in Buckets
      BY <1>4
    <3>2. \A c \in Buckets : c # cmd.from => /\ WithoutBucket(s3, cmd.from).index[c] = s3.index[c]
                                             /\ WithoutBucket(s3, cmd.from).folders[c] = s3.folders[c]
      BY <3>1, WithoutBucketIs
    <3>3. QED BY <1>4, <2>1, <3>2 DEF CommandRead
  <2>3. \A g \in Games : Held(g) => Held(g)'
    BY <2>2 DEF Held
  <2>4. QED BY <1>3, <1>6, <2>1, <2>3 DEF Letting
<1>14. CASE CopyFolders
  <2>1. /\ cmd.at = "copy" /\ cmd'.at = "copied" /\ cmd'.op = cmd.op /\ cmd'.from = cmd.from
        /\ cmd'.game = cmd.game /\ cmd'.src = cmd.src /\ cmd'.dst = cmd.dst
    BY <1>7, <1>14 DEF CopyFolders, At
  <2>2. /\ s3'.index = s3.index
        /\ \A c \in Buckets, g \in Games :
             s3.folders[c][g] = "whole" => s3'.folders[c][g] = "whole"
    BY <1>4, <1>14 DEF CopyFolders, Joined, S3
  <2>3. \A g \in Games : Held(g) => Held(g)'
    BY <2>2 DEF Held
  <2>4. cmd.op = "move"
    BY <1>4, <1>9, <2>1 DEF ForgetRead, OthersRead
  <2>5. CommandRead'
    BY <1>9, <2>1, <2>2, <2>4 DEF CommandRead, ForgetRead, MoveRead, OthersRead
  <2>6. QED BY <1>3, <2>3, <2>5 DEF Letting
<1>15. CASE CopyStops
  <2>1. cmd'.at = "idle"
    BY <1>5, <1>15 DEF CopyStops, Refused
  <2>2. /\ s3'.index = s3.index
        /\ \A c \in Buckets, g \in Games :
             s3.folders[c][g] = "whole" => s3'.folders[c][g] = "whole"
    BY <1>4, <1>15 DEF CopyStops, S3
  <2>3. \A g \in Games : Held(g) => Held(g)'
    BY <2>2 DEF Held
  <2>4. QED BY <1>3, <1>6, <2>1, <2>3 DEF Letting
<1>16. CASE MoveIndex
  <2>1. /\ cmd.at = "index" /\ cmd'.at = "delete" /\ cmd'.op = cmd.op /\ cmd'.from = cmd.from
        /\ cmd'.game = cmd.game /\ cmd'.src = cmd.src /\ cmd'.dst = cmd.dst
    BY <1>7, <1>16 DEF MoveIndex, At
  <2>2. cmd.op = "move"
    BY <1>4, <1>9, <2>1 DEF ForgetRead, OthersRead
  <2>3. s3.index[Here] = cmd.dst /\ cmd.game \in cmd.src /\ s3.index[There] = cmd.src /\ cmd.from = There
        /\ s3.folders[Here][cmd.game] = s3.folders[There][cmd.game]
    BY <1>9, <2>1, <2>2 DEF MoveRead
  <2>4. /\ s3'.folders = s3.folders
        /\ \A c \in Buckets : s3'.index[c] = IF c = Here THEN cmd.dst \cup ({cmd.game} \cap cmd.src) ELSE s3.index[c]
    <3>1. cmd.dst \cup ({cmd.game} \cap cmd.src) \in SUBSET Games
      BY <1>4
    <3>2. QED BY <1>16, <3>1, WithIndexIs DEF MoveIndex
  <2>5. \A g \in Games : Held(g) => Held(g)'
    BY <2>3, <2>4 DEF Held
  <2>6. cmd.game \in s3'.index[Here] /\ s3'.index[There] = cmd.src
    BY <2>3, <2>4
  <2>7. CommandRead'
    BY <2>1, <2>2, <2>3, <2>4, <2>6 DEF CommandRead, ForgetRead, MoveRead, OthersRead
  <2>8. QED BY <1>3, <2>5, <2>7 DEF Letting
<1>17. CASE DeleteOrphans
  <2>1. cmd.at = "clean" /\ cmd'.at = "idle"
    BY <1>5, <1>17 DEF DeleteOrphans, At
  <2>2. /\ s3'.index = s3.index
        /\ \A c \in Buckets, g \in Games :
             s3'.folders[c][g] = IF c = Here /\ g \in cmd.orphans THEN "none" ELSE s3.folders[c][g]
    BY <1>4, <1>17 DEF DeleteOrphans, S3
  <2>3. cmd.orphans \cap s3.index[Here] = {}
    BY <1>4, <1>9, <2>1 DEF ForgetRead, MoveRead, OthersRead
  <2>4. \A g \in Games : Held(g) => Held(g)'
    BY <2>2, <2>3 DEF Held
  <2>5. QED BY <1>3, <1>6, <2>1, <2>4 DEF Letting
<1>18. CASE CopyFiles \/ CopyFilesFails \/ (BucketGone /\ cmd.at = "copied")
  <2>1. cmd.at = "copied" /\ GoesOn("files") /\ s3'.index = s3.index /\ s3'.folders = s3.folders
    BY <1>18 DEF CopyFiles, CopyFilesFails, BucketGone, At, S3, shared
  <2>2. /\ cmd'.at = "files" /\ cmd'.op = cmd.op /\ cmd'.from = cmd.from
        /\ cmd'.game = cmd.game /\ cmd'.src = cmd.src /\ cmd'.dst = cmd.dst
    BY <1>7, <2>1
  <2>3. cmd.op = "move"
    BY <1>4, <1>9, <2>1 DEF ForgetRead, OthersRead
  <2>4. CommandRead'
    BY <1>9, <2>1, <2>2, <2>3 DEF CommandRead, ForgetRead, MoveRead, OthersRead
  <2>5. QED BY <1>3, <1>8, <2>1, <2>4
<1>19. CASE CopyMatches
  <2>1. cmd.at = "files" /\ GoesOn("index") /\ UNCHANGED s3
        /\ s3.folders[Here][cmd.game] = s3.folders[There][cmd.game]
    BY <1>19 DEF CopyMatches, At, shared
  <2>2. /\ cmd'.at = "index" /\ cmd'.op = cmd.op /\ cmd'.from = cmd.from
        /\ cmd'.game = cmd.game /\ cmd'.src = cmd.src /\ cmd'.dst = cmd.dst
    BY <1>7, <2>1
  <2>3. cmd.op = "move"
    BY <1>4, <1>9, <2>1 DEF ForgetRead, OthersRead
  <2>4. CommandRead'
    BY <1>9, <2>1, <2>2, <2>3 DEF CommandRead, ForgetRead, MoveRead, OthersRead
  <2>5. QED BY <1>3, <1>8, <2>1, <2>4
<1>20. CASE CopyDiffers \/ WriteRefused \/ Deploys \/ Interrupt \/ (BucketGone /\ cmd.at # "copied")
  <2>1. cmd'.at = "idle" /\ UNCHANGED s3
    BY <1>5, <1>20 DEF CopyDiffers, WriteRefused, Refused, Deploys, Interrupt, BucketGone, shared
  <2>2. QED BY <1>3, <1>6, <1>8, <2>1
<1>21. QED BY <1>10, <1>11, <1>12, <1>13, <1>14, <1>15, <1>16, <1>17, <1>18, <1>19, <1>20 DEF LaptopSteps

LEMMA LossStep == LossInv /\ [ArchiveNext]_archiveVars => LossInv' /\ \A g \in Games : Letting(g)
<1>. SUFFICES ASSUME LossInv, [ArchiveNext]_archiveVars PROVE LossInv' /\ \A g \in Games : Letting(g)
  OBVIOUS
<1>1. ArchiveTypeOK'
  BY TypeStep DEF LossInv
<1>2. CASE HourGoes \/ UNCHANGED archiveVars
  <2>1. UNCHANGED <<s3, check, cmd, crossed>>
    BY <1>2 DEF HourGoes, Tick, Aged, archiveVars, shared, expiry, laptop
  <2>2. QED BY <1>1, <2>1 DEF LossInv, CheckRead, CommandRead, ForgetRead, MoveRead, OthersRead, Letting, Held
<1>3. CASE LaptopMoves
  BY <1>1, <1>3, LossBegins, LossSteps DEF LaptopMoves
<1>4. QED BY <1>1, <1>2, <1>3, LossBox, LossWatchdog DEF ArchiveNext

\* Any games and days, any boxes, failures and commands: a move, a clean, a refused
\* call or a half-done check takes the last listed copy of no game (ForgetAt, MoveCopy,
\* Clean, expire_games), unless two programs were at the archive at once.
THEOREM NothingIsLost == ArchiveSpec => NothingLost
<1>1. LossInv /\ [ArchiveNext]_archiveVars => \A g \in Games : Held(g) /\ ~Held(g)' => LetGo(g)
  BY LossStep DEF Letting
<1>2. QED BY LossInit, LossStep, <1>1, PTL DEF ArchiveSpec, NothingLost

-----------------------------------------------------------------------------
(* Leaving AWS.                                                               *)

\* No spot request stands without its machine.
Requested == \A r \in Regions : Has("request", r) => Has("machine", r)

\* While a command runs it has said at most "everything deleted", and one
\* that has said so ends with a word of its own on it.
Quietly ==
  /\ order # NoOrder => said \subseteq Deleted
  /\ order.pc = "ask" => said = {}
  /\ order = NoOrder /\ "everything deleted" \in said
       => said \cap {"exit 0", "exit 1", "still there", "disconnected"} # {}

\* What destroy --all has made sure of so far.
Course ==
  /\ gone => BoxHere = {}
  /\ order.pc \in {"bucket", "box_role", "watchdog", "clean"} => gone
  /\ order.pc \in {"images", "keys"} => gone \/ failed
  /\ order.pc \in {"box_role", "watchdog", "clean"} /\ ~failed => <<"games", Home>> \notin left

Pcs == {"none", "ask", "box", "images", "keys", "bucket", "box_role", "watchdog", "clean", "others",
        "role", "machines", "disks", "games", "settings", "look"}
Types == LeavingTypeOK /\ order \in [kind : {"none", "disconnect", "destroy_all"}, pc : Pcs]

\* What an end with 0 promises.
Finished == DoneLeavesNothingHere /\ ("silent_regions" \notin Faults => DoneLeavesNoDisk)

EndInv == Types /\ Quietly /\ Course /\ Finished
LeftInv == EndInv /\ Requested /\ DisconnectedBillsNothing

-----------------------------------------------------------------------------
(* What the things are, and what a delete does to them.                      *)
ThingKinds == {"machine", "request", "games", "disk", "image", "snapshot", "watchdog", "role", "settings",
          "box_role", "budget", "free"}

LEMMA ThingsAre ==
  \A t \in Things : t[1] \in ThingKinds /\ t[2] \in Regions /\ t = <<t[1], t[2]>>
<1>1. \A k, r : <<k, r>>[1] = k /\ <<k, r>>[2] = r
  OBVIOUS
<1>2. ASSUME NEW B \in AllBundles, NEW t \in B PROVE \E k \in ThingKinds, r \in Regions : t = <<k, r>>
  <2>1. CASE B \in Global
    BY <1>2, <2>1, RegionsAssumption DEF Global, ThingKinds
  <2>2. ASSUME NEW r \in Regions, B \in Bundle(r) PROVE \E k \in ThingKinds : t = <<k, r>> \/ t = <<k, Home>>
    BY <1>2, <2>2 DEF Bundle, ThingKinds
  <2>3. QED BY <2>1, <2>2, RegionsAssumption DEF AllBundles
<1>3. QED BY <1>1, <1>2 DEF Things

LEMMA DeletesOnly ==
  ASSUME NEW S, Delete(S)
  PROVE  left' \subseteq left /\ \A t \in left : t \notin S => t \in left'
BY DEF Delete

LEMMA DeletesTyped ==
  ASSUME LeavingTypeOK
  PROVE  /\ \A S : Delete(S) => left' \subseteq Things /\ faults' \in 0..MaxFaults
         /\ \A w : Faulty(w) => faults' \in 0..MaxFaults
<1>1. faults \in 0..MaxFaults /\ MaxFaults \in Nat /\ left \subseteq Things
  BY BoundsAssumption DEF LeavingTypeOK
<1>2. ASSUME NEW w, Faulty(w) PROVE faults' \in 0..MaxFaults
  <2>1. faults < MaxFaults /\ faults' = faults + 1
    BY <1>2 DEF Faulty
  <2>2. QED BY ONLY <1>1, <2>1
<1>3. ASSUME NEW S, Delete(S) PROVE left' \subseteq Things /\ faults' \in 0..MaxFaults
  BY <1>1, <1>2, <1>3 DEF Delete
<1>4. QED BY <1>2, <1>3

LEMMA NotFinished == "exit 0" \notin said' => Finished'
BY DEF Finished, DoneLeavesNothingHere, DoneLeavesNoDisk

LEMMA FinishedStays == Finished /\ UNCHANGED <<left, said>> => Finished'
<1> SUFFICES ASSUME Finished, UNCHANGED <<left, said>> PROVE Finished'
  OBVIOUS
<1>1. (OfKind(Billing))' = OfKind(Billing) /\ Scanned' = Scanned
  BY DEF OfKind, Scanned
<1>2. QED BY <1>1 DEF Finished, DoneLeavesNothingHere, DoneLeavesNoDisk, NothingBillsHere

LEMMA BoxHereIs ==
  /\ BoxHere = {} => <<"machine", Home>> \notin left /\ <<"request", Home>> \notin left
  /\ left' \subseteq left /\ BoxHere = {} => BoxHere' = {}
BY DEF BoxHere

LEMMA ListedIn == Listed \subseteq left /\ \A v \in Views : v \subseteq left
BY DEF Listed, Views

\* What a look shows, and what it leaves out without a word.
LEMMA InventoryShows ==
  ASSUME LeavingTypeOK, NEW error \in BOOLEAN, NEW seen, Inventory(error, seen)
  PROVE  faults' \in 0..MaxFaults
BY DeletesTyped DEF Inventory, LeavingTypeOK

LEMMA GoToIs ==
  ASSUME Types, NEW pc \in Pcs, GoTo(pc)
  PROVE  order' \in [kind : {"none", "disconnect", "destroy_all"}, pc : Pcs] /\ order'.pc = pc /\ order'.kind = order.kind
BY DEF Types, GoTo

LEMMA IdleIs == NoOrder \in [kind : {"none", "disconnect", "destroy_all"}, pc : Pcs] /\ NoOrder.pc = "none" /\ NoOrder.kind = "none"
BY DEF NoOrder, Pcs

LEMMA CleansThings ==
  ASSUME LeavingTypeOK, NEW ok \in BOOLEAN, CleanEverywhere(ok)
  PROVE  /\ left' \subseteq left /\ faults' \in 0..MaxFaults
         /\ ok => \A t \in Scanned \cap left' : t[2] # Home
         /\ ok /\ "silent_regions" \notin Faults => Scanned \cap left' = {}
         /\ \A t \in left \ left' : t[1] \in {"disk", "image", "snapshot"}
<1>1. CASE Delete(Scanned) /\ ok = AllDeleted(Scanned)
  <2>1. ok => Scanned \cap left' = {}
    BY <1>1 DEF AllDeleted
  <2>2. QED BY <1>1, <2>1, DeletesOnly, DeletesTyped DEF Scanned, OfKind
<1>2. CASE \E r \in Regions : Faulty("said_read") /\ left' = left \ {t \in Scanned : t[2] # r} /\ ok = FALSE
  BY <1>2, DeletesTyped DEF Scanned, OfKind
<1>3. CASE ScansHomeOnly /\ ok
  <2>1. left' \subseteq left /\ \A t \in left \ left' : t \in Scanned /\ t[2] = Home
    BY <1>3 DEF ScansHomeOnly
  <2>2. \A t \in Scanned \cap left' : t[2] # Home
    BY <1>3 DEF ScansHomeOnly
  <2>3. faults' \in 0..MaxFaults /\ "silent_regions" \in Faults
    BY <1>3, DeletesTyped DEF Faulty, ScansHomeOnly
  <2>4. QED BY <2>1, <2>2, <2>3 DEF Scanned, OfKind
<1>4. QED BY <1>1, <1>2, <1>3 DEF CleanEverywhere

-----------------------------------------------------------------------------
(* The invariant, one step of a command after the other.                     *)
AtStep == Types /\ Quietly /\ Course /\ order # NoOrder

LEMMA Hereabouts ==
  ASSUME AtStep, order.pc # "ask", NEW bad \in BOOLEAN, NEW printed \in {{}, Deleted}, HereEnds(bad, printed)
  PROVE  /\ order' \in [kind : {"none", "disconnect", "destroy_all"}, pc : Pcs] /\ Quietly'
         /\ order'.pc \in {"none", "others"}
         /\ said' \subseteq Deleted \cup {IF bad THEN "exit 1" ELSE "exit 0"}
<1>1. CASE GoTo("others") /\ said' = said \cup printed
  BY <1>1, GoToIs, IdleIs DEF AtStep, Quietly, Pcs
<1>2. CASE order' = NoOrder /\ said' = said \cup printed \cup {IF bad THEN "exit 1" ELSE "exit 0"}
  BY <1>2, IdleIs DEF Quietly, AtStep
<1>3. QED BY <1>1, <1>2 DEF HereEnds

\* A step that goes on to one that needs nothing of this region.
PlainSteps == {"others", "role", "machines", "disks", "games", "settings", "look"}
LEMMA FreeStep ==
  ASSUME AtStep, NEW pc \in PlainSteps, GoTo(pc), UNCHANGED <<said, gone, failed, plan>>,
         left' \subseteq left, faults' \in 0..MaxFaults
  PROVE  EndInv'
<1>1. Types'
  BY GoToIs DEF AtStep, Types, LeavingTypeOK, PlainSteps, Pcs
<1>2. Quietly' /\ "exit 0" \notin said'
  BY GoToIs, IdleIs DEF AtStep, Quietly, PlainSteps, Pcs, Deleted
<1>3. Course'
  BY GoToIs, BoxHereIs DEF AtStep, Course, PlainSteps, Pcs
<1>4. QED BY <1>1, <1>2, <1>3, NotFinished DEF EndInv

LEMMA EndBoxStep ==
  ASSUME AtStep, EndBox
  PROVE  EndInv' /\ left' \subseteq left /\ \A t \in left \ left' : t[1] \in {"machine", "request"}
<1>0. /\ said \subseteq Deleted /\ order.pc = "box" /\ UNCHANGED plan /\ left \subseteq Things /\ faults \in 0..MaxFaults
      /\ \A w : Faulty(w) => faults' \in 0..MaxFaults
  BY DeletesTyped DEF AtStep, Quietly, EndBox, Types, LeavingTypeOK
<1>1. CASE /\ left' = left \ BoxHere
           /\ gone' = TRUE /\ GoTo("images") /\ UNCHANGED <<failed, said, faults>>
  <2>1. BoxHere' = {}
    BY <1>1 DEF BoxHere
  <2>2. order' \in [kind : {"none", "disconnect", "destroy_all"}, pc : Pcs] /\ order'.pc = "images"
    BY <1>1, GoToIs DEF Pcs, AtStep
  <2>3. Types' /\ Quietly' /\ Course' /\ Finished'
    BY <1>0, <1>1, <2>1, <2>2, IdleIs, NotFinished DEF AtStep, Types, LeavingTypeOK, Quietly, Course, Deleted
  <2>4. QED BY <1>1, <2>3 DEF EndInv, BoxHere
<1>2. CASE Faulty("call") /\ gone' = FALSE /\ failed' = TRUE /\ UNCHANGED left /\ HereEnds(TRUE, {})
  <2>1. /\ order' \in [kind : {"none", "disconnect", "destroy_all"}, pc : Pcs] /\ Quietly'
        /\ order'.pc \in {"none", "others"} /\ said' \subseteq Deleted \cup {"exit 1"}
    BY <1>0, <1>2, Hereabouts
  <2>2. Types' /\ Course' /\ Finished'
    BY <1>0, <1>2, <2>1, NotFinished DEF AtStep, Types, LeavingTypeOK, Course, Deleted
  <2>3. QED BY <1>2, <2>1, <2>2 DEF EndInv
<1>3. CASE /\ \E w : Faulty(w)
           /\ left' \in {left, left \ {<<"request", Home>>}}
           /\ gone' = FALSE /\ failed' = TRUE /\ (GoTo("keys") \/ GoTo("images")) /\ UNCHANGED said
  <2>1. order' \in [kind : {"none", "disconnect", "destroy_all"}, pc : Pcs] /\ order'.pc \in {"keys", "images"}
    BY <1>3, GoToIs DEF Pcs, AtStep
  <2>2. Types' /\ Quietly' /\ Course' /\ Finished'
    BY <1>0, <1>3, <2>1, IdleIs, NotFinished DEF AtStep, Types, LeavingTypeOK, Quietly, Course, Deleted
  <2>3. \A t \in left \ left' : t[1] = "request"
    BY <1>3
  <2>4. QED BY <1>3, <2>2, <2>3 DEF EndInv
<1>4. QED BY <1>1, <1>2, <1>3 DEF EndBox

\* The deletes of destroy --all.
LEMMA ImagesStep ==
  ASSUME AtStep, DeleteHere
  PROVE  EndInv' /\ left' \subseteq left /\ \A t \in left \ left' : t[1] \in {"image", "snapshot", "disk"}
<1> DEFINE mine == {t \in left : t[2] = Home /\ t[1] \in {"image", "snapshot", "disk"}}
<1>1. /\ Delete(mine) /\ failed' = (failed \/ ~AllDeleted(mine)) /\ GoTo("keys")
      /\ UNCHANGED <<plan, gone, said>> /\ order.pc = "images"
  BY DEF DeleteHere
<1>2. left' \subseteq left /\ left' \subseteq Things /\ faults' \in 0..MaxFaults
  BY <1>1, DeletesOnly, DeletesTyped DEF AtStep, Types
<1>3. \A t \in left \ left' : t \in mine
  BY <1>1, DeletesOnly
<1>4. order' \in [kind : {"none", "disconnect", "destroy_all"}, pc : Pcs] /\ order'.pc = "keys"
  BY <1>1, GoToIs DEF Pcs, AtStep
<1>5. failed' \in BOOLEAN /\ (failed => failed')
  BY <1>1
<1>6. Types' /\ Quietly' /\ Course' /\ Finished'
  BY <1>1, <1>2, <1>4, <1>5, BoxHereIs, IdleIs, NotFinished
     DEF AtStep, Types, LeavingTypeOK, Quietly, Course, Deleted
<1>7. QED BY <1>2, <1>3, <1>6 DEF EndInv

LEMMA KeysStep ==
  ASSUME AtStep, DeleteKeys
  PROVE  EndInv' /\ left' \subseteq left /\ \A t \in left \ left' : t[1] \in {"budget", "free"}
<1>1. /\ Delete(OfKind({"budget", "free"})) /\ failed' \in BOOLEAN /\ (failed => failed')
      /\ UNCHANGED <<plan, gone>> /\ order.pc = "keys"
  BY DEF DeleteKeys
<1>2. left' \subseteq left /\ left' \subseteq Things /\ faults' \in 0..MaxFaults
  BY <1>1, DeletesOnly, DeletesTyped DEF AtStep, Types
<1>3. \A t \in left \ left' : t[1] \in {"budget", "free"}
  BY <1>1, DeletesOnly DEF OfKind
<1>4. CASE gone /\ GoTo("bucket") /\ said' = said \cup Deleted
  <2>1. order' \in [kind : {"none", "disconnect", "destroy_all"}, pc : Pcs] /\ order'.pc = "bucket"
    BY <1>4, GoToIs DEF Pcs, AtStep
  <2>2. Types' /\ Quietly' /\ Course' /\ Finished'
    BY <1>1, <1>2, <1>4, <2>1, BoxHereIs, IdleIs, NotFinished
       DEF AtStep, Types, LeavingTypeOK, Quietly, Course, Deleted
  <2>3. QED BY <1>2, <1>3, <2>2 DEF EndInv
<1>5. CASE HereEnds(TRUE, Deleted)
  <2>1. /\ order' \in [kind : {"none", "disconnect", "destroy_all"}, pc : Pcs] /\ Quietly'
        /\ order'.pc \in {"none", "others"} /\ said' \subseteq Deleted \cup {"exit 1"}
    BY <1>1, <1>5, Hereabouts
  <2>2. Types' /\ Course' /\ Finished'
    BY <1>1, <1>2, <2>1, BoxHereIs, NotFinished DEF AtStep, Types, LeavingTypeOK, Course, Deleted
  <2>3. QED BY <1>2, <1>3, <2>1, <2>2 DEF EndInv
<1>6. QED BY <1>4, <1>5 DEF DeleteKeys

LEMMA BucketStep ==
  ASSUME AtStep, DeleteBucket
  PROVE  EndInv' /\ left' \subseteq left /\ (\A t \in left \ left' : t[1] = "games") /\ gone
<1>1. /\ Delete({<<"games", Home>>} \cap left) /\ failed' = (failed \/ <<"games", Home>> \in left')
      /\ GoTo("box_role") /\ UNCHANGED <<plan, gone, said>> /\ order.pc = "bucket" /\ gone
  BY DEF DeleteBucket, AtStep, Course
<1>2. left' \subseteq left /\ left' \subseteq Things /\ faults' \in 0..MaxFaults
  BY <1>1, DeletesOnly, DeletesTyped DEF AtStep, Types
<1>3. \A t \in left \ left' : t[1] = "games"
  BY <1>1, DeletesOnly
<1>4. order' \in [kind : {"none", "disconnect", "destroy_all"}, pc : Pcs] /\ order'.pc = "box_role"
  BY <1>1, GoToIs DEF Pcs, AtStep
<1>5. failed' \in BOOLEAN /\ (~failed' => <<"games", Home>> \notin left')
  BY <1>1
<1>6. Types' /\ Quietly' /\ Course' /\ Finished'
  BY <1>1, <1>2, <1>4, <1>5, BoxHereIs, IdleIs, NotFinished
     DEF AtStep, Types, LeavingTypeOK, Quietly, Course, Deleted
<1>7. QED BY <1>1, <1>2, <1>3, <1>6 DEF EndInv

LEMMA RolesStep ==
  ASSUME AtStep, RemoveBoxRole \/ RemoveWatchdogHere
  PROVE  /\ EndInv' /\ left' \subseteq left /\ gone
         /\ \A t \in left \ left' : t[1] \in {"box_role", "watchdog", "role"}
<1>0. /\ \A t \in OfKind({"box_role"}) : t[1] = "box_role"
      /\ \A t \in Guard(Home) : t[1] \in {"watchdog", "role"}
  BY DEF OfKind, Guard
<1>1. PICK S \in {OfKind({"box_role"}), Guard(Home)} : Delete(S)
  BY DEF RemoveBoxRole, RemoveWatchdogHere, RemoveWatchdog
<1>2. /\ UNCHANGED <<plan, gone, said>> /\ gone /\ order.pc \in {"box_role", "watchdog"}
      /\ failed' \in BOOLEAN /\ (failed => failed')
  BY DEF RemoveBoxRole, RemoveWatchdogHere, AtStep, Course, Types, LeavingTypeOK
<1>3. left' \subseteq left /\ left' \subseteq Things /\ faults' \in 0..MaxFaults
  BY <1>1, DeletesOnly, DeletesTyped DEF AtStep, Types
<1>4. \A t \in left \ left' : t[1] \in {"box_role", "watchdog", "role"}
  BY <1>0, <1>1, DeletesOnly
<1>5. order' \in [kind : {"none", "disconnect", "destroy_all"}, pc : Pcs] /\ order'.pc \in {"watchdog", "clean"}
  BY GoToIs DEF Pcs, AtStep, RemoveBoxRole, RemoveWatchdogHere
<1>6. Types' /\ Quietly' /\ Course' /\ Finished'
  BY <1>2, <1>3, <1>5, BoxHereIs, IdleIs, NotFinished
     DEF AtStep, Types, LeavingTypeOK, Quietly, Course, Deleted
<1>7. QED BY <1>2, <1>3, <1>4, <1>6 DEF EndInv

\* The last step of destroy --all here: with nothing failed, nothing bills here.
LEMMA CleanStep ==
  ASSUME AtStep, CleanHere
  PROVE  EndInv' /\ left' \subseteq left /\ \A t \in left \ left' : t[1] \in {"disk", "image", "snapshot"}
<1>1. PICK ok \in BOOLEAN : CleanEverywhere(ok) /\ failed' = (failed \/ ~ok)
  BY DEF CleanHere
<1>2. /\ left' \subseteq left /\ faults' \in 0..MaxFaults
      /\ ok => \A t \in Scanned \cap left' : t[2] # Home
      /\ ok /\ "silent_regions" \notin Faults => Scanned \cap left' = {}
      /\ \A t \in left \ left' : t[1] \in {"disk", "image", "snapshot"}
  BY <1>1, CleansThings DEF AtStep, Types
<1>3. /\ order.pc = "clean" /\ HereEnds(failed', {}) /\ UNCHANGED <<plan, gone>> /\ failed' \in BOOLEAN
      /\ gone /\ (~failed => <<"games", Home>> \notin left)
  BY <1>1 DEF CleanHere, AtStep, Course
<1>4. /\ order' \in [kind : {"none", "disconnect", "destroy_all"}, pc : Pcs] /\ Quietly'
      /\ order'.pc \in {"none", "others"} /\ said' \subseteq Deleted \cup {IF failed' THEN "exit 1" ELSE "exit 0"}
  BY <1>3, Hereabouts
<1>5. Types' /\ Course'
  BY <1>2, <1>3, <1>4, BoxHereIs DEF AtStep, Types, LeavingTypeOK, Course, Deleted
<1>6. Finished'
  <2>1. SUFFICES ASSUME "exit 0" \in said'
                 PROVE  NothingBillsHere' /\ ("silent_regions" \notin Faults => Scanned' = {})
    BY DEF Finished, DoneLeavesNothingHere, DoneLeavesNoDisk
  <2>2. ok /\ ~failed
    BY <1>1, <1>4, <2>1 DEF Deleted
  <2>3. ASSUME NEW t \in left', t[1] \in Billing PROVE t[2] # Home
    <3>1. t = <<t[1], t[2]>> /\ t \in left
      BY <1>2, <2>3, ThingsAre DEF AtStep, Types, LeavingTypeOK
    <3>2. CASE t[1] \in {"disk", "image", "snapshot"}
      BY <1>2, <2>2, <2>3, <3>1, <3>2 DEF Scanned, OfKind
    <3>3. CASE t[1] \in {"machine", "request", "games"}
      <4>1. t # <<"games", Home>> /\ t # <<"machine", Home>> /\ t # <<"request", Home>>
        BY <1>3, <2>2, <3>1, BoxHereIs DEF AtStep, Course
      <4>2. QED BY <3>1, <3>3, <4>1
    <3>4. QED BY <2>3, <3>2, <3>3 DEF Billing
  <2>4. Scanned' = Scanned \cap left'
    BY <1>2 DEF Scanned, OfKind
  <2>5. QED BY <1>2, <2>2, <2>3, <2>4 DEF NothingBillsHere, OfKind
<1>7. QED BY <1>2, <1>4, <1>5, <1>6 DEF EndInv

\* The rest of the disconnect: nothing is promised before it has looked again.
RestSteps == OtherWatchdogs \/ RoleLeft \/ EndMachines \/ CleanAll \/ OtherGames \/ DeleteSettings

LEMMA RestGoes ==
  ASSUME AtStep, RestSteps
  PROVE  /\ left' \subseteq left /\ faults' \in 0..MaxFaults /\ order.kind = "disconnect"
         /\ UNCHANGED <<plan, gone, failed, said>>
         /\ \E pc \in PlainSteps : GoTo(pc)
<1>0. faults \in 0..MaxFaults /\ \A w : Faulty(w) => faults' \in 0..MaxFaults
  BY DeletesTyped DEF AtStep, Types, LeavingTypeOK
<1> USE <1>0, DeletesOnly, DeletesTyped DEF OrderAt, AtStep, Types
<1>1. CASE OtherWatchdogs
  BY <1>1 DEF OtherWatchdogs, PlainSteps
<1>2. CASE RoleLeft
  BY <1>2 DEF RoleLeft, RemoveWatchdog, PlainSteps
<1>3. CASE EndMachines
  BY <1>3 DEF EndMachines, PlainSteps
<1>4. CASE CleanAll
  BY <1>4, CleansThings DEF CleanAll, PlainSteps
<1>5. CASE OtherGames
  BY <1>5 DEF OtherGames, PlainSteps
<1>6. CASE DeleteSettings
  BY <1>6 DEF DeleteSettings, PlainSteps
<1>7. QED BY <1>1, <1>2, <1>3, <1>4, <1>5, <1>6 DEF RestSteps

LEMMA RestStep ==
  ASSUME AtStep, RestSteps
  PROVE  EndInv' /\ left' \subseteq left /\ order.kind = "disconnect"
BY RestGoes, FreeStep

LEMMA LookSteps ==
  ASSUME AtStep, Ask \/ Look
  PROVE  EndInv' /\ UNCHANGED left
<1>1. PICK error \in BOOLEAN, seen \in Views : Inventory(error, seen) /\ (plan' = seen \/ UNCHANGED plan)
  BY DEF Ask, Look
<1>2. /\ faults' \in 0..MaxFaults /\ UNCHANGED left /\ left \subseteq Things /\ plan' \subseteq Things
  BY <1>1, InventoryShows, ListedIn DEF AtStep, Types, LeavingTypeOK, Ask, Look
<1>3. /\ \/ gone' = FALSE /\ failed' = FALSE
         \/ UNCHANGED <<gone, failed>>
  BY DEF Ask, Look
<1>4. \/ GoTo("box") /\ UNCHANGED said /\ said = {}
      \/ \E w \in {"not asked", "not confirmed"} : Says(w) /\ said = {}
      \/ \E w \in {"still there", "disconnected"} : Says(w) /\ said \subseteq Deleted
  <2>1. CASE Ask
    BY <2>1 DEF Ask, OrderAt, AtStep, Quietly
  <2>2. CASE Look
    BY <2>2 DEF Look, AtStep, Quietly
  <2>3. QED BY <2>1, <2>2
<1>5. order' \in [kind : {"none", "disconnect", "destroy_all"}, pc : Pcs] /\ order'.pc \in {"box", "none"}
  BY <1>4, GoToIs, IdleIs DEF Says, Pcs, AtStep
<1>6. Quietly' /\ said' \subseteq {"everything deleted", "not asked", "not confirmed", "still there", "disconnected"}
  BY <1>4, GoToIs, IdleIs DEF Says, AtStep, Quietly, Deleted, Pcs
<1>7. gone' \in BOOLEAN /\ failed' \in BOOLEAN /\ (gone' => gone)
  <2>1. gone \in BOOLEAN /\ failed \in BOOLEAN
    BY DEF AtStep, Types, LeavingTypeOK
  <2>2. CASE gone' = FALSE /\ failed' = FALSE
    BY <2>2
  <2>3. CASE UNCHANGED <<gone, failed>>
    <3>1. gone' = gone /\ failed' = failed
      BY <2>3
    <3>2. QED BY ONLY <2>1, <3>1, Zenon
  <2>4. QED BY <1>3, <2>2, <2>3
<1>8. Types'
  BY <1>2, <1>5, <1>6, <1>7 DEF Types, LeavingTypeOK
<1>9. Course' /\ Finished'
  BY <1>2, <1>5, <1>6, <1>7, BoxHereIs, NotFinished DEF AtStep, Course
<1>10. QED BY <1>2, <1>6, <1>8, <1>9 DEF EndInv

LEMMA BeginStep ==
  ASSUME EndInv, DestroyAll \/ Disconnect
  PROVE  EndInv' /\ UNCHANGED left /\ said' = {}
<1>1. /\ order' \in [kind : {"none", "disconnect", "destroy_all"}, pc : Pcs] /\ order'.pc \in {"box", "ask"}
      /\ said' = {} /\ UNCHANGED <<left, plan, faults>>
  BY DEF DestroyAll, Disconnect, Pcs
<1>2. (gone' = FALSE /\ failed' = FALSE) \/ UNCHANGED <<gone, failed>>
  BY DEF DestroyAll, Disconnect
<1>3. gone' \in BOOLEAN /\ failed' \in BOOLEAN /\ (gone' => gone)
  <2>1. gone \in BOOLEAN /\ failed \in BOOLEAN
    BY DEF EndInv, Types, LeavingTypeOK
  <2>2. CASE gone' = FALSE /\ failed' = FALSE
    BY <2>2
  <2>3. CASE UNCHANGED <<gone, failed>>
    <3>1. gone' = gone /\ failed' = failed
      BY <2>3
    <3>2. QED BY ONLY <2>1, <3>1, Zenon
  <2>4. QED BY <1>2, <2>2, <2>3
<1>4. Types'
  BY <1>1, <1>3 DEF EndInv, Types, LeavingTypeOK
<1>5. Quietly' /\ Course' /\ Finished'
  BY <1>1, <1>3, BoxHereIs, NotFinished DEF EndInv, Quietly, Course
<1>6. QED BY <1>1, <1>4, <1>5 DEF EndInv

\* A step belongs to a command that runs.
LEMMA StepRuns == ASSUME EndInv, Step PROVE AtStep
<1>1. CASE \/ EndBox \/ DeleteHere \/ DeleteKeys \/ DeleteBucket \/ RemoveBoxRole \/ RemoveWatchdogHere
           \/ CleanHere
  BY <1>1, IdleIs DEF EndBox, DeleteHere, DeleteKeys, DeleteBucket, RemoveBoxRole, RemoveWatchdogHere,
     CleanHere, AtStep, EndInv
<1>2. CASE \/ Ask \/ OtherWatchdogs \/ RoleLeft \/ EndMachines \/ CleanAll \/ OtherGames
           \/ DeleteSettings \/ Look
  <2>1. \E pc : order = [kind |-> "disconnect", pc |-> pc]
    BY <1>2 DEF Ask, OtherWatchdogs, RoleLeft, EndMachines, CleanAll, OtherGames, DeleteSettings, Look, OrderAt
  <2>2. order # NoOrder
    BY <2>1, IdleIs
  <2>3. QED BY <2>2 DEF AtStep, EndInv
<1>3. QED BY <1>1, <1>2 DEF Step

LEMMA EndNext ==
  ASSUME EndInv, [LeavingNext]_leavingVars
  PROVE  EndInv'
<1>1. CASE DestroyAll \/ Disconnect
  BY <1>1, BeginStep
<1>2. CASE Step
  BY <1>2, StepRuns, EndBoxStep, ImagesStep, KeysStep, BucketStep, RolesStep, CleanStep, RestStep, LookSteps
     DEF Step, RestSteps
<1>3. CASE UNCHANGED leavingVars
  BY <1>3, FinishedStays DEF leavingVars, EndInv, Types, LeavingTypeOK, Quietly, Course, BoxHere
<1>4. QED BY <1>1, <1>2, <1>3 DEF LeavingNext

LEMMA LeftInit == LeavingInit => left \subseteq Things /\ Requested
<1> SUFFICES ASSUME LeavingInit PROVE left \subseteq Things /\ Requested
  OBVIOUS
<1>1. PICK n \in 0..Bundles : \E B \in kSubset(n, AllBundles) : left = UNION B
  BY DEF LeavingInit
<1>2. PICK B \in SUBSET AllBundles : left = UNION B
  BY <1>1 DEF kSubset
<1>3. left \subseteq Things
  BY <1>2 DEF Things
<1>4. ASSUME NEW r \in Regions, <<"request", r>> \in left PROVE <<"machine", r>> \in left
  <2>1. PICK b \in B : <<"request", r>> \in b
    BY <1>2, <1>4
  <2>2. b \notin Global
    BY <2>1 DEF Global
  <2>3. PICK o \in Regions : b \in Bundle(o)
    BY <1>2, <2>1, <2>2 DEF AllBundles
  <2>4. b = {<<"machine", o>>, <<"request", o>>}
    BY <2>1, <2>3 DEF Bundle
  <2>5. o = r
    BY <2>1, <2>4
  <2>6. QED BY <1>2, <2>4, <2>5
<1>5. QED BY <1>3, <1>4 DEF Requested, Has

LEMMA EndInit == LeavingInit => EndInv
<1> SUFFICES ASSUME LeavingInit PROVE EndInv
  OBVIOUS
<1>1. /\ plan = {} /\ order = NoOrder /\ gone = FALSE /\ failed = FALSE /\ said = {} /\ faults = 0
      /\ left \subseteq Things /\ 0 \in 0..MaxFaults
  BY LeftInit, BoundsAssumption DEF LeavingInit
<1>2. Types /\ Quietly /\ Course /\ Finished
  BY <1>1, IdleIs DEF Types, LeavingTypeOK, Quietly, Course, Finished, DoneLeavesNothingHere, DoneLeavesNoDisk
<1>3. QED BY <1>2 DEF EndInv

LEMMA EndInductive == LeavingSpec => []EndInv
BY EndInit, EndNext, PTL DEF LeavingSpec

\* What a command holds and what is left have their types in every state.
THEOREM LeftTyped == LeavingSpec => []LeavingTypeOK
<1>1. EndInv => LeavingTypeOK
  BY DEF EndInv, Types
<1>2. QED BY <1>1, EndInductive, PTL

\* Whatever fails, destroy --all ends with 0 only when nothing of its region
\* bills any more: no machine, request, games, disk, image or snapshot.  (The
\* sentence "everything deleted" is printed long before, and promises nothing.)
THEOREM DoneHere == LeavingSpec => []DoneLeavesNothingHere
<1>1. EndInv => DoneLeavesNothingHere
  BY DEF EndInv, Finished
<1>2. QED BY <1>1, EndInductive, PTL

\* It leaves no disk, image or snapshot in any region either, as long as AWS
\* answers which regions there are: boxcmd/new.go falls back to one region.
THEOREM DoneEverywhere ==
  ASSUME "silent_regions" \notin Faults
  PROVE  LeavingSpec => []DoneLeavesNoDisk
<1>1. EndInv => DoneLeavesNoDisk
  BY DEF EndInv, Finished
<1>2. QED BY <1>1, EndInductive, PTL

-----------------------------------------------------------------------------
(* A request is not left behind by its machine, when a request of another    *)
(* region that could not be cancelled is not among what fails.               *)
LEMMA RequestsKept ==
  ASSUME Requested, left' \subseteq left, \A t \in left \ left' : t[1] # "machine"
  PROVE  Requested'
<1>1. \A r : <<"machine", r>>[1] = "machine"
  OBVIOUS
<1>2. QED BY <1>1 DEF Requested, Has

LEMMA BoxRequests ==
  ASSUME Requested, EndBox
  PROVE  Requested'
<1>1. CASE left' = left \ BoxHere
  <2>1. ASSUME NEW r \in Regions, <<"request", r>> \in left' PROVE <<"machine", r>> \in left'
    <3>1. <<"request", r>> \in left /\ <<"machine", r>> \in left
      BY <1>1, <2>1 DEF Requested, Has
    <3>2. r # Home
      BY <1>1, <2>1, <3>1 DEF BoxHere
    <3>3. QED BY <1>1, <3>1, <3>2 DEF BoxHere
  <2>2. QED BY <2>1 DEF Requested, Has
<1>2. CASE left' = left
  BY <1>2 DEF Requested, Has
<1>3. CASE left' = left \ {<<"request", Home>>}
  BY <1>3 DEF Requested, Has
<1>4. QED BY <1>1, <1>2, <1>3 DEF EndBox

LEMMA EndedRequests ==
  ASSUME Requested, EndMachines, "cancel_elsewhere" \notin Faults
  PROVE  Requested'
<1> DEFINE ends == { r \in Elsewhere : <<"machine", r>> \in plan }
           machines == { <<"machine", r>> : r \in ends }
           requests == { <<"request", r>> : r \in ends } \cap left
<1>1. left' = left \ (machines \cup requests) \/ left' = left \ requests
  BY DEF EndMachines, Faulty
<1>2. ASSUME NEW r \in Regions, <<"request", r>> \in left' PROVE <<"machine", r>> \in left'
  <2>1. <<"request", r>> \in left /\ <<"machine", r>> \in left
    BY <1>1, <1>2 DEF Requested, Has
  <2>2. r \notin ends
    BY <1>1, <1>2, <2>1
  <2>3. <<"machine", r>> \notin machines
    BY <2>2
  <2>4. <<"machine", r>> \notin requests
    OBVIOUS
  <2>5. QED BY <1>1, <2>1, <2>3, <2>4
<1>3. QED BY <1>2 DEF Requested, Has

LEMMA RestSpares ==
  ASSUME RestSteps, AtStep
  PROVE  EndMachines \/ \A t \in left \ left' : t[1] # "machine"
<1>1. CASE OtherWatchdogs
  <2> DEFINE rs == { r \in Elsewhere : <<"watchdog", r>> \in plan }
             S == { t \in left : \/ t[1] = "watchdog" /\ t[2] \in rs
                                 \/ t[1] = "role" /\ \A o \in Regions \ rs : ~Has("watchdog", o) }
  <2>1. left' = left \/ Delete(S)
    BY <1>1 DEF OtherWatchdogs
  <2>2. \A t \in S : t[1] # "machine"
    OBVIOUS
  <2>3. QED BY <2>1, <2>2, DeletesOnly
<1>2. CASE RoleLeft
  BY <1>2, DeletesOnly DEF RoleLeft, RemoveWatchdog, Guard
<1>3. CASE CleanAll
  <2>1. PICK ok \in BOOLEAN : CleanEverywhere(ok)
    BY <1>3 DEF CleanAll
  <2>2. \A t \in left \ left' : t[1] \in {"disk", "image", "snapshot"}
    BY <2>1, CleansThings DEF AtStep, Types
  <2>3. QED BY <2>2
<1>4. CASE OtherGames
  BY <1>4, DeletesOnly DEF OtherGames
<1>5. CASE DeleteSettings
  BY <1>5, DeletesOnly DEF DeleteSettings
<1>6. QED BY <1>1, <1>2, <1>3, <1>4, <1>5 DEF RestSteps

LEMMA StepRequests ==
  ASSUME AtStep, Requested, Step, "cancel_elsewhere" \notin Faults
  PROVE  Requested'
<1>1. CASE EndBox
  BY <1>1, BoxRequests
<1>2. CASE DeleteHere \/ DeleteKeys \/ DeleteBucket \/ RemoveBoxRole \/ RemoveWatchdogHere \/ CleanHere
  <2>1. left' \subseteq left /\ \A t \in left \ left' :
          t[1] \in {"image", "snapshot", "disk", "budget", "free", "games", "box_role", "watchdog", "role"}
    BY <1>2, ImagesStep, KeysStep, BucketStep, RolesStep, CleanStep
  <2>2. QED BY <2>1, RequestsKept
<1>3. CASE RestSteps
  BY <1>3, RestStep, RestSpares, EndedRequests, RequestsKept
<1>4. CASE Ask \/ Look
  BY <1>4, LookSteps DEF Requested, Has
<1>5. QED BY <1>1, <1>2, <1>3, <1>4 DEF Step, RestSteps

-----------------------------------------------------------------------------
(* What the second look promises.                                            *)
LEMMA LooksAgain ==
  ASSUME AtStep, Requested, Look, "disconnected" \in said', "silent_billing" \notin Faults
  PROVE  OfKind(Billing) = {}
<1>0. "disconnected" \notin said
  BY DEF AtStep, Quietly, Deleted
<1>1. PICK error \in BOOLEAN, seen \in Views :
        Inventory(error, seen) /\ Says(IF error \/ seen # {} THEN "still there" ELSE "disconnected")
  BY DEF Look
<1>2. ~error /\ seen = {}
  BY <1>0, <1>1 DEF Says
<1>3. \A t \in Listed : t[1] \notin Billing
  <2>1. CASE seen = Listed
    BY <1>2, <2>1
  <2>2. CASE \E S \in SilentFree : seen = Listed \ S
    <3>1. PICK u \in Listed : u[1] \in {"watchdog", "role", "budget", "settings"} /\ seen = Listed \ {u}
      BY <2>2 DEF SilentFree
    <3>2. \A t \in Listed : t = u
      BY <1>2, <3>1
    <3>3. QED BY <3>1, <3>2 DEF Billing
  <2>3. QED BY <1>1, <1>2, <2>1, <2>2 DEF Inventory, Faulty
<1>4. ASSUME NEW t \in left, t[1] \in Billing PROVE FALSE
  <2>1. t = <<t[1], t[2]>> /\ t[2] \in Regions
    BY ThingsAre DEF AtStep, Types, LeavingTypeOK
  <2>2. CASE t[1] = "request"
    <3>1. <<"machine", t[2]>> \in left
      BY <2>1, <2>2 DEF Requested, Has
    <3>2. <<"machine", t[2]>> \in Listed
      BY <3>1 DEF Listed
    <3>3. QED BY <1>3, <3>2 DEF Billing
  <2>3. CASE t[1] # "request"
    BY <1>3, <1>4, <2>3 DEF Listed, Billing
  <2>4. QED BY <2>2, <2>3
<1>5. QED BY <1>4 DEF OfKind

LEMMA NotYetSaid ==
  ASSUME AtStep, Step, ~Look
  PROVE  "disconnected" \notin said'
<1> DEFINE others == {"everything deleted", "exit 0", "exit 1", "not asked", "not confirmed"}
<1> SUFFICES said' \subseteq others
  OBVIOUS
<1>0. said \subseteq {"everything deleted"}
  BY DEF AtStep, Quietly, Deleted
<1>1. CASE EndBox
  <2>1. UNCHANGED said \/ HereEnds(TRUE, {})
    BY <1>1 DEF EndBox
  <2>2. QED BY <1>0, <2>1 DEF HereEnds
<1>2. CASE DeleteKeys
  <2>1. said' = said \cup Deleted \/ HereEnds(TRUE, Deleted)
    BY <1>2 DEF DeleteKeys
  <2>2. QED BY <1>0, <2>1 DEF Deleted, HereEnds
<1>3. CASE CleanHere
  <2>1. HereEnds(failed', {})
    BY <1>3 DEF CleanHere
  <2>2. QED BY <1>0, <2>1 DEF HereEnds
<1>4. CASE DeleteHere \/ DeleteBucket \/ RemoveBoxRole \/ RemoveWatchdogHere
  BY <1>0, <1>4 DEF DeleteHere, DeleteBucket, RemoveBoxRole, RemoveWatchdogHere
<1>5. CASE RestSteps
  BY <1>0, <1>5, RestGoes
<1>6. CASE Ask
  BY <1>0, <1>6 DEF Ask, Says
<1>7. QED BY <1>1, <1>2, <1>3, <1>4, <1>5, <1>6 DEF Step, RestSteps

LEMMA LeftNext ==
  ASSUME LeftInv, [LeavingNext]_leavingVars, Faults \cap {"cancel_elsewhere", "silent_billing"} = {}
  PROVE  LeftInv'
<1>1. EndInv'
  BY EndNext DEF LeftInv
<1>2. Requested' /\ DisconnectedBillsNothing'
  <2>1. CASE DestroyAll \/ Disconnect
    BY <2>1, BeginStep DEF LeftInv, Requested, Has, DisconnectedBillsNothing
  <2>2. CASE Step
    <3>1. AtStep /\ Requested'
      BY <2>2, StepRuns, StepRequests DEF LeftInv
    <3>2. CASE Look
      <4>1. UNCHANGED left
        BY <3>2 DEF Look
      <4>2. QED BY <3>1, <3>2, <4>1, LooksAgain DEF LeftInv, DisconnectedBillsNothing, OfKind
    <3>3. CASE ~Look
      BY <2>2, <3>1, <3>3, NotYetSaid DEF DisconnectedBillsNothing
    <3>4. QED BY <3>1, <3>2, <3>3
  <2>3. CASE UNCHANGED leavingVars
    BY <2>3 DEF leavingVars, LeftInv, Requested, Has, DisconnectedBillsNothing, OfKind
  <2>4. QED BY <2>1, <2>2, <2>3 DEF LeavingNext
<1>3. QED BY <1>1, <1>2 DEF LeftInv

\* A command ends as one that has done its work only when it has: after
\* "disconnected" nothing of cg bills in any region, after destroy --all has
\* ended with 0 nothing of this one does, and where "everything deleted" is not
\* so the command ends with another word.  This is where the second look of
\* disconnect.go counts.  It needs that no read takes what bills for nothing
\* there, and that requests elsewhere can be cancelled.
THEOREM EndsAreTrue ==
  ASSUME Faults \cap {"cancel_elsewhere", "silent_billing"} = {}
  PROVE  LeavingSpec => []DoneIsTrue
<1>1. LeavingInit => LeftInv
  BY LeftInit, EndInit DEF LeftInv, LeavingInit, DisconnectedBillsNothing
<1>2. LeftInv /\ [LeavingNext]_leavingVars => LeftInv'
  BY LeftNext
<1>3. LeftInv => DoneIsTrue
  <2>1. SUFFICES ASSUME LeftInv PROVE DoneIsTrue
    OBVIOUS
  <2>2. DisconnectedBillsNothing /\ DoneLeavesNothingHere
    BY <2>1 DEF LeftInv, EndInv, Finished
  <2>3. DeletedOrTakenBack
    <3>1. SUFFICES ASSUME order = NoOrder, "everything deleted" \in said,
                          said \cap {"exit 1", "still there"} = {}
                   PROVE  NothingBillsHere
      BY DEF DeletedOrTakenBack
    <3>2. "exit 0" \in said \/ "disconnected" \in said
      BY <2>1, <3>1 DEF LeftInv, EndInv, Quietly
    <3>3. QED BY <2>2, <3>2 DEF DisconnectedBillsNothing, DoneLeavesNothingHere, NothingBillsHere
  <2>4. QED BY <2>2, <2>3 DEF DoneIsTrue
<1>4. QED BY <1>1, <1>2, <1>3, PTL DEF LeavingSpec

\* While the machine of this region is there, destroy --all takes neither its
\* archive, its role nor its watchdog, whatever is refused: destroyall.go,
\* "none of it goes until the box is confirmed gone".
THEOREM GuardStays == LeavingSpec => GuardedUntilGone
<1> DEFINE Stays == order.kind = "destroy_all" /\ Has("machine", Home)
                      => \A t \in left \ left' : t[1] \notin {"games", "box_role", "watchdog", "role"}
<1>1. ASSUME EndInv, [LeavingNext]_leavingVars PROVE [Stays]_leavingVars
  <2>1. CASE DestroyAll \/ Disconnect
    BY <1>1, <2>1, BeginStep
  <2>2. CASE Step
    <3>1. AtStep /\ (gone => ~Has("machine", Home))
      BY <1>1, <2>2, StepRuns, BoxHereIs DEF AtStep, Course, Has
    <3>2. CASE EndBox \/ DeleteHere \/ DeleteKeys \/ CleanHere
      BY <3>1, <3>2, EndBoxStep, ImagesStep, KeysStep, CleanStep
    <3>3. CASE DeleteBucket \/ RemoveBoxRole \/ RemoveWatchdogHere
      BY <3>1, <3>3, BucketStep, RolesStep
    <3>4. CASE RestSteps
      BY <3>1, <3>4, RestStep
    <3>5. CASE Ask \/ Look
      BY <3>1, <3>5, LookSteps
    <3>6. QED BY <2>2, <3>2, <3>3, <3>4, <3>5 DEF Step, RestSteps
  <2>3. CASE UNCHANGED leavingVars
    BY <2>3
  <2>4. QED BY <1>1, <2>1, <2>2, <2>3 DEF LeavingNext
<1>2. QED BY <1>1, EndInductive, PTL DEF LeavingSpec, GuardedUntilGone

-----------------------------------------------------------------------------
(* The desktop app.                                                           *)

Once(s) == \A i, j \in DOMAIN s : s[i] = s[j] => i = j

Asks == [Calls -> [kind : Kinds \cup {"none"}, st : {"none", "sent", "parked", "runs"},
                   then : {"nothing", "refreshAll"}]]
Procs == [Calls -> {"none", "starts", "ends", "cut", "over"}]
Messages == [what : {"started", "busy", "exit"}, call : Calls, ok : BOOLEAN]
Typed == /\ ask \in Asks /\ proc \in Procs
         /\ toMain \in Seq(Calls) /\ parked \in Seq(Calls) /\ toWin \in Seq(Messages)

\* Where a number is: with the run it was given to, and nowhere twice.
Numbered ==
  /\ \A c \in Calls : proc[c] # "none" => ask[c].st \in {"sent", "runs"}
  /\ \A c \in Range(toMain) : ask[c].st = "sent" /\ proc[c] = "none"
  /\ \A c \in Range(parked) : ask[c].st = "parked"
  /\ Once(toMain) /\ Once(parked)

\* What the window is told of it: that it runs before that it has ended, and
\* nothing once it was turned away.
TellsOf(m) ==
  /\ m.call \notin Range(toMain)
  /\ m.what = "busy" => ask[m.call].st = "sent" /\ proc[m.call] = "none"
  /\ m.what = "exit" => proc[m.call] = "over"
  /\ m.what = "started" => proc[m.call] # "none"
InTurn(s) == \A i, j \in DOMAIN s :
               i < j /\ s[i].call = s[j].call => s[i].what = "started" /\ s[j].what = "exit"
Told == (\A m \in Range(toWin) : TellsOf(m)) /\ InTurn(toWin)

\* The main process knows of every run that goes on what the window asked.
JobOf(c) == [call |-> c, readOnly |-> ReadOnly(ask[c].kind)]
Known == \A c \in Calls : Alive(c) => JobOf(c) \in jobs

JobsInv == Typed /\ Numbered /\ Told /\ Known /\ AloneMeansAlone

-----------------------------------------------------------------------------
(* Sequences: what goes in and out of them.                                  *)
LEMMA HoldsOf == ASSUME NEW S, NEW s \in Seq(S) PROVE Range(s) \subseteq S
<1>1. DOMAIN s = 1..Len(s) /\ \A i \in 1..Len(s) : s[i] \in S
  OBVIOUS
<1>2. QED BY <1>1 DEF Range

LEMMA FirstOut ==
  ASSUME NEW S, NEW s \in Seq(S), s # <<>>
  PROVE  /\ Head(s) \in S /\ Head(s) \in Range(s) /\ Head(s) = s[1] /\ 1 \in DOMAIN s
         /\ Tail(s) \in Seq(S) /\ Range(Tail(s)) \subseteq Range(s)
         /\ \A i \in DOMAIN Tail(s) : i + 1 \in DOMAIN s /\ Tail(s)[i] = s[i + 1] /\ i \in Nat /\ i > 0
<1>1. /\ Len(s) \in Nat /\ Len(s) > 0 /\ DOMAIN s = 1..Len(s) /\ Tail(s) \in Seq(S)
      /\ DOMAIN Tail(s) = 1..(Len(s) - 1) /\ Head(s) = s[1] /\ \A i \in 1..Len(s) : s[i] \in S
      /\ \A i \in 1..(Len(s) - 1) : Tail(s)[i] = s[i + 1]
  OBVIOUS
<1>2. 1 \in 1..Len(s) /\ \A i \in 1..(Len(s) - 1) : i + 1 \in 1..Len(s) /\ i \in Nat /\ i > 0
  BY ONLY <1>1
<1>3. QED BY <1>1, <1>2 DEF Range

LEMMA OnceOut ==
  ASSUME NEW S, NEW s \in Seq(S), s # <<>>, Once(s)
  PROVE  Once(Tail(s)) /\ Head(s) \notin Range(Tail(s))
<1>1. ASSUME NEW i \in DOMAIN Tail(s), NEW j \in DOMAIN Tail(s), Tail(s)[i] = Tail(s)[j] PROVE i = j
  <2>1. i + 1 = j + 1 /\ i \in Nat /\ j \in Nat
    BY <1>1, FirstOut DEF Once
  <2>2. QED BY ONLY <2>1
<1>2. ASSUME NEW i \in DOMAIN Tail(s) PROVE Tail(s)[i] # Head(s)
  <2>1. i + 1 # 1 /\ i + 1 \in DOMAIN s /\ 1 \in DOMAIN s /\ Tail(s)[i] = s[i + 1] /\ Head(s) = s[1]
    BY <1>2, FirstOut
  <2>2. QED BY <2>1 DEF Once
<1>3. QED BY <1>1, <1>2 DEF Once, Range

LEMMA OneMore ==
  ASSUME NEW S, NEW s \in Seq(S), NEW e \in S
  PROVE  /\ Append(s, e) \in Seq(S) /\ Range(Append(s, e)) = Range(s) \cup {e}
         /\ Once(s) /\ e \notin Range(s) => Once(Append(s, e))
<1>1. /\ Append(s, e) \in Seq(S) /\ DOMAIN s = 1..Len(s) /\ Len(s) \in Nat
      /\ DOMAIN Append(s, e) = 1..(Len(s) + 1)
      /\ \A i \in 1..Len(s) : Append(s, e)[i] = s[i]
      /\ Append(s, e)[Len(s) + 1] = e
  OBVIOUS
<1>2. \A i \in 1..(Len(s) + 1) : i \in 1..Len(s) \/ i = Len(s) + 1
  BY ONLY <1>1
<1>3. Len(s) + 1 \in 1..(Len(s) + 1) /\ \A i \in 1..Len(s) : i \in 1..(Len(s) + 1)
  BY ONLY <1>1
<1>4. Range(Append(s, e)) = Range(s) \cup {e}
  BY <1>1, <1>2, <1>3 DEF Range
<1>5. ASSUME Once(s), e \notin Range(s) PROVE Once(Append(s, e))
  BY <1>1, <1>2, <1>5 DEF Once, Range
<1>6. QED BY <1>1, <1>4, <1>5

LEMMA OnceJoined ==
  ASSUME NEW S, NEW s \in Seq(S), NEW t \in Seq(S)
  PROVE  /\ s \o t \in Seq(S) /\ Range(s \o t) = Range(s) \cup Range(t)
         /\ Once(s) /\ Once(t) /\ Range(s) \cap Range(t) = {} => Once(s \o t)
<1>1. /\ s \o t \in Seq(S) /\ DOMAIN s = 1..Len(s) /\ DOMAIN t = 1..Len(t)
      /\ Len(s) \in Nat /\ Len(t) \in Nat /\ DOMAIN (s \o t) = 1..(Len(s) + Len(t))
      /\ \A i \in 1..Len(s) : (s \o t)[i] = s[i]
      /\ \A i \in 1..(Len(s) + Len(t)) : i > Len(s) => (s \o t)[i] = t[i - Len(s)]
  OBVIOUS
<1>2. /\ \A i \in 1..(Len(s) + Len(t)) : i \in 1..Len(s) \/ (i > Len(s) /\ i - Len(s) \in 1..Len(t))
      /\ \A i \in 1..Len(s) : i \in 1..(Len(s) + Len(t))
      /\ \A j \in 1..Len(t) : /\ j + Len(s) \in 1..(Len(s) + Len(t)) /\ j + Len(s) > Len(s)
                              /\ (j + Len(s)) - Len(s) = j
      /\ \A i, j \in 1..(Len(s) + Len(t)) : i - Len(s) = j - Len(s) => i = j
  BY ONLY <1>1
<1>3. Range(s \o t) \subseteq Range(s) \cup Range(t)
  BY <1>1, <1>2 DEF Range
<1>4. ASSUME NEW i \in 1..Len(s) PROVE s[i] \in Range(s \o t)
  BY <1>1, <1>2 DEF Range
<1>5. ASSUME NEW j \in 1..Len(t) PROVE t[j] \in Range(s \o t)
  <2>1. (s \o t)[j + Len(s)] = t[j]
    BY <1>1, <1>2
  <2>2. QED BY <1>1, <1>2, <2>1 DEF Range
<1>6. ASSUME Once(s), Once(t), Range(s) \cap Range(t) = {},
             NEW i \in 1..(Len(s) + Len(t)), NEW j \in 1..(Len(s) + Len(t)), (s \o t)[i] = (s \o t)[j]
      PROVE  i = j
  <2>1. CASE i \in 1..Len(s) /\ j \in 1..Len(s)
    BY <1>1, <1>6, <2>1 DEF Once
  <2>2. CASE i > Len(s) /\ j > Len(s)
    BY <1>1, <1>2, <1>6, <2>2, SMTT(30) DEF Once
  <2>3. ASSUME NEW k \in 1..Len(s), NEW l \in 1..(Len(s) + Len(t)), l > Len(s)
        PROVE  (s \o t)[k] # (s \o t)[l]
    <3>1. (s \o t)[k] \in Range(s)
      BY <1>1 DEF Range
    <3>2. (s \o t)[l] \in Range(t)
      <4>1. l - Len(s) \in 1..Len(t) /\ (s \o t)[l] = t[l - Len(s)]
        BY <1>1, <1>2, <2>3
      <4>2. QED BY <1>1, <4>1 DEF Range
    <3>3. QED BY <1>6, <3>1, <3>2
  <2>4. CASE i \in 1..Len(s) /\ j > Len(s)
    BY <1>6, <2>3, <2>4
  <2>5. CASE j \in 1..Len(s) /\ i > Len(s)
    BY <1>6, <2>3, <2>5
  <2>6. (i \in 1..Len(s) \/ i > Len(s)) /\ (j \in 1..Len(s) \/ j > Len(s))
    BY <1>2
  <2>7. QED BY ONLY <2>1, <2>2, <2>4, <2>5, <2>6
<1>7. Range(s) \subseteq Range(s \o t) /\ Range(t) \subseteq Range(s \o t)
  BY <1>1, <1>4, <1>5 DEF Range
<1>8. Once(s) /\ Once(t) /\ Range(s) \cap Range(t) = {} => Once(s \o t)
  BY <1>1, <1>6 DEF Once
<1>9. QED BY <1>1, <1>3, <1>7, <1>8

LEMMA CutInTwo ==
  ASSUME NEW S, NEW s \in Seq(S), Once(s), NEW m \in 0..Len(s)
  PROVE  LET a == SubSeq(s, 1, m) b == SubSeq(s, m + 1, Len(s))
         IN  /\ a \in Seq(S) /\ b \in Seq(S) /\ Once(a) /\ Once(b)
             /\ Range(a) \subseteq Range(s) /\ Range(b) \subseteq Range(s)
             /\ Range(a) \cap Range(b) = {}
<1> DEFINE a == SubSeq(s, 1, m)
           b == SubSeq(s, m + 1, Len(s))
<1>1. /\ Len(s) \in Nat /\ m \in Nat /\ DOMAIN s = 1..Len(s)
      /\ \A i \in 1..Len(s) : s[i] \in S
  OBVIOUS
<1>2. a \in Seq(S) /\ DOMAIN a = 1..m /\ \A i \in 1..m : a[i] = s[i] /\ i \in 1..Len(s)
  BY <1>1
<1>3. b \in Seq(S) /\ DOMAIN b = 1..(Len(s) - m) /\ \A i \in 1..(Len(s) - m) : b[i] = s[i + m]
  BY <1>1
<1>4. /\ \A i \in 1..(Len(s) - m) : i + m \in 1..Len(s)
      /\ \A i \in 1..(Len(s) - m), j \in 1..m : i + m # j
      /\ \A i, j \in 1..(Len(s) - m) : i + m = j + m => i = j
  BY ONLY <1>1
<1> HIDE DEF a, b
<1>5. Once(a) /\ Range(a) \subseteq Range(s)
  BY <1>1, <1>2 DEF Once, Range
<1>6. ASSUME NEW i \in 1..(Len(s) - m) PROVE b[i] = s[i + m] /\ i + m \in 1..Len(s)
  BY <1>3, <1>4
<1>7. Range(b) \subseteq Range(s)
  BY <1>1, <1>3, <1>6 DEF Range
<1>8. ASSUME NEW i \in 1..(Len(s) - m), NEW j \in 1..(Len(s) - m), b[i] = b[j] PROVE i = j
  <2>1. i + m = j + m
    BY <1>1, <1>6, <1>8 DEF Once
  <2>2. QED BY <1>4, <2>1
<1>9. Once(b)
  BY <1>3, <1>8 DEF Once
<1>10. ASSUME NEW i \in 1..(Len(s) - m), NEW j \in 1..m PROVE b[i] # a[j]
  <2>1. b[i] = s[i + m] /\ i + m \in 1..Len(s) /\ a[j] = s[j] /\ j \in 1..Len(s) /\ i + m # j
    BY <1>2, <1>4, <1>6
  <2>2. QED BY <1>1, <2>1 DEF Once
<1>11. Range(a) \cap Range(b) = {}
  <2>1. ASSUME NEW x \in Range(a), x \in Range(b) PROVE FALSE
    <3>1. PICK j \in 1..m : x = a[j]
      BY <1>2 DEF Range
    <3>2. PICK i \in 1..(Len(s) - m) : x = b[i]
      BY <1>3, <2>1 DEF Range
    <3>3. QED BY <1>10, <3>1, <3>2
  <2>2. QED BY <2>1
<1>12. QED BY <1>2, <1>3, <1>5, <1>7, <1>11, <1>9 DEF a, b

-----------------------------------------------------------------------------
(* The numbers a list of runs takes: free ones, each of them once.           *)
Pairs == Kinds \X {"nothing", "refreshAll"}

LEMMA TakesFree ==
  ASSUME NEW list, Room(list), Len(list) \in Nat
  PROVE  /\ Numbers(list) \in Seq(Calls) /\ Len(Numbers(list)) = Len(list)
         /\ Once(Numbers(list)) /\ Range(Numbers(list)) \subseteq Free
<1>1. ASSUME NEW i \in 1..Len(list) PROVE FreeOne(i) \in Free /\ Place(FreeOne(i)) = i
  BY <1>1 DEF Room, FreeOne
<1>2. Free \subseteq Calls
  BY DEF Free
<1>3. /\ Numbers(list) \in Seq(Calls) /\ Len(Numbers(list)) = Len(list)
      /\ DOMAIN Numbers(list) = 1..Len(list)
      /\ \A i \in 1..Len(list) : Numbers(list)[i] = FreeOne(i)
  BY <1>1, <1>2 DEF Numbers
<1>4. Once(Numbers(list))
  BY <1>1, <1>3 DEF Once
<1>5. Range(Numbers(list)) \subseteq Free
  BY <1>1, <1>3 DEF Range
<1>6. QED BY <1>3, <1>4, <1>5

LEMMA AsksFor ==
  ASSUME NEW list \in Seq(Pairs), Room(list), NEW was \in Asks
  PROVE  /\ Asked(list, was) \in Asks
         /\ \A c \in Calls :
              /\ c \in Range(Numbers(list)) => Asked(list, was)[c].st = "sent"
              /\ c \notin Range(Numbers(list)) => Asked(list, was)[c] = was[c]
<1>0. Len(list) \in Nat /\ DOMAIN list = 1..Len(list) /\ \A i \in 1..Len(list) : list[i] \in Pairs
  OBVIOUS
<1>1. ASSUME NEW p \in Pairs
      PROVE  /\ Sent(p) \in [kind : Kinds \cup {"none"}, st : {"none", "sent", "parked", "runs"},
                             then : {"nothing", "refreshAll"}]
             /\ Sent(p).st = "sent"
  BY DEF Sent, Pairs
<1>2. ASSUME NEW c \in Calls
      PROVE  /\ Asked(list, was)[c] \in [kind : Kinds \cup {"none"}, st : {"none", "sent", "parked", "runs"},
                                         then : {"nothing", "refreshAll"}]
             /\ c \in Range(Numbers(list)) => Asked(list, was)[c].st = "sent"
             /\ c \notin Range(Numbers(list)) => Asked(list, was)[c] = was[c]
  <2>1. c \in Range(Numbers(list)) <=> \E i \in 1..Len(list) : FreeOne(i) = c
    BY DEF Numbers, Range
  <2>2. CASE \E i \in 1..Len(list) : FreeOne(i) = c
    <3> DEFINE k == CHOOSE i \in 1..Len(list) : FreeOne(i) = c
    <3>1. k \in 1..Len(list)
      BY <2>2
    <3>2. Asked(list, was)[c] = Sent(list[k])
      BY <2>2 DEF Asked
    <3> HIDE DEF k
    <3>3. QED BY <1>0, <1>1, <2>1, <2>2, <3>1, <3>2
  <2>3. CASE ~ \E i \in 1..Len(list) : FreeOne(i) = c
    <3>1. Asked(list, was)[c] = was[c]
      BY <2>3 DEF Asked
    <3>2. QED BY <2>1, <2>3, <3>1 DEF Asks
  <2>4. QED BY <2>2, <2>3
<1>3. Asked(list, was) = [c \in Calls |-> Asked(list, was)[c]]
  BY DEF Asked
<1>4. QED BY <1>2, <1>3 DEF Asks

-----------------------------------------------------------------------------
(* The window gives a command, or starts its reads again.                    *)

LEMMA MessagesAre ==
  ASSUME JobsInv, NEW m \in Range(toWin)
  PROVE  m \in Messages /\ m.call \in Calls /\ m.what \in {"started", "busy", "exit"} /\ TellsOf(m)
<1>1. m \in Messages
  BY HoldsOf DEF JobsInv, Typed
<1>2. TellsOf(m)
  BY DEF JobsInv, Told
<1>3. QED BY <1>1, <1>2 DEF Messages

\* A request on its way is of a number that was free.
LEMMA Sends ==
  ASSUME JobsInv, NEW list \in Seq(Pairs), NEW nums, nums = Numbers(list), Room(list),
         ask' = Asked(list, ask), toMain' = toMain \o nums, UNCHANGED <<parked, toWin, jobs>>,
         proc' \in Procs, \A c \in Calls : (proc'[c] = "none" <=> proc[c] = "none")
                                        /\ (proc'[c] = "over" <=> proc[c] = "over")
  PROVE  JobsInv'
<1>1. /\ ask \in Asks /\ proc \in Procs /\ toMain \in Seq(Calls) /\ parked \in Seq(Calls)
      /\ toWin \in Seq(Messages) /\ Len(list) \in Nat
  BY DEF JobsInv, Typed
<1>2. nums \in Seq(Calls) /\ Once(nums) /\ Range(nums) \subseteq Free
  BY <1>1, TakesFree
<1>3. /\ ask' \in Asks
      /\ \A c \in Calls : (c \in Range(nums) => ask'[c].st = "sent") /\ (c \notin Range(nums) => ask'[c] = ask[c])
  BY <1>1, AsksFor
<1>4. \A c \in Free : c \in Calls /\ ask[c].st = "none" /\ proc[c] = "none"
  BY DEF Free, JobsInv, Numbered
<1>5. Range(toMain) \cap Range(nums) = {} /\ Range(toMain) \subseteq Calls /\ Range(parked) \subseteq Calls
  BY <1>1, <1>2, <1>4, HoldsOf DEF JobsInv, Numbered
<1>6. /\ toMain' \in Seq(Calls) /\ Range(toMain') = Range(toMain) \cup Range(nums) /\ Once(toMain')
  BY <1>1, <1>2, <1>5, OnceJoined DEF JobsInv, Numbered
<1>7. Typed'
  BY <1>1, <1>3, <1>6 DEF Typed, Asks, Procs, Messages
<1>8. Numbered'
  <2>1. \A c \in Calls : proc'[c] # "none" => ask'[c].st \in {"sent", "runs"}
    BY <1>2, <1>3, <1>4 DEF JobsInv, Numbered
  <2>2. \A c \in Range(toMain') : ask'[c].st = "sent" /\ proc'[c] = "none"
    <3>1. ASSUME NEW c \in Range(toMain) PROVE ask'[c].st = "sent" /\ proc'[c] = "none"
      BY <1>3, <1>5 DEF JobsInv, Numbered
    <3>2. ASSUME NEW c \in Range(nums) PROVE ask'[c].st = "sent" /\ proc'[c] = "none"
      BY <1>2, <1>3, <1>4
    <3>3. QED BY <1>6, <3>1, <3>2
  <2>3. \A c \in Range(parked) : ask'[c].st = "parked"
    BY <1>2, <1>3, <1>4, <1>5 DEF JobsInv, Numbered
  <2>4. QED BY <1>6, <2>1, <2>2, <2>3 DEF JobsInv, Numbered
<1>9. Told'
  <2>1. ASSUME NEW m \in Range(toWin) PROVE TellsOf(m)'
    <3>1. /\ m.call \in Calls /\ TellsOf(m) /\ m.what \in {"started", "busy", "exit"}
      BY MessagesAre
    <3>2. m.call \notin Free
      BY <3>1, <1>4 DEF TellsOf, Free
    <3>3. m.call \notin Range(nums)
      BY <1>2, <3>2
    <3>4. ask'[m.call] = ask[m.call]
      BY <1>3, <3>1, <3>3
    <3>5. QED BY <1>6, <3>1, <3>3, <3>4 DEF TellsOf
  <2>2. QED BY <2>1 DEF JobsInv, Told
<1>10. \A c \in Calls : Alive(c)' => Alive(c) /\ ask'[c] = ask[c]
  <2>1. ASSUME NEW c \in Calls, Alive(c)' PROVE Alive(c) /\ ask'[c] = ask[c]
    <3>1. proc'[c] # "none" /\ proc'[c] # "over"
      BY <2>1 DEF Alive
    <3>2. proc[c] # "none" /\ proc[c] # "over" /\ Alive(c)
      BY <1>1, <3>1 DEF Alive, Procs
    <3>3. c \notin Range(nums)
      BY <1>2, <1>4, <3>2
    <3>4. QED BY <1>3, <3>2, <3>3
  <2>2. QED BY <2>1
<1>11. Known' /\ AloneMeansAlone'
  BY <1>10 DEF JobsInv, Known, JobOf, AloneMeansAlone, Together, ReadOnly
<1>12. QED BY <1>7, <1>8, <1>9, <1>11 DEF JobsInv

LEMMA GivesStep == ASSUME JobsInv, NEW k \in Alone \cup {"config", "set"}, Gives(k) PROVE JobsInv'
<1> DEFINE list == <<<<k, "nothing">>>>
<1>1. list \in Seq(Pairs) /\ Len(list) = 1 /\ Len(<<k>>) = 1
  BY DEF Pairs, Kinds, Reads
<1>2. Room(list) /\ Numbers(<<k>>) = Numbers(list)
  BY <1>1 DEF Gives, Room, Numbers
<1>3. /\ ask' = Asked(list, ask) /\ toMain' = toMain \o Numbers(<<k>>)
      /\ UNCHANGED <<parked, toWin, jobs>> /\ proc' = proc
  BY DEF Gives, outside
<1>4. proc \in Procs
  BY DEF JobsInv, Typed
<1> HIDE DEF list
<1>5. QED BY <1>1, <1>2, <1>3, <1>4, Sends

LEMMA RetryStep == ASSUME JobsInv, RetryReads PROVE JobsInv'
<1>1. RefreshAll \in Seq(Pairs)
  BY DEF RefreshAll, Pairs, Kinds, Reads
<1>2. proc \in Procs
  BY DEF JobsInv, Typed
<1>3. /\ proc' \in Procs
      /\ \A c \in Calls : (proc'[c] = "none" <=> proc[c] = "none") /\ (proc'[c] = "over" <=> proc[c] = "over")
  BY <1>2 DEF RetryReads, Procs
<1>4. /\ ask' = Asked(RefreshAll, ask) /\ toMain' = toMain \o Numbers(RefreshAll) /\ Room(RefreshAll)
      /\ UNCHANGED <<parked, toWin, jobs>>
  BY DEF RetryReads
<1>5. QED BY <1>1, <1>3, <1>4, Sends

-----------------------------------------------------------------------------
(* The main process starts a run, or tells that it is busy.                  *)
\* A message about a number of which nothing has been told yet.
LEMMA TellsFirst ==
  ASSUME JobsInv, NEW m \in Messages, \A w \in Range(toWin) : w.call = m.call => w.what = "started" /\ m.what = "exit"
  PROVE  Append(toWin, m) \in Seq(Messages) /\ Range(Append(toWin, m)) = Range(toWin) \cup {m} /\ InTurn(Append(toWin, m))
<1>1. /\ toWin \in Seq(Messages) /\ InTurn(toWin)
  BY DEF JobsInv, Typed, Told
<1>2. /\ DOMAIN toWin = 1..Len(toWin) /\ Len(toWin) \in Nat
      /\ DOMAIN Append(toWin, m) = 1..(Len(toWin) + 1)
      /\ \A i \in 1..Len(toWin) : Append(toWin, m)[i] = toWin[i]
      /\ Append(toWin, m)[Len(toWin) + 1] = m
  BY <1>1
<1>3. ASSUME NEW i \in 1..(Len(toWin) + 1), NEW j \in 1..(Len(toWin) + 1), i < j
      PROVE  i \in 1..Len(toWin) /\ (j \in 1..Len(toWin) \/ j = Len(toWin) + 1)
  BY ONLY <1>2, <1>3
<1>4. ASSUME NEW i \in 1..(Len(toWin) + 1), NEW j \in 1..(Len(toWin) + 1), i < j,
             Append(toWin, m)[i].call = Append(toWin, m)[j].call
      PROVE  Append(toWin, m)[i].what = "started" /\ Append(toWin, m)[j].what = "exit"
  <2>1. CASE j \in 1..Len(toWin)
    BY <1>1, <1>2, <1>3, <1>4, <2>1 DEF InTurn
  <2>2. CASE j = Len(toWin) + 1
    <3>1. toWin[i] \in Range(toWin) /\ toWin[i] = Append(toWin, m)[i] /\ m = Append(toWin, m)[j]
      BY <1>2, <1>3, <1>4, <2>2 DEF Range
    <3>2. QED BY <1>4, <3>1
  <2>3. QED BY <1>3, <1>4, <2>1, <2>2
<1>5. QED BY <1>1, <1>2, <1>4, OneMore DEF InTurn

\* The request that is taken up: nothing has been said of it, and it is no job.
LEMMA TakesUp ==
  ASSUME JobsInv, toMain # <<>>, toMain' = Tail(toMain), NEW c, c = Head(toMain)
  PROVE  /\ c \in Calls /\ ask[c].st = "sent" /\ proc[c] = "none"
         /\ \A m \in Range(toWin) : m.call # c
         /\ toMain' \in Seq(Calls) /\ Range(toMain') \subseteq Range(toMain) /\ Once(toMain')
         /\ c \notin Range(toMain')
<1>1. toMain \in Seq(Calls) /\ Once(toMain)
  BY DEF JobsInv, Typed, Numbered
<1>2. /\ c \in Calls /\ c \in Range(toMain) /\ toMain' \in Seq(Calls)
      /\ Range(toMain') \subseteq Range(toMain) /\ Once(toMain') /\ c \notin Range(toMain')
  BY <1>1, FirstOut, OnceOut
<1>3. \A m \in Range(toWin) : m.call # c
  BY <1>2 DEF JobsInv, Told, TellsOf
<1>4. QED BY <1>2, <1>3 DEF JobsInv, Numbered

\* Not blocked, it runs beside nothing that it must not.
LEMMA NotBlocked ==
  ASSUME JobsInv, NEW c \in Calls, Blockers(c) = {}, NEW d \in Calls, Alive(d)
  PROVE  \/ ask[c].kind = "disk" /\ ask[d].kind = "open"
         \/ ask[c].kind \notin Alone /\ ask[d].kind \notin Alone
<1>1. JobOf(d) \in jobs
  BY DEF JobsInv, Known
<1>2. JobOf(d).call = d /\ JobOf(d).readOnly = ReadOnly(ask[d].kind)
  BY DEF JobOf
<1>3. ~(WaitsFor(c, JobOf(d)) /\ (ReadOnly(ask[c].kind) => ~JobOf(d).readOnly))
  BY <1>1 DEF Blockers
<1>4. QED BY <1>2, <1>3 DEF WaitsFor, ReadOnly, Beside

LEMMA StartStep == ASSUME JobsInv, StartJob PROVE JobsInv'
<1> PICK c : c = Head(toMain)
  OBVIOUS
<1>0. /\ toMain # <<>> /\ toMain' = Tail(toMain) /\ UNCHANGED <<ask, parked>>
  BY DEF StartJob, window
<1>1. /\ c \in Calls /\ ask[c].st = "sent" /\ proc[c] = "none"
      /\ \A m \in Range(toWin) : m.call # c
      /\ toMain' \in Seq(Calls) /\ Range(toMain') \subseteq Range(toMain) /\ Once(toMain')
      /\ c \notin Range(toMain')
  BY <1>0, TakesUp
<1>2. proc \in Procs /\ ask \in Asks /\ parked \in Seq(Calls)
  BY DEF JobsInv, Typed
<1>3. CASE Blockers(c) # {}
  <2> DEFINE m == [what |-> "busy", call |-> c, ok |-> FALSE]
  <2>1. toWin' = Append(toWin, m) /\ UNCHANGED <<jobs, proc>>
    BY <1>3 DEF StartJob
  <2>2. m \in Messages /\ m.call = c /\ m.what = "busy"
    BY <1>1 DEF Messages
  <2> HIDE DEF m
  <2>3. toWin' \in Seq(Messages) /\ Range(toWin') = Range(toWin) \cup {m} /\ InTurn(toWin')
    BY <1>1, <2>1, <2>2, TellsFirst
  <2>4. Typed' /\ Numbered'
    BY <1>0, <1>1, <1>2, <2>1, <2>3 DEF JobsInv, Numbered, Typed, Asks, Procs, Messages
  <2>5. Told'
    <3>1. ASSUME NEW w \in Range(toWin) PROVE TellsOf(w)'
      BY <1>0, <1>1, <2>1, MessagesAre DEF TellsOf
    <3>2. TellsOf(m)'
      BY <1>0, <1>1, <2>1, <2>2 DEF TellsOf
    <3>3. QED BY <2>3, <3>1, <3>2 DEF Told
  <2>6. Known' /\ AloneMeansAlone'
    BY <1>0, <2>1 DEF JobsInv, Known, JobOf, Alive, AloneMeansAlone, Together
  <2>7. QED BY <2>4, <2>5, <2>6 DEF JobsInv
<1>4. CASE Blockers(c) = {}
  <2> DEFINE m == [what |-> "started", call |-> c, ok |-> TRUE]
  <2>1. /\ toWin' = Append(toWin, m) /\ jobs' = jobs \cup {JobOf(c)}
        /\ \E p \in {"starts", "ends"} : proc' = [proc EXCEPT ![c] = p]
    BY <1>4 DEF StartJob, JobOf
  <2>2. m \in Messages /\ m.call = c /\ m.what = "started"
    BY <1>1 DEF Messages
  <2> HIDE DEF m
  <2>3. toWin' \in Seq(Messages) /\ Range(toWin') = Range(toWin) \cup {m} /\ InTurn(toWin')
    BY <1>1, <2>1, <2>2, TellsFirst
  <2>4. /\ proc' \in Procs /\ proc'[c] \in {"starts", "ends"} /\ \A d \in Calls : d # c => proc'[d] = proc[d]
    BY <1>1, <1>2, <2>1 DEF Procs
  <2>5. Typed' /\ Numbered'
    <3>1. Typed'
      BY <1>0, <1>1, <1>2, <2>3, <2>4 DEF Typed, Asks, Procs, Messages
    <3>2. Range(toMain) \subseteq Calls
      BY HoldsOf DEF JobsInv, Typed
    <3>3. Numbered'
      BY <1>0, <1>1, <2>4, <3>2 DEF JobsInv, Numbered
    <3>4. QED BY <3>1, <3>3
  <2>6. Told'
    <3>1. ASSUME NEW w \in Range(toWin) PROVE TellsOf(w)'
      <4>1. w.call # c /\ w.call \in Calls /\ TellsOf(w) /\ w.call \notin Range(toMain')
        BY <1>1, MessagesAre DEF TellsOf
      <4>2. proc'[w.call] = proc[w.call] /\ ask' = ask
        BY <1>0, <2>4, <4>1
      <4>3. QED BY <4>1, <4>2 DEF TellsOf
    <3>2. TellsOf(m)'
      BY <1>0, <1>1, <2>2, <2>4 DEF TellsOf
    <3>3. QED BY <2>3, <3>1, <3>2 DEF Told
  <2>7. \A d \in Calls : Alive(d)' => d = c \/ Alive(d)
    BY <2>4 DEF Alive
  <2>8. Known'
    BY <1>0, <2>1, <2>7 DEF JobsInv, Known, JobOf
  <2>9. AloneMeansAlone'
    <3>1. SUFFICES ASSUME NEW a \in Calls, NEW b \in Calls, Alive(a)', Alive(b)', a # b, ask[a].kind \in Alone
                   PROVE  {ask[a].kind, ask[b].kind} = {"open", "disk"}
      BY <1>0 DEF AloneMeansAlone, Together
    <3>2. CASE a # c /\ b # c
      BY <2>7, <3>1, <3>2 DEF JobsInv, AloneMeansAlone, Together
    <3>3. CASE a = c
      BY <1>1, <1>4, <2>7, <3>1, <3>3, NotBlocked
    <3>4. CASE b = c
      BY <1>1, <1>4, <2>7, <3>1, <3>4, NotBlocked
    <3>5. QED BY <3>2, <3>3, <3>4
  <2>10. QED BY <2>5, <2>6, <2>8, <2>9 DEF JobsInv
<1>5. QED BY <1>3, <1>4

-----------------------------------------------------------------------------
(* A run of cg touches .env, and ends.                                       *)
LEMMA TouchesStep == ASSUME JobsInv, NEW c \in Calls, TouchesEnv(c) PROVE JobsInv'
<1>1. /\ proc \in Procs /\ proc[c] = "starts" /\ proc' = [proc EXCEPT ![c] = "ends"]
      /\ UNCHANGED <<ask, parked, toMain, toWin, jobs>>
  BY DEF JobsInv, Typed, TouchesEnv, window
<1>2. proc' \in Procs /\ proc'[c] = "ends" /\ \A d \in Calls : d # c => proc'[d] = proc[d]
  BY <1>1 DEF Procs
<1>3. /\ \A d \in Calls : (proc'[d] = "none" <=> proc[d] = "none") /\ (proc'[d] = "over" <=> proc[d] = "over")
      /\ \A d \in Calls : Alive(d)' <=> Alive(d)
  BY <1>1, <1>2 DEF Alive
<1>4. Range(toMain) \subseteq Calls /\ \A m \in Range(toWin) : m.call \in Calls
  BY HoldsOf, MessagesAre DEF JobsInv, Typed
<1>5. Typed'
  BY <1>1, <1>2 DEF JobsInv, Typed, Asks, Procs, Messages
<1>6. Numbered' /\ Told'
  BY <1>1, <1>3, <1>4 DEF JobsInv, Numbered, Told, TellsOf
<1>7. Known' /\ AloneMeansAlone'
  BY <1>1, <1>3 DEF JobsInv, Known, JobOf, AloneMeansAlone, Together
<1>8. QED BY <1>5, <1>6, <1>7 DEF JobsInv

LEMMA SettlesStep == ASSUME JobsInv, NEW c \in Calls, NEW ok \in BOOLEAN, Settles(c, ok) PROVE JobsInv'
<1> DEFINE m == [what |-> "exit", call |-> c, ok |-> ok]
<1>1. /\ proc \in Procs /\ proc[c] \in {"ends", "cut", "starts"} /\ proc' = [proc EXCEPT ![c] = "over"]
      /\ UNCHANGED <<ask, parked, toMain>> /\ toWin' = Append(toWin, m)
      /\ jobs' = {j \in jobs : j.call # c}
  BY DEF JobsInv, Typed, Settles, window
<1>2. /\ proc' \in Procs /\ proc'[c] = "over" /\ \A d \in Calls : d # c => proc'[d] = proc[d]
  BY <1>1 DEF Procs
<1>3. m \in Messages /\ m.call = c /\ m.what = "exit"
  BY DEF Messages
<1> HIDE DEF m
<1>4. Range(toMain) \subseteq Calls /\ \A w \in Range(toWin) : w.call \in Calls
  BY HoldsOf, MessagesAre DEF JobsInv, Typed
<1>5. c \notin Range(toMain)
  BY <1>1 DEF JobsInv, Numbered
<1>6. \A w \in Range(toWin) : w.call = c => w.what = "started"
  BY <1>1, MessagesAre DEF TellsOf
<1>7. toWin' \in Seq(Messages) /\ Range(toWin') = Range(toWin) \cup {m} /\ InTurn(toWin')
  BY <1>1, <1>3, <1>6, TellsFirst
<1>8. Typed'
  BY <1>1, <1>2, <1>7 DEF JobsInv, Typed, Asks, Procs, Messages
<1>9. Numbered'
  BY <1>1, <1>2, <1>4, <1>5 DEF JobsInv, Numbered
<1>10. Told'
  <2>1. ASSUME NEW w \in Range(toWin) PROVE TellsOf(w)'
    <3>1. CASE w.call = c
      BY <1>1, <1>2, <1>5, <1>6, <3>1 DEF TellsOf
    <3>2. CASE w.call # c
      BY <1>1, <1>2, <3>2, MessagesAre DEF TellsOf
    <3>3. QED BY <3>1, <3>2
  <2>2. TellsOf(m)'
    BY <1>1, <1>2, <1>3, <1>5 DEF TellsOf
  <2>3. QED BY <1>7, <2>1, <2>2 DEF Told
<1>11. \A d \in Calls : Alive(d)' => Alive(d) /\ d # c
  BY <1>1, <1>2 DEF Alive
<1>12. Known' /\ AloneMeansAlone'
  BY <1>1, <1>11 DEF JobsInv, Known, JobOf, AloneMeansAlone, Together
<1>13. QED BY <1>8, <1>9, <1>10, <1>12 DEF JobsInv

-----------------------------------------------------------------------------
(* The window hears of a run.                                                *)
\* What it takes out of the queue, and what may still be there of that run.
LEMMA Hears ==
  ASSUME JobsInv, toWin # <<>>, toWin' = Tail(toWin), NEW m, m = Head(toWin)
  PROVE  /\ m \in Messages /\ m.call \in Calls /\ m.what \in {"started", "busy", "exit"} /\ TellsOf(m)
         /\ toWin' \in Seq(Messages) /\ Range(toWin') \subseteq Range(toWin) /\ InTurn(toWin')
         /\ \A w \in Range(toWin') : w.call = m.call => m.what = "started" /\ w.what = "exit"
<1>1. toWin \in Seq(Messages) /\ InTurn(toWin)
  BY DEF JobsInv, Typed, Told
<1>2. /\ m \in Range(toWin) /\ m = toWin[1] /\ 1 \in DOMAIN toWin
      /\ toWin' \in Seq(Messages) /\ Range(toWin') \subseteq Range(toWin)
      /\ \A i \in DOMAIN toWin' : i + 1 \in DOMAIN toWin /\ toWin'[i] = toWin[i + 1] /\ i \in Nat /\ i > 0
  BY <1>1, FirstOut
<1>3. ASSUME NEW i \in DOMAIN toWin', NEW j \in DOMAIN toWin', i < j, toWin'[i].call = toWin'[j].call
      PROVE  toWin'[i].what = "started" /\ toWin'[j].what = "exit"
  <2>1. i \in Nat /\ j \in Nat
    BY <1>2
  <2>2. i + 1 < j + 1
    BY ONLY <1>3, <2>1
  <2>3. QED BY <1>1, <1>2, <1>3, <2>2 DEF InTurn
<1>4. ASSUME NEW i \in DOMAIN toWin', toWin'[i].call = m.call PROVE m.what = "started" /\ toWin'[i].what = "exit"
  <2>1. i \in Nat /\ i > 0
    BY <1>2
  <2>2. 1 < i + 1
    BY ONLY <2>1
  <2>3. QED BY <1>1, <1>2, <1>4, <2>2 DEF InTurn
<1>5. InTurn(toWin')
  BY <1>3 DEF InTurn
<1>6. \A w \in Range(toWin') : w.call = m.call => m.what = "started" /\ w.what = "exit"
  BY <1>4 DEF Range
<1>7. QED BY <1>2, <1>5, <1>6, MessagesAre

\* Of a run that goes on the window keeps what it has asked.
LEMMA StillKnown ==
  ASSUME JobsInv, jobs' = jobs, \A c \in Calls : Alive(c)' => Alive(c) /\ ask'[c].kind = ask[c].kind
  PROVE  Known' /\ AloneMeansAlone'
BY DEF JobsInv, Known, JobOf, AloneMeansAlone, Together, ReadOnly

LEMMA RepliedStep ==
  ASSUME JobsInv, WindowHears, Head(toWin).what # "exit"
  PROVE  JobsInv'
<1> PICK m : m = Head(toWin)
  OBVIOUS
<1> PICK c : c = m.call
  OBVIOUS
<1>0. /\ toWin # <<>> /\ toWin' = Tail(toWin) /\ jobs' = jobs /\ Replied(c, m.what)
      /\ toMain' = toMain /\ proc' = proc
  BY DEF WindowHears, Replied
<1>1. /\ c \in Calls /\ m.what \in {"started", "busy"} /\ TellsOf(m)
      /\ toWin' \in Seq(Messages) /\ Range(toWin') \subseteq Range(toWin) /\ InTurn(toWin')
      /\ \A w \in Range(toWin') : w.call = c => m.what = "started" /\ w.what = "exit"
  BY <1>0, Hears
<1>2. /\ ask \in Asks /\ proc \in Procs /\ toMain \in Seq(Calls) /\ parked \in Seq(Calls)
      /\ Range(toMain) \subseteq Calls /\ Range(parked) \subseteq Calls /\ c \notin Range(toMain)
  BY <1>1, HoldsOf DEF JobsInv, Typed, TellsOf
<1>3. ASSUME NEW st \in {"runs", "parked"}, ask' = [ask EXCEPT ![c].st = st]
      PROVE  /\ ask' \in Asks /\ ask'[c].st = st /\ ask'[c].kind = ask[c].kind
             /\ \A d \in Calls : d # c => ask'[d] = ask[d]
  <2>1. \A r \in [kind : Kinds \cup {"none"}, st : {"none", "sent", "parked", "runs"}, then : {"nothing", "refreshAll"}] :
          LET q == [r EXCEPT !.st = st]
          IN  /\ q \in [kind : Kinds \cup {"none"}, st : {"none", "sent", "parked", "runs"}, then : {"nothing", "refreshAll"}]
              /\ q.st = st /\ q.kind = r.kind
    OBVIOUS
  <2>2. ask'[c] = [ask[c] EXCEPT !.st = st] /\ \A d \in Calls : d # c => ask'[d] = ask[d]
    BY <1>1, <1>2, <1>3 DEF Asks
  <2>3. ask' = [d \in Calls |-> ask'[d]]
    BY <1>2, <1>3 DEF Asks
  <2>4. /\ ask'[c] \in [kind : Kinds \cup {"none"}, st : {"none", "sent", "parked", "runs"},
                         then : {"nothing", "refreshAll"}]
        /\ ask'[c].st = st /\ ask'[c].kind = ask[c].kind
    BY <1>1, <1>2, <2>1, <2>2 DEF Asks
  <2>5. \A d \in Calls : ask'[d] \in [kind : Kinds \cup {"none"}, st : {"none", "sent", "parked", "runs"},
                                     then : {"nothing", "refreshAll"}]
    BY <1>2, <2>2, <2>4 DEF Asks
  <2>6. ask' \in Asks
    BY <2>3, <2>5 DEF Asks
  <2>7. QED BY <2>2, <2>4, <2>6
\* What is left in the queue is of another run, or is the end of one that runs.
<1>4. ASSUME NEW w \in Range(toWin'), ask'[w.call] = ask[w.call] \/ w.what = "exit" PROVE TellsOf(w)'
  BY <1>0, <1>1, <1>4, MessagesAre DEF TellsOf
<1>5. CASE m.what = "started"
  <2>1. ask' = [ask EXCEPT ![c].st = "runs"] /\ parked' = parked
    BY <1>0, <1>5 DEF Replied
  <2>2. /\ ask' \in Asks /\ ask'[c].st = "runs" /\ ask'[c].kind = ask[c].kind
        /\ \A d \in Calls : d # c => ask'[d] = ask[d]
    BY <1>3, <2>1
  <2>3. proc[c] # "none" /\ ask[c].st \in {"sent", "runs"}
    BY <1>1, <1>5 DEF TellsOf, JobsInv, Numbered
  <2>4. Typed'
    BY <1>0, <1>1, <1>2, <2>1, <2>2 DEF Typed, Asks, Procs, Messages
  <2>5. Numbered'
    BY <1>0, <1>2, <2>1, <2>2, <2>3 DEF JobsInv, Numbered
  <2>6. Told'
    <3>1. ASSUME NEW w \in Range(toWin') PROVE TellsOf(w)'
      <4>1. w.call \in Calls
        BY <1>1, MessagesAre
      <4>2. QED BY <1>1, <1>4, <2>2, <4>1
    <3>2. QED BY <1>1, <3>1 DEF Told
  <2>7. Known' /\ AloneMeansAlone'
    BY <1>0, <2>2, StillKnown DEF Alive
  <2>8. QED BY <2>4, <2>5, <2>6, <2>7 DEF JobsInv
<1>6. CASE m.what = "busy"
  <2>0. /\ ask[c].st = "sent" /\ proc[c] = "none" /\ c \notin Range(parked)
        /\ \A w \in Range(toWin') : w.call \in Calls /\ w.call # c
    BY <1>1, <1>6, MessagesAre DEF TellsOf, JobsInv, Numbered
  <2>1. /\ ask' \in Asks /\ ask'[c].st \in {"none", "parked"} /\ \A d \in Calls : d # c => ask'[d] = ask[d]
        /\ parked' \in Seq(Calls) /\ Once(parked')
        /\ \A d \in Range(parked') : d \in Range(parked) \/ (d = c /\ ask'[c].st = "parked")
    <3>1. CASE ask' = [ask EXCEPT ![c].st = "parked"] /\ parked' = Append(parked, c)
      <4>1. Once(parked') /\ parked' \in Seq(Calls) /\ Range(parked') = Range(parked) \cup {c}
        BY <1>1, <1>2, <2>0, <3>1, OneMore DEF JobsInv, Numbered
      <4>2. QED BY <1>3, <3>1, <4>1
    <3>2. CASE ask' = [ask EXCEPT ![c] = NoAsk] /\ parked' = parked
      <4>1. ask' \in Asks /\ ask'[c].st = "none" /\ \A d \in Calls : d # c => ask'[d] = ask[d]
        BY <1>1, <1>2, <3>2 DEF Asks, NoAsk
      <4>2. QED BY <1>2, <3>2, <4>1 DEF JobsInv, Numbered
    <3>3. QED BY <1>0, <1>6, <3>1, <3>2 DEF Replied
  <2>2. Typed'
    BY <1>0, <1>1, <1>2, <2>1 DEF Typed, Asks, Procs, Messages
  <2>3. Numbered'
    <3>1. \A d \in Calls : proc'[d] # "none" => ask'[d].st \in {"sent", "runs"}
      BY <1>0, <2>0, <2>1 DEF JobsInv, Numbered
    <3>2. \A d \in Range(toMain') : ask'[d].st = "sent" /\ proc'[d] = "none"
      BY <1>0, <1>2, <2>1 DEF JobsInv, Numbered
    <3>3. \A d \in Range(parked') : ask'[d].st = "parked"
      BY <1>2, <2>0, <2>1 DEF JobsInv, Numbered
    <3>4. QED BY <1>0, <2>1, <3>1, <3>2, <3>3 DEF JobsInv, Numbered
  <2>4. Told'
    <3>1. ASSUME NEW w \in Range(toWin') PROVE TellsOf(w)'
      BY <1>4, <2>0, <2>1
    <3>2. QED BY <1>1, <3>1 DEF Told
  <2>5. Known' /\ AloneMeansAlone'
    BY <1>0, <2>0, <2>1, StillKnown DEF Alive
  <2>6. QED BY <2>2, <2>3, <2>4, <2>5 DEF JobsInv
<1>7. QED BY <1>1, <1>5, <1>6

\* Turned away before, a read is asked for again.
LEMMA Wakes ==
  ASSUME ask \in Asks
  PROVE  /\ Woken(ask) \in Asks
         /\ \A c \in Calls : /\ Woken(ask)[c].kind = ask[c].kind
                             /\ ask[c].st = "parked" => Woken(ask)[c].st = "sent"
                             /\ ask[c].st # "parked" => Woken(ask)[c] = ask[c]
<1> DEFINE R == [kind : Kinds \cup {"none"}, st : {"none", "sent", "parked", "runs"},
                 then : {"nothing", "refreshAll"}]
<1>1. \A r \in R : LET q == [r EXCEPT !.st = "sent"] IN q \in R /\ q.st = "sent" /\ q.kind = r.kind
  OBVIOUS
<1>2. ASSUME NEW c \in Calls
      PROVE  /\ Woken(ask)[c] \in R /\ Woken(ask)[c].kind = ask[c].kind
             /\ ask[c].st = "parked" => Woken(ask)[c].st = "sent"
             /\ ask[c].st # "parked" => Woken(ask)[c] = ask[c]
  <2>1. ask[c] \in R
    BY DEF Asks
  <2>2. CASE ask[c].st = "parked"
    <3>1. Woken(ask)[c] = [ask[c] EXCEPT !.st = "sent"]
      BY <2>2 DEF Woken
    <3>2. QED BY <1>1, <2>1, <2>2, <3>1
  <2>3. CASE ask[c].st # "parked"
    BY <2>1, <2>3 DEF Woken
  <2>4. QED BY <2>2, <2>3
<1>3. Woken(ask) = [c \in Calls |-> Woken(ask)[c]]
  BY DEF Woken
<1>4. Woken(ask) \in Asks
  BY <1>2, <1>3 DEF Asks
<1>5. QED BY <1>2, <1>4

LEMMA ListsAre ==
  ASSUME NEW c, NEW ok
  PROVE  AtOnce(c) \in Seq(Pairs) /\ AtOnce(c) \o Then(c, ok) \in Seq(Pairs)
         /\ Len(AtOnce(c)) \in 0..Len(AtOnce(c) \o Then(c, ok)) /\ Len(AtOnce(c) \o Then(c, ok)) \in Nat
<1>1. /\ BehindGate \in Seq(Pairs) /\ RefreshAll \in Seq(Pairs) /\ <<>> \in Seq(Pairs)
      /\ <<<<"config", "nothing">>>> \in Seq(Pairs)
  BY DEF BehindGate, RefreshAll, Pairs, Kinds, Reads
<1>2. AtOnce(c) \in Seq(Pairs)
  BY <1>1 DEF AtOnce
<1>3. Then(c, ok) \in Seq(Pairs)
  BY <1>1 DEF Then
<1>4. \A s, t \in Seq(Pairs) : s \o t \in Seq(Pairs) /\ Len(s) \in 0..Len(s \o t) /\ Len(s \o t) \in Nat
  OBVIOUS
<1>5. QED BY <1>2, <1>3, <1>4

\* The numbers of two lists that share none, in one.
LEMMA JoinedCalls ==
  ASSUME NEW x \in Seq(Calls), NEW y \in Seq(Calls), Once(x), Once(y), Range(x) \cap Range(y) = {}
  PROVE  x \o y \in Seq(Calls) /\ Once(x \o y) /\ Range(x \o y) = Range(x) \cup Range(y)
BY OnceJoined

\* The requests that go out: those on their way, the new ones in two parts, and
\* between them the reads that were turned away.
LEMMA EndedStep ==
  ASSUME JobsInv, WindowHears, Head(toWin).what = "exit"
  PROVE  JobsInv'
<1> PICK m : m = Head(toWin)
  OBVIOUS
<1> PICK c, ok : c = m.call /\ ok = m.ok
  OBVIOUS
<1> PICK first, all : first = AtOnce(c) /\ all = first \o Then(c, ok)
  OBVIOUS
<1> PICK nums : nums = Numbers(all)
  OBVIOUS
<1> PICK a, b : a = SubSeq(nums, 1, Len(first)) /\ b = SubSeq(nums, Len(first) + 1, Len(nums))
  OBVIOUS
<1>0. /\ toWin # <<>> /\ toWin' = Tail(toWin) /\ jobs' = jobs /\ Ended(c, ok)
  BY DEF WindowHears
<1>1. /\ c \in Calls /\ m.what = "exit" /\ TellsOf(m)
      /\ toWin' \in Seq(Messages) /\ Range(toWin') \subseteq Range(toWin) /\ InTurn(toWin')
      /\ \A w \in Range(toWin') : w.call # c
  BY <1>0, Hears
<1>2. /\ ask \in Asks /\ proc \in Procs /\ toMain \in Seq(Calls) /\ parked \in Seq(Calls)
      /\ Range(toMain) \subseteq Calls /\ Range(parked) \subseteq Calls
      /\ c \notin Range(toMain) /\ proc[c] = "over" /\ ask[c].st \in {"sent", "runs"}
  BY <1>1, HoldsOf, SMTT(30) DEF JobsInv, Typed, TellsOf, Numbered
<1>3. /\ Room(all) /\ ask' = [Asked(all, Woken(ask)) EXCEPT ![c] = NoAsk]
      /\ proc' = [proc EXCEPT ![c] = "none"] /\ parked' = <<>>
      /\ toMain' = toMain \o a \o parked \o b
  BY <1>0 DEF Ended, GivesBack, AskedAgain
<1>4. all \in Seq(Pairs) /\ Len(first) \in 0..Len(all) /\ Len(all) \in Nat
  BY ListsAre, SMTT(30)
<1>5. nums \in Seq(Calls) /\ Len(nums) = Len(all) /\ Once(nums) /\ Range(nums) \subseteq Free
  BY <1>3, <1>4, TakesFree
<1>6. /\ a \in Seq(Calls) /\ b \in Seq(Calls) /\ Once(a) /\ Once(b)
      /\ Range(a) \subseteq Range(nums) /\ Range(b) \subseteq Range(nums) /\ Range(a) \cap Range(b) = {}
  BY <1>4, <1>5, CutInTwo
<1>7. /\ \A d \in Range(toMain) : ask[d].st = "sent" /\ proc[d] = "none"
      /\ \A d \in Range(parked) : ask[d].st = "parked" /\ proc[d] = "none"
      /\ \A d \in Range(nums) : d \in Calls /\ ask[d].st = "none" /\ proc[d] = "none"
  BY <1>2, <1>5 DEF Free, JobsInv, Numbered
<1>8. /\ toMain' \in Seq(Calls) /\ Once(toMain')
      /\ Range(toMain') = Range(toMain) \cup Range(a) \cup Range(parked) \cup Range(b)
  <2>1. /\ Range(toMain) \cap Range(a) = {} /\ Range(toMain) \cap Range(parked) = {}
        /\ Range(toMain) \cap Range(b) = {} /\ Range(a) \cap Range(parked) = {}
        /\ Range(parked) \cap Range(b) = {}
    <3>1. \A d : ~(d \in Range(toMain) /\ d \in Range(parked))
      BY <1>7
    <3>2. \A d : d \in Range(nums) => d \notin Range(toMain) /\ d \notin Range(parked)
      BY <1>7
    <3>3. QED BY <1>6, <3>1, <3>2
  <2>2. Once(toMain) /\ Once(parked)
    BY DEF JobsInv, Numbered
  <2>3. PICK u : u = toMain \o a
    OBVIOUS
  <2>4. u \in Seq(Calls) /\ Once(u) /\ Range(u) = Range(toMain) \cup Range(a)
    BY ONLY <1>2, <1>6, <2>1, <2>2, <2>3, JoinedCalls
  <2>5. PICK v : v = u \o parked
    OBVIOUS
  <2>6. Range(u) \cap Range(parked) = {}
    BY ONLY <2>1, <2>4
  <2>7. v \in Seq(Calls) /\ Once(v) /\ Range(v) = Range(u) \cup Range(parked)
    BY ONLY <1>2, <2>2, <2>4, <2>5, <2>6, JoinedCalls
  <2>8. Range(v) \cap Range(b) = {}
    BY ONLY <1>6, <2>1, <2>4, <2>7
  <2>9. v \o b \in Seq(Calls) /\ Once(v \o b) /\ Range(v \o b) = Range(v) \cup Range(b)
    BY ONLY <1>6, <2>7, <2>8, JoinedCalls
  <2>10. QED BY <1>3, <2>3, <2>4, <2>5, <2>7, <2>9
<1>9. /\ ask' \in Asks /\ ask'[c].st = "none"
      /\ \A d \in Calls : d # c =>
           /\ d \in Range(nums) => ask'[d].st = "sent"
           /\ d \notin Range(nums) => ask'[d] = Woken(ask)[d]
  <2>1. /\ Asked(all, Woken(ask)) \in Asks
        /\ \A d \in Calls : /\ d \in Range(nums) => Asked(all, Woken(ask))[d].st = "sent"
                            /\ d \notin Range(nums) => Asked(all, Woken(ask))[d] = Woken(ask)[d]
    <3>1. Woken(ask) \in Asks
      BY <1>2, Wakes
    <3>2. ASSUME NEW was \in Asks
          PROVE  /\ Asked(all, was) \in Asks
                 /\ \A d \in Calls : /\ d \in Range(Numbers(all)) => Asked(all, was)[d].st = "sent"
                                     /\ d \notin Range(Numbers(all)) => Asked(all, was)[d] = was[d]
      BY ONLY <1>3, <1>4, <3>2, AsksFor
    <3>3. QED BY <3>1, <3>2
  <2>2. ASSUME NEW x \in Asks, ask' = [x EXCEPT ![c] = NoAsk]
        PROVE  ask' \in Asks /\ ask'[c].st = "none" /\ \A d \in Calls : d # c => ask'[d] = x[d]
    <3>1. /\ NoAsk \in [kind : Kinds \cup {"none"}, st : {"none", "sent", "parked", "runs"},
                       then : {"nothing", "refreshAll"}]
          /\ NoAsk.st = "none"
      BY DEF NoAsk
    <3>2. ask'[c] = NoAsk /\ \A d \in Calls : d # c => ask'[d] = x[d]
      BY <1>1, <2>2 DEF Asks
    <3>3. ask' \in Asks
      BY <2>2, <3>1 DEF Asks
    <3>4. QED BY <3>1, <3>2, <3>3
  <2>3. PICK x \in Asks : x = Asked(all, Woken(ask))
    BY <2>1
  <2>4. ask' \in Asks /\ ask'[c].st = "none" /\ \A d \in Calls : d # c => ask'[d] = x[d]
    BY <1>3, <2>2, <2>3
  <2>5. QED BY <2>1, <2>3, <2>4
<1>10. /\ \A d \in Range(toMain) : ask'[d] = ask[d] /\ d # c
       /\ \A d \in Range(parked) : ask'[d].st = "sent" /\ d # c
       /\ \A d \in Range(nums) : ask'[d].st = "sent" /\ d # c
       /\ \A d \in Calls : d # c /\ ask[d].st \in {"sent", "runs"} => ask'[d] = ask[d]
  <2>1. \A d \in Calls : ask[d].st \in {"sent", "runs"} => d \notin Range(nums) /\ Woken(ask)[d] = ask[d]
    BY <1>2, <1>7, Wakes
  <2>2. \A d \in Calls : d # c /\ ask[d].st \in {"sent", "runs"} => ask'[d] = ask[d]
    BY <1>9, <2>1
  <2>3. \A d \in Range(toMain) : ask'[d] = ask[d] /\ d # c
    BY <1>2, <1>7, <2>2
  <2>4. \A d \in Range(parked) : ask'[d].st = "sent" /\ d # c
    <3>1. \A d \in Range(parked) : d \in Calls /\ d # c /\ d \notin Range(nums) /\ ask[d].st = "parked"
      BY <1>2, <1>7
    <3>2. QED BY <1>2, <1>9, <3>1, Wakes
  <2>5. \A d \in Range(nums) : ask'[d].st = "sent" /\ d # c
    BY <1>2, <1>7, <1>9, SMTT(30)
  <2>6. QED BY <2>2, <2>3, <2>4, <2>5
<1>11. /\ proc' \in Procs /\ proc'[c] = "none" /\ \A d \in Calls : d # c => proc'[d] = proc[d]
  BY <1>1, <1>2, <1>3 DEF Procs
<1>12. Typed'
  <2>1. parked' \in Seq(Calls)
    BY <1>3
  <2>2. toMain' \in Seq(Calls)
    BY <1>8
  <2>3. toWin' \in Seq(Messages)
    BY <1>1
  <2>4. QED BY <1>9, <1>11, <2>1, <2>2, <2>3, SMTT(30) DEF Typed
<1>13. Numbered'
  <2>1. \A d \in Calls : proc'[d] # "none" => ask'[d].st \in {"sent", "runs"}
    BY <1>10, <1>11, SMTT(30) DEF JobsInv, Numbered
  <2>2. ASSUME NEW d \in Range(toMain') PROVE ask'[d].st = "sent" /\ proc'[d] = "none"
    <3>1. d \in Range(toMain) \/ d \in Range(parked) \/ d \in Range(nums)
      BY <1>6, <1>8
    <3>2. ask'[d].st = "sent" /\ d # c /\ d \in Calls /\ proc[d] = "none"
      <4>1. CASE d \in Range(toMain)
        BY <1>2, <1>7, <1>10, <4>1
      <4>2. CASE d \in Range(parked)
        BY <1>2, <1>7, <1>10, <4>2
      <4>3. CASE d \in Range(nums)
        BY <1>7, <1>10, <4>3, SMTT(30)
      <4>4. QED BY <3>1, <4>1, <4>2, <4>3
    <3>3. QED BY <1>11, <3>2
  <2>3. Once(parked') /\ Range(parked') = {}
    BY <1>3 DEF Once, Range
  <2>4. QED BY <1>8, <2>1, <2>2, <2>3 DEF Numbered
<1>14. Told'
  <2>1. ASSUME NEW w \in Range(toWin') PROVE TellsOf(w)'
    <3>1. w.call # c /\ w.call \in Calls /\ TellsOf(w) /\ w.what \in {"started", "busy", "exit"}
      BY <1>1, MessagesAre
    <3>2. ask[w.call].st \in {"sent", "runs"}
      BY <3>1 DEF TellsOf, JobsInv, Numbered
    <3>3. ask'[w.call] = ask[w.call] /\ proc'[w.call] = proc[w.call]
      BY <1>10, <1>11, <3>1, <3>2
    <3>4. w.call \notin Range(toMain')
      BY <1>6, <1>7, <1>8, <3>1, <3>2 DEF TellsOf
    <3>5. QED BY <3>1, <3>3, <3>4 DEF TellsOf
  <2>2. QED BY <1>1, <2>1 DEF Told
<1>15. Known' /\ AloneMeansAlone'
  <2>1. ASSUME NEW d \in Calls, Alive(d)' PROVE Alive(d) /\ ask'[d].kind = ask[d].kind
    <3>1. d # c /\ proc'[d] = proc[d] /\ Alive(d)
      BY <1>11, <2>1 DEF Alive
    <3>2. ask[d].st \in {"sent", "runs"}
      BY <3>1 DEF Alive, JobsInv, Numbered
    <3>3. QED BY <1>10, <3>1, <3>2
  <2>2. QED BY <1>0, <2>1, StillKnown
<1>16. QED BY <1>12, <1>13, <1>14, <1>15 DEF JobsInv

-----------------------------------------------------------------------------
LEMMA JobsNext ==
  ASSUME JobsInv, [AppNext]_appVars
  PROVE  JobsInv'
<1>1. CASE \E k \in Alone \cup {"config", "set"} : Gives(k)
  BY <1>1, GivesStep
<1>2. CASE StartJob
  BY <1>2, StartStep
<1>3. CASE \E c \in Calls, ok \in BOOLEAN : Settles(c, ok)
  BY <1>3, SettlesStep
<1>4. CASE \E c \in Calls : TouchesEnv(c)
  BY <1>4, TouchesStep
<1>5. CASE RetryReads
  BY <1>5, RetryStep
<1>6. CASE WindowHears
  BY <1>6, RepliedStep, EndedStep
<1>7. CASE UNCHANGED appVars
  <2>1. /\ ask' = ask /\ parked' = parked /\ toMain' = toMain /\ toWin' = toWin /\ jobs' = jobs
        /\ proc' = proc
    BY <1>7 DEF appVars, window, outside
  <2>2. Typed' /\ Numbered' /\ Told'
    BY <2>1 DEF JobsInv, Typed, Asks, Procs, Messages, Numbered, Told, TellsOf
  <2>3. Known' /\ AloneMeansAlone'
    BY <2>1, StillKnown DEF Alive
  <2>4. QED BY <2>2, <2>3 DEF JobsInv
<1>8. QED BY <1>1, <1>2, <1>3, <1>4, <1>5, <1>6, <1>7 DEF AppNext

\* One run of cg is asked for as the window opens.
LEMMA JobsInit == AppInit => JobsInv
<1> SUFFICES ASSUME AppInit PROVE JobsInv
  OBVIOUS
<1>1. /\ ask = [c \in Calls |-> IF c = 1 THEN Sent(<<"config", "refreshAll">>) ELSE NoAsk]
      /\ toMain = <<1>> /\ toWin = <<>> /\ parked = <<>> /\ proc = [c \in Calls |-> "none"]
  BY DEF AppInit
<1>2. ask \in Asks /\ ask[1].st = "sent" /\ proc \in Procs /\ \A c \in Calls : proc[c] = "none"
  BY <1>1, CallsAssumption DEF Asks, Sent, NoAsk, Procs, Kinds, Reads
<1>3. /\ toMain \in Seq(Calls) /\ parked \in Seq(Calls) /\ toWin \in Seq(Messages)
      /\ DOMAIN toMain = {1} /\ toMain[1] = 1 /\ DOMAIN parked = {} /\ DOMAIN toWin = {}
  BY <1>1, CallsAssumption
<1>4. Range(toMain) = {1} /\ Range(parked) = {} /\ Range(toWin) = {}
  BY <1>3 DEF Range
<1>5. Typed /\ Numbered
  <2>1. Typed
    BY <1>2, <1>3 DEF Typed
  <2>2. Once(toMain) /\ Once(parked)
    BY ONLY <1>3 DEF Once
  <2>3. 1 \in Calls
    BY CallsAssumption
  <2>4. QED BY ONLY <1>2, <1>4, <2>1, <2>2, <2>3 DEF Numbered
<1>6. Told
  BY <1>3, <1>4 DEF Told, InTurn
<1>7. Known /\ AloneMeansAlone
  BY <1>2 DEF Known, AloneMeansAlone, Together, Alive
<1>8. QED BY <1>5, <1>6, <1>7 DEF JobsInv

\* Where every number is, and what is told of it, in every reachable state.
LEMMA JobsInductive == AppSpec => []JobsInv
<1>1. JobsInv /\ [AppNext]_appVars => JobsInv'
  BY JobsNext
<1>2. QED BY <1>1, JobsInit, PTL DEF AppSpec

(* A destroy never races a build: a run that changes something has no other   *)
(* beside it but for room added during a session, whatever the order in       *)
(* which requests, replies and ends arrive, and whether or not cg can be      *)
(* asked which commands run alone (index.js, startJob).                       *)
THEOREM RunsAlone == AppSpec => []AloneMeansAlone
<1>1. JobsInv => AloneMeansAlone
  BY DEF JobsInv
<1>2. QED BY <1>1, JobsInductive, PTL
================================================================================
