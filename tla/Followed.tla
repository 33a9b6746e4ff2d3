------------------------------- MODULE Followed -------------------------------
(***************************************************************************)
(* The laptop that follows a build, and what is built: an AWS box, whose   *)
(* record cg-build keeps, or a machine of yours, which has only a log.     *)
(***************************************************************************)
EXTENDS Follower

CONSTANTS MaxEvents, MaxLines, MaxRetries, MaxCrashes, SetupBusy

VARIABLES retries, crashes, copies,     \* of a box
          older                         \* of a machine of yours

Box  == INSTANCE FollowedBox
Host == INSTANCE FollowedHost

followedVars == <<vars, supervised, retries, crashes, copies, older>>

Init ==
  \/ supervised = TRUE /\ Box!Init /\ older = "none"
  \/ supervised = FALSE /\ Host!Init /\ retries = 0 /\ crashes = 0 /\ copies = {}

Next ==
  /\ \/ supervised /\ Box!Next /\ UNCHANGED older
     \/ ~supervised /\ Host!Next /\ UNCHANGED <<retries, crashes, copies>>
  /\ UNCHANGED supervised

Spec == Init /\ [][Next]_followedVars

(* Type correctness.                                                         *)
TypeOK == IF supervised THEN Box!TypeOK ELSE Host!TypeOK

(* A dropped question or a reboot loses nothing and repeats nothing: what    *)
(* one run shows is the log's first lines and then the record's first        *)
(* events, each once and in order, and it never goes back to the log.  What  *)
(* cg-build writes to both is shown as both only where it was written within *)
(* the one poll that found no record yet and then read the log.              *)
ShownOnceInOrder == ShownInTurn /\ Box!TwiceOnlyAsItStarts

(* A person is told that a build stopped only when it has, and that it is    *)
(* complete only when it is, whatever crashed, dropped, was closed or was    *)
(* followed before: on a box until somebody types `cg-build retry` there, on *)
(* a machine of yours while no earlier script still runs.                    *)
VerdictIsTrue ==
  [][ IF supervised THEN Box!FirstStopIsOver ELSE Host!VerdictIsThisBuilds ]_followedVars
=============================================================================
