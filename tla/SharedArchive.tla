--------------------------- MODULE SharedArchive ---------------------------
(***************************************************************************)
(* The games saved in S3 and what three programs keep about them: a bucket *)
(* per region with an index and the games' objects, the marks of the cloud *)
(* watchdog in SSM, and the box whose existence keeps them alive.          *)
(* ArchiveExpiry (the cloud watchdog) and LaptopLibrary (`cg library`)     *)
(* work on this state; ArchiveLife puts the two together.                  *)
(*                                                                         *)
(* Time is counted in hourly checks (Tick).  A date is kept as its age, a  *)
(* set of at most one number of hours, no larger than Days.                *)
(***************************************************************************)
EXTENDS Integers, FiniteSets

CONSTANTS
  Games,
  Here,      \* the bucket of the region the machine is built in
  There,     \* a bucket left in another region
  Days,      \* GAME_ARCHIVE_EXPIRY_DAYS, in hours
  Launches,  \* bound: boxes launched or started
  Troubles   \* bound: calls that AWS refuses, and checks and events that are missed

ASSUME SharedAssumption ==
  /\ Games # {} /\ Here # There
  /\ Days \in Nat \ {0} /\ {Launches, Troubles} \subseteq Nat

Buckets == {Here, There}

VARIABLES
  s3,     \* per bucket: exists, index, folders, files (manifest and links), login
  marks,  \* seen, and kept (per bucket and game): archive-last-seen, kept/<bucket>/<appid>
  box,    \* state, run (its last launch), lull (since a box last existed), since (the
          \* known date of its stop), ended (EC2's event not yet handled), launches
  deployed, \* EXPIRY_DAYS of the deployed function: Days, or 0 to keep everything
  trouble   \* missed (by the watchdog), refused (to the laptop)

shared == <<s3, marks, box, deployed, trouble>>

Dates == {{}} \cup {{n} : n \in 0..Days}
Later(date) == {IF n < Days THEN n + 1 ELSE n : n \in date}
Within(date, hours) == \E n \in date : n < hours

SharedTypeOK ==
  /\ s3 \in [exists : SUBSET Buckets, index : [Buckets -> SUBSET Games],
             folders : [Buckets -> [Games -> {"none", "part", "whole"}]],
             files : [Buckets -> SUBSET Games], login : SUBSET Buckets]
  /\ marks \in [seen : Dates, kept : [Buckets -> [Games -> Dates]]]
  /\ box \in [state : {"none", "on", "stopped"}, run : Dates, lull : 0..Days, since : Dates,
              ended : BOOLEAN, launches : 0..Launches]
  /\ deployed \in {0, Days}
  /\ trouble \in [missed : 0..Troubles, refused : 0..Troubles]

\* A game that a pull would restore: listed, with its folders and its manifest.
Whole(b, g) ==
  g \in s3.index[b] /\ s3.folders[b][g] = "whole" /\ g \in s3.files[b]

Empty == [g \in Games |-> "none"]
HoldsNothing(b) == s3.folders[b] = Empty /\ s3.index[b] = {} /\ s3.files[b] = {}

\* A region move left one game There; the others are Here.
SharedInit ==
  /\ LET behind == CHOOSE g \in Games : TRUE
         in(b) == IF b = There THEN {behind} ELSE Games \ {behind} IN
       s3 = [exists |-> Buckets, index |-> [b \in Buckets |-> in(b)],
             folders |-> [b \in Buckets |->
                            [g \in Games |-> IF g \in in(b) THEN "whole" ELSE "none"]],
             files |-> [b \in Buckets |-> in(b)], login |-> {Here}]
  /\ marks = [seen |-> {}, kept |-> [b \in Buckets |-> [g \in Games |-> {}]]]
  /\ box = [state |-> "none", run |-> {}, lull |-> 0, since |-> {}, ended |-> FALSE,
            launches |-> 0]
  /\ deployed = Days
  /\ trouble = [missed |-> 0, refused |-> 0]

CanFail == trouble.missed + trouble.refused < Troubles

-----------------------------------------------------------------------------
(* S3, as both programs use it.                                             *)

\* DeletePrefix, delete_game: a game's three folders and two files.
Without(s, b, gs) ==
  [s EXCEPT !.folders[b] = [g \in Games |-> IF g \in gs THEN "none" ELSE @[g]],
            !.files[b] = @ \ gs]

\* A delete that is cut off, or refused for some objects.
Cut(s, b, g) == [s EXCEPT !.folders[b][g] = IF @ = "none" THEN @ ELSE "part"]

WithIndex(s, b, gs) == [s EXCEPT !.index[b] = gs]

\* DeleteBucket, empty_and_delete: whatever is in it, and then the bucket.
WithoutBucket(s, b) ==
  [WithIndex(Without(s, b, Games), b, {}) EXCEPT !.exists = @ \ {b}, !.login = @ \ {b}]

-----------------------------------------------------------------------------
(* The box: RunInstances, a stop, a start, a termination.                   *)

Launch ==
  /\ box.state = "none" /\ box.launches < Launches
  /\ box' = [box EXCEPT !.state = "on", !.run = {0}, !.lull = 0, !.launches = @ + 1]
  \* cg makes the bucket of the region before it launches.
  /\ s3' = [s3 EXCEPT !.exists = @ \cup {Here}]
  /\ UNCHANGED <<marks, deployed, trouble>>

\* AWS gives the date of a stop through the API, and none when the box stops itself.
Stop ==
  /\ box.state = "on"
  /\ \E dates \in {{}, {0}} :
       box' = [box EXCEPT !.state = "stopped", !.since = dates, !.ended = TRUE]
  /\ UNCHANGED <<s3, marks, deployed, trouble>>

\* Starting is no RunInstances; a tag of the earlier stop is older than this start.
Start ==
  /\ box.state = "stopped" /\ box.launches < Launches
  /\ box' = [box EXCEPT !.state = "on", !.since = {}, !.launches = @ + 1]
  /\ UNCHANGED <<s3, marks, deployed, trouble>>

NoBox == [box EXCEPT !.state = "none", !.since = {}, !.ended = TRUE]

Terminate ==
  /\ box.state \in {"on", "stopped"}
  /\ box' = NoBox
  /\ UNCHANGED <<s3, marks, deployed, trouble>>

\* The push of a box that goes down or stops: its games, then their entries.
Push(g) ==
  /\ box.state = "on"
  /\ Here \in s3.exists
  /\ ~Whole(Here, g)
  /\ s3' = [s3 EXCEPT !.index[Here] = @ \cup {g}, !.folders[Here][g] = "whole",
                      !.files[Here] = @ \cup {g}, !.login = @ \cup {Here}]
  /\ UNCHANGED <<marks, box, deployed, trouble>>

\* An hour goes by.
Aged ==
  /\ marks' = [seen |-> Later(marks.seen),
               kept |-> [b \in Buckets |-> [g \in Games |-> Later(marks.kept[b][g])]]]
  /\ box' = [box EXCEPT !.run = Later(@), !.since = Later(@),
                        !.lull = IF box.state # "none" THEN 0
                                 ELSE IF @ < Days THEN @ + 1 ELSE @]
  /\ UNCHANGED <<s3, deployed, trouble>>
=============================================================================
