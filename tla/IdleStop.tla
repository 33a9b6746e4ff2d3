------------------------------ MODULE IdleStop ------------------------------
(***************************************************************************)
(* How a game PC nobody uses comes to an end: the watchdog on the box      *)
(* (host/idle-watchdog.sh), the save of its games as it goes down          *)
(* (host/cg-shutdown-push.sh), and the cloud watchdog outside it           *)
(* (lambda/cloud_watchdog.py: run, decide, going_down, state_changed).     *)
(*                                                                         *)
(* Time goes by in periods (Tick).  The watchdog on the box looks at most  *)
(* once a period, the one in the cloud once, but up to Misses of its       *)
(* passes may fail.  An age counts the periods since something, up to the  *)
(* largest limit it is compared with.                                      *)
(***************************************************************************)
EXTENDS Naturals

CONSTANTS
  Grace,       \* BOOT_GRACE, CG_BOOT_GRACE_MINUTES: nothing is judged before
  IdleLimit,   \* IDLE_LIMIT: quiet looks in a row of the watchdog on the box
  IdleWindow,  \* CG_IDLE_MINUTES: how far back the cloud watchdog reads
  SlowAfter,   \* SLOW_MINUTES
  StuckAfter,  \* CG_STUCK_MINUTES
  Starts,      \* bound: how often a stopped box is started again
  Misses       \* bound: passes of the cloud watchdog that fail

ASSUME LimitsAssumption ==
  /\ {Grace, IdleLimit, IdleWindow, SlowAfter, StuckAfter} \subseteq Nat \ {0}
  /\ IdleLimit <= IdleWindow /\ SlowAfter <= StuckAfter
  /\ {Starts, Misses} \subseteq Nat

VARIABLES
  box,    \* the instance: kind, EC2 state, guest, age, down (periods going down),
          \* stamped (AWS dated the stop), cut (AWS was told to skip the OS shutdown)
  use,    \* playing, quiet (periods since someone played), net (periods since traffic),
          \* unsaved (games not in S3), fresh (new ones since the push on the box began),
          \* left (history: the last push that ended left some, and said it worked)
  disk,   \* /var/lib/idle-watchdog: idle, and base and used for the byte counters
  tags,   \* the cloud watchdog's tags on the instance: noted (SINCE_TAG: none, of an
          \* earlier shutdown, of this one), since (its age), slow, forced
  events, \* EC2 events not yet handled
  said,   \* what the user was told of this run of the box
  pace    \* ticked, looked (both this period), missed, starts

vars == <<box, use, disk, tags, events, said, pace>>

On == box.state \in {"pending", "running", "stopping", "shutting-down"}
GoingDown == box.state \in {"stopping", "shutting-down"}
Ended == box.state \in {"stopped", "terminated"}
Down == IF box.kind = "spot" THEN "shutting-down" ELSE "stopping"
NoTags == [noted |-> "none", since |-> 0, slow |-> FALSE, forced |-> FALSE]

Older(n, limit) == IF n < limit THEN n + 1 ELSE n

TypeOK ==
  /\ box \in [kind : {"spot", "on-demand"},
              state : {"pending", "running", "stopping", "shutting-down",
                       "stopped", "terminated"},
              guest : {"off", "up", "saving", "ending", "wedged"},
              age : 0..(Grace + IdleWindow), down : 0..StuckAfter,
              stamped : BOOLEAN, cut : BOOLEAN]
  /\ use \in [playing : BOOLEAN, quiet : 0..IdleWindow, net : 0..IdleWindow,
              unsaved : BOOLEAN, fresh : BOOLEAN, left : BOOLEAN]
  /\ disk \in [idle : 0..IdleLimit, base : {"none", "earlier", "this"}, used : BOOLEAN]
  /\ tags \in [noted : {"none", "earlier", "this"}, since : 0..StuckAfter,
               slow : BOOLEAN, forced : BOOLEAN]
  /\ events \subseteq {"interruption", "gone"}
  /\ said \subseteq {"not saved", "forced off", "slow", "interruption",
                     "switched off", "gone"}
  /\ pace \in [ticked : BOOLEAN, looked : BOOLEAN, missed : 0..Misses, starts : 0..Starts]

Init ==
  /\ \E kind \in {"spot", "on-demand"} :
       box = [kind |-> kind, state |-> "pending", guest |-> "off", age |-> 0, down |-> 0,
              stamped |-> FALSE, cut |-> FALSE]
  /\ use = [playing |-> FALSE, quiet |-> 0, net |-> IdleWindow, unsaved |-> FALSE,
            fresh |-> FALSE, left |-> FALSE]
  /\ disk = [idle |-> 0, base |-> "none", used |-> FALSE]
  /\ tags = NoTags
  /\ events = {} /\ said = {}
  /\ pace = [ticked |-> FALSE, looked |-> FALSE, missed |-> 0, starts |-> 0]

-----------------------------------------------------------------------------
(* AWS and the user, as the watchdogs meet them.                            *)

ComesUp ==
  /\ box.state = "pending"
  /\ box' = [box EXCEPT !.state = "running", !.guest = "up"]
  /\ UNCHANGED <<use, disk, tags, events, said, pace>>

\* Someone streams or downloads: bytes both watchdogs count.
PlayStarts ==
  /\ box.guest \in {"up", "saving"} /\ ~use.playing
  /\ use' = [use EXCEPT !.playing = TRUE, !.unsaved = TRUE, !.fresh = TRUE]
  /\ disk' = [disk EXCEPT !.used = TRUE]
  /\ UNCHANGED <<box, tags, events, said, pace>>

PlayStops ==
  /\ use.playing
  /\ use' = [use EXCEPT !.playing = FALSE, !.quiet = 0, !.net = 0]
  /\ disk' = [disk EXCEPT !.used = TRUE]
  /\ UNCHANGED <<box, tags, events, said, pace>>

Quieted == [use EXCEPT !.playing = FALSE]

\* The guest's shutdown begins: systemd stops cg-library-shutdown.service.
Ending(b) == [b EXCEPT !.guest = IF @ = "wedged" THEN @ ELSE "ending"]

\* `cg stop`, `cg destroy` or the console: an API call, which AWS dates.
UserEnds ==
  /\ box.state = "running"
  /\ box' = [Ending(box) EXCEPT !.state = Down, !.stamped = TRUE]
  /\ use' = Quieted
  /\ UNCHANGED <<disk, tags, events, said, pace>>

\* A spot box is reclaimed: about two minutes, then it is cut.
Interrupted ==
  /\ box.kind = "spot" /\ box.state = "running"
  /\ box' = [Ending(box) EXCEPT !.state = "shutting-down", !.cut = TRUE]
  /\ events' = events \cup {"interruption"}
  /\ use' = Quieted
  /\ UNCHANGED <<disk, tags, said, pace>>

Wedges ==
  /\ box.guest \in {"up", "saving", "ending"}
  /\ box' = [box EXCEPT !.guest = "wedged"]
  /\ use' = Quieted
  /\ UNCHANGED <<disk, tags, events, said, pace>>

\* EC2 sees the guest go down; an in-guest shutdown leaves no date.
SeenGoingDown ==
  /\ box.state = "running" /\ box.guest \in {"ending", "off"}
  /\ box' = [box EXCEPT !.state = Down]
  /\ UNCHANGED <<use, disk, tags, events, said, pace>>

AwsEnds ==
  /\ GoingDown
  /\ box.guest = "off" \/ box.cut
  /\ box' = [box EXCEPT !.state = IF box.kind = "spot" THEN "terminated" ELSE "stopped",
                        !.guest = "off"]
  /\ events' = events \cup {"gone"}
  /\ use' = Quieted
  /\ UNCHANGED <<disk, tags, said, pace>>

\* A stopped box is started again: its disk and its tags are the ones it stopped
\* with, and tags of the earlier shutdown name another date than the next one's.
StartedAgain ==
  /\ box.state = "stopped" /\ pace.starts < Starts /\ events = {}
  /\ box' = [box EXCEPT !.state = "pending", !.age = 0, !.down = 0, !.stamped = FALSE,
                        !.cut = FALSE]
  /\ use' = [use EXCEPT !.quiet = 0]
  /\ disk' = [disk EXCEPT !.base = IF @ = "none" THEN "none" ELSE "earlier",
                          !.used = FALSE]
  /\ tags' = [tags EXCEPT !.noted = IF @ = "none" THEN "none" ELSE "earlier",
                          !.slow = FALSE, !.forced = FALSE]
  /\ said' = {}
  /\ pace' = [pace EXCEPT !.starts = @ + 1]
  /\ UNCHANGED events

-----------------------------------------------------------------------------
(* host/idle-watchdog.sh                                                     *)

\* delta_since: the bytes since the last look; none at the first one, and after
\* a restart the counters begin again, so they may read as less than before.
Busy ==
  CASE disk.base = "none" -> {FALSE}
    [] disk.base = "earlier" -> {FALSE, disk.used}
    [] OTHER -> {disk.used}

IdleAfter(busy) == IF busy THEN 0 ELSE Older(disk.idle, IdleLimit)

HostLooks ==
  /\ box.guest = "up" /\ box.age >= Grace /\ ~pace.ticked
  /\ \E busy \in Busy :
       /\ disk' = [idle |-> IdleAfter(busy), base |-> "this", used |-> FALSE]
       /\ box' = [box EXCEPT !.guest = IF disk'.idle >= IdleLimit THEN "saving" ELSE "up"]
  /\ use' = [use EXCEPT !.fresh = use.playing]
  /\ pace' = [pace EXCEPT !.ticked = TRUE]
  /\ UNCHANGED <<tags, events, said>>

(* A push ends: everything is saved; or not every game was, which its exit     *)
(* status does not tell (cg-library's push ends with 0 as long as it went      *)
(* through the games); or it failed.                                           *)
Push == {"worked", "partly", "failed"}
AfterPush(u, push, since) ==
  [u EXCEPT !.unsaved = IF push = "worked" THEN since ELSE @,
            !.left = push = "partly" /\ u.unsaved]
Told(push) == IF push = "failed" THEN said \cup {"not saved"} ELSE said

(* The push before the shutdown ends, however long it took; a failed one is    *)
(* said.                                                                       *)
HostShutsDown ==
  /\ box.guest = "saving"
  /\ \E push \in Push : use' = AfterPush(Quieted, push, use.fresh) /\ said' = Told(push)
  /\ box' = Ending(box)
  /\ UNCHANGED <<disk, tags, events, pace>>

(* host/cg-shutdown-push.sh: the push of the shutdown ends, fails, or is cut   *)
(* off by TimeoutStopSec; the last two are said.                               *)
\* Mutant: a failed push at shutdown says nothing.
ShutdownPush_silent ==
  /\ box.guest = "ending"
  /\ \E push \in Push : use' = AfterPush(use, push, FALSE)
  /\ box' = [box EXCEPT !.guest = "off"]
  /\ UNCHANGED <<disk, tags, events, said, pace>>

ShutdownPush ==
  /\ box.guest = "ending"
  /\ \E push \in Push : use' = AfterPush(use, push, FALSE) /\ said' = Told(push)
  /\ box' = [box EXCEPT !.guest = "off"]
  /\ UNCHANGED <<disk, tags, events, pace>>

-----------------------------------------------------------------------------
(* lambda/cloud_watchdog.py                                                   *)

CanLook == On /\ ~pace.looked
Looked == pace' = [pace EXCEPT !.looked = TRUE]

\* decide: past the grace, watched for the whole window, and no traffic in it.
Watched == box.age >= Grace + IdleWindow
Judged == box.state = "running" /\ Watched /\ use.net >= IdleWindow

WatchdogLeavesIt ==
  /\ CanLook /\ ~GoingDown /\ ~Judged
  /\ Looked
  /\ UNCHANGED <<box, use, disk, tags, events, said>>

WatchdogEnds ==
  /\ CanLook /\ Judged
  /\ box' = [Ending(box) EXCEPT !.state = Down, !.stamped = TRUE]
  /\ said' = said \cup {"switched off"}
  /\ use' = Quieted
  /\ Looked
  /\ UNCHANGED <<disk, tags, events>>

\* going_down: since when - AWS's date, else the tag of this shutdown.
\* Mutant: the tag of an earlier shutdown counts.
TagTime_anyShutdown == IF tags.noted # "none" THEN {tags.since} ELSE {}

TagTime == IF tags.noted = "this" THEN {tags.since} ELSE {}
\* Mutant: only a stop that AWS dated is measured.
Since_apiOnly == IF box.stamped THEN {box.down} ELSE {}

Since == IF box.stamped THEN {box.down} ELSE TagTime

FirstSeenGoingDown ==
  /\ CanLook /\ GoingDown /\ Since = {}
  /\ tags' = [tags EXCEPT !.noted = "this", !.since = 0]
  /\ Looked
  /\ UNCHANGED <<box, use, disk, events, said>>

LetsItFinish ==
  /\ CanLook /\ GoingDown
  /\ \E took \in Since :
       /\ took < StuckAfter
       /\ IF took >= SlowAfter /\ ~tags.slow
            THEN said' = said \cup {"slow"} /\ tags' = [tags EXCEPT !.slow = TRUE]
            ELSE UNCHANGED <<said, tags>>
  /\ Looked
  /\ UNCHANGED <<box, use, disk, events>>

Forces ==
  /\ CanLook /\ GoingDown
  /\ \E took \in Since : took >= StuckAfter
  /\ box' = [box EXCEPT !.cut = TRUE]
  /\ IF tags.forced
       THEN UNCHANGED <<said, tags>>
       ELSE said' = said \cup {"forced off"} /\ tags' = [tags EXCEPT !.forced = TRUE]
  /\ Looked
  /\ UNCHANGED <<use, disk, events>>

\* A pass raises: AWS did not answer, and nothing is decided.
PassFails ==
  /\ CanLook /\ pace.missed < Misses
  /\ pace' = [pace EXCEPT !.looked = TRUE, !.missed = @ + 1]
  /\ UNCHANGED <<box, use, disk, tags, events, said>>

\* state_changed, from EC2's own events.
SaysEvent ==
  \E e \in events :
    /\ events' = events \ {e}
    /\ said' = said \cup {e}
    /\ UNCHANGED <<box, use, disk, tags, pace>>

Pass == \/ WatchdogLeavesIt \/ WatchdogEnds \/ FirstSeenGoingDown \/ LetsItFinish
        \/ Forces \/ PassFails

-----------------------------------------------------------------------------
\* A push that uploads is traffic too: the cloud watchdog counts bytes out.
Tick ==
  /\ On /\ pace.looked
  /\ \E uploads \in BOOLEAN :
       /\ uploads => box.guest \in {"saving", "ending"}
       /\ use' = [use EXCEPT !.quiet = IF use.playing THEN 0 ELSE Older(@, IdleWindow),
                             !.net = IF use.playing \/ uploads THEN 0
                                     ELSE Older(@, IdleWindow)]
  /\ disk' = [disk EXCEPT !.used = @ \/ use.playing]
  /\ box' = [box EXCEPT !.age = Older(@, Grace + IdleWindow),
                        !.down = IF GoingDown THEN Older(@, StuckAfter) ELSE 0]
  /\ tags' = [tags EXCEPT !.since = IF tags.noted = "none" THEN @
                                    ELSE Older(@, StuckAfter)]
  /\ pace' = [pace EXCEPT !.ticked = FALSE, !.looked = FALSE]
  /\ UNCHANGED <<events, said>>

Next ==
  \/ ComesUp \/ PlayStarts \/ PlayStops \/ UserEnds \/ Interrupted \/ Wedges
  \/ SeenGoingDown \/ AwsEnds \/ StartedAgain
  \/ HostLooks \/ HostShutsDown \/ ShutdownPush \/ Pass \/ SaysEvent \/ Tick

\* EventBridge calls the cloud watchdog again and again, time goes by, and AWS
\* ends what has gone down or was cut.  Nothing is asked of the box.
Fairness ==
  /\ WF_vars(ComesUp) /\ WF_vars(Tick) /\ WF_vars(Pass) /\ WF_vars(AwsEnds)

Spec == Init /\ [][Next]_vars /\ Fairness

-----------------------------------------------------------------------------
\* decide: the cloud watchdog ends only a box nobody used for the whole window,
\* also one that was started again with an old run's metrics and tags.
WatchdogSparesPlayers == [][WatchdogEnds => use.quiet >= IdleWindow]_vars

\* "consecutive idle minutes" (idle-watchdog.sh:12): the watchdog on the box gives
\* up on it only after that many quiet looks.  The first look has nothing to
\* compare with, so it may count one in use.
QuietForTheHost == use.quiet >= IdleLimit - 1
HostSparesPlayers ==
  [][(box.guest = "up" /\ box'.guest = "saving") => QuietForTheHost]_vars

\* The same for a box that was not started again since it was launched.
HostSparesFirstPlayers ==
  [][(box.guest = "up" /\ box'.guest = "saving")
       => pace.starts > 0 \/ QuietForTheHost]_vars

\* "Only an instance still stuck going down an hour later is forced": AWS is told
\* to cut this shutdown, never on the strength of an earlier one's date.
ForcedOnlyWhenStuck == [][Forces => box.down >= StuckAfter]_vars

\* Neither watchdog ends or cuts a box but for the reason the code gives: nobody
\* used it for the whole window, or its own shutdown has been stuck for an hour.
EndedForAReason == WatchdogSparesPlayers /\ HostSparesFirstPlayers /\ ForcedOnlyWhenStuck

\* The "last chance anything on the box has to say that games were lost"
\* (cg-shutdown-push.sh:4): a box that ends with games not in the archive has said
\* so, or AWS has said it is taking it, whatever stopped it, and also when it hung;
LossIsSaid == "interruption" \in events \/ said \cap {"not saved", "forced off", "interruption"} # {}
AnyLossIsSaid == Ended /\ use.unsaved => LossIsSaid

\* but for what the last push left behind, which ended as one that works.
UnsavedIsSaid == Ended /\ use.unsaved => use.left \/ LossIsSaid

\* A box is never left on and unused for ever: again and again it is off, played,
\* or uploading its games.
NotLeftOn == []<>(~On \/ use.playing \/ use.net = 0)
=============================================================================
