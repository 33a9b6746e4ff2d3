----------------------------- MODULE GameArchive ------------------------------
(***************************************************************************)
(* host/cg-library: the games of a box on its local drive, mirrored game   *)
(* by game to S3.  A restore (pull) runs at every boot; a push runs before *)
(* `cg stop` or the idle watchdog stops the box (pusher "stop") and again  *)
(* as the machine goes down (pusher "unit").  Steam changes the local      *)
(* copies; `cg library forget` on the laptop (internal/library/mutate.go)  *)
(* deletes archived ones.                                                  *)
(*                                                                         *)
(* A sync of a game's folders is two steps, so that others see, and a      *)
(* cut-off leaves, the copy half way.                                      *)
(***************************************************************************)
EXTENDS Integers, FiniteSets, FiniteSetsExt

CONSTANTS
  Games,
  Size,         \* the bytes of each game when it is whole
  Room,         \* what the local drive holds beyond the reserve
  Forces,       \* may a push be given --force?  A set of BOOLEANs
  Faults,       \* what may go wrong, of Mishaps below
  Unlucky,      \* the games a push or a forget may fail for
  Together,     \* what may go on beside a push or a pull: "steam", "forget"
  Chosen,       \* CG_APPS: the games this box restores
  MaxVersion, MaxBoots, MaxPushes   \* bounds: sessions played, boots, pushes

ASSUME ArchiveAssumption ==
  /\ IsFiniteSet(Games)
  /\ Size \in [Games -> Nat \ {0}] /\ \A g \in Games : Size[g] % 100 = 0
  /\ Room \in Nat /\ Forces \subseteq BOOLEAN
  /\ Unlucky \subseteq Games /\ Chosen \subseteq Games
  /\ Together \subseteq {"steam", "forget"}
  /\ MaxVersion \in Nat /\ MaxBoots \in Nat /\ MaxPushes \in Nat

VARIABLES
  disk,      \* the local copy of each game
  s3,        \* the archived copy of each game
  index,     \* index.json: the bytes of each game in it, 0 for the others
  restored,  \* does the marker name this boot?
  box,       \* up, or stopping
  asked,     \* who asked for the stop
  pull,      \* the restore process (skipped: the games it left for want of room)
  push,      \* the push processes (withheld: the games one could not archive)
  lock,      \* who holds push.lock
  laptop,    \* the forget process on the laptop
  boots, pushes    \* bounds

archiveVars == <<s3, index>>
procVars == <<pull, push, lock, laptop>>
vars == <<disk, archiveVars, restored, box, asked, procVars, boots, pushes>>

\* "pull_fails": a restoring sync fails with less than 98% of the game there;
\* "pull_nearly": with more.  "push_fails", "forget_fails": a command of a push or
\* of a forget fails.  "index_read", "index_put", "links_read", "links_put",
\* "manifest_read": that object of the archive cannot be read or written.  "reset", "taken": the
\* machine dies, and its drive is kept or is gone.
Mishaps == {"pull_fails", "pull_nearly", "push_fails", "forget_fails", "index_read",
            "index_put", "links_read", "links_put", "manifest_read",
            "reset", "taken"}

ASSUME FaultsAssumption == Faults \subseteq Mishaps

Percent == [none |-> 0, scrap |-> 25, most |-> 75, nearly |-> 99, whole |-> 100]
\* A copy: how much of its files is there, which session's saves, the links S3
\* cannot hold, and what its manifest says ("broken" for every StateFlags but
\* "fully installed and nothing to do").
Copy   == [files : DOMAIN Percent, saves : 0..MaxVersion, links : BOOLEAN,
           man : {"none", "whole", "broken"}]
NoCopy == [files |-> "none", saves |-> 0, links |-> FALSE, man |-> "none"]

Bytes(g, copy) == (Size[g] * Percent[copy.files]) \div 100
OnDisk(copies) == MapThenSumSet(LAMBDA g : Bytes(g, copies[g]), Games)

Same(a, b) == a.files = b.files /\ a.saves = b.saves
Synced_gameOnly(from, to) == [to EXCEPT !.files = from.files]
Synced(from, to) == [to EXCEPT !.files = from.files, !.saves = from.saves]

\* A push makes the copy there what it is here; a pull takes no file away.
Fetched(from, to) == IF Percent[from.files] >= Percent[to.files] THEN Synced(from, to)
                     ELSE [to EXCEPT !.saves = from.saves]

\* Half way: so far only some of the files are copied or deleted, and the saves
\* are still the old ones or already the new.
Between(x, a, b) == (Percent[a] < Percent[x] /\ Percent[x] < Percent[b])
                    \/ (Percent[b] < Percent[x] /\ Percent[x] < Percent[a])
HalfWay(from, to) ==
  {copy \in Copy :
     /\ copy.files = to.files
        \/ (copy.files # "nearly" /\ Between(copy.files, from.files, to.files))
     /\ copy.saves \in {from.saves, to.saves}
     /\ copy.links = to.links /\ copy.man = to.man}
HalfFetched(from, to) ==
  {copy \in HalfWay(from, to) : Percent[copy.files] >= Percent[to.files]}
    \cup IF "pull_nearly" \in Faults /\ Percent[to.files] < 99 /\ from.files = "whole"
         THEN {[to EXCEPT !.files = "nearly"]} ELSE {}

Pushers == {"stop", "unit"}
NoPull == [pc |-> "off", want |-> [g \in Games |-> 0], game |-> "none", used |-> 0,
           budget |-> 0, bad |-> FALSE, skipped |-> {}]
NoPush == [pc |-> "off", apps |-> [g \in Games |-> "none"], cache |-> [g \in Games |-> 0],
           game |-> "none", force |-> FALSE, bytes |-> 0, ok |-> TRUE,
           base |-> [g \in Games |-> 0], withheld |-> {}]
NoForget == [pc |-> "off", game |-> "none", apps |-> [g \in Games |-> 0]]

Init ==
  /\ disk = [g \in Games |-> NoCopy]
  /\ s3 \in [Games -> {NoCopy, [files |-> "whole", saves |-> 0, links |-> TRUE, man |-> "whole"]}]
  /\ index = [g \in Games |-> Bytes(g, s3[g])]
  /\ restored = FALSE /\ box = "up" /\ asked = "none"
  /\ pull = [NoPull EXCEPT !.pc = "due"]
  /\ push = [p \in Pushers |-> NoPush]
  /\ lock = "none" /\ laptop = NoForget
  /\ boots = 0 /\ pushes = 0

-----------------------------------------------------------------------------
(* Steam.  It fetches a game (a new one, an update, or one it finds with    *)
(* files missing), finishes, and is played; it may also uninstall one.      *)

Pushing(p) == push[p].pc \notin {"off", "done"}
Quiet(who) == who \in Together \/ (pull.pc = "off" /\ \A p \in Pushers : ~Pushing(p))

Steam(g, copy) ==
  /\ box = "up" /\ Quiet("steam")
  /\ disk' = [disk EXCEPT ![g] = copy]
  /\ OnDisk(disk') <= Room
  /\ UNCHANGED <<archiveVars, restored, box, asked, procVars, boots, pushes>>

SteamFetches(g) ==
  /\ disk[g].man # "broken"
  /\ Steam(g, [disk[g] EXCEPT !.man = "broken",
                 !.files = CASE @ = "none"  -> "scrap"
                             [] @ = "whole" -> "most"
                             [] OTHER       -> @])
SteamFinishes(g) ==
  /\ disk[g].man = "broken"
  /\ Steam(g, [disk[g] EXCEPT !.man = "whole", !.files = "whole", !.links = TRUE])
Played(g) ==
  /\ disk[g].man = "whole" /\ disk[g].files = "whole" /\ disk[g].saves < MaxVersion
  /\ Steam(g, [disk[g] EXCEPT !.saves = @ + 1])
Uninstalled(g) ==
  /\ disk[g].man # "none"
  /\ Steam(g, NoCopy)

-----------------------------------------------------------------------------
(* cg-library pull. *)

Stepped(record) ==
  /\ pull' = record
  /\ UNCHANGED <<archiveVars, box, asked, push, lock, laptop, boots, pushes>>

\* An index that cannot be read is an empty one, and nothing to restore is a
\* restore that worked.
PullStarts(answered) ==
  /\ box = "up" /\ pull.pc = "due"
  /\ "forget" \in Together \/ laptop.pc = "off"
  /\ answered \/ "index_read" \in Faults
  /\ LET want == [g \in Games |-> IF answered /\ g \in Chosen THEN index[g] ELSE 0]
         free == Room - OnDisk(disk)
     IN IF want = [g \in Games |-> 0]
        THEN Stepped(NoPull) /\ restored' = TRUE
        ELSE /\ Stepped([NoPull EXCEPT !.pc = "next", !.want = want,
                           !.budget = IF free < 0 THEN 0 ELSE free])
             /\ UNCHANGED restored
  /\ UNCHANGED disk

\* The next game, the biggest first.  What is already here counts against what
\* still has to be fetched.
NextGame(g) ==
  /\ pull.pc = "next" /\ pull.want[g] > 0
  /\ \A h \in Games : pull.want[h] <= pull.want[g]
Need(g) == IF pull.want[g] > Bytes(g, disk[g]) THEN pull.want[g] - Bytes(g, disk[g]) ELSE 0
Fits(g) == pull.used + Need(g) <= pull.budget

GameSkipped(g) ==
  /\ NextGame(g) /\ ~Fits(g)
  /\ Stepped([pull EXCEPT !.want[g] = 0, !.skipped = @ \cup {g}])
  /\ UNCHANGED <<disk, restored>>

\* No manifest in the archive, or none answered for: the game is not there.
GameAbsent(g) ==
  /\ NextGame(g) /\ Fits(g)
  /\ s3[g].man = "none" \/ "manifest_read" \in Faults
  /\ Stepped([pull EXCEPT !.used = @ + Need(g) - pull.want[g], !.want[g] = 0])
  /\ UNCHANGED <<disk, restored>>

\* The manifest first, then the folders.
GameStarts(g) ==
  /\ NextGame(g) /\ Fits(g) /\ s3[g].man # "none"
  /\ Stepped([pull EXCEPT !.used = @ + Need(g), !.pc = "sync", !.game = g])
  /\ \E half \in HalfFetched(s3[g], disk[g]) :
       disk' = [disk EXCEPT ![g] = [half EXCEPT !.man = s3[g].man]]
  /\ UNCHANGED restored

\* The folders are done or have failed; the links are made again, and what
\* landed is measured against what the index promised.  Only that tells a
\* failure: the status of the sync is read after the `if` that holds it, and its
\* `:` has run by then (line 33 sets pipefail).
Relinked(copy, links) == [copy EXCEPT !.links = @ \/ links]

Short(g, copy) == Bytes(g, copy) * 100 < pull.want[g] * 98

GameEnds(clean, linksRead) ==
  /\ pull.pc = "sync"
  /\ IF clean THEN s3[pull.game].files # "none"
     ELSE \/ s3[pull.game].files = "none"
          \/ IF Short(pull.game, disk[pull.game]) THEN "pull_fails" \in Faults
             ELSE "pull_nearly" \in Faults
  /\ linksRead \/ "links_read" \in Faults
  /\ LET g    == pull.game
         copy == Relinked(IF clean THEN Fetched(s3[g], disk[g]) ELSE disk[g],
                          linksRead /\ s3[g].links)
     IN /\ disk' = [disk EXCEPT ![g] = copy]
        /\ Stepped([pull EXCEPT !.pc = "next", !.want[g] = 0, !.game = "none",
                                !.bad = @ \/ Short(g, copy)])
  /\ UNCHANGED restored

Marked == restored \/ ~pull.bad

PullEnds ==
  /\ pull.pc = "next" /\ \A g \in Games : pull.want[g] = 0
  /\ Stepped([NoPull EXCEPT !.skipped = pull.skipped])
  /\ restored' = Marked
  /\ UNCHANGED disk

-----------------------------------------------------------------------------
(* cg-library push.  What Steam says of each game, and the index for the    *)
(* size guard, are read once at the start.                                  *)

PushStep(p, record) ==
  /\ push' = [push EXCEPT ![p] = record]
  /\ UNCHANGED <<disk, restored, pull, laptop, boots>>

LockFree(p) == lock = "none"

PushStarts(p, force) ==
  /\ push[p].pc = IF p = "stop" THEN "off" ELSE "due"
  /\ p = "stop" => box = "up" /\ pushes < MaxPushes
  /\ "forget" \in Together \/ laptop.pc = "off"
  /\ LockFree(p)
  /\ restored \/ force
  /\ PushStep(p, [NoPush EXCEPT !.pc = "next", !.force = force, !.cache = index,
                    !.apps = [g \in Games |-> disk[g].man]])
  /\ lock' = p
  /\ pushes' = IF p = "stop" THEN pushes + 1 ELSE pushes
  /\ UNCHANGED <<archiveVars, box, asked>>

\* The unit's push of a box whose games were not restored refuses, and the box
\* goes down all the same.
UnitRefused ==
  /\ push["unit"].pc = "due" /\ ~restored /\ lock = "none"
  /\ PushStep("unit", [NoPush EXCEPT !.pc = "done"])
  /\ UNCHANGED <<archiveVars, box, asked, lock, pushes>>

Turn(p, g) == push[p].pc = "next" /\ push[p].apps[g] # "none"

Whole(p, g) == push[p].apps[g] = "whole"

HalfGone(p, g) ==
  /\ push[p].cache[g] > 0
  /\ Bytes(g, disk[g]) * 2 < push[p].cache[g]
  /\ ~push[p].force

GamePassedOver(p, g) ==
  /\ Turn(p, g)
  /\ ~Whole(p, g) \/ HalfGone(p, g)
  /\ PushStep(p, [push[p] EXCEPT !.apps[g] = "none"])
  /\ UNCHANGED <<archiveVars, box, asked, lock, pushes>>

GameOpens(p, g, manifest) ==
  /\ Turn(p, g) /\ Whole(p, g) /\ ~HalfGone(p, g)
  /\ \E half \in HalfWay(disk[g], s3[g]) :
       s3' = [s3 EXCEPT ![g] = [half EXCEPT !.man = manifest]]
  /\ PushStep(p, [push[p] EXCEPT !.pc = "sync", !.game = g, !.apps[g] = "none",
                                 !.bytes = Bytes(g, disk[g])])
  /\ UNCHANGED <<index, box, asked, lock, pushes>>

GamePushed_manifestFirst(p, g) == GameOpens(p, g, disk[g].man)

GamePushed(p, g) == GameOpens(p, g, s3[g].man)

MayFail(p) == "push_fails" \in Faults /\ push[p].game \in Unlucky

\* The folders are done or have failed; the links are recorded as they are here.
GameSynced(p, clean, recorded) ==
  /\ push[p].pc = "sync"
  /\ clean \/ MayFail(p)
  /\ recorded \/ "links_put" \in Faults
  /\ LET g      == push[p].game
         copied == IF clean THEN Synced(disk[g], s3[g]) ELSE s3[g]
     IN s3' = [s3 EXCEPT ![g] = IF recorded THEN [copied EXCEPT !.links = disk[g].links]
                                ELSE copied]
  /\ PushStep(p, [push[p] EXCEPT !.pc = "manifest", !.ok = clean])
  /\ UNCHANGED <<index, box, asked, lock, pushes>>

\* The manifest last; after a failure it is withheld, and the archived one is
\* removed (if S3 lets it).
ManifestPut(p) ==
  /\ push[p].pc = "manifest" /\ push[p].ok
  /\ s3' = [s3 EXCEPT ![push[p].game].man = disk[push[p].game].man]
  /\ PushStep(p, [push[p] EXCEPT !.pc = "index"])
  /\ UNCHANGED <<index, box, asked, lock, pushes>>

ManifestWithheld(p) ==
  /\ push[p].pc = "manifest"
  /\ push[p].ok => MayFail(p)
  /\ LET g == push[p].game
     IN /\ \E man \in {"none", s3[g].man} : s3' = [s3 EXCEPT ![g].man = man]
        /\ PushStep(p, [push[p] EXCEPT !.pc = "next", !.game = "none",
                                       !.withheld = @ \cup {g}])
  /\ UNCHANGED <<index, box, asked, lock, pushes>>

\* The index is read, one entry changed, and written back.
IndexRead(p, answered) ==
  /\ push[p].pc = "index"
  /\ answered \/ "index_read" \in Faults
  /\ PushStep(p, [push[p] EXCEPT !.pc = "merge",
                    !.base = IF answered THEN index ELSE [g \in Games |-> 0]])
  /\ UNCHANGED <<archiveVars, box, asked, lock, pushes>>

IndexPut(p, answered) ==
  /\ push[p].pc = "merge"
  /\ answered \/ "index_put" \in Faults
  /\ index' = IF answered THEN [push[p].base EXCEPT ![push[p].game] = push[p].bytes]
              ELSE index
  /\ PushStep(p, [push[p] EXCEPT !.pc = "next", !.game = "none",
                                 !.base = NoPush.base])
  /\ UNCHANGED <<s3, box, asked, lock, pushes>>

\* All games seen to: the push has worked, whatever became of each.  The box is
\* stopped after the one that goes before a stop.
Down(who) == box' = "stopping" /\ asked' = IF asked = "none" THEN who ELSE asked

PushEnds(p) ==
  /\ push[p].pc = "next" /\ \A g \in Games : push[p].apps[g] = "none"
  /\ lock' = "none"
  /\ IF p = "stop"
     THEN /\ Down("stop")
          /\ push' = [push EXCEPT !["stop"] = [NoPush EXCEPT !.pc = "done", !.withheld = push[p].withheld],
                                  !["unit"].pc = IF @ = "off" THEN "due" ELSE @]
     ELSE /\ UNCHANGED <<box, asked>>
          /\ push' = [push EXCEPT !["unit"] = [NoPush EXCEPT !.pc = "done", !.withheld = push[p].withheld]]
  /\ UNCHANGED <<disk, archiveVars, restored, pull, laptop, boots, pushes>>

-----------------------------------------------------------------------------
(* The box.  Something else (the cloud watchdog, a person in AWS's console) *)
(* may ask it to stop at any time; at the end of a stop the drive is wiped. *)

\* A box that goes down while it restores never reaches its shutdown unit, which
\* starts after the restore.
Terminated ==
  /\ box = "up" /\ Down("cloud")
  /\ push' = [push EXCEPT !["unit"].pc = IF pull.pc = "off" THEN "due" ELSE "done"]
  /\ pull' = [NoPull EXCEPT !.skipped = pull.skipped]
  /\ UNCHANGED <<disk, archiveVars, restored, lock, laptop, boots, pushes>>

\* The shutdown kills a push that was under way, and the unit's has its lock.
PushKilled ==
  /\ box = "stopping" /\ lock = "stop"
  /\ push' = [push EXCEPT !["stop"] = NoPush] /\ lock' = "none"
  /\ UNCHANGED <<disk, archiveVars, restored, box, asked, pull, laptop, boots, pushes>>

Marker_anyBoot == restored
Marker == FALSE       \* it names a boot that is over

Boot(copies) ==
  /\ boots < MaxBoots /\ boots' = boots + 1
  /\ disk' = copies
  /\ restored' = Marker
  /\ box' = "up" /\ asked' = "none"
  /\ pull' = [NoPull EXCEPT !.pc = "due"]
  /\ push' = [p \in Pushers |-> NoPush] /\ lock' = "none"
  /\ UNCHANGED <<archiveVars, laptop, pushes>>

Gone == [g \in Games |-> NoCopy]

StoppedAndStarted == box = "stopping" /\ push["unit"].pc = "done" /\ Boot(Gone)

\* It dies under whatever runs: reset (the drive is kept) or taken away.
Reset == "reset" \in Faults /\ Boot(disk)
Taken == "taken" \in Faults /\ Boot(Gone)

-----------------------------------------------------------------------------
(* cg library forget, on the laptop: the index is read, a word is typed, the *)
(* objects are deleted, and the index is written from what was read.         *)

ForgetAsks(g) ==
  /\ laptop.pc = "off" /\ index[g] > 0
  /\ "forget" \in Together \/ (Quiet("forget") /\ box = "up")
  /\ laptop' = [pc |-> "asked", game |-> g, apps |-> index]
  /\ UNCHANGED <<disk, archiveVars, restored, box, asked, pull, push, lock, boots, pushes>>

\* A delete that AWS refuses leaves the game in the index, to be deleted again.
Refused(copy) == {left \in [files : {"none", copy.files}, saves : {copy.saves},
                            links : {FALSE, copy.links}, man : {"none", copy.man}] :
                    left # copy}
ForgetMayFail == "forget_fails" \in Faults /\ laptop.game \in Unlucky

ForgetDeletes ==
  /\ laptop.pc = "asked"
  /\ \/ /\ s3' = [s3 EXCEPT ![laptop.game] = NoCopy]
        /\ laptop' = [laptop EXCEPT !.pc = "deleted"]
     \/ /\ ForgetMayFail
        /\ \E left \in Refused(s3[laptop.game]) : s3' = [s3 EXCEPT ![laptop.game] = left]
        /\ laptop' = NoForget
  /\ UNCHANGED <<disk, index, restored, box, asked, pull, push, lock, boots, pushes>>

ForgetWrites(answered) ==
  /\ laptop.pc = "deleted"
  /\ answered \/ ForgetMayFail
  /\ index' = IF answered THEN [laptop.apps EXCEPT ![laptop.game] = 0] ELSE index
  /\ laptop' = NoForget
  /\ UNCHANGED <<disk, s3, restored, box, asked, pull, push, lock, boots, pushes>>

\* The word was not typed.
ForgetLeft == laptop.pc = "asked" /\ laptop' = NoForget
              /\ UNCHANGED <<disk, archiveVars, restored, box, asked, pull, push, lock, boots, pushes>>

-----------------------------------------------------------------------------
Next ==
  \/ \E g \in Games : SteamFetches(g) \/ SteamFinishes(g) \/ Played(g) \/ Uninstalled(g)
  \/ \E answered \in BOOLEAN : PullStarts(answered)
  \/ \E g \in Games : GameSkipped(g) \/ GameAbsent(g) \/ GameStarts(g)
  \/ \E clean, linksRead \in BOOLEAN : GameEnds(clean, linksRead)
  \/ PullEnds
  \/ \E p \in Pushers :
       \/ \E force \in Forces : PushStarts(p, force)
       \/ \E g \in Games : GamePassedOver(p, g) \/ GamePushed(p, g)
       \/ \E clean, recorded \in BOOLEAN : GameSynced(p, clean, recorded)
       \/ ManifestPut(p) \/ ManifestWithheld(p)
       \/ \E answered \in BOOLEAN : IndexRead(p, answered) \/ IndexPut(p, answered)
       \/ PushEnds(p)
  \/ UnitRefused \/ Terminated \/ PushKilled \/ StoppedAndStarted \/ Reset \/ Taken
  \/ \E g \in Games : ForgetAsks(g)
  \/ ForgetDeletes
  \/ \E answered \in BOOLEAN : ForgetWrites(answered)
  \/ ForgetLeft

Spec == Init /\ [][Next]_vars

-----------------------------------------------------------------------------
TypeOK ==
  /\ disk \in [Games -> Copy] /\ s3 \in [Games -> Copy]
  /\ index \in [Games -> Nat]
  /\ restored \in BOOLEAN
  /\ box \in {"up", "stopping"} /\ asked \in {"none", "stop", "cloud"}
  /\ pull.pc \in {"off", "due", "next", "sync"} /\ pull.budget \in 0..Room
  /\ \A p \in Pushers :
       push[p].pc \in {"off", "due", "next", "sync", "manifest", "index", "merge", "done"}
  /\ lock \in Pushers \cup {"none"}
  /\ \A p \in Pushers : Pushing(p) /\ push[p].pc # "due" => lock = p
  /\ laptop.pc \in {"off", "asked", "deleted"}

\* A whole archived copy is only ever overwritten from a whole local one, unless
\* a push was forced: no restore that was cut off or failed, no game Steam is
\* working on, no marker of another boot lets a partial copy over it.  The one
\* way left is a game that this boot's restore skipped for want of room.
OverWhole(g) ==
  /\ s3[g].man = "whole" /\ s3[g].files = "whole" /\ s3'[g].files # "whole"
  /\ disk[g].files # "whole"
  /\ laptop.game # g /\ \A p \in Pushers : ~push[p].force

PartialNeverOverWhole == [][\A g \in Games : OverWhole(g) => g \in pull.skipped]_vars

\* The same, of the games that were skipped too.
PartialNeverPushed == [][\A g \in Games : ~OverWhole(g)]_vars

\* A manifest that says "whole" appears in the archive only once all the files it
\* describes are there: half a push leaves none of its own.
ManifestIsLast ==
  [][\A g \in Games :
       s3[g].man # "whole" /\ s3'[g].man = "whole" => Same(s3'[g], disk[g])]_vars

\* A game leaves the index only when it is forgotten: two pushes at once, or one
\* that is killed, never lose the entry of another game.
EntryKept ==
  [][\A g \in Games : index[g] > 0 /\ index'[g] = 0 => laptop.game = g]_vars

\* Whatever is cut off, the archive never says more than it holds, and never
\* forgets what it holds.
ArchiveIsSound == ManifestIsLast /\ EntryKept

\* The links of an archived game, which nothing makes again, stay archived for
\* as long as the game is.
LinksKept ==
  [][\A g \in Games : s3[g].links /\ ~s3'[g].links => laptop.game = g]_vars

\* When `cg stop` stops the box, every game that is whole on it is whole in the
\* archive, listed there, and has the saves of the last session, but for a game
\* of which a push said that it could not be archived.
Saved(g) ==
  disk[g].man = "whole" /\ disk[g].files = "whole" =>
    /\ Same(s3[g], disk[g]) /\ s3[g].man = "whole"
    /\ disk[g].links => s3[g].links
    /\ index[g] = Size[g]
StoppedByUs == box = "stopping" /\ asked = "stop" /\ push["unit"].pc \in {"due", "done"}

StoppedIsSaved ==
  StoppedByUs => \A g \in Games \ UNION {push[p].withheld : p \in Pushers} : Saved(g)

\* `cg stop` does not stop a box of which a game could not be pushed.
StopRefused == StoppedByUs => \A g \in Games : Saved(g)

\* A boot is marked as restored only when what its pull put on the drive is what
\* the archive holds: a sync that died part of the way is noticed.
MarkedIsRestored ==
  [][\A g \in Games :
       pull.pc = "next" /\ ~restored /\ restored' /\ disk[g].man # "none" /\ s3[g].man = "whole" =>
         disk[g].saves >= s3[g].saves /\ Percent[disk[g].files] >= Percent[s3[g].files]]_vars

\* The drive is never filled beyond the reserve, by several games or by a
\* restore that goes on where one was cut off.
RoomKept == OnDisk(disk) <= Room
=============================================================================
