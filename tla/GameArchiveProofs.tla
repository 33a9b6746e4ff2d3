--------------------------- MODULE GameArchiveProofs ---------------------------
(* No push loses the index entry of a game, and every manifest comes after   *)
(* the files it describes: for any games, sizes, faults (but an index that   *)
(* cannot be read), cut-offs and restarts, as long as nobody forces a push   *)
(* and neither Steam nor the laptop works beside one.                        *)
EXTENDS GameArchive, TLAPS

Calm == TRUE \notin Forces /\ Together = {} /\ "index_read" \notin Faults

Active == {"next", "sync", "manifest", "index", "merge"}
OnGame == Active \ {"next"}

PushRecord ==
  [pc : Active \cup {"off", "due", "done"}, apps : [Games -> {"none", "whole", "broken"}],
   cache : [Games -> Nat], game : Games \cup {"none"}, force : {FALSE}, bytes : Nat,
   ok : BOOLEAN, base : [Games -> Nat], withheld : SUBSET Games]

Types ==
  /\ disk \in [Games -> Copy] /\ s3 \in [Games -> Copy]
  /\ index \in [Games -> Nat]
  /\ push \in [Pushers -> PushRecord]
  /\ lock \in Pushers \cup {"none"}
  /\ laptop \in [pc : {"off", "asked", "deleted"}, game : Games \cup {"none"}, apps : [Games -> Nat]]

\* The lock is held by the one push at work, and none is beside a restore or a forget.
Locked == \A p \in Pushers : push[p].pc \in Active <=> lock = p
Alone  == lock # "none" => restored /\ laptop.pc = "off"
AtRest == restored => pull.pc = "off"

\* What was read of the index is what it still says.
Listed == laptop.pc # "off" => laptop.apps = index
Based  == \A p \in Pushers : push[p].pc = "merge" => push[p].base = index
Cached == \A p \in Pushers : push[p].pc \in Active =>
            \A g \in Games : push[p].apps[g] # "none" => push[p].cache[g] = index[g]

\* The game at work is done with in the list, and passed the size guard.
Guarded == \A p \in Pushers : push[p].pc \in OnGame =>
             /\ push[p].game \in Games /\ push[p].apps[push[p].game] = "none"
             /\ 2 * push[p].bytes >= index[push[p].game]

\* Once the folders are there, they are what the drive holds.
Landed == \A p \in Pushers : push[p].pc = "manifest" /\ push[p].ok =>
            Same(s3[push[p].game], disk[push[p].game])

\* The shutdown unit's push belongs to a box that goes down.
Staged == push["unit"].pc # "off" => box = "stopping"

Rest == Locked /\ Alone /\ AtRest /\ Listed /\ Based /\ Cached /\ Guarded /\ Landed /\ Staged
IInv == Types /\ Rest

-----------------------------------------------------------------------------
(* Types. *)

Levels == {"none", "scrap", "most", "nearly", "whole"}
Mans   == {"none", "whole", "broken"}

LEMMA CopyIs == Copy = [files : Levels, saves : 0..MaxVersion, links : BOOLEAN, man : Mans]
BY DEF Copy, Percent, Levels, Mans

LEMMA Edited ==
  ASSUME NEW c \in Copy
  PROVE  /\ \A m \in Mans : [c EXCEPT !.man = m] \in Copy
         /\ \A l \in BOOLEAN : [c EXCEPT !.links = l] \in Copy
         /\ \A f \in Levels, v \in 0..MaxVersion : [c EXCEPT !.files = f, !.saves = v] \in Copy
         /\ \A f \in Levels : [c EXCEPT !.files = f] \in Copy
         /\ \A v \in 0..MaxVersion : [c EXCEPT !.saves = v] \in Copy
         /\ c.files \in Levels /\ c.saves \in 0..MaxVersion /\ c.links \in BOOLEAN /\ c.man \in Mans
BY CopyIs, Zenon

LEMMA NoCopyType == NoCopy \in Copy
BY CopyIs, ArchiveAssumption DEF NoCopy, Levels, Mans

LEMMA Transfers ==
  ASSUME NEW a \in Copy, NEW b \in Copy
  PROVE  /\ Synced(a, b) \in Copy /\ Fetched(a, b) \in Copy
         /\ HalfWay(a, b) \subseteq Copy /\ HalfFetched(a, b) \subseteq Copy
<1>1. Synced(a, b) \in Copy
  BY Edited, Zenon DEF Synced
<1>2. Fetched(a, b) \in Copy
  BY <1>1, Edited, Zenon DEF Fetched
<1>3. HalfWay(a, b) \subseteq Copy
  BY DEF HalfWay
<1>4. HalfFetched(a, b) \subseteq Copy
  <2>1. [b EXCEPT !.files = "nearly"] \in Copy
    BY Edited, Zenon DEF Levels
  <2>2. QED BY <1>3, <2>1 DEF HalfFetched
<1>5. QED BY <1>1, <1>2, <1>3, <1>4

LEMMA BytesType == ASSUME NEW g \in Games, NEW c \in Copy PROVE Bytes(g, c) \in Nat
<1>1. Size[g] \in Nat
  BY ArchiveAssumption
<1>2. Percent[c.files] \in {0, 25, 75, 99, 100}
  BY CopyIs DEF Levels, Percent
<1>3. QED BY <1>1, <1>2 DEF Bytes

LEMMA InitTypes == Init => Types
<1> SUFFICES ASSUME Init PROVE Types
  OBVIOUS
<1>1. [files |-> "whole", saves |-> 0, links |-> TRUE, man |-> "whole"] \in Copy
  BY CopyIs, ArchiveAssumption DEF Levels, Mans
<1>2. disk \in [Games -> Copy] /\ s3 \in [Games -> Copy]
  BY <1>1, NoCopyType DEF Init
<1>3. index \in [Games -> Nat]
  BY <1>2, BytesType DEF Init
<1>4. QED
  BY <1>2, <1>3 DEF Init, Types, NoPush, NoForget, PushRecord, Active, Pushers

\* Steam and the restore change the drive only, game by game.
LEMMA DriveTypes ==
  ASSUME Types, NEW g, NEW copy, g \in Games => copy \in Copy,
         disk' = [disk EXCEPT ![g] = copy], UNCHANGED <<s3, index, push, lock, laptop>>
  PROVE  Types'
BY DEF Types

LEMMA SteamTypes ==
  ASSUME Types, NEW g \in Games,
         SteamFetches(g) \/ SteamFinishes(g) \/ Played(g) \/ Uninstalled(g)
  PROVE  Types'
<1> DEFINE fetched == CASE disk[g].files = "none" -> "scrap"
                        [] disk[g].files = "whole" -> "most"
                        [] OTHER -> disk[g].files
<1>0. disk[g] \in Copy /\ MaxVersion \in Nat
  BY ArchiveAssumption DEF Types
<1>1. PICK copy : Steam(g, copy) /\ copy \in Copy
  <2>1. CASE SteamFetches(g)
    <3>1. fetched \in Levels
      BY <1>0, Edited, Zenon DEF Levels
    <3>2. [disk[g] EXCEPT !.man = "broken", !.files = fetched] \in Copy
      BY <1>0, <3>1, CopyIs DEF Mans
    <3>3. SteamFetches(g) => Steam(g, [disk[g] EXCEPT !.man = "broken", !.files = fetched])
      BY <1>0, CopyIs, Zenon DEF SteamFetches
    <3>4. QED BY <2>1, <3>2, <3>3
  <2>2. CASE SteamFinishes(g)
    <3>1. [disk[g] EXCEPT !.man = "whole", !.files = "whole", !.links = TRUE] \in Copy
      BY <1>0, CopyIs DEF Levels, Mans
    <3>2. QED BY <2>2, <3>1 DEF SteamFinishes
  <2>3. CASE Played(g)
    <3>1. disk[g].saves \in 0..MaxVersion /\ disk[g].saves < MaxVersion
      BY <1>0, <2>3, Edited, Zenon DEF Played
    <3>2. disk[g].saves + 1 \in 0..MaxVersion
      BY <1>0, <3>1
    <3>3. [disk[g] EXCEPT !.saves = disk[g].saves + 1] \in Copy
      BY <1>0, <3>2, Edited, Zenon
    <3>4. QED BY <2>3, <3>3 DEF Played
  <2>4. CASE Uninstalled(g)
    BY <2>4, NoCopyType DEF Uninstalled
  <2>5. QED BY <2>1, <2>2, <2>3, <2>4
<1>2. QED BY <1>1, DriveTypes DEF Steam, archiveVars, procVars

LEMMA PullTypes ==
  ASSUME Types,
         \/ \E answered \in BOOLEAN : PullStarts(answered)
         \/ \E g \in Games : GameSkipped(g) \/ GameAbsent(g) \/ GameStarts(g)
         \/ \E clean, linksRead \in BOOLEAN : GameEnds(clean, linksRead)
         \/ PullEnds
  PROVE  Types'
<1>1. CASE UNCHANGED <<disk, s3, index, push, lock, laptop>>
  BY <1>1 DEF Types
<1>2. ASSUME NEW g \in Games, GameStarts(g) PROVE Types'
  <2>1. PICK half \in HalfFetched(s3[g], disk[g]) : disk' = [disk EXCEPT ![g] = [half EXCEPT !.man = s3[g].man]]
    BY <1>2, Zenon DEF GameStarts
  <2>2. s3[g] \in Copy /\ disk[g] \in Copy
    BY DEF Types
  <2>3. [half EXCEPT !.man = s3[g].man] \in Copy
    BY <2>1, <2>2, Transfers, Edited, Zenon
  <2>4. QED BY <1>2, <2>1, <2>3, DriveTypes, Zenon DEF GameStarts, Stepped, archiveVars
<1>3. ASSUME NEW clean \in BOOLEAN, NEW linksRead \in BOOLEAN, GameEnds(clean, linksRead) PROVE Types'
  <2> DEFINE g     == pull.game
             links == linksRead /\ s3[g].links
             came  == IF clean THEN Fetched(s3[g], disk[g]) ELSE disk[g]
             copy  == Relinked(came, links)
  <2>1. disk' = [disk EXCEPT ![g] = copy]
    BY <1>3, Zenon DEF GameEnds
  <2>2. ASSUME g \in Games PROVE copy \in Copy
    <3>1. s3[g] \in Copy /\ disk[g] \in Copy
      BY <2>2 DEF Types
    <3>2. came \in Copy
      BY <3>1, Transfers
    <3>3. (came.links \/ links) \in BOOLEAN
      BY <3>1, <3>2, Edited, Zenon
    <3>4. QED BY <3>2, <3>3, Edited, Zenon DEF Relinked
  <2>3. QED BY <1>3, <2>1, <2>2, DriveTypes, Zenon DEF GameEnds, Stepped, archiveVars
<1>4. QED
  BY <1>1, <1>2, <1>3, Zenon DEF PullStarts, GameSkipped, GameAbsent, PullEnds, Stepped, archiveVars

LEMMA NoPushType == NoPush \in PushRecord
BY DEF NoPush, PushRecord, Active

\* A push at work changes its own record, and a game in the archive.
LEMMA PushingTypes ==
  ASSUME Types, NEW p \in Pushers, NEW record \in PushRecord, NEW l \in Pushers \cup {"none"},
         PushStep(p, record), lock' = l, s3' \in [Games -> Copy], index' \in [Games -> Nat]
  PROVE  Types'
BY DEF Types, PushStep

LEMMA StartTypes ==
  ASSUME Types, Calm, NEW p \in Pushers, NEW force \in Forces, PushStarts(p, force)
  PROVE  Types'
<1> DEFINE record == [NoPush EXCEPT !.pc = "next", !.force = force, !.cache = index,
                        !.apps = [g \in Games |-> disk[g].man]]
<1>1. force = FALSE
  BY ArchiveAssumption DEF Calm
<1>2. [g \in Games |-> disk[g].man] \in [Games -> {"none", "whole", "broken"}]
  BY CopyIs DEF Types, Mans
<1>3. record \in PushRecord
  BY <1>1, <1>2, NoPushType, Zenon DEF PushRecord, Active, Types
<1>4. UNCHANGED <<s3, index>> /\ lock' = p /\ PushStep(p, record)
  BY DEF PushStarts, archiveVars
<1>5. QED BY <1>3, <1>4, PushingTypes DEF Types

LEMMA TurnTypes ==
  ASSUME Types, NEW p \in Pushers, NEW g \in Games, GamePassedOver(p, g) \/ GamePushed(p, g)
  PROVE  Types'
<1>1. push[p] \in PushRecord /\ s3[g] \in Copy /\ disk[g] \in Copy /\ lock \in Pushers \cup {"none"}
  BY DEF Types
<1>2. \A r \in PushRecord : [r EXCEPT !.apps[g] = "none"] \in PushRecord
  BY DEF PushRecord
<1>3. CASE GamePassedOver(p, g)
  BY <1>1, <1>2, <1>3, PushingTypes DEF GamePassedOver, archiveVars, Types
<1>4. CASE GamePushed(p, g)
  <2>1. PICK half \in HalfWay(disk[g], s3[g]) : s3' = [s3 EXCEPT ![g] = [half EXCEPT !.man = s3[g].man]]
    BY <1>4 DEF GamePushed, GameOpens
  <2>2. [half EXCEPT !.man = s3[g].man] \in Copy
    BY <1>1, <2>1, Transfers, Edited, Zenon
  <2>3. s3' \in [Games -> Copy]
    BY <2>1, <2>2 DEF Types
  <2>4. Bytes(g, disk[g]) \in Nat
    BY <1>1, BytesType
  <2>5. [push[p] EXCEPT !.pc = "sync", !.game = g, !.apps[g] = "none", !.bytes = Bytes(g, disk[g])]
          \in PushRecord
    BY <1>1, <2>4 DEF PushRecord, Active
  <2>6. UNCHANGED <<index, lock>>
    BY <1>4 DEF GamePushed, GameOpens
  <2>7. QED BY <1>1, <1>4, <2>3, <2>5, <2>6, PushingTypes DEF GamePushed, GameOpens, Types
<1>5. QED BY <1>3, <1>4

LEMMA SyncTypes ==
  ASSUME Types, NEW p \in Pushers, NEW clean \in BOOLEAN, NEW recorded \in BOOLEAN,
         GameSynced(p, clean, recorded), push[p].game \in Games
  PROVE  Types'
<1> DEFINE g      == push[p].game
           copied == IF clean THEN Synced(disk[g], s3[g]) ELSE s3[g]
           copy   == IF recorded THEN [copied EXCEPT !.links = disk[g].links] ELSE copied
<1>1. push[p] \in PushRecord /\ s3[g] \in Copy /\ disk[g] \in Copy /\ lock \in Pushers \cup {"none"}
  BY DEF Types
<1>2. copied \in Copy
  BY <1>1, Transfers
<1>3. copy \in Copy
  BY <1>1, <1>2, Edited, Zenon
<1>4. s3' = [s3 EXCEPT ![g] = copy] /\ UNCHANGED <<index, lock>>
  BY DEF GameSynced
<1>5. s3' \in [Games -> Copy]
  BY <1>3, <1>4 DEF Types
<1>6. [push[p] EXCEPT !.pc = "manifest", !.ok = clean] \in PushRecord
  BY <1>1 DEF PushRecord, Active
<1>7. QED BY <1>1, <1>4, <1>5, <1>6, PushingTypes DEF GameSynced, Types

LEMMA ManifestTypes ==
  ASSUME Types, NEW p \in Pushers, ManifestPut(p) \/ ManifestWithheld(p), push[p].game \in Games
  PROVE  Types'
<1> DEFINE g == push[p].game
<1>1. push[p] \in PushRecord /\ s3[g] \in Copy /\ disk[g] \in Copy /\ lock \in Pushers \cup {"none"}
  BY DEF Types
<1>2. \A m \in Mans : [s3 EXCEPT ![g].man = m] \in [Games -> Copy]
  BY <1>1, Edited, Zenon DEF Types
<1>3. CASE ManifestPut(p)
  <2>1. s3' \in [Games -> Copy]
    BY <1>1, <1>2, <1>3, Edited, Zenon DEF ManifestPut
  <2>2. [push[p] EXCEPT !.pc = "index"] \in PushRecord
    BY <1>1 DEF PushRecord, Active
  <2>3. QED BY <1>1, <1>3, <2>1, <2>2, PushingTypes DEF ManifestPut, Types
<1>4. CASE ManifestWithheld(p)
  <2>1. PICK man \in {"none", s3[g].man} : s3' = [s3 EXCEPT ![g].man = man]
    BY <1>4 DEF ManifestWithheld
  <2>2. s3' \in [Games -> Copy]
    BY <1>1, <1>2, <2>1, Edited, Zenon DEF Mans
  <2>3. [push[p] EXCEPT !.pc = "next", !.game = "none", !.withheld = @ \cup {g}] \in PushRecord
    BY <1>1 DEF PushRecord, Active
  <2>4. QED BY <1>1, <1>4, <2>2, <2>3, PushingTypes DEF ManifestWithheld, Types
<1>5. QED BY <1>3, <1>4

LEMMA IndexTypes ==
  ASSUME Types, NEW p \in Pushers, NEW answered \in BOOLEAN,
         IndexRead(p, answered) \/ IndexPut(p, answered)
  PROVE  Types'
<1>1. push[p] \in PushRecord /\ lock \in Pushers \cup {"none"} /\ index \in [Games -> Nat]
  BY DEF Types
<1>2. [g \in Games |-> 0] \in [Games -> Nat]
  OBVIOUS
<1>3. CASE IndexRead(p, answered)
  <2>1. \A b \in [Games -> Nat] : [push[p] EXCEPT !.pc = "merge", !.base = b] \in PushRecord
    BY <1>1 DEF PushRecord, Active
  <2>2. (IF answered THEN index ELSE [g \in Games |-> 0]) \in [Games -> Nat]
    BY <1>1, <1>2
  <2>3. QED BY <1>1, <1>3, <2>1, <2>2, PushingTypes, Zenon DEF IndexRead, archiveVars, Types
<1>4. CASE IndexPut(p, answered)
  <2>1. [push[p].base EXCEPT ![push[p].game] = push[p].bytes] \in [Games -> Nat]
    BY <1>1 DEF PushRecord
  <2>2. index' \in [Games -> Nat] /\ UNCHANGED <<s3, lock>>
    BY <1>1, <1>4, <2>1 DEF IndexPut
  <2>3. [push[p] EXCEPT !.pc = "next", !.game = "none", !.base = NoPush.base] \in PushRecord
    BY <1>1, <1>2 DEF PushRecord, Active, NoPush
  <2>4. QED BY <1>1, <1>4, <2>2, <2>3, PushingTypes DEF IndexPut, Types
<1>5. QED BY <1>3, <1>4

LEMMA EndTypes == ASSUME Types, NEW p \in Pushers, PushEnds(p) PROVE Types'
<1>1. \A q \in Pushers : push[q] \in PushRecord
  BY DEF Types
<1>2. \A w \in SUBSET Games : [NoPush EXCEPT !.pc = "done", !.withheld = w] \in PushRecord
  BY NoPushType DEF PushRecord
<1>3. [NoPush EXCEPT !.pc = "done", !.withheld = push[p].withheld] \in PushRecord
  BY <1>1, <1>2, Zenon DEF PushRecord
<1>4. \A r \in PushRecord : [r EXCEPT !.pc = IF @ = "off" THEN "due" ELSE @] \in PushRecord
  BY ZenonT(30) DEF PushRecord, Active
<1>5. push' \in [Pushers -> PushRecord]
  <2> DEFINE done == [NoPush EXCEPT !.pc = "done", !.withheld = push[p].withheld]
             due  == [push["unit"] EXCEPT !.pc = IF @ = "off" THEN "due" ELSE @]
  <2>1. p = "stop" => push' = [push EXCEPT !["stop"] = done, !["unit"].pc = IF @ = "off" THEN "due" ELSE @]
    BY DEF PushEnds
  <2>2. p # "stop" => push' = [push EXCEPT !["unit"] = done]
    BY DEF PushEnds
  <2>3. due \in PushRecord /\ done \in PushRecord
    BY <1>1, <1>3, <1>4 DEF Pushers
  <2>4. p = "stop" => push' = [push EXCEPT !["stop"] = done, !["unit"] = due]
    BY <2>1 DEF Types, Pushers
  <2>5. QED BY <2>2, <2>3, <2>4 DEF Types, Pushers
<1>6. UNCHANGED <<disk, s3, index, laptop>> /\ lock' = "none"
  BY DEF PushEnds, archiveVars
<1>7. QED BY <1>5, <1>6 DEF Types

LEMMA BoxTypes ==
  ASSUME Types, UnitRefused \/ Terminated \/ PushKilled \/ StoppedAndStarted \/ Reset \/ Taken
  PROVE  Types'
<1>1. \A q \in Pushers : push[q] \in PushRecord
  BY DEF Types
<1>2. \A r \in PushRecord : [r EXCEPT !.pc = "due"] \in PushRecord /\ [r EXCEPT !.pc = "done"] \in PushRecord
  BY DEF PushRecord
<1>3. CASE UnitRefused
  BY <1>2, <1>3, NoPushType, PushingTypes DEF UnitRefused, Types, archiveVars, Pushers
<1>4. CASE Terminated
  <2>1. push' \in [Pushers -> PushRecord]
    BY <1>1, <1>2, <1>4 DEF Terminated, Types, Pushers
  <2>2. UNCHANGED <<disk, s3, index, laptop, lock>>
    BY <1>4 DEF Terminated, archiveVars
  <2>3. QED BY <2>1, <2>2 DEF Types
<1>5. CASE PushKilled
  <2>1. push' \in [Pushers -> PushRecord]
    BY <1>5, NoPushType DEF PushKilled, Types
  <2>2. UNCHANGED <<disk, s3, index, laptop>> /\ lock' = "none"
    BY <1>5 DEF PushKilled, archiveVars
  <2>3. QED BY <2>1, <2>2 DEF Types
<1>6. CASE StoppedAndStarted \/ Reset \/ Taken
  <2>1. PICK copies : Boot(copies) /\ copies \in [Games -> Copy]
    BY <1>6, NoCopyType DEF StoppedAndStarted, Reset, Taken, Gone, Types
  <2>2. push' \in [Pushers -> PushRecord] /\ disk' \in [Games -> Copy]
    BY <2>1, NoPushType DEF Boot
  <2>3. UNCHANGED <<s3, index, laptop>> /\ lock' = "none"
    BY <2>1 DEF Boot, archiveVars
  <2>4. QED BY <2>2, <2>3 DEF Types
<1>7. QED BY <1>3, <1>4, <1>5, <1>6

LEMMA LaptopTypes ==
  ASSUME Types,
         \/ \E g \in Games : ForgetAsks(g)
         \/ ForgetDeletes \/ ForgetLeft
         \/ \E answered \in BOOLEAN : ForgetWrites(answered)
  PROVE  Types'
<1> DEFINE Laptops == [pc : {"off", "asked", "deleted"}, game : Games \cup {"none"}, apps : [Games -> Nat]]
<1>0. NoForget \in Laptops /\ laptop \in Laptops
  BY DEF NoForget, Types
<1>1. ASSUME NEW g \in Games, ForgetAsks(g) PROVE Types'
  <2>1. laptop' \in Laptops
    BY <1>1 DEF ForgetAsks, Types
  <2>2. UNCHANGED <<disk, s3, index, push, lock>>
    BY <1>1 DEF ForgetAsks, archiveVars
  <2>3. QED BY <2>1, <2>2 DEF Types
<1>2. CASE ForgetDeletes
  <2>1. laptop' \in Laptops
    BY <1>0, <1>2 DEF ForgetDeletes
  <2>2. s3' \in [Games -> Copy]
    <3>1. ASSUME laptop.game \in Games PROVE Refused(s3[laptop.game]) \subseteq Copy
      <4>1. s3[laptop.game] \in Copy
        BY <3>1 DEF Types
      <4>2. QED BY <4>1, CopyIs DEF Refused, Levels, Mans
    <3>2. QED BY <1>2, <3>1, NoCopyType DEF ForgetDeletes, Types
  <2>3. UNCHANGED <<disk, index, push, lock>>
    BY <1>2 DEF ForgetDeletes
  <2>4. QED BY <2>1, <2>2, <2>3 DEF Types
<1>3. CASE ForgetLeft
  BY <1>0, <1>3 DEF ForgetLeft, archiveVars, Types
<1>4. ASSUME NEW answered \in BOOLEAN, ForgetWrites(answered) PROVE Types'
  <2>1. index' \in [Games -> Nat]
    BY <1>0, <1>4 DEF ForgetWrites, Types
  <2>2. laptop' \in Laptops /\ UNCHANGED <<disk, s3, push, lock>>
    BY <1>0, <1>4 DEF ForgetWrites
  <2>3. QED BY <2>1, <2>2 DEF Types
<1>5. QED BY <1>1, <1>2, <1>3, <1>4

-----------------------------------------------------------------------------
(* The rest of the invariant. *)

LEMMA InitRest == Init => Rest
BY DEF Init, Rest, Locked, Alone, AtRest, Listed, Based, Cached, Guarded, Landed, Staged,
       NoPush, NoForget, NoPull, Active, OnGame, Pushers

\* While one push has the lock no other is at work; while none has it, none is.
LEMMA OthersRest ==
  ASSUME IInv, NEW p \in Pushers, lock \in {p, "none"}, NEW q \in Pushers \ {p}
  PROVE  push[q].pc \notin Active
BY DEF IInv, Rest, Locked, Pushers

LEMMA NoneAtWork ==
  ASSUME IInv, lock = "none", NEW q \in Pushers
  PROVE  push[q].pc \notin Active
BY DEF IInv, Rest, Locked, Pushers

\* Steam and the restore keep it, as they run only while no push does.
LEMMA BesideThePush ==
  ASSUME IInv, UNCHANGED <<index, push, lock, laptop, box>>,
         lock # "none" => UNCHANGED <<disk, s3, restored>>, AtRest'
  PROVE  Rest'
<1>1. Alone' /\ Listed' /\ Based' /\ Cached' /\ Guarded' /\ Staged' /\ Locked'
  BY DEF IInv, Rest, Locked, Alone, Listed, Based, Cached, Guarded, Staged
<1>2. Landed'
  BY NoneAtWork DEF IInv, Rest, Landed, Active
<1>3. QED BY <1>1, <1>2 DEF Rest

\* A step after which no push is at work.
LEMMA ThenNone ==
  ASSUME IInv, lock' = "none", \A q \in Pushers : push'[q].pc \notin Active,
         UNCHANGED <<index, laptop>>, AtRest', Staged'
  PROVE  Rest'
<1>1. Locked' /\ Alone' /\ Listed'
  BY DEF IInv, Rest, Locked, Alone, Listed, Pushers
<1>2. Based' /\ Cached' /\ Guarded' /\ Landed'
  BY DEF Based, Cached, Guarded, Landed, Active, OnGame
<1>3. QED BY <1>1, <1>2 DEF Rest

\* A step of the push p, which has the lock from here on: what remains to be
\* shown is what the invariant says of its record.
LEMMA OfThePush ==
  ASSUME IInv, NEW p \in Pushers, NEW record \in PushRecord, record.pc \in Active,
         PushStep(p, record), lock \in {p, "none"}, lock' = p, box' = box,
         restored, laptop.pc = "off", push[p].pc = "off" => p = "stop",
         record.pc = "merge" => record.base = index',
         \A g \in Games : record.apps[g] # "none" => record.cache[g] = index'[g],
         record.pc \in OnGame =>
           /\ record.game \in Games /\ record.apps[record.game] = "none"
           /\ 2 * record.bytes >= index'[record.game],
         record.pc = "manifest" /\ record.ok => Same(s3'[record.game], disk[record.game])
  PROVE  Rest'
<1>1. push'[p] = record /\ \A q \in Pushers \ {p} : push'[q] = push[q] /\ push'[q].pc \notin Active
  BY OthersRest DEF IInv, Types, PushStep
<1>2. UNCHANGED <<disk, restored, pull, laptop>>
  BY DEF PushStep
<1>3. Locked'
  BY <1>1 DEF Locked
<1>4. Alone' /\ AtRest' /\ Listed'
  BY <1>2 DEF Alone, AtRest, Listed, IInv, Rest
<1>5. Based' /\ Cached'
  BY <1>1 DEF Based, Cached, Active
<1>6. Guarded'
  BY <1>1 DEF Guarded, Active, OnGame
<1>7. Landed'
  BY <1>1, <1>2 DEF Landed, Active
<1>8. Staged'
  BY <1>1 DEF Staged, IInv, Rest, Pushers
<1>9. QED BY <1>3, <1>4, <1>5, <1>6, <1>7, <1>8 DEF Rest

LEMMA QuietIsNone ==
  ASSUME Calm, IInv, NEW who, Quiet(who)
  PROVE  lock = "none"
BY DEF Calm, IInv, Rest, Types, Locked, Quiet, Pushing, Active

\* What holds while a push is at work.
LEMMA WhileActive ==
  ASSUME IInv, NEW p \in Pushers, push[p].pc \in Active
  PROVE  lock = p /\ restored /\ laptop.pc = "off" /\ push[p] \in PushRecord
BY DEF IInv, Rest, Types, Locked, Alone, Pushers

LEMMA SteamRest ==
  ASSUME Calm, IInv, NEW g \in Games,
         SteamFetches(g) \/ SteamFinishes(g) \/ Played(g) \/ Uninstalled(g)
  PROVE  Rest'
<1>1. PICK copy : Steam(g, copy)
  BY Zenon DEF SteamFetches, SteamFinishes, Played, Uninstalled
<1>2. lock = "none"
  BY <1>1, QuietIsNone DEF Steam
<1>3. AtRest'
  BY <1>1 DEF Steam, procVars, AtRest, IInv, Rest
<1>4. QED BY <1>1, <1>2, <1>3, BesideThePush DEF Steam, archiveVars, procVars

LEMMA PullRest ==
  ASSUME IInv,
         \/ \E answered \in BOOLEAN : PullStarts(answered)
         \/ \E g \in Games : GameSkipped(g) \/ GameAbsent(g) \/ GameStarts(g)
         \/ \E clean, linksRead \in BOOLEAN : GameEnds(clean, linksRead)
         \/ PullEnds
  PROVE  Rest'
<1>1. pull.pc # "off" /\ UNCHANGED <<index, push, lock, laptop, box>>
  BY Zenon DEF PullStarts, GameSkipped, GameAbsent, GameStarts, GameEnds, PullEnds, NextGame, Stepped, archiveVars
<1>2. ~restored /\ lock = "none"
  BY <1>1 DEF IInv, Rest, Types, AtRest, Alone
<1>3. restored' => pull'.pc = "off"
  <2>1. NoPull.pc = "off" /\ [NoPull EXCEPT !.skipped = pull.skipped].pc = "off"
    BY DEF NoPull
  <2>2. CASE UNCHANGED restored
    BY <1>2, <2>2
  <2>3. CASE \E answered \in BOOLEAN : PullStarts(answered)
    <3>1. pull' = NoPull \/ UNCHANGED restored
      BY <2>3, Zenon DEF PullStarts, Stepped
    <3>2. QED BY <2>1, <2>2, <3>1
  <2>4. CASE PullEnds
    BY <2>1, <2>4 DEF PullEnds, Stepped
  <2>5. QED BY <2>2, <2>3, <2>4, Zenon DEF GameSkipped, GameAbsent, GameStarts, GameEnds
<1>4. QED BY <1>1, <1>2, <1>3, BesideThePush DEF AtRest

LEMMA StartRest ==
  ASSUME Calm, IInv, NEW p \in Pushers, NEW force \in Forces, PushStarts(p, force)
  PROVE  Rest'
<1> DEFINE record == [NoPush EXCEPT !.pc = "next", !.force = force, !.cache = index,
                        !.apps = [g \in Games |-> disk[g].man]]
<1>1. force = FALSE
  BY ArchiveAssumption DEF Calm
<1>2. [g \in Games |-> disk[g].man] \in [Games -> {"none", "whole", "broken"}]
  BY CopyIs DEF IInv, Types, Mans
<1>3. record \in PushRecord
  BY <1>1, <1>2, NoPushType, Zenon DEF PushRecord, Active, IInv, Types
<1>4. record.pc = "next" /\ record.cache = index
  BY DEF NoPush
<1>5. PushStep(p, record) /\ lock = "none" /\ lock' = p /\ UNCHANGED <<index, box>>
  BY DEF PushStarts, LockFree, archiveVars
<1>6. restored /\ laptop.pc = "off" /\ (push[p].pc = "off" => p = "stop")
  BY <1>1 DEF PushStarts, Calm
<1>7. record.pc \in Active /\ record.pc \notin OnGame \cup {"merge", "manifest"}
  BY <1>4 DEF Active, OnGame
<1>8. \A h \in Games : record.apps[h] # "none" => record.cache[h] = index'[h]
  BY <1>4, <1>5
<1> HIDE DEF record
<1>9. QED BY <1>3, <1>5, <1>6, <1>7, <1>8, OfThePush

LEMMA TurnRest ==
  ASSUME IInv, NEW p \in Pushers, NEW g \in Games, GamePassedOver(p, g) \/ GamePushed(p, g)
  PROVE  Rest'
<1>1. push[p].pc = "next" /\ push[p].pc \in Active /\ push[p].apps[g] # "none"
  BY DEF GamePassedOver, GamePushed, GameOpens, Turn, Active
<1>2. lock = p /\ restored /\ laptop.pc = "off" /\ push[p] \in PushRecord
  BY <1>1, WhileActive
<1>3. push[p].cache[g] = index[g] /\ index[g] \in Nat
  BY <1>1 DEF IInv, Rest, Types, Cached
<1>4. \A h \in Games : push[p].apps[h] # "none" => push[p].cache[h] = index[h]
  BY <1>1 DEF IInv, Rest, Cached
<1>5. CASE GamePassedOver(p, g)
  <2> DEFINE record == [push[p] EXCEPT !.apps[g] = "none"]
  <2>1. record \in PushRecord
    BY <1>2 DEF PushRecord
  <2>2. record.pc = "next" /\ record.cache = push[p].cache
        /\ \A h \in Games : record.apps[h] # "none" => push[p].apps[h] # "none"
    BY <1>1, <1>2 DEF PushRecord
  <2>3. PushStep(p, record) /\ UNCHANGED <<index, lock, box>>
    BY <1>5 DEF GamePassedOver, archiveVars
  <2>4. record.pc \in Active /\ record.pc \notin OnGame \cup {"merge", "manifest"} /\ push[p].pc # "off"
    BY <1>1, <2>2 DEF Active, OnGame
  <2>5. \A h \in Games : record.apps[h] # "none" => record.cache[h] = index'[h]
    BY <1>4, <2>2, <2>3
  <2> HIDE DEF record
  <2>6. QED BY <1>2, <2>1, <2>3, <2>4, <2>5, OfThePush
<1>6. CASE GamePushed(p, g)
  <2> DEFINE size   == Bytes(g, disk[g])
             record == [push[p] EXCEPT !.pc = "sync", !.game = g, !.apps[g] = "none", !.bytes = size]
  <2>1. size \in Nat
    BY BytesType DEF IInv, Types
  <2>2. record \in PushRecord
    BY <1>2, <2>1 DEF PushRecord, Active
  <2>3. record.pc = "sync" /\ record.cache = push[p].cache /\ record.game = g /\ record.bytes = size
        /\ record.apps[g] = "none"
        /\ \A h \in Games : record.apps[h] # "none" => push[p].apps[h] # "none"
    BY <1>2 DEF PushRecord
  <2>4. PushStep(p, record) /\ UNCHANGED <<index, lock, box>> /\ ~HalfGone(p, g)
    BY <1>6 DEF GamePushed, GameOpens
  <2>5. 2 * size >= index[g]
    <3>1. push[p].force = FALSE
      BY <1>2 DEF PushRecord
    <3>2. QED BY <1>3, <2>1, <2>4, <3>1 DEF HalfGone
  <2>6. \A h \in Games : record.apps[h] # "none" => record.cache[h] = index'[h]
    BY <1>4, <2>3, <2>4
  <2>7. record.game \in Games /\ record.apps[record.game] = "none" /\ 2 * record.bytes >= index'[record.game]
    BY <2>3, <2>4, <2>5
  <2>8. record.pc \in Active /\ record.pc \notin {"merge", "manifest"} /\ push[p].pc # "off"
    BY <1>1, <2>3 DEF Active
  <2> HIDE DEF record
  <2>9. QED BY <1>2, <2>2, <2>4, <2>6, <2>7, <2>8, OfThePush
<1>7. QED BY <1>5, <1>6

LEMMA SyncRest ==
  ASSUME IInv, NEW p \in Pushers, NEW clean \in BOOLEAN, NEW recorded \in BOOLEAN,
         GameSynced(p, clean, recorded)
  PROVE  Rest'
<1> DEFINE g      == push[p].game
           copied == IF clean THEN Synced(disk[g], s3[g]) ELSE s3[g]
           copy   == IF recorded THEN [copied EXCEPT !.links = disk[g].links] ELSE copied
           record == [push[p] EXCEPT !.pc = "manifest", !.ok = clean]
<1>1. push[p].pc = "sync" /\ push[p].pc \in Active /\ push[p].pc \in OnGame
  BY DEF GameSynced, Active, OnGame
<1>2. lock = p /\ restored /\ laptop.pc = "off" /\ push[p] \in PushRecord
  BY <1>1, WhileActive
<1>3. g \in Games /\ push[p].apps[g] = "none" /\ 2 * push[p].bytes >= index[g]
  BY <1>1 DEF IInv, Rest, Guarded
<1>4. record \in PushRecord /\ record.pc = "manifest" /\ record.ok = clean /\ record.game = g
      /\ record.apps = push[p].apps /\ record.cache = push[p].cache /\ record.bytes = push[p].bytes
  BY <1>2 DEF PushRecord, Active
<1>5. PushStep(p, record) /\ UNCHANGED <<index, lock, box>> /\ s3' = [s3 EXCEPT ![g] = copy]
  BY DEF GameSynced
<1>6. clean => Same(s3'[g], disk[g])
  <2>1. s3[g] \in Copy /\ disk[g] \in Copy
    BY <1>3 DEF IInv, Types
  <2>2. clean => Same(copy, disk[g])
    BY <2>1, CopyIs DEF Synced, Same
  <2>3. s3'[g] = copy
    BY <1>3, <1>5 DEF IInv, Types
  <2>4. QED BY <2>2, <2>3
<1>7. \A h \in Games : record.apps[h] # "none" => record.cache[h] = index'[h]
  BY <1>1, <1>4, <1>5 DEF IInv, Rest, Cached
<1>8. record.pc \in Active /\ record.pc # "merge" /\ push[p].pc # "off"
  BY <1>1, <1>4 DEF Active
<1>9. record.game \in Games /\ record.apps[record.game] = "none" /\ 2 * record.bytes >= index'[record.game]
  BY <1>3, <1>4, <1>5
<1>10. record.ok => Same(s3'[record.game], disk[record.game])
  BY <1>4, <1>6
<1>11. record \in PushRecord
  BY <1>4
<1> HIDE DEF record
<1>12. QED BY <1>2, <1>5, <1>7, <1>8, <1>9, <1>10, <1>11, OfThePush

LEMMA ManifestRest ==
  ASSUME IInv, NEW p \in Pushers, ManifestPut(p) \/ ManifestWithheld(p)
  PROVE  Rest'
<1> DEFINE g == push[p].game
<1>1. push[p].pc = "manifest" /\ push[p].pc \in Active /\ push[p].pc \in OnGame
  BY DEF ManifestPut, ManifestWithheld, Active, OnGame
<1>2. lock = p /\ restored /\ laptop.pc = "off" /\ push[p] \in PushRecord
  BY <1>1, WhileActive
<1>3. g \in Games /\ push[p].apps[g] = "none" /\ 2 * push[p].bytes >= index[g]
  BY <1>1 DEF IInv, Rest, Guarded
<1>4. \A h \in Games : push[p].apps[h] # "none" => push[p].cache[h] = index[h]
  BY <1>1 DEF IInv, Rest, Cached
<1>5. CASE ManifestPut(p)
  <2> DEFINE record == [push[p] EXCEPT !.pc = "index"]
  <2>1. record \in PushRecord /\ record.pc = "index" /\ record.game = g /\ record.bytes = push[p].bytes
        /\ record.apps = push[p].apps /\ record.cache = push[p].cache
    BY <1>2 DEF PushRecord, Active
  <2>2. PushStep(p, record) /\ UNCHANGED <<index, lock, box>>
    BY <1>5 DEF ManifestPut
  <2>3. record.pc \in Active /\ record.pc \notin {"merge", "manifest"} /\ push[p].pc # "off"
    BY <1>1, <2>1 DEF Active
  <2>4. \A h \in Games : record.apps[h] # "none" => record.cache[h] = index'[h]
    BY <1>4, <2>1, <2>2
  <2>5. record.game \in Games /\ record.apps[record.game] = "none" /\ 2 * record.bytes >= index'[record.game]
    BY <1>3, <2>1, <2>2
  <2>6. record \in PushRecord
    BY <2>1
  <2> HIDE DEF record
  <2>7. QED BY <1>2, <2>2, <2>3, <2>4, <2>5, <2>6, OfThePush
<1>6. CASE ManifestWithheld(p)
  <2> DEFINE record == [push[p] EXCEPT !.pc = "next", !.game = "none", !.withheld = @ \cup {g}]
  <2>1. record \in PushRecord /\ record.pc = "next"
        /\ record.apps = push[p].apps /\ record.cache = push[p].cache
    BY <1>2, <1>3 DEF PushRecord, Active
  <2>2. PushStep(p, record) /\ UNCHANGED <<index, lock, box>>
    BY <1>6 DEF ManifestWithheld
  <2>3. record.pc \in Active /\ record.pc \notin OnGame \cup {"merge", "manifest"} /\ push[p].pc # "off"
    BY <1>1, <2>1 DEF Active, OnGame
  <2>4. \A h \in Games : record.apps[h] # "none" => record.cache[h] = index'[h]
    BY <1>4, <2>1, <2>2
  <2>5. record \in PushRecord
    BY <2>1
  <2> HIDE DEF record
  <2>6. QED BY <1>2, <2>2, <2>3, <2>4, <2>5, OfThePush
<1>7. QED BY <1>5, <1>6

LEMMA IndexRest ==
  ASSUME Calm, IInv, NEW p \in Pushers, NEW answered \in BOOLEAN,
         IndexRead(p, answered) \/ IndexPut(p, answered)
  PROVE  Rest'
<1> DEFINE g == push[p].game
<1>1. push[p].pc \in {"index", "merge"} /\ push[p].pc \in Active /\ push[p].pc \in OnGame
  BY DEF IndexRead, IndexPut, Active, OnGame
<1>2. lock = p /\ restored /\ laptop.pc = "off" /\ push[p] \in PushRecord
  BY <1>1, WhileActive
<1>3. g \in Games /\ push[p].apps[g] = "none" /\ 2 * push[p].bytes >= index[g]
  BY <1>1 DEF IInv, Rest, Guarded
<1>4. \A h \in Games : push[p].apps[h] # "none" => push[p].cache[h] = index[h]
  BY <1>1 DEF IInv, Rest, Cached
<1>5. CASE IndexRead(p, answered)
  <2> DEFINE record == [push[p] EXCEPT !.pc = "merge", !.base = index]
  <2>1. record \in PushRecord /\ record.pc = "merge" /\ record.game = g /\ record.bytes = push[p].bytes
        /\ record.apps = push[p].apps /\ record.cache = push[p].cache /\ record.base = index
    BY <1>2 DEF PushRecord, Active, IInv, Types
  <2>2. answered
    BY <1>5 DEF IndexRead, Calm
  <2>3. PushStep(p, record) /\ UNCHANGED <<index, lock, box>>
    BY <1>5, <2>2 DEF IndexRead, archiveVars
  <2>4. record.pc \in Active /\ record.pc # "manifest" /\ push[p].pc # "off" /\ record.base = index'
    BY <1>1, <2>1, <2>3 DEF Active
  <2>5. record.game \in Games /\ record.apps[record.game] = "none" /\ 2 * record.bytes >= index'[record.game]
    BY <1>3, <2>1, <2>3
  <2>6. \A h \in Games : record.apps[h] # "none" => record.cache[h] = index'[h]
    BY <1>4, <2>1, <2>3
  <2>7. record \in PushRecord
    BY <2>1
  <2> HIDE DEF record
  <2>8. QED BY <1>2, <2>3, <2>4, <2>5, <2>6, <2>7, OfThePush
<1>6. CASE IndexPut(p, answered)
  <2> DEFINE record == [push[p] EXCEPT !.pc = "next", !.game = "none", !.base = NoPush.base]
  <2>1. record \in PushRecord /\ record.pc = "next"
        /\ record.apps = push[p].apps /\ record.cache = push[p].cache
    BY <1>2 DEF PushRecord, Active, NoPush
  <2>2. PushStep(p, record) /\ UNCHANGED <<lock, box>>
    BY <1>6 DEF IndexPut
  <2>3. \A h \in Games \ {g} : index'[h] = index[h]
    <3>1. push[p].base = index
      BY <1>6 DEF IndexPut, IInv, Rest, Based
    <3>2. QED BY <1>6, <3>1 DEF IndexPut, IInv, Types
  <2>4. record.pc \in Active /\ record.pc \notin OnGame \cup {"merge", "manifest"} /\ push[p].pc # "off"
    BY <1>1, <2>1 DEF Active, OnGame
  <2>5. \A h \in Games : record.apps[h] # "none" => record.cache[h] = index'[h]
    BY <1>3, <1>4, <2>1, <2>3
  <2>6. record \in PushRecord
    BY <2>1
  <2> HIDE DEF record
  <2>7. QED BY <1>2, <2>2, <2>4, <2>5, <2>6, OfThePush
<1>7. QED BY <1>5, <1>6

LEMMA EndRest == ASSUME IInv, NEW p \in Pushers, PushEnds(p) PROVE Rest'
<1>1. push[p].pc = "next" /\ lock = p
  BY WhileActive DEF PushEnds, Active
<1>2. \A q \in Pushers \ {p} : push[q].pc \notin Active
  BY <1>1, OthersRest
<1>3. push \in [Pushers -> PushRecord] /\ NoPush \in PushRecord
  BY NoPushType DEF IInv, Types
<1>4. [NoPush EXCEPT !.pc = "done", !.withheld = push[p].withheld].pc = "done"
  BY DEF NoPush
<1>5. CASE p = "stop"
  <2>1. push'["stop"].pc = "done" /\ push'["unit"].pc = IF push["unit"].pc = "off" THEN "due" ELSE push["unit"].pc
    <3> DEFINE due == [push["unit"] EXCEPT !.pc = IF @ = "off" THEN "due" ELSE @]
    <3>1. push["unit"] \in PushRecord
      BY <1>3 DEF Pushers
    <3>2. due.pc = IF push["unit"].pc = "off" THEN "due" ELSE push["unit"].pc
      BY <3>1 DEF PushRecord
    <3>3. push' = [push EXCEPT !["stop"] = [NoPush EXCEPT !.pc = "done", !.withheld = push[p].withheld],
                               !["unit"].pc = IF @ = "off" THEN "due" ELSE @]
      BY <1>5 DEF PushEnds
    <3>4. push'["unit"] = due
      BY <1>3, <3>3 DEF Pushers
    <3>5. push'["stop"] = [NoPush EXCEPT !.pc = "done", !.withheld = push[p].withheld]
      BY <1>3, <3>3 DEF Pushers
    <3>6. QED BY <1>4, <3>2, <3>4, <3>5
  <2>2. box' = "stopping"
    BY <1>5 DEF PushEnds, Down
  <2>3. \A q \in Pushers : push'[q].pc \notin Active
    BY <1>2, <1>5, <2>1 DEF Active, Pushers
  <2>4. QED BY <2>2, <2>3, ThenNone DEF PushEnds, archiveVars, AtRest, Staged, IInv, Rest
<1>6. CASE p = "unit"
  <2>1. push'["unit"].pc = "done" /\ push'["stop"] = push["stop"] /\ box' = box
    BY <1>3, <1>4, <1>6 DEF PushEnds, Pushers
  <2>2. \A q \in Pushers : push'[q].pc \notin Active
    BY <1>2, <1>6, <2>1 DEF Active, Pushers
  <2>3. box = "stopping"
    BY <1>1, <1>6 DEF IInv, Rest, Staged
  <2>4. QED BY <2>1, <2>2, <2>3, ThenNone DEF PushEnds, archiveVars, AtRest, Staged, IInv, Rest
<1>7. QED BY <1>5, <1>6 DEF Pushers

LEMMA BoxRest ==
  ASSUME IInv, UnitRefused \/ Terminated \/ PushKilled \/ StoppedAndStarted \/ Reset \/ Taken
  PROVE  Rest'
<1>1. push \in [Pushers -> PushRecord] /\ NoPush \in PushRecord /\ NoPush.pc = "off"
  BY NoPushType DEF IInv, Types, NoPush
<1>2. CASE UnitRefused
  <2>1. push'["unit"].pc = "done" /\ push'["stop"] = push["stop"]
    BY <1>1, <1>2 DEF UnitRefused, PushStep, Pushers, NoPush
  <2>2. \A q \in Pushers : push'[q].pc \notin Active
    BY <1>2, <2>1, NoneAtWork DEF UnitRefused, Active, Pushers
  <2>3. AtRest' /\ Staged'
    BY <1>2 DEF UnitRefused, PushStep, AtRest, Staged, IInv, Rest
  <2>4. QED BY <1>2, <2>2, <2>3, ThenNone DEF UnitRefused, PushStep, archiveVars
<1>3. CASE Terminated
  <2>1. push["unit"].pc = "off" /\ push'["stop"] = push["stop"] /\ push'["unit"].pc \in {"due", "done"}
    BY <1>1, <1>3 DEF Terminated, IInv, Rest, Staged, Pushers, PushRecord
  <2>2. UNCHANGED <<disk, s3, index, restored, lock, laptop>> /\ pull'.pc = "off" /\ box' = "stopping"
    BY <1>3 DEF Terminated, Down, NoPull, archiveVars
  <2>3. \A q \in Pushers : push'[q] = push[q] \/ (push[q].pc \notin Active /\ push'[q].pc \notin Active)
    BY <2>1 DEF Active, Pushers
  <2>4. Locked' /\ Alone' /\ AtRest' /\ Listed' /\ Staged'
    BY <2>2, <2>3 DEF IInv, Rest, Locked, Alone, AtRest, Listed, Staged
  <2>5. Based' /\ Cached' /\ Guarded' /\ Landed'
    BY <2>2, <2>3 DEF IInv, Rest, Based, Cached, Guarded, Landed, Active, OnGame
  <2>6. QED BY <2>4, <2>5 DEF Rest
<1>4. CASE PushKilled
  <2>1. push'["stop"].pc = "off" /\ push'["unit"] = push["unit"] /\ push["unit"].pc \notin Active
    BY <1>1, <1>4, OthersRest DEF PushKilled, Pushers
  <2>2. \A q \in Pushers : push'[q].pc \notin Active
    BY <2>1 DEF Active, Pushers
  <2>3. AtRest' /\ Staged'
    BY <1>4 DEF PushKilled, AtRest, Staged, IInv, Rest
  <2>4. QED BY <1>4, <2>2, <2>3, ThenNone DEF PushKilled, archiveVars
<1>5. CASE StoppedAndStarted \/ Reset \/ Taken
  <2>1. PICK copies : Boot(copies)
    BY <1>5 DEF StoppedAndStarted, Reset, Taken
  <2>2. \A q \in Pushers : push'[q].pc = "off"
    BY <1>1, <2>1 DEF Boot
  <2>3. AtRest' /\ Staged'
    BY <2>1, <2>2 DEF Boot, Marker, AtRest, Staged, Pushers
  <2>4. QED BY <2>1, <2>2, <2>3, ThenNone DEF Boot, archiveVars, Active
<1>6. QED BY <1>2, <1>3, <1>4, <1>5

\* The laptop asks only while nothing runs on the box, and with its answer
\* awaited no push starts.
LEMMA LaptopRest ==
  ASSUME Calm, IInv,
         \/ \E g \in Games : ForgetAsks(g)
         \/ ForgetDeletes \/ ForgetLeft
         \/ \E answered \in BOOLEAN : ForgetWrites(answered)
  PROVE  Rest'
<1>1. lock = "none"
  <2>1. ASSUME NEW g \in Games, ForgetAsks(g) PROVE lock = "none"
    BY <2>1, QuietIsNone DEF ForgetAsks, Calm
  <2>2. CASE laptop.pc # "off"
    BY <2>2 DEF IInv, Rest, Alone
  <2>3. QED BY <2>1, <2>2 DEF ForgetDeletes, ForgetLeft, ForgetWrites
<1>2. UNCHANGED <<restored, pull, push, lock, box>>
  BY DEF ForgetAsks, ForgetDeletes, ForgetLeft, ForgetWrites
<1>3. \A q \in Pushers : push'[q].pc \notin Active
  BY <1>1, <1>2, NoneAtWork
<1>4. Locked' /\ Alone' /\ AtRest' /\ Staged'
  BY <1>1, <1>2 DEF IInv, Rest, Locked, Alone, AtRest, Staged
<1>5. Based' /\ Cached' /\ Guarded' /\ Landed'
  BY <1>3 DEF Based, Cached, Guarded, Landed, Active, OnGame
<1>6. Listed'
  <2>1. CASE \E g \in Games : ForgetAsks(g)
    BY <2>1 DEF ForgetAsks, archiveVars, Listed
  <2>2. CASE ForgetDeletes
    BY <2>2 DEF ForgetDeletes, NoForget, Listed, IInv, Rest, Types
  <2>3. CASE ForgetLeft \/ \E answered \in BOOLEAN : ForgetWrites(answered)
    BY <2>3 DEF ForgetLeft, ForgetWrites, NoForget, Listed
  <2>4. QED BY <2>1, <2>2, <2>3
<1>7. QED BY <1>4, <1>5, <1>6 DEF Rest

-----------------------------------------------------------------------------
(* The invariant, and what no step does from it. *)

\* The invariant is kept by every step of a calm archive.
LEMMA Inductive == ASSUME Calm, IInv, [Next]_vars PROVE IInv'
<1>0. Types /\ Rest
  BY DEF IInv
<1>1. CASE \E g \in Games : SteamFetches(g) \/ SteamFinishes(g) \/ Played(g) \/ Uninstalled(g)
  BY <1>0, <1>1, SteamTypes, SteamRest DEF IInv
<1>2. CASE \/ \E answered \in BOOLEAN : PullStarts(answered)
           \/ \E g \in Games : GameSkipped(g) \/ GameAbsent(g) \/ GameStarts(g)
           \/ \E clean, linksRead \in BOOLEAN : GameEnds(clean, linksRead)
           \/ PullEnds
  BY <1>0, <1>2, PullTypes, PullRest DEF IInv
<1>3. ASSUME NEW p \in Pushers, NEW force \in Forces, PushStarts(p, force) PROVE IInv'
  BY <1>0, <1>3, StartTypes, StartRest DEF IInv
<1>4. ASSUME NEW p \in Pushers, NEW g \in Games, GamePassedOver(p, g) \/ GamePushed(p, g) PROVE IInv'
  BY <1>0, <1>4, TurnTypes, TurnRest DEF IInv
<1>5. ASSUME NEW p \in Pushers, push[p].pc \in OnGame PROVE push[p].game \in Games
  BY <1>5 DEF IInv, Rest, Guarded
<1>6. ASSUME NEW p \in Pushers, NEW clean \in BOOLEAN, NEW recorded \in BOOLEAN,
             GameSynced(p, clean, recorded)
      PROVE  IInv'
  <2>1. push[p].game \in Games
    BY <1>5, <1>6 DEF GameSynced, OnGame, Active
  <2>2. QED BY <1>0, <1>6, <2>1, SyncTypes, SyncRest DEF IInv
<1>7. ASSUME NEW p \in Pushers, ManifestPut(p) \/ ManifestWithheld(p) PROVE IInv'
  <2>1. push[p].game \in Games
    BY <1>5, <1>7 DEF ManifestPut, ManifestWithheld, OnGame, Active
  <2>2. QED BY <1>0, <1>7, <2>1, ManifestTypes, ManifestRest DEF IInv
<1>8. ASSUME NEW p \in Pushers, NEW answered \in BOOLEAN,
             IndexRead(p, answered) \/ IndexPut(p, answered)
      PROVE  IInv'
  BY <1>0, <1>8, IndexTypes, IndexRest DEF IInv
<1>9. ASSUME NEW p \in Pushers, PushEnds(p) PROVE IInv'
  BY <1>0, <1>9, EndTypes, EndRest DEF IInv
<1>10. CASE UnitRefused \/ Terminated \/ PushKilled \/ StoppedAndStarted \/ Reset \/ Taken
  BY <1>0, <1>10, BoxTypes, BoxRest DEF IInv
<1>11. CASE \/ \E g \in Games : ForgetAsks(g)
            \/ ForgetDeletes \/ ForgetLeft
            \/ \E answered \in BOOLEAN : ForgetWrites(answered)
  BY <1>0, <1>11, LaptopTypes, LaptopRest DEF IInv
<1>12. CASE UNCHANGED vars
  BY <1>0, <1>12 DEF IInv, Types, Rest, Locked, Alone, AtRest, Listed, Based, Cached, Guarded, Landed,
                     Staged, vars, archiveVars, procVars
<1>13. QED
  BY <1>1, <1>2, <1>3, <1>4, <1>6, <1>7, <1>8, <1>9, <1>10, <1>11, <1>12, Zenon DEF Next

LEMMA Entries == ASSUME Calm, IInv, [Next]_vars, NEW g \in Games
                 PROVE  index[g] > 0 /\ index'[g] = 0 => laptop.game = g
<1> SUFFICES ASSUME index[g] > 0, index'[g] = 0 PROVE laptop.game = g
  OBVIOUS
<1>0. index \in [Games -> Nat]
  BY DEF IInv, Types
<1>1. ASSUME NEW p \in Pushers, NEW answered \in BOOLEAN, IndexPut(p, answered) PROVE FALSE
  <2>1. push[p].base = index /\ 2 * push[p].bytes >= index[push[p].game] /\ push[p].game \in Games
    BY <1>1 DEF IndexPut, IInv, Rest, Based, Guarded, OnGame, Active
  <2>2. index' = index \/ index' = [index EXCEPT ![push[p].game] = push[p].bytes]
    BY <1>1, <2>1 DEF IndexPut
  <2>3. index' = [index EXCEPT ![push[p].game] = push[p].bytes]
    BY <1>0, <2>2
  <2>4. push[p].game = g /\ push[p].bytes = 0
    BY <1>0, <2>1, <2>3
  <2>5. QED BY <2>1, <2>4, <1>0
<1>2. ASSUME NEW answered \in BOOLEAN, ForgetWrites(answered) PROVE laptop.game = g
  <2>1. laptop.apps = index
    BY <1>2 DEF ForgetWrites, IInv, Rest, Listed
  <2>2. QED BY <1>0, <1>2, <2>1 DEF ForgetWrites
<1>3. CASE UNCHANGED index
  BY <1>0, <1>3
<1>4. ASSUME NEW p \in Pushers,
             \/ \E force \in Forces : PushStarts(p, force)
             \/ \E h \in Games : GamePassedOver(p, h) \/ GamePushed(p, h)
             \/ \E clean, recorded \in BOOLEAN : GameSynced(p, clean, recorded)
             \/ ManifestPut(p) \/ ManifestWithheld(p) \/ PushEnds(p)
             \/ \E answered \in BOOLEAN : IndexRead(p, answered)
      PROVE  UNCHANGED index
  BY <1>4, Zenon DEF PushStarts, GamePassedOver, GamePushed, GameOpens, GameSynced, ManifestPut,
              ManifestWithheld, PushEnds, IndexRead, archiveVars
<1>5. CASE \/ \E h \in Games : SteamFetches(h) \/ SteamFinishes(h) \/ Played(h) \/ Uninstalled(h)
           \/ UNCHANGED vars
  BY <1>3, <1>5, Zenon DEF SteamFetches, SteamFinishes, Played, Uninstalled, Steam, archiveVars, vars
<1>6. CASE \/ \E answered \in BOOLEAN : PullStarts(answered)
           \/ \E h \in Games : GameSkipped(h) \/ GameAbsent(h) \/ GameStarts(h)
           \/ \E clean, linksRead \in BOOLEAN : GameEnds(clean, linksRead)
           \/ PullEnds
  <2>1. UNCHANGED index
    BY <1>6, Zenon DEF PullStarts, GameSkipped, GameAbsent, GameStarts, GameEnds, PullEnds, Stepped, archiveVars
  <2>2. QED BY <1>3, <2>1
<1>7. CASE UnitRefused \/ Terminated \/ PushKilled \/ StoppedAndStarted \/ Reset \/ Taken
  <2>1. UNCHANGED index
    BY <1>7 DEF UnitRefused, Terminated, PushKilled, StoppedAndStarted, Reset, Taken, Boot, archiveVars
  <2>2. QED BY <1>3, <2>1
<1>8. CASE (\E h \in Games : ForgetAsks(h)) \/ ForgetDeletes \/ ForgetLeft
  <2>1. UNCHANGED index
    BY <1>8 DEF ForgetAsks, ForgetDeletes, ForgetLeft, archiveVars
  <2>2. QED BY <1>3, <2>1
<1>9. QED
  BY <1>1, <1>2, <1>3, <1>4, <1>5, <1>6, <1>7, <1>8, Zenon DEF Next

\* Steps after which an archived manifest says "whole" that did not: only the one
\* that puts it there.
LEMMA Manifests == ASSUME Calm, IInv, [Next]_vars, NEW g \in Games
                   PROVE  s3[g].man # "whole" /\ s3'[g].man = "whole" => Same(s3'[g], disk[g])
<1> SUFFICES ASSUME s3[g].man # "whole", s3'[g].man = "whole" PROVE Same(s3'[g], disk[g])
  OBVIOUS
<1>0. s3 \in [Games -> Copy] /\ disk \in [Games -> Copy] /\ \A h \in Games : s3[h] \in Copy /\ disk[h] \in Copy
  BY DEF IInv, Types
<1>1. ASSUME NEW h \in Games, NEW copy \in Copy, s3' = [s3 EXCEPT ![h] = copy],
             copy.man \in {s3[h].man, "none"}
      PROVE  FALSE
  BY <1>0, <1>1
<1>2. ASSUME NEW p \in Pushers, push[p].pc \in OnGame PROVE push[p].game \in Games
  BY <1>2 DEF IInv, Rest, Guarded
<1>3. ASSUME NEW p \in Pushers, NEW h \in Games, GamePushed(p, h) PROVE FALSE
  <2>1. PICK half \in HalfWay(disk[h], s3[h]) : s3' = [s3 EXCEPT ![h] = [half EXCEPT !.man = s3[h].man]]
    BY <1>3 DEF GamePushed, GameOpens
  <2>2. half \in Copy
    BY <1>0, <2>1, Transfers
  <2>3. [half EXCEPT !.man = s3[h].man] \in Copy /\ [half EXCEPT !.man = s3[h].man].man = s3[h].man
    BY <1>0, <2>2, CopyIs
  <2>4. QED BY <1>1, <2>1, <2>3
<1>4. ASSUME NEW p \in Pushers, NEW clean \in BOOLEAN, NEW recorded \in BOOLEAN,
             GameSynced(p, clean, recorded)
      PROVE  FALSE
  <2> DEFINE h      == push[p].game
             copied == IF clean THEN Synced(disk[h], s3[h]) ELSE s3[h]
             copy   == IF recorded THEN [copied EXCEPT !.links = disk[h].links] ELSE copied
  <2>1. h \in Games
    BY <1>2, <1>4 DEF GameSynced, OnGame, Active
  <2>2. copied \in Copy
    BY <1>0, <2>1, Transfers
  <2>3. copied.man = s3[h].man
    BY <1>0, <2>1, CopyIs DEF Synced
  <2>4. copy \in Copy /\ copy.man = s3[h].man
    BY <1>0, <2>1, <2>2, <2>3, CopyIs
  <2>5. s3' = [s3 EXCEPT ![h] = copy]
    BY <1>4 DEF GameSynced
  <2>6. QED BY <1>1, <2>1, <2>4, <2>5
<1>5. ASSUME NEW p \in Pushers, ManifestPut(p) PROVE Same(s3'[g], disk[g])
  <2> DEFINE h == push[p].game
  <2>1. h \in Games /\ Same(s3[h], disk[h]) /\ s3' = [s3 EXCEPT ![h].man = disk[h].man]
    BY <1>2, <1>5 DEF ManifestPut, OnGame, Active, IInv, Rest, Landed
  <2>2. g = h
    BY <1>0, <2>1
  <2>3. s3'[h].files = s3[h].files /\ s3'[h].saves = s3[h].saves
    BY <1>0, <2>1, CopyIs
  <2>4. QED BY <2>1, <2>2, <2>3 DEF Same
<1>6. ASSUME NEW p \in Pushers, ManifestWithheld(p) PROVE FALSE
  <2> DEFINE h == push[p].game
  <2>1. h \in Games
    BY <1>2, <1>6 DEF ManifestWithheld, OnGame, Active
  <2>2. PICK man \in {"none", s3[h].man} : s3' = [s3 EXCEPT ![h].man = man]
    BY <1>6 DEF ManifestWithheld
  <2>3. [s3[h] EXCEPT !.man = man] \in Copy /\ [s3[h] EXCEPT !.man = man].man = man
    BY <1>0, <2>1, <2>2, CopyIs DEF Mans
  <2>4. s3' = [s3 EXCEPT ![h] = [s3[h] EXCEPT !.man = man]]
    BY <2>2
  <2>5. QED BY <1>1, <2>1, <2>2, <2>3, <2>4
<1>7. CASE ForgetDeletes
  <2> DEFINE h == laptop.game
  <2>1. PICK left : s3' = [s3 EXCEPT ![h] = left] /\ left \in Refused(s3[h]) \cup {NoCopy}
    BY <1>7 DEF ForgetDeletes
  <2>2. h \in Games => left \in Copy /\ left.man \in {s3[h].man, "none"}
    <3>1. h \in Games => s3[h] \in Copy
      BY <1>0
    <3>2. left \in Refused(s3[h]) => left.man \in {s3[h].man, "none"}
      BY DEF Refused
    <3>3. h \in Games /\ left \in Refused(s3[h]) => left \in Copy
      BY <3>1, CopyIs DEF Refused, Levels, Mans
    <3>4. NoCopy.man = "none" /\ NoCopy \in Copy
      BY NoCopyType DEF NoCopy
    <3>5. QED BY <2>1, <3>2, <3>3, <3>4
  <2>3. h \in Games
    BY <1>0, <2>1
  <2>4. QED BY <1>1, <2>1, <2>2, <2>3
<1>8. CASE UNCHANGED s3
  BY <1>8
<1>9. ASSUME NEW p \in Pushers,
             \/ \E force \in Forces : PushStarts(p, force)
             \/ \E h \in Games : GamePassedOver(p, h)
             \/ \E answered \in BOOLEAN : IndexRead(p, answered) \/ IndexPut(p, answered)
             \/ PushEnds(p)
      PROVE  UNCHANGED s3
  BY <1>9, Zenon DEF PushStarts, GamePassedOver, IndexRead, IndexPut, PushEnds, archiveVars
<1>10. CASE \/ \E h \in Games : SteamFetches(h) \/ SteamFinishes(h) \/ Played(h) \/ Uninstalled(h)
            \/ UNCHANGED vars
  BY <1>8, <1>10, Zenon DEF SteamFetches, SteamFinishes, Played, Uninstalled, Steam, archiveVars, vars
<1>11. CASE \/ \E answered \in BOOLEAN : PullStarts(answered)
            \/ \E h \in Games : GameSkipped(h) \/ GameAbsent(h) \/ GameStarts(h)
            \/ \E clean, linksRead \in BOOLEAN : GameEnds(clean, linksRead)
            \/ PullEnds
  <2>1. UNCHANGED s3
    BY <1>11, Zenon DEF PullStarts, GameSkipped, GameAbsent, GameStarts, GameEnds, PullEnds, Stepped, archiveVars
  <2>2. QED BY <1>8, <2>1
<1>12. CASE UnitRefused \/ Terminated \/ PushKilled \/ StoppedAndStarted \/ Reset \/ Taken
  <2>1. UNCHANGED s3
    BY <1>12 DEF UnitRefused, Terminated, PushKilled, StoppedAndStarted, Reset, Taken, Boot, archiveVars
  <2>2. QED BY <1>8, <2>1
<1>13. CASE (\E h \in Games : ForgetAsks(h)) \/ ForgetLeft \/ \E answered \in BOOLEAN : ForgetWrites(answered)
  <2>1. UNCHANGED s3
    BY <1>13 DEF ForgetAsks, ForgetLeft, ForgetWrites, archiveVars
  <2>2. QED BY <1>8, <2>1
<1>14. QED
  BY <1>3, <1>4, <1>5, <1>6, <1>7, <1>8, <1>9, <1>10, <1>11, <1>12, <1>13, Zenon DEF Next

-----------------------------------------------------------------------------

\* The types, the lock (one push at work, in a box that is restored, and no forget
\* beside it) and what each push knows: in every state of a calm archive.
THEOREM Invariant == ASSUME Calm PROVE Spec => []IInv
<1>1. Init => IInv
  BY InitTypes, InitRest DEF IInv
<1>2. IInv /\ [Next]_vars => IInv'
  BY Inductive
<1>3. QED BY <1>1, <1>2, PTL DEF Spec

\* EntryKept: no push, cut off or after another, loses the index entry of a game.
THEOREM EntriesKept == ASSUME Calm PROVE Spec => EntryKept
<1>1. IInv /\ [Next]_vars => [\A g \in Games : index[g] > 0 /\ index'[g] = 0 => laptop.game = g]_vars
  BY Entries
<1>2. QED BY <1>1, Invariant, PTL DEF Spec, EntryKept

\* ManifestIsLast: a manifest reaches the archive only after the files it describes.
THEOREM ManifestsLast == ASSUME Calm PROVE Spec => ManifestIsLast
<1>1. IInv /\ [Next]_vars =>
        [\A g \in Games : s3[g].man # "whole" /\ s3'[g].man = "whole" => Same(s3'[g], disk[g])]_vars
  BY Manifests
<1>2. QED BY <1>1, Invariant, PTL DEF Spec, ManifestIsLast

\* ArchiveIsSound: whatever a push is cut off at, what a manifest says is true of
\* the files beside it, and every game that was archived is still in the index.
THEOREM ArchiveSound == ASSUME Calm PROVE Spec => ArchiveIsSound
<1>1. Spec => ManifestIsLast
  BY ManifestsLast
<1>2. Spec => EntryKept
  BY EntriesKept
<1>3. QED BY <1>1, <1>2 DEF ArchiveIsSound

-----------------------------------------------------------------------------
(* What `cg stop` leaves in the archive.  A push that is at work has carried   *)
(* over, or given up with a word, every whole game that it is done with.      *)
Recorded == Calm /\ {"index_put", "links_put"} \cap Faults = {}

HereWhole(g) == disk[g].man = "whole" /\ disk[g].files = "whole"

\* Saved, of what the archive and its index are or become.
SavedIn(g, copies, sizes) ==
  /\ Same(copies[g], disk[g]) /\ copies[g].man = "whole"
  /\ disk[g].links => copies[g].links
  /\ sizes[g] = Size[g]

Carries(r, copies, sizes) ==
  /\ \A g \in Games : r.apps[g] \in {"none", disk[g].man}
  /\ \A g \in Games : HereWhole(g) /\ r.apps[g] = "none" =>
       g \in r.withheld \/ SavedIn(g, copies, sizes) \/ (r.pc \in OnGame /\ g = r.game)
  /\ r.pc \in OnGame => disk[r.game].man = "whole" /\ r.bytes = Bytes(r.game, disk[r.game])
  /\ r.pc \in OnGame \ {"sync"} /\ disk[r.game].links => copies[r.game].links
  /\ r.pc \in {"index", "merge"} => Same(copies[r.game], disk[r.game]) /\ copies[r.game].man = "whole"

AllCarry == \A p \in Pushers : push[p].pc \in Active => Carries(push[p], s3, index)

\* The index lists no more of a game than there is, and what `cg stop` stops has
\* been pushed and is left alone.
Indexed == \A g \in Games : index[g] <= Size[g]
Stopped == /\ box = "up" <=> asked = "none"
           /\ asked = "stop" => restored /\ push["stop"].pc = "done" /\ laptop.pc = "off"

SavedInv == Indexed /\ Stopped /\ AllCarry /\ StoppedIsSaved

LEMMA SavedThen == ASSUME NEW g, HereWhole(g) PROVE Saved(g) <=> SavedIn(g, s3, index)
BY DEF Saved, SavedIn, HereWhole

LEMMA WholeBytes ==
  ASSUME NEW g \in Games, NEW c \in Copy
  PROVE  Bytes(g, c) <= Size[g] /\ (c.files = "whole" => Bytes(g, c) = Size[g])
<1>1. Size[g] \in Nat
  BY ArchiveAssumption
<1>2. Percent[c.files] \in {0, 25, 75, 99, 100} /\ (c.files = "whole" => Percent[c.files] = 100)
  BY CopyIs DEF Levels, Percent
<1>3. \A n \in Nat : \A k \in {0, 25, 75, 99, 100} : (n * k) \div 100 <= n /\ (k = 100 => (n * k) \div 100 = n)
  OBVIOUS
<1>4. QED BY <1>1, <1>2, <1>3 DEF Bytes

\* Steps beside which no push is at work, of a box that cg has not stopped.
LEMMA NoneCarries ==
  ASSUME \A q \in Pushers : push'[q].pc \notin Active, Indexed', Stopped', ~(StoppedByUs)'
  PROVE  SavedInv'
BY DEF SavedInv, AllCarry, StoppedIsSaved

LEMMA BesideSaved ==
  ASSUME IInv, SavedInv, lock = "none", asked # "stop", Indexed', UNCHANGED <<push, box, asked>>
  PROVE  SavedInv'
<1>1. \A q \in Pushers : push'[q].pc \notin Active
  BY NoneAtWork
<1>2. Stopped' /\ ~(StoppedByUs)'
  BY DEF SavedInv, Stopped, StoppedByUs
<1>3. QED BY <1>1, <1>2, NoneCarries

\* A step of the push p that goes on: what remains to be shown is what it carries.
LEMMA CarriesOn ==
  ASSUME IInv, SavedInv, NEW p \in Pushers, NEW record \in PushRecord, record.pc \in Active,
         PushStep(p, record), lock \in {p, "none"}, UNCHANGED <<box, asked>>,
         push[p].pc \in Active \/ p = "unit" \/ asked = "none",
         Indexed', Carries(record, s3', index')
  PROVE  SavedInv'
<1>1. push'[p] = record /\ \A q \in Pushers \ {p} : push'[q] = push[q] /\ push'[q].pc \notin Active
  BY OthersRest DEF IInv, Types, PushStep
<1>2. UNCHANGED <<disk, restored, laptop>>
  BY DEF PushStep
<1>3. AllCarry'
  <2>1. Carries(push[p], s3, index)'
    BY <1>1, <1>2 DEF Carries, HereWhole, SavedIn
  <2>2. QED BY <1>1, <2>1 DEF AllCarry
<1>4. asked = "stop" => p = "unit"
  BY DEF SavedInv, Stopped, Pushers, Active
<1>5. Stopped'
  BY <1>1, <1>2, <1>4 DEF SavedInv, Stopped, Pushers
<1>6. ~(StoppedByUs)'
  BY <1>1, <1>4 DEF StoppedByUs, Active, Pushers
<1>7. QED BY <1>3, <1>5, <1>6 DEF SavedInv, StoppedIsSaved

LEMMA InitSaved == Init => SavedInv
<1> SUFFICES ASSUME Init PROVE SavedInv
  OBVIOUS
<1>1. s3 \in [Games -> Copy] /\ \A g \in Games : index[g] = Bytes(g, s3[g])
  BY InitTypes DEF Init, Types
<1>2. Indexed
  BY <1>1, WholeBytes DEF Indexed
<1>3. AllCarry /\ Stopped /\ StoppedIsSaved
  BY DEF Init, AllCarry, Stopped, StoppedIsSaved, StoppedByUs, NoPush, Active, Pushers
<1>4. QED BY <1>2, <1>3 DEF SavedInv

LEMMA DriveSaved ==
  ASSUME Calm, IInv, SavedInv,
         \/ \E g \in Games : SteamFetches(g) \/ SteamFinishes(g) \/ Played(g) \/ Uninstalled(g)
         \/ \E answered \in BOOLEAN : PullStarts(answered)
         \/ \E g \in Games : GameSkipped(g) \/ GameAbsent(g) \/ GameStarts(g)
         \/ \E clean, linksRead \in BOOLEAN : GameEnds(clean, linksRead)
         \/ PullEnds
  PROVE  SavedInv'
<1>1. CASE \E g \in Games : SteamFetches(g) \/ SteamFinishes(g) \/ Played(g) \/ Uninstalled(g)
  <2>1. PICK g, copy : Steam(g, copy)
    BY <1>1, Zenon DEF SteamFetches, SteamFinishes, Played, Uninstalled
  <2>2. lock = "none" /\ asked = "none"
    BY <2>1, QuietIsNone DEF Steam, SavedInv, Stopped
  <2>3. Indexed' /\ UNCHANGED <<push, box, asked>>
    BY <2>1 DEF Steam, archiveVars, procVars, SavedInv, Indexed
  <2>4. QED BY <2>2, <2>3, BesideSaved
<1>2. CASE ~\E g \in Games : SteamFetches(g) \/ SteamFinishes(g) \/ Played(g) \/ Uninstalled(g)
  <2>1. pull.pc # "off" /\ UNCHANGED <<index, push, box, asked, lock, laptop>>
    BY <1>2, Zenon DEF PullStarts, GameSkipped, GameAbsent, GameStarts, NextGame, GameEnds, PullEnds,
                       Stepped, archiveVars
  <2>2. lock = "none" /\ asked # "stop"
    BY <2>1 DEF IInv, Rest, Alone, AtRest, SavedInv, Stopped
  <2>3. QED BY <2>1, <2>2, BesideSaved DEF SavedInv, Indexed
<1>3. QED BY <1>1, <1>2

LEMMA StartSaved ==
  ASSUME Calm, IInv, SavedInv, NEW p \in Pushers, NEW force \in Forces, PushStarts(p, force)
  PROVE  SavedInv'
<1> DEFINE r == [NoPush EXCEPT !.pc = "next", !.force = force, !.cache = index,
                   !.apps = [g \in Games |-> disk[g].man]]
<1>1. force = FALSE
  BY ArchiveAssumption DEF Calm
<1>2. [g \in Games |-> disk[g].man] \in [Games -> {"none", "whole", "broken"}]
  BY CopyIs DEF IInv, Types, Mans
<1>3. r \in PushRecord
  BY <1>1, <1>2, NoPushType, Zenon DEF PushRecord, Active, IInv, Types
<1>4. r.pc = "next" /\ \A g \in Games : r.apps[g] = disk[g].man
  BY NoPushType DEF NoPush
<1>5. /\ PushStep(p, r) /\ lock = "none" /\ UNCHANGED <<s3, index, box, asked>>
      /\ p = "stop" => box = "up"
  BY DEF PushStarts, archiveVars, LockFree
<1>6. Carries(r, s3', index')
  BY <1>4 DEF Carries, HereWhole, OnGame
<1>7. Indexed' /\ (p = "unit" \/ asked = "none")
  BY <1>5 DEF SavedInv, Indexed, Stopped, Pushers
<1> HIDE DEF r
<1>8. r.pc \in Active
  BY <1>4 DEF Active
<1>9. QED BY <1>3, <1>5, <1>6, <1>7, <1>8, CarriesOn

LEMMA TurnSaved ==
  ASSUME IInv, SavedInv, NEW p \in Pushers, NEW g \in Games, GamePassedOver(p, g) \/ GamePushed(p, g)
  PROVE  SavedInv'
<1>1. push[p].pc = "next" /\ push[p].pc \in Active /\ push[p].apps[g] # "none"
  BY DEF GamePassedOver, GamePushed, GameOpens, Turn, Active
<1>2. lock = p /\ push[p] \in PushRecord /\ s3[g] \in Copy /\ disk[g] \in Copy
  BY <1>1, WhileActive DEF IInv, Types
<1>3. Carries(push[p], s3, index)
  BY <1>1 DEF SavedInv, AllCarry
<1>4. push[p].apps[g] = disk[g].man
  BY <1>1, <1>3 DEF Carries
<1>5. CASE GamePassedOver(p, g)
  <2> DEFINE r == [push[p] EXCEPT !.apps[g] = "none"]
  <2>1. /\ r \in PushRecord /\ r.pc = "next" /\ r.withheld = push[p].withheld
        /\ \A h \in Games : r.apps[h] = IF h = g THEN "none" ELSE push[p].apps[h]
    BY <1>1, <1>2 DEF PushRecord
  <2>2. ~HereWhole(g)
    <3>1. ASSUME HalfGone(p, g) PROVE disk[g].files # "whole"
      <4>1. push[p].cache[g] = index[g] /\ index[g] \in Nat /\ index[g] <= Size[g] /\ Size[g] \in Nat
        BY <1>1, ArchiveAssumption DEF IInv, Types, Rest, Cached, SavedInv, Indexed
      <4>2. Bytes(g, disk[g]) * 2 < push[p].cache[g] /\ Bytes(g, disk[g]) \in Nat
        BY <1>2, <3>1, BytesType DEF HalfGone
      <4>3. Bytes(g, disk[g]) # Size[g]
        BY <4>1, <4>2
      <4>4. QED BY <1>2, <4>3, WholeBytes
    <3>2. QED BY <1>4, <1>5, <3>1 DEF GamePassedOver, Whole, HereWhole
  <2>3. PushStep(p, r) /\ UNCHANGED <<s3, index, box, asked>>
    BY <1>5 DEF GamePassedOver, archiveVars
  <2> HIDE DEF r
  <2>4. Carries(r, s3', index')
    BY <1>1, <1>3, <2>1, <2>2, <2>3 DEF Carries, OnGame
  <2>5. Indexed' /\ r.pc \in Active
    BY <2>1, <2>3 DEF SavedInv, Indexed, Active
  <2>6. QED BY <1>1, <1>2, <2>1, <2>3, <2>4, <2>5, CarriesOn
<1>6. CASE GamePushed(p, g)
  <2> DEFINE r == [push[p] EXCEPT !.pc = "sync", !.game = g, !.apps[g] = "none",
                                  !.bytes = Bytes(g, disk[g])]
  <2>1. Bytes(g, disk[g]) \in Nat
    BY <1>2, BytesType
  <2>2. /\ r \in PushRecord /\ r.pc = "sync" /\ r.withheld = push[p].withheld /\ r.game = g
        /\ r.bytes = Bytes(g, disk[g])
        /\ \A h \in Games : r.apps[h] = IF h = g THEN "none" ELSE push[p].apps[h]
    BY <1>2, <2>1 DEF PushRecord, Active
  <2>3. disk[g].man = "whole" /\ PushStep(p, r) /\ UNCHANGED <<index, box, asked>>
    BY <1>4, <1>6 DEF GamePushed, GameOpens, Whole
  <2>4. \A h \in Games : h # g => s3'[h] = s3[h]
    BY <1>6 DEF GamePushed, GameOpens, IInv, Types
  <2> HIDE DEF r
  <2>5. \A h \in Games : HereWhole(h) /\ r.apps[h] = "none" =>
          h \in r.withheld \/ SavedIn(h, s3', index') \/ (r.pc \in OnGame /\ h = r.game)
    BY <1>1, <1>3, <2>2, <2>3, <2>4 DEF Carries, OnGame, Active, SavedIn
  <2>6. Carries(r, s3', index')
    BY <1>3, <2>2, <2>3, <2>5 DEF Carries
  <2>7. Indexed' /\ r.pc \in Active
    BY <2>2, <2>3 DEF SavedInv, Indexed, Active
  <2>8. QED BY <1>1, <1>2, <2>2, <2>3, <2>6, <2>7, CarriesOn
<1>7. QED BY <1>5, <1>6

\* A step of the push on the game it is at: of the archive it changes that game,
\* and it goes on with the same list.
LEMMA OnTheGame ==
  ASSUME IInv, SavedInv, NEW p \in Pushers, push[p].pc \in OnGame, NEW r \in PushRecord,
         r.pc \in Active, r.apps = push[p].apps, push[p].withheld \subseteq r.withheld,
         PushStep(p, r), UNCHANGED <<box, asked, lock>>, Indexed',
         \A h \in Games \ {push[p].game} : s3'[h] = s3[h] /\ index'[h] = index[h],
         \/ r.pc \in OnGame /\ r.game = push[p].game /\ r.bytes = push[p].bytes
         \/ r.pc = "next" /\ (\/ push[p].game \in r.withheld
                              \/ HereWhole(push[p].game) => SavedIn(push[p].game, s3', index')),
         r.pc \in OnGame \ {"sync"} /\ disk[r.game].links => s3'[r.game].links,
         r.pc \in {"index", "merge"} => Same(s3'[r.game], disk[r.game]) /\ s3'[r.game].man = "whole"
  PROVE  SavedInv'
<1>1. push[p].pc \in Active /\ lock = p
  BY WhileActive DEF OnGame
<1>2. Carries(push[p], s3, index)
  BY <1>1 DEF SavedInv, AllCarry
<1>3. \A g \in Games : HereWhole(g) /\ r.apps[g] = "none" =>
        g \in r.withheld \/ SavedIn(g, s3', index') \/ (r.pc \in OnGame /\ g = r.game)
  BY <1>2 DEF Carries, SavedIn
<1>4. Carries(r, s3', index')
  BY <1>2, <1>3 DEF Carries, OnGame
<1>5. QED BY <1>1, <1>4, CarriesOn

LEMMA SyncSaved ==
  ASSUME Recorded, IInv, SavedInv, NEW p \in Pushers, NEW clean \in BOOLEAN, NEW recorded \in BOOLEAN,
         GameSynced(p, clean, recorded)
  PROVE  SavedInv'
<1> DEFINE g      == push[p].game
           copied == IF clean THEN Synced(disk[g], s3[g]) ELSE s3[g]
           r      == [push[p] EXCEPT !.pc = "manifest", !.ok = clean]
<1>1. push[p].pc = "sync" /\ push[p].pc \in OnGame /\ push[p].pc \in Active /\ recorded
  BY DEF GameSynced, OnGame, Active, Recorded
<1>2. push[p] \in PushRecord /\ g \in Games /\ s3[g] \in Copy /\ disk[g] \in Copy
  BY <1>1, WhileActive DEF IInv, Types, Rest, Guarded
<1>3. copied \in Copy
  BY <1>2, Transfers
<1>4. s3' = [s3 EXCEPT ![g] = [copied EXCEPT !.links = disk[g].links]]
  BY <1>1 DEF GameSynced
<1>5. s3'[g].links = disk[g].links /\ \A h \in Games \ {g} : s3'[h] = s3[h]
  BY <1>2, <1>3, <1>4, CopyIs DEF IInv, Types
<1>6. /\ r \in PushRecord /\ r.pc = "manifest" /\ r.apps = push[p].apps /\ r.withheld = push[p].withheld
      /\ r.game = g /\ r.bytes = push[p].bytes
  BY <1>2 DEF PushRecord, Active
<1>7. PushStep(p, r) /\ UNCHANGED <<index, box, asked, lock>>
  BY DEF GameSynced
<1>8. Indexed' /\ r.pc \in OnGame /\ r.pc \in Active
  BY <1>6, <1>7 DEF SavedInv, Indexed, OnGame, Active
<1> HIDE DEF r, copied
<1>9. QED BY <1>1, <1>5, <1>6, <1>7, <1>8, OnTheGame

LEMMA ManifestSaved ==
  ASSUME IInv, SavedInv, NEW p \in Pushers, ManifestPut(p) \/ ManifestWithheld(p)
  PROVE  SavedInv'
<1> DEFINE g == push[p].game
<1>1. push[p].pc = "manifest" /\ push[p].pc \in OnGame /\ push[p].pc \in Active
  BY DEF ManifestPut, ManifestWithheld, OnGame, Active
<1>2. push[p] \in PushRecord /\ g \in Games /\ s3[g] \in Copy /\ disk[g] \in Copy
  BY <1>1, WhileActive DEF IInv, Types, Rest, Guarded
<1>3. disk[g].man = "whole" /\ (disk[g].links => s3[g].links)
  BY <1>1 DEF SavedInv, AllCarry, Carries
<1>4. \A m \in Mans : /\ [s3 EXCEPT ![g].man = m][g] = [s3[g] EXCEPT !.man = m]
                      /\ \A h \in Games \ {g} : [s3 EXCEPT ![g].man = m][h] = s3[h]
  BY <1>2 DEF IInv, Types
<1>5. CASE ManifestPut(p)
  <2> DEFINE r == [push[p] EXCEPT !.pc = "index"]
  <2>1. s3' = [s3 EXCEPT ![g].man = "whole"] /\ push[p].ok
    BY <1>3, <1>5 DEF ManifestPut
  <2>2. s3'[g] = [s3[g] EXCEPT !.man = "whole"] /\ \A h \in Games \ {g} : s3'[h] = s3[h]
    BY <1>4, <2>1 DEF Mans
  <2>3. Same(s3[g], disk[g])
    BY <1>1, <2>1 DEF IInv, Rest, Landed
  <2>4. Same(s3'[g], disk[g]) /\ s3'[g].man = "whole" /\ s3'[g].links = s3[g].links
    BY <1>2, <2>2, <2>3, CopyIs DEF Same
  <2>5. /\ r \in PushRecord /\ r.pc = "index" /\ r.apps = push[p].apps /\ r.withheld = push[p].withheld
        /\ r.game = g /\ r.bytes = push[p].bytes
    BY <1>2 DEF PushRecord, Active
  <2>6. PushStep(p, r) /\ UNCHANGED <<index, box, asked, lock>>
    BY <1>5 DEF ManifestPut
  <2>7. Indexed' /\ r.pc \in OnGame /\ r.pc \in Active
    BY <2>5, <2>6 DEF SavedInv, Indexed, OnGame, Active
  <2> HIDE DEF r
  <2>8. QED BY <1>1, <1>3, <2>2, <2>4, <2>5, <2>6, <2>7, OnTheGame
<1>6. CASE ManifestWithheld(p)
  <2> DEFINE r == [push[p] EXCEPT !.pc = "next", !.game = "none", !.withheld = @ \cup {g}]
  <2>1. PICK man \in {"none", s3[g].man} : s3' = [s3 EXCEPT ![g].man = man]
    BY <1>6 DEF ManifestWithheld
  <2>2. man \in Mans
    BY <1>2, <2>1, Edited DEF Mans
  <2>3. \A h \in Games \ {g} : s3'[h] = s3[h]
    BY <1>4, <2>1, <2>2
  <2>4. /\ r \in PushRecord /\ r.pc = "next" /\ r.apps = push[p].apps
        /\ r.withheld = push[p].withheld \cup {g}
    BY <1>2 DEF PushRecord, Active
  <2>5. PushStep(p, r) /\ UNCHANGED <<index, box, asked, lock>>
    BY <1>6 DEF ManifestWithheld
  <2>6. Indexed' /\ r.pc \notin OnGame /\ r.pc \in Active /\ r.pc \notin {"index", "merge"}
    BY <2>4, <2>5 DEF SavedInv, Indexed, OnGame, Active
  <2> HIDE DEF r
  <2>7. QED BY <1>1, <2>3, <2>4, <2>5, <2>6, OnTheGame
<1>7. QED BY <1>5, <1>6

LEMMA IndexSaved ==
  ASSUME Recorded, IInv, SavedInv, NEW p \in Pushers, NEW answered \in BOOLEAN,
         IndexRead(p, answered) \/ IndexPut(p, answered)
  PROVE  SavedInv'
<1> DEFINE g == push[p].game
<1>1. push[p].pc \in {"index", "merge"} /\ push[p].pc \in OnGame /\ push[p].pc \in Active
  BY DEF IndexRead, IndexPut, OnGame, Active
<1>2. push[p] \in PushRecord /\ g \in Games /\ disk[g] \in Copy /\ index \in [Games -> Nat]
  BY <1>1, WhileActive DEF IInv, Types, Rest, Guarded
<1>3. /\ disk[g].man = "whole" /\ push[p].bytes = Bytes(g, disk[g]) /\ (disk[g].links => s3[g].links)
      /\ Same(s3[g], disk[g]) /\ s3[g].man = "whole"
  BY <1>1 DEF SavedInv, AllCarry, Carries, OnGame
<1>4. CASE IndexRead(p, answered)
  <2> DEFINE r == [push[p] EXCEPT !.pc = "merge", !.base = IF answered THEN index ELSE [h \in Games |-> 0]]
  <2>1. (IF answered THEN index ELSE [h \in Games |-> 0]) \in [Games -> Nat]
    BY <1>2
  <2>2. /\ r \in PushRecord /\ r.pc = "merge" /\ r.apps = push[p].apps /\ r.withheld = push[p].withheld
        /\ r.game = g /\ r.bytes = push[p].bytes
    BY <1>2, <2>1 DEF PushRecord, Active
  <2>3. PushStep(p, r) /\ UNCHANGED <<s3, index, box, asked, lock>>
    BY <1>4 DEF IndexRead, archiveVars
  <2>4. Indexed' /\ r.pc \in OnGame /\ r.pc \in Active
    BY <2>2, <2>3 DEF SavedInv, Indexed, OnGame, Active
  <2> HIDE DEF r
  <2>5. QED BY <1>1, <1>3, <2>2, <2>3, <2>4, OnTheGame
<1>5. CASE IndexPut(p, answered)
  <2> DEFINE r == [push[p] EXCEPT !.pc = "next", !.game = "none", !.base = NoPush.base]
  <2>1. index' = [index EXCEPT ![g] = push[p].bytes]
    BY <1>5 DEF IndexPut, Recorded, IInv, Rest, Based
  <2>2. Bytes(g, disk[g]) <= Size[g] /\ (HereWhole(g) => Bytes(g, disk[g]) = Size[g])
    BY <1>2, WholeBytes DEF HereWhole
  <2>3. index'[g] = Bytes(g, disk[g]) /\ \A h \in Games \ {g} : index'[h] = index[h]
    BY <1>2, <1>3, <2>1
  <2>4. Indexed'
    BY <2>2, <2>3 DEF SavedInv, Indexed
  <2>5. PushStep(p, r) /\ UNCHANGED <<s3, box, asked, lock>>
    BY <1>5 DEF IndexPut
  <2>6. HereWhole(g) => SavedIn(g, s3', index')
    BY <1>3, <2>2, <2>3, <2>5 DEF SavedIn
  <2>7. NoPush.base \in [Games -> Nat]
    BY NoPushType DEF PushRecord
  <2>8. r \in PushRecord /\ r.pc = "next" /\ r.apps = push[p].apps /\ r.withheld = push[p].withheld
    BY <1>2, <2>7 DEF PushRecord, Active
  <2>9. r.pc \notin OnGame /\ r.pc \in Active /\ r.pc \notin {"index", "merge"}
    BY <2>8 DEF OnGame, Active
  <2> HIDE DEF r
  <2>10. QED BY <1>1, <2>3, <2>4, <2>5, <2>6, <2>8, <2>9, OnTheGame
<1>6. QED BY <1>4, <1>5

\* A push that has seen to all its games has carried over, or given up with a
\* word, every whole one.
LEMMA EndSaved == ASSUME IInv, SavedInv, NEW p \in Pushers, PushEnds(p) PROVE SavedInv'
<1>1. push[p].pc = "next" /\ lock = p /\ restored /\ laptop.pc = "off"
  BY WhileActive DEF PushEnds, Active
<1>2. push \in [Pushers -> PushRecord] /\ NoPush \in PushRecord
  BY NoPushType DEF IInv, Types
<1>3. UNCHANGED <<disk, s3, index, restored, laptop>>
  BY DEF PushEnds, archiveVars
<1>4. \A g \in Games : HereWhole(g) => g \in push[p].withheld \/ Saved(g)
  BY <1>1, SavedThen DEF PushEnds, SavedInv, AllCarry, Carries, Active, OnGame
<1>5. \A g \in Games : g \in push[p].withheld \/ Saved(g)'
  BY <1>3, <1>4 DEF Saved, HereWhole
<1>6. \A q \in Pushers \ {p} : push[q].pc \notin Active
  BY <1>1, OthersRest
<1> DEFINE over == [NoPush EXCEPT !.pc = "done", !.withheld = push[p].withheld]
<1>7. over.pc = "done" /\ over.withheld = push[p].withheld
  BY <1>2 DEF PushRecord
<1>8. push'[p] = over /\ \A q \in Pushers \ {p} : push'[q].pc \notin Active
  <2>1. CASE p = "stop"
    <3> DEFINE due == [push["unit"] EXCEPT !.pc = IF @ = "off" THEN "due" ELSE @]
    <3>1. push["unit"] \in PushRecord /\ push["unit"].pc \notin Active
      BY <1>2, <1>6, <2>1 DEF Pushers
    <3>2. due.pc \notin Active
      BY <3>1 DEF PushRecord, Active
    <3>3. push' = [push EXCEPT !["stop"] = over, !["unit"].pc = IF @ = "off" THEN "due" ELSE @]
      BY <2>1 DEF PushEnds
    <3>4. push'["unit"] = due /\ push'["stop"] = over
      BY <1>2, <3>3 DEF Pushers
    <3>5. QED BY <2>1, <3>2, <3>4 DEF Pushers
  <2>2. CASE p = "unit"
    BY <1>2, <1>6, <2>2 DEF PushEnds, Pushers
  <2>3. QED BY <2>1, <2>2 DEF Pushers
<1> HIDE DEF over
<1>9. Indexed' /\ AllCarry'
  BY <1>3, <1>7, <1>8 DEF SavedInv, Indexed, AllCarry, Active
<1>10. Stopped'
  <2>1. CASE p = "stop"
    BY <1>1, <1>3, <1>7, <1>8, <2>1 DEF PushEnds, Down, SavedInv, Stopped
  <2>2. CASE p = "unit"
    <3>1. push' = [push EXCEPT !["unit"] = over] /\ UNCHANGED <<box, asked>>
      BY <2>2 DEF PushEnds, over
    <3>2. push'["stop"] = push["stop"]
      BY <1>2, <3>1 DEF Pushers
    <3>3. QED BY <1>3, <3>1, <3>2 DEF SavedInv, Stopped
  <2>3. QED BY <2>1, <2>2 DEF Pushers
<1>11. StoppedIsSaved'
  BY <1>5, <1>7, <1>8 DEF StoppedIsSaved
<1>12. QED BY <1>9, <1>10, <1>11 DEF SavedInv

LEMMA BoxSaved ==
  ASSUME IInv, SavedInv, UnitRefused \/ Terminated \/ PushKilled \/ StoppedAndStarted \/ Reset \/ Taken
  PROVE  SavedInv'
<1>1. push \in [Pushers -> PushRecord] /\ NoPush \in PushRecord /\ NoPush.pc = "off"
  BY NoPushType DEF IInv, Types, NoPush
<1>2. Indexed'
  BY DEF UnitRefused, Terminated, PushKilled, StoppedAndStarted, Reset, Taken, Boot, PushStep,
         archiveVars, SavedInv, Indexed
<1>3. CASE UnitRefused
  <2>1. push'["unit"].pc = "done" /\ push'["stop"] = push["stop"]
    BY <1>1, <1>3 DEF UnitRefused, PushStep, Pushers, NoPush
  <2>2. \A q \in Pushers : push'[q].pc \notin Active
    BY <1>3, <2>1, NoneAtWork DEF UnitRefused, Active, Pushers
  <2>3. asked # "stop" /\ UNCHANGED <<box, asked>>
    BY <1>3 DEF UnitRefused, SavedInv, Stopped
  <2>4. Stopped' /\ ~(StoppedByUs)'
    BY <2>3 DEF SavedInv, Stopped, StoppedByUs
  <2>5. QED BY <1>2, <2>2, <2>4, NoneCarries
<1>4. CASE Terminated
  <2>1. push["unit"].pc = "off" /\ push'["stop"] = push["stop"] /\ push'["unit"].pc \in {"due", "done"}
    BY <1>1, <1>4 DEF Terminated, IInv, Rest, Staged, Pushers, PushRecord
  <2>2. UNCHANGED <<disk, s3, index>> /\ box' = "stopping" /\ asked' = "cloud"
    BY <1>4 DEF Terminated, Down, archiveVars, SavedInv, Stopped
  <2>3. AllCarry'
    BY <2>1, <2>2 DEF SavedInv, AllCarry, Carries, HereWhole, SavedIn, Active, Pushers
  <2>4. Stopped' /\ StoppedIsSaved'
    BY <2>2 DEF Stopped, StoppedIsSaved, StoppedByUs
  <2>5. QED BY <1>2, <2>3, <2>4 DEF SavedInv
<1>5. CASE PushKilled
  <2>1. push'["stop"].pc = "off" /\ push'["unit"] = push["unit"] /\ push["unit"].pc \notin Active
    BY <1>1, <1>5, OthersRest DEF PushKilled, Pushers
  <2>2. \A q \in Pushers : push'[q].pc \notin Active
    BY <2>1 DEF Active, Pushers
  <2>3. asked # "stop" /\ UNCHANGED <<box, asked>>
    BY <1>5 DEF PushKilled, IInv, Rest, Locked, Pushers, Active, SavedInv, Stopped
  <2>4. Stopped' /\ ~(StoppedByUs)'
    BY <2>3 DEF SavedInv, Stopped, StoppedByUs
  <2>5. QED BY <1>2, <2>2, <2>4, NoneCarries
<1>6. CASE StoppedAndStarted \/ Reset \/ Taken
  <2>1. PICK copies : Boot(copies)
    BY <1>6 DEF StoppedAndStarted, Reset, Taken
  <2>2. \A q \in Pushers : push'[q].pc \notin Active
    BY <1>1, <2>1 DEF Boot, Active
  <2>3. Stopped' /\ ~(StoppedByUs)'
    BY <2>1 DEF Boot, Stopped, StoppedByUs
  <2>4. QED BY <1>2, <2>2, <2>3, NoneCarries
<1>7. QED BY <1>3, <1>4, <1>5, <1>6

LEMMA LaptopSaved ==
  ASSUME Calm, IInv, SavedInv,
         \/ \E g \in Games : ForgetAsks(g)
         \/ ForgetDeletes \/ ForgetLeft
         \/ \E answered \in BOOLEAN : ForgetWrites(answered)
  PROVE  SavedInv'
<1>1. lock = "none" /\ asked # "stop"
  <2>1. ASSUME NEW g \in Games, ForgetAsks(g) PROVE lock = "none" /\ asked = "none"
    BY <2>1, QuietIsNone DEF ForgetAsks, Calm, SavedInv, Stopped
  <2>2. CASE laptop.pc # "off"
    BY <2>2 DEF IInv, Rest, Alone, SavedInv, Stopped
  <2>3. QED BY <2>1, <2>2 DEF ForgetDeletes, ForgetLeft, ForgetWrites
<1>2. UNCHANGED <<push, box, asked>>
  BY DEF ForgetAsks, ForgetDeletes, ForgetLeft, ForgetWrites
<1>3. Indexed'
  <2>1. CASE UNCHANGED index
    BY <2>1 DEF SavedInv, Indexed
  <2>2. ASSUME NEW answered \in BOOLEAN, ForgetWrites(answered) PROVE Indexed'
    <3>1. index' = index \/ index' = [index EXCEPT ![laptop.game] = 0]
      BY <2>2 DEF ForgetWrites, IInv, Rest, Listed
    <3>2. \A g \in Games : index'[g] \in {index[g], 0}
      BY <3>1 DEF IInv, Types
    <3>3. \A g \in Games : 0 <= Size[g] /\ index[g] <= Size[g]
      BY ArchiveAssumption DEF SavedInv, Indexed
    <3>4. QED BY <3>2, <3>3 DEF Indexed
  <2>3. QED BY <2>1, <2>2 DEF ForgetAsks, ForgetDeletes, ForgetLeft, archiveVars
<1>4. QED BY <1>1, <1>2, <1>3, BesideSaved

LEMMA SavedInductive == ASSUME Recorded, IInv, SavedInv, [Next]_vars PROVE SavedInv'
<1>0. Calm
  BY DEF Recorded
<1>1. ASSUME NEW p \in Pushers, NEW force \in Forces, PushStarts(p, force) PROVE SavedInv'
  BY <1>0, <1>1, StartSaved
<1>2. ASSUME NEW p \in Pushers, NEW g \in Games, GamePassedOver(p, g) \/ GamePushed(p, g)
      PROVE  SavedInv'
  BY <1>2, TurnSaved
<1>3. ASSUME NEW p \in Pushers, NEW clean \in BOOLEAN, NEW recorded \in BOOLEAN,
             GameSynced(p, clean, recorded)
      PROVE  SavedInv'
  BY <1>3, SyncSaved
<1>4. ASSUME NEW p \in Pushers, ManifestPut(p) \/ ManifestWithheld(p) PROVE SavedInv'
  BY <1>4, ManifestSaved
<1>5. ASSUME NEW p \in Pushers, NEW answered \in BOOLEAN,
             IndexRead(p, answered) \/ IndexPut(p, answered)
      PROVE  SavedInv'
  BY <1>5, IndexSaved
<1>6. ASSUME NEW p \in Pushers, PushEnds(p) PROVE SavedInv'
  BY <1>6, EndSaved
<1>7. CASE UNCHANGED vars
  BY <1>7 DEF vars, archiveVars, procVars, SavedInv, Indexed, Stopped, AllCarry, Carries, HereWhole, SavedIn,
              StoppedIsSaved, StoppedByUs, Saved
<1>8. QED
  BY <1>0, <1>1, <1>2, <1>3, <1>4, <1>5, <1>6, <1>7, DriveSaved, BoxSaved, LaptopSaved, Zenon DEF Next

\* StoppedIsSaved: when `cg stop` stops a box, every whole game on it is whole in
\* the archive, listed there and with its last saves, unless a push said that it
\* could not archive it: no order of failures, cut-offs, resets and boots comes
\* between.  It needs that the index and the links of a game can be written.
THEOREM StopSaves == ASSUME Recorded PROVE Spec => []StoppedIsSaved
<1>1. Calm
  BY DEF Recorded
<1>2. IInv /\ SavedInv /\ [Next]_vars => SavedInv'
  BY SavedInductive
<1>3. SavedInv => StoppedIsSaved
  BY DEF SavedInv
<1>4. Spec => []IInv
  BY <1>1, Invariant
<1>5. QED BY <1>2, <1>3, <1>4, InitSaved, PTL DEF Spec

-----------------------------------------------------------------------------
(* What a partial game can do to the archive.  It is told from a whole one by  *)
(* what the restore made of it, so every failed sync has to be noticed: the    *)
(* archive's manifests answer, and a sync that fails leaves the game short.    *)
Noticing == Calm /\ {"pull_nearly", "manifest_read"} \cap Faults = {}

Torn(g) == disk[g].man = "whole" /\ disk[g].files # "whole"
Kept(g) == s3[g].man = "whole" /\ s3[g].files = "whole"
Restoring == pull.pc \in {"next", "sync"}

Pulls == /\ pull = [pc |-> pull.pc, want |-> pull.want, game |-> pull.game, used |-> pull.used,
                    budget |-> pull.budget, bad |-> pull.bad, skipped |-> pull.skipped]
         /\ pull.want \in [Games -> Nat] /\ pull.bad \in BOOLEAN

\* What Steam says of a game that is still to be pushed, or is, it still says.
Seen == \A p \in Pushers : push[p].pc \in Active =>
          /\ \A g \in Games : push[p].apps[g] \in {"none", disk[g].man}
          /\ push[p].pc \in OnGame => disk[push[p].game].man = "whole"

\* A restore works from the index as it is, which nobody changes meanwhile.
Fetching == Restoring =>
  /\ laptop.pc = "off" /\ ~restored
  /\ \A g \in Games : pull.want[g] \in {0, index[g]} /\ (pull.want[g] > 0 => g \in Chosen)
  /\ pull.pc = "sync" => pull.game \in Games /\ pull.want[pull.game] > 0

Deleted == laptop.pc # "off" =>
  /\ laptop.game \in Games
  /\ laptop.pc = "deleted" => s3[laptop.game].files = "none"

\* A partial game that looks whole came from the archive, by its index.
FromArchive == \A g \in Games : Torn(g) => g \in Chosen /\ (Kept(g) => index[g] > 0)

\* One that is whole there was skipped, has failed, or is still to be fetched.
Noticed == \A g \in Games : Torn(g) /\ Kept(g) =>
   /\ restored => g \in pull.skipped
   /\ Restoring => pull.want[g] > 0 \/ g \in pull.skipped \/ pull.bad

WholeInv == Pulls /\ Seen /\ Fetching /\ Deleted /\ FromArchive /\ Noticed

LEMMA InitWhole == Init => WholeInv
<1> SUFFICES ASSUME Init PROVE WholeInv
  OBVIOUS
<1>1. Pulls /\ Fetching
  BY DEF Init, NoPull, Pulls, Fetching, Restoring
<1>2. Seen /\ Deleted /\ FromArchive /\ Noticed
  BY DEF Init, Seen, Deleted, FromArchive, Noticed, Torn, NoCopy, NoPush, NoForget, Active, Pushers
<1>3. QED BY <1>1, <1>2 DEF WholeInv

LEMMA SteamWhole ==
  ASSUME Calm, IInv, WholeInv, NEW g \in Games,
         SteamFetches(g) \/ SteamFinishes(g) \/ Played(g) \/ Uninstalled(g)
  PROVE  WholeInv'
<1>0. disk \in [Games -> Copy] /\ disk[g] \in Copy
  BY DEF IInv, Types
<1>1. PICK copy : Steam(g, copy) /\ ~(copy.man = "whole" /\ copy.files # "whole")
  <2>1. CASE SteamFetches(g)
    <3>1. PICK f : Steam(g, [disk[g] EXCEPT !.man = "broken", !.files = f])
      BY <2>1 DEF SteamFetches
    <3>2. [disk[g] EXCEPT !.man = "broken", !.files = f].man = "broken"
      BY <1>0, CopyIs
    <3>3. QED BY <3>1, <3>2
  <2>2. CASE SteamFinishes(g)
    <3>1. [disk[g] EXCEPT !.man = "whole", !.files = "whole", !.links = TRUE].files = "whole"
      BY <1>0, CopyIs
    <3>2. QED BY <2>2, <3>1 DEF SteamFinishes
  <2>3. CASE Played(g)
    <3>1. [disk[g] EXCEPT !.saves = @ + 1].files = "whole"
      BY <1>0, <2>3, CopyIs DEF Played
    <3>2. QED BY <2>3, <3>1 DEF Played
  <2>4. CASE Uninstalled(g)
    BY <2>4 DEF Uninstalled, NoCopy
  <2>5. QED BY <2>1, <2>2, <2>3, <2>4
<1>2. /\ disk' = [disk EXCEPT ![g] = copy] /\ pull.pc = "off" /\ lock = "none"
      /\ UNCHANGED <<s3, index, restored, pull, push, lock, laptop>>
  BY <1>1, QuietIsNone DEF Steam, archiveVars, procVars, Quiet, Calm
<1>3. Seen'
  BY <1>2, NoneAtWork DEF Seen
<1>4. \A h \in Games : Torn(h)' => Torn(h)
  BY <1>0, <1>1, <1>2 DEF Torn
<1>5. QED BY <1>2, <1>3, <1>4 DEF WholeInv, Pulls, Fetching, Restoring, Deleted, FromArchive, Noticed, Kept

\* The restore: no push is at work beside it.
LEMMA PullingIs ==
  ASSUME IInv, pull.pc # "off", push' = push
  PROVE  ~restored /\ lock = "none" /\ Seen'
BY NoneAtWork DEF IInv, Rest, AtRest, Alone, Seen

LEMMA StartsWhole ==
  ASSUME Calm, IInv, WholeInv, NEW answered \in BOOLEAN, PullStarts(answered)
  PROVE  WholeInv'
<1>1. /\ answered /\ laptop.pc = "off" /\ pull.pc = "due"
      /\ UNCHANGED <<disk, s3, index, push, laptop>>
  BY DEF PullStarts, Stepped, archiveVars, Calm
<1>2. ~restored /\ Seen'
  BY <1>1, PullingIs
<1> DEFINE want == [g \in Games |-> IF g \in Chosen THEN index[g] ELSE 0]
<1>3. want \in [Games -> Nat]
  BY DEF IInv, Types
<1>4. FromArchive' /\ Deleted'
  BY <1>1 DEF WholeInv, FromArchive, Torn, Kept, Deleted
<1>5. CASE want = [g \in Games |-> 0]
  <2>1. pull' = NoPull /\ restored'
    BY <1>1, <1>5 DEF PullStarts, Stepped
  <2>2. \A g \in Games : ~(Torn(g) /\ Kept(g))
    BY <1>5 DEF WholeInv, FromArchive
  <2>3. Pulls' /\ Fetching'
    BY <2>1 DEF NoPull, Pulls, Fetching, Restoring
  <2>4. Noticed'
    BY <1>1, <2>2 DEF Noticed, Torn, Kept
  <2>5. QED BY <1>2, <1>4, <2>3, <2>4 DEF WholeInv
<1>6. CASE want # [g \in Games |-> 0]
  <2>1. PICK budget : pull' = [NoPull EXCEPT !.pc = "next", !.want = want, !.budget = budget]
    BY <1>1, <1>6 DEF PullStarts, Stepped
  <2>2. restored' = restored
    BY <1>1, <1>6 DEF PullStarts
  <2>3. /\ Pulls' /\ pull'.pc = "next" /\ pull'.want = want
    BY <1>3, <2>1 DEF NoPull, Pulls
  <2>4. Fetching'
    BY <1>1, <1>2, <2>2, <2>3 DEF Fetching, Restoring
  <2>5. Noticed'
    BY <1>1, <1>2, <2>2, <2>3 DEF WholeInv, FromArchive, Noticed, Torn, Kept
  <2>6. QED BY <1>2, <1>4, <2>3, <2>4, <2>5, SMTT(30) DEF WholeInv
<1>7. QED BY <1>5, <1>6

\* A game that is left: for want of room, or because it is not in the archive.
LEMMA LeavesWhole ==
  ASSUME Noticing, IInv, WholeInv, NEW g \in Games, GameSkipped(g) \/ GameAbsent(g)
  PROVE  WholeInv'
<1>1. /\ pull.pc = "next" /\ pull.want[g] > 0 /\ UNCHANGED <<disk, restored, s3, index, push, laptop>>
  BY DEF GameSkipped, GameAbsent, NextGame, Stepped, archiveVars
<1>2. Seen' /\ Deleted' /\ FromArchive'
  BY <1>1, PullingIs DEF WholeInv, Deleted, FromArchive, Torn, Kept
<1>3. PICK used, skipped :
        /\ pull' = [pull EXCEPT !.used = used, !.want[g] = 0, !.skipped = skipped]
        /\ pull.skipped \subseteq skipped
        /\ g \in skipped \/ ~Kept(g)
  <2>1. CASE GameSkipped(g)
    <3>1. pull' = [pull EXCEPT !.used = pull.used, !.want[g] = 0, !.skipped = pull.skipped \cup {g}]
      BY <2>1 DEF GameSkipped, Stepped, WholeInv, Pulls
    <3>2. QED BY <3>1
  <2>2. CASE GameAbsent(g)
    <3>1. s3[g].man = "none"
      BY <2>2 DEF GameAbsent, Noticing
    <3>2. pull' = [pull EXCEPT !.used = @ + Need(g) - pull.want[g], !.want[g] = 0]
      BY <2>2 DEF GameAbsent, Stepped
    <3>3. PICK n : n = pull.used + Need(g) - pull.want[g]
      OBVIOUS
    <3>4. pull' = [pull EXCEPT !.used = n, !.want[g] = 0, !.skipped = pull.skipped]
      BY <3>2, <3>3 DEF WholeInv, Pulls
    <3>5. QED BY <3>1, <3>4 DEF Kept
  <2>3. QED BY <2>1, <2>2
<1>4. /\ Pulls' /\ pull'.pc = "next" /\ pull'.bad = pull.bad /\ pull'.skipped = skipped
      /\ \A h \in Games : pull'.want[h] = IF h = g THEN 0 ELSE pull.want[h]
  BY <1>1, <1>3 DEF WholeInv, Pulls
<1>5. Fetching'
  BY <1>1, <1>4 DEF WholeInv, Fetching, Restoring
<1>6. Noticed'
  BY <1>1, <1>3, <1>4 DEF WholeInv, Noticed, Restoring, Torn, Kept
<1>7. QED BY <1>2, <1>4, <1>5, <1>6 DEF WholeInv

\* The folders of a game arrive, some first and then all of them that do.
LEMMA ArrivesWhole ==
  ASSUME IInv, WholeInv, NEW g \in Games, NEW copy, disk' = [disk EXCEPT ![g] = copy],
         Restoring, pull.want[g] > 0, UNCHANGED <<s3, index, restored, push, laptop>>,
         Pulls', Restoring', pull'.skipped = pull.skipped,
         pull'.pc = "sync" => pull'.game = g,
         pull.bad => pull'.bad,
         \A h \in Games \ {g} : pull'.want[h] = pull.want[h],
         \/ pull'.want[g] = pull.want[g]
         \/ pull'.want[g] = 0 /\ pull'.pc = "next" /\ (pull'.bad \/ copy.files = "whole" \/ ~Kept(g))
  PROVE  WholeInv'
<1>1. ~restored /\ laptop.pc = "off" /\ g \in Chosen /\ index[g] > 0
  BY DEF WholeInv, Fetching
<1>2. Seen' /\ Deleted'
  BY <1>1, PullingIs DEF Deleted, Restoring
<1>3. disk \in [Games -> Copy] /\ disk'[g] = copy /\ \A h \in Games \ {g} : disk'[h] = disk[h]
  BY DEF IInv, Types
<1>4. FromArchive'
  BY <1>1, <1>3 DEF WholeInv, FromArchive, Torn, Kept
<1>5. Fetching'
  BY <1>1 DEF WholeInv, Fetching, Restoring
<1>6. Noticed'
  BY <1>1, <1>3 DEF WholeInv, Noticed, Restoring, Torn, Kept
<1>7. QED BY <1>2, <1>4, <1>5, <1>6 DEF WholeInv

LEMMA FetchesWhole ==
  ASSUME IInv, WholeInv, NEW g \in Games, GameStarts(g)
  PROVE  WholeInv'
<1>1. PICK half : disk' = [disk EXCEPT ![g] = [half EXCEPT !.man = s3[g].man]]
  BY DEF GameStarts
<1>2. PICK copy : copy = [half EXCEPT !.man = s3[g].man]
  OBVIOUS
<1>3. /\ pull.pc = "next" /\ pull.want[g] > 0 /\ UNCHANGED <<s3, index, restored, push, laptop>>
      /\ pull' = [pull EXCEPT !.used = @ + Need(g), !.pc = "sync", !.game = g]
  BY DEF GameStarts, NextGame, Stepped, archiveVars
<1>4. PICK n : n = pull.used + Need(g)
  OBVIOUS
<1>5. pull' = [pull EXCEPT !.used = n, !.pc = "sync", !.game = g]
  BY <1>3, <1>4
<1>6. /\ Pulls' /\ pull'.pc = "sync" /\ pull'.game = g /\ pull'.want = pull.want
      /\ pull'.bad = pull.bad /\ pull'.skipped = pull.skipped
  BY <1>5 DEF WholeInv, Pulls
<1>7. QED BY <1>1, <1>2, <1>3, <1>6, ArrivesWhole DEF Restoring

\* A sync that fails leaves less than 98% of what the index promised, and is
\* noticed; one that does not fail brings what the archive has.
LEMMA LandsWhole ==
  ASSUME Noticing, IInv, WholeInv, NEW clean \in BOOLEAN, NEW linksRead \in BOOLEAN,
         GameEnds(clean, linksRead)
  PROVE  WholeInv'
<1> DEFINE g == pull.game
<1>1. pull.pc = "sync" /\ g \in Games /\ pull.want[g] > 0
  BY DEF GameEnds, WholeInv, Fetching, Restoring
<1>2. disk[g] \in Copy /\ s3[g] \in Copy
  BY <1>1 DEF IInv, Types
<1>3. PICK landed : landed = IF clean THEN Fetched(s3[g], disk[g]) ELSE disk[g]
  OBVIOUS
<1>4. PICK copy : copy = Relinked(landed, linksRead /\ s3[g].links)
  OBVIOUS
<1>5. landed \in Copy
  BY <1>2, <1>3, Transfers
<1>6. copy.files = landed.files
  BY <1>4, <1>5, CopyIs DEF Relinked
<1>7. /\ disk' = [disk EXCEPT ![g] = copy] /\ UNCHANGED <<s3, index, restored, push, laptop>>
      /\ pull' = [pull EXCEPT !.pc = "next", !.want[g] = 0, !.game = "none", !.bad = @ \/ Short(g, copy)]
  BY <1>3, <1>4 DEF GameEnds, Stepped, archiveVars
<1>8. PICK bad \in BOOLEAN : (bad <=> pull.bad \/ Short(g, copy)) /\
        pull' = [pull EXCEPT !.pc = "next", !.want[g] = 0, !.game = "none", !.bad = bad]
  <2>1. (pull.bad \/ Short(g, copy)) \in BOOLEAN
    OBVIOUS
  <2>2. QED BY <1>7, <2>1
<1>9. bad \/ copy.files = "whole" \/ ~Kept(g)
  <2> SUFFICES ASSUME Kept(g), ~bad PROVE copy.files = "whole"
    OBVIOUS
  <2>1. s3[g].files = "whole" /\ ~Short(g, copy)
    BY <1>8 DEF Kept
  <2>2. CASE clean
    <3>1. Percent[s3[g].files] >= Percent[disk[g].files]
      BY <1>2, <2>1, CopyIs DEF Levels, Percent
    <3>2. landed.files = "whole"
      BY <1>2, <1>3, <2>1, <2>2, <3>1, CopyIs DEF Fetched, Synced
    <3>3. QED BY <1>6, <3>2
  <2>3. CASE ~clean
    <3>1. Short(g, disk[g])
      BY <2>1, <2>3 DEF GameEnds, Noticing
    <3>2. copy.files = disk[g].files
      BY <1>3, <1>6, <2>3
    <3>3. QED BY <2>1, <3>1, <3>2 DEF Short, Bytes
  <2>4. QED BY <2>2, <2>3
<1>10. /\ Pulls' /\ pull'.pc = "next" /\ pull'.bad = bad /\ pull'.skipped = pull.skipped
       /\ \A h \in Games : pull'.want[h] = IF h = g THEN 0 ELSE pull.want[h]
  BY <1>1, <1>8 DEF WholeInv, Pulls
<1>11. pull.bad => pull'.bad
  BY <1>8, <1>10
<1>12. QED BY <1>1, <1>7, <1>9, <1>10, <1>11, ArrivesWhole DEF Restoring

LEMMA MarksWhole == ASSUME IInv, WholeInv, PullEnds PROVE WholeInv'
<1>1. /\ pull.pc = "next" /\ (\A g \in Games : pull.want[g] = 0)
      /\ UNCHANGED <<disk, s3, index, push, laptop>>
      /\ pull' = [NoPull EXCEPT !.skipped = pull.skipped] /\ restored' = Marked
  BY DEF PullEnds, Stepped, archiveVars
<1>2. ~restored /\ Seen'
  BY <1>1, PullingIs
<1>3. Pulls' /\ pull'.pc = "off" /\ pull'.skipped = pull.skipped
  BY <1>1 DEF NoPull, Pulls
<1>4. Fetching' /\ Deleted' /\ FromArchive'
  BY <1>1, <1>3 DEF WholeInv, Fetching, Restoring, Deleted, FromArchive, Torn, Kept
<1>5. restored' <=> ~pull.bad
  BY <1>1, <1>2 DEF Marked
<1>6. \A g \in Games : Torn(g) /\ Kept(g) /\ ~pull.bad => g \in pull.skipped
  BY <1>1 DEF WholeInv, Noticed, Restoring
<1>7. Noticed'
  BY <1>1, <1>3, <1>5, <1>6 DEF Noticed, Restoring, Torn, Kept
<1>8. QED BY <1>2, <1>3, <1>4, <1>7 DEF WholeInv

\* A push touches no partial game of which the archive has no whole copy so that
\* it gets one, and takes none out of the index.
LEMMA BesideDrive ==
  ASSUME IInv, WholeInv, UNCHANGED <<disk, restored>>, Restoring => UNCHANGED laptop,
         Pulls', Seen', Deleted',
         pull'.skipped = pull.skipped, pull'.pc \in {pull.pc, "off"}, Restoring => pull' = pull \/ pull'.pc = "off",
         Restoring => UNCHANGED <<s3, index>>,
         \A g \in Games : Torn(g) /\ Kept(g)' => Kept(g) /\ (index[g] > 0 => index'[g] > 0)
  PROVE  WholeInv'
<1>1. \A g \in Games : Torn(g)' <=> Torn(g)
  BY DEF Torn
<1>2. FromArchive'
  BY <1>1 DEF WholeInv, FromArchive
<1>3. Fetching'
  BY DEF WholeInv, Fetching, Restoring
<1>4. Noticed'
  BY <1>1 DEF WholeInv, Noticed, Restoring
<1>5. QED BY <1>2, <1>3, <1>4 DEF WholeInv

LEMMA PushWhole ==
  ASSUME IInv, WholeInv, NEW p \in Pushers, NEW record \in PushRecord, PushStep(p, record),
         lock \in {p, "none"}, restored, laptop.pc = "off",
         record.pc \in Active =>
           /\ \A g \in Games : record.apps[g] \in {"none", disk[g].man}
           /\ record.pc \in OnGame => disk[record.game].man = "whole",
         \A g \in Games : Torn(g) /\ Kept(g)' => Kept(g) /\ (index[g] > 0 => index'[g] > 0)
  PROVE  WholeInv'
<1>1. push'[p] = record /\ \A q \in Pushers \ {p} : push'[q] = push[q] /\ push'[q].pc \notin Active
  BY OthersRest DEF IInv, Types, PushStep
<1>2. UNCHANGED <<disk, restored, pull, laptop>>
  BY DEF PushStep
<1>3. ~Restoring
  BY DEF IInv, Rest, AtRest, Restoring
<1>4. Seen'
  BY <1>1, <1>2 DEF Seen
<1>5. Pulls' /\ Deleted'
  BY <1>2 DEF WholeInv, Pulls, Deleted
<1>6. QED BY <1>2, <1>3, <1>4, <1>5, BesideDrive

LEMMA StartWhole ==
  ASSUME Calm, IInv, WholeInv, NEW p \in Pushers, NEW force \in Forces, PushStarts(p, force)
  PROVE  WholeInv'
<1> DEFINE r == [NoPush EXCEPT !.pc = "next", !.force = force, !.cache = index,
                   !.apps = [g \in Games |-> disk[g].man]]
<1>1. force = FALSE
  BY ArchiveAssumption DEF Calm
<1>2. [g \in Games |-> disk[g].man] \in [Games -> {"none", "whole", "broken"}]
  BY CopyIs DEF IInv, Types, Mans
<1>3. r \in PushRecord
  BY <1>1, <1>2, NoPushType, Zenon DEF PushRecord, Active, IInv, Types
<1>4. r.pc = "next" /\ \A g \in Games : r.apps[g] = disk[g].man
  BY NoPushType DEF NoPush
<1>5. /\ PushStep(p, r) /\ lock = "none" /\ UNCHANGED <<s3, index>> /\ restored /\ laptop.pc = "off"
  BY <1>1 DEF PushStarts, archiveVars, LockFree, Calm
<1> HIDE DEF r
<1>6. QED BY <1>3, <1>4, <1>5, PushWhole DEF OnGame, Kept

LEMMA TurnWhole ==
  ASSUME IInv, WholeInv, NEW p \in Pushers, NEW g \in Games, GamePassedOver(p, g) \/ GamePushed(p, g)
  PROVE  WholeInv'
<1>1. push[p].pc = "next" /\ push[p].pc \in Active /\ push[p].apps[g] # "none"
  BY DEF GamePassedOver, GamePushed, GameOpens, Turn, Active
<1>2. /\ lock = p /\ restored /\ laptop.pc = "off"
      /\ push[p] \in PushRecord /\ s3[g] \in Copy /\ disk[g] \in Copy
  BY <1>1, WhileActive DEF IInv, Types
<1>3. (\A h \in Games : push[p].apps[h] \in {"none", disk[h].man}) /\ push[p].apps[g] = disk[g].man
  BY <1>1 DEF WholeInv, Seen
<1>4. CASE GamePassedOver(p, g)
  <2> DEFINE r == [push[p] EXCEPT !.apps[g] = "none"]
  <2>1. r \in PushRecord /\ r.pc = "next" /\ \A h \in Games : r.apps[h] \in {"none", push[p].apps[h]}
    BY <1>1, <1>2 DEF PushRecord
  <2>2. PushStep(p, r) /\ UNCHANGED <<s3, index>>
    BY <1>4 DEF GamePassedOver, archiveVars
  <2> HIDE DEF r
  <2>3. QED BY <1>2, <1>3, <2>1, <2>2, PushWhole DEF OnGame, Kept
<1>5. CASE GamePushed(p, g)
  <2> DEFINE r == [push[p] EXCEPT !.pc = "sync", !.game = g, !.apps[g] = "none",
                                  !.bytes = Bytes(g, disk[g])]
  <2>1. Bytes(g, disk[g]) \in Nat
    BY <1>2, BytesType
  <2>2. /\ r \in PushRecord /\ r.pc = "sync" /\ r.game = g
        /\ \A h \in Games : r.apps[h] \in {"none", push[p].apps[h]}
    BY <1>2, <2>1 DEF PushRecord, Active
  <2>3. disk[g].man = "whole" /\ PushStep(p, r) /\ UNCHANGED index
    BY <1>3, <1>5 DEF GamePushed, GameOpens, Whole
  <2>4. PICK half \in HalfWay(disk[g], s3[g]) : s3' = [s3 EXCEPT ![g] = [half EXCEPT !.man = s3[g].man]]
    BY <1>5 DEF GamePushed, GameOpens
  <2>5. half \in Copy /\ (half.files = s3[g].files \/ Between(half.files, disk[g].files, s3[g].files))
    BY <1>2, <2>4, Transfers DEF HalfWay
  <2>6. ASSUME Torn(g), half.files = "whole" PROVE s3[g].files = "whole"
    BY <1>2, <2>5, <2>6, CopyIs DEF Between, Percent, Levels
  <2>7. s3'[g].files = half.files /\ s3'[g].man = s3[g].man /\ \A h \in Games : h # g => s3'[h] = s3[h]
    BY <1>2, <2>4, <2>5, CopyIs DEF IInv, Types
  <2>8. \A h \in Games : Torn(h) /\ Kept(h)' => Kept(h)
    BY <2>6, <2>7 DEF Kept
  <2> HIDE DEF r
  <2>9. QED BY <1>2, <1>3, <2>2, <2>3, <2>8, PushWhole
<1>6. QED BY <1>4, <1>5

\* A step of the push on the game it is at.
LEMMA GameWhole ==
  ASSUME IInv, WholeInv, NEW p \in Pushers, push[p].pc \in OnGame, NEW r \in PushRecord,
         NEW g \in Games, g = push[p].game,
         r.pc \in Active, r.apps = push[p].apps, r.pc \in OnGame => r.game = g,
         PushStep(p, r),
         \A h \in Games : h # g => s3'[h] = s3[h] /\ index'[h] = index[h],
         Torn(g) /\ Kept(g)' => Kept(g),
         index[g] > 0 => index'[g] > 0
  PROVE  WholeInv'
<1>1. push[p].pc \in Active /\ lock = p /\ restored /\ laptop.pc = "off"
  BY WhileActive DEF OnGame
<1>2. /\ \A h \in Games : r.apps[h] \in {"none", disk[h].man}
      /\ r.pc \in OnGame => disk[r.game].man = "whole"
  BY <1>1 DEF WholeInv, Seen
<1>3. ASSUME NEW h \in Games
      PROVE  Torn(h) /\ Kept(h)' => Kept(h) /\ (index[h] > 0 => index'[h] > 0)
  <2>1. CASE h = g
    BY <2>1
  <2>2. CASE h # g
    <3>1. s3'[h] = s3[h] /\ index'[h] = index[h]
      BY <2>2
    <3>2. QED BY <3>1 DEF Kept
  <2>3. QED BY <2>1, <2>2
<1>4. QED BY <1>1, <1>2, <1>3, PushWhole

LEMMA SyncWhole ==
  ASSUME IInv, WholeInv, NEW p \in Pushers, NEW clean \in BOOLEAN, NEW recorded \in BOOLEAN,
         GameSynced(p, clean, recorded)
  PROVE  WholeInv'
<1>0. PICK g : g = push[p].game
  OBVIOUS
<1> DEFINE copied == IF clean THEN Synced(disk[g], s3[g]) ELSE s3[g]
           copy   == IF recorded THEN [copied EXCEPT !.links = disk[g].links] ELSE copied
           r      == [push[p] EXCEPT !.pc = "manifest", !.ok = clean]
<1>1. push[p].pc = "sync" /\ push[p].pc \in OnGame /\ push[p].pc \in Active
  BY DEF GameSynced, OnGame, Active
<1>2. push[p] \in PushRecord /\ g \in Games /\ s3[g] \in Copy /\ disk[g] \in Copy
  BY <1>0, <1>1, WhileActive DEF IInv, Types, Rest, Guarded
<1>3. copied \in Copy /\ copied.man = s3[g].man /\ copied.files \in {disk[g].files, s3[g].files}
  BY <1>2, Transfers, CopyIs DEF Synced
<1>4. copy.man = s3[g].man /\ copy.files \in {disk[g].files, s3[g].files}
  BY <1>2, <1>3, CopyIs
<1>5. s3' = [s3 EXCEPT ![g] = copy]
  BY <1>0 DEF GameSynced
<1>6. s3'[g] = copy /\ \A h \in Games : h # g => s3'[h] = s3[h]
  BY <1>2, <1>5 DEF IInv, Types
<1>7. Torn(g) /\ Kept(g)' => Kept(g)
  BY <1>4, <1>6 DEF Torn, Kept
<1>8. r \in PushRecord /\ r.pc = "manifest" /\ r.apps = push[p].apps /\ r.game = g
  BY <1>0, <1>2 DEF PushRecord, Active
<1>9. PushStep(p, r) /\ UNCHANGED index /\ r.pc \in Active
  BY <1>8 DEF GameSynced, Active
<1> HIDE DEF r, copy, copied
<1>10. QED BY <1>0, <1>1, <1>2, <1>6, <1>7, <1>8, <1>9, GameWhole

LEMMA ManifestWhole ==
  ASSUME IInv, WholeInv, NEW p \in Pushers, ManifestPut(p) \/ ManifestWithheld(p)
  PROVE  WholeInv'
<1>0. PICK g : g = push[p].game
  OBVIOUS
<1>1. push[p].pc = "manifest" /\ push[p].pc \in OnGame /\ push[p].pc \in Active
  BY DEF ManifestPut, ManifestWithheld, OnGame, Active
<1>2. push[p] \in PushRecord /\ g \in Games /\ s3[g] \in Copy /\ disk[g] \in Copy
  BY <1>0, <1>1, WhileActive DEF IInv, Types, Rest, Guarded
<1>3. \A m \in Mans : /\ [s3 EXCEPT ![g].man = m][g] = [s3[g] EXCEPT !.man = m]
                      /\ \A h \in Games : h # g => [s3 EXCEPT ![g].man = m][h] = s3[h]
  BY <1>2 DEF IInv, Types
<1>4. PICK man \in Mans : s3' = [s3 EXCEPT ![g].man = man] /\
        (man = "whole" => s3[g].man = "whole" \/ Same(s3[g], disk[g]))
  <2>1. CASE ManifestPut(p)
    <3>1. Same(s3[g], disk[g]) /\ s3' = [s3 EXCEPT ![g].man = disk[g].man]
      BY <1>0, <1>1, <2>1 DEF ManifestPut, IInv, Rest, Landed
    <3>2. disk[g].man \in Mans
      BY <1>2, Edited
    <3>3. QED BY <3>1, <3>2
  <2>2. CASE ManifestWithheld(p)
    <3>1. PICK man \in {"none", s3[g].man} : s3' = [s3 EXCEPT ![g].man = man]
      BY <1>0, <2>2 DEF ManifestWithheld
    <3>2. man \in Mans
      BY <1>2, <3>1, Edited DEF Mans
    <3>3. QED BY <3>1, <3>2
  <2>3. QED BY <2>1, <2>2
<1>5. s3'[g] = [s3[g] EXCEPT !.man = man] /\ \A h \in Games : h # g => s3'[h] = s3[h]
  BY <1>3, <1>4
<1>6. s3'[g].man = man /\ s3'[g].files = s3[g].files
  BY <1>2, <1>5, CopyIs
<1>7. Torn(g) /\ Kept(g)' => Kept(g)
  BY <1>4, <1>6 DEF Torn, Kept, Same
<1>8. PICK r \in PushRecord :
        /\ PushStep(p, r) /\ r.pc \in {"index", "next"} /\ r.apps = push[p].apps
        /\ r.pc = "index" => r.game = g
  <2>1. CASE ManifestPut(p)
    <3> DEFINE r == [push[p] EXCEPT !.pc = "index"]
    <3>1. r \in PushRecord /\ r.pc = "index" /\ r.apps = push[p].apps /\ r.game = g
      BY <1>0, <1>2 DEF PushRecord, Active
    <3>2. PushStep(p, r)
      BY <2>1 DEF ManifestPut
    <3>3. QED BY <3>1, <3>2
  <2>2. CASE ManifestWithheld(p)
    <3> DEFINE r == [push[p] EXCEPT !.pc = "next", !.game = "none", !.withheld = @ \cup {g}]
    <3>1. r \in PushRecord /\ r.pc = "next" /\ r.apps = push[p].apps
      BY <1>0, <1>2 DEF PushRecord, Active
    <3>2. PushStep(p, r)
      BY <1>0, <2>2 DEF ManifestWithheld
    <3>3. QED BY <3>1, <3>2
  <2>3. QED BY <2>1, <2>2
<1>9. UNCHANGED index /\ r.pc \in Active /\ (r.pc \in OnGame => r.game = g)
  BY <1>8 DEF ManifestPut, ManifestWithheld, Active, OnGame
<1>10. QED BY <1>0, <1>1, <1>2, <1>5, <1>7, <1>8, <1>9, GameWhole

LEMMA IndexWhole ==
  ASSUME Calm, IInv, WholeInv, NEW p \in Pushers, NEW answered \in BOOLEAN,
         IndexRead(p, answered) \/ IndexPut(p, answered)
  PROVE  WholeInv'
<1>0. PICK g : g = push[p].game
  OBVIOUS
<1>1. push[p].pc \in {"index", "merge"} /\ push[p].pc \in OnGame /\ push[p].pc \in Active
  BY DEF IndexRead, IndexPut, OnGame, Active
<1>2. push[p] \in PushRecord /\ g \in Games /\ index \in [Games -> Nat] /\ 2 * push[p].bytes >= index[g]
  BY <1>0, <1>1, WhileActive DEF IInv, Types, Rest, Guarded
<1>3. push[p].bytes \in Nat
  BY <1>2 DEF PushRecord
<1>4. UNCHANGED s3
  BY DEF IndexRead, IndexPut, archiveVars
<1>5. index' = index \/ index' = [index EXCEPT ![g] = push[p].bytes]
  BY <1>0 DEF IndexRead, IndexPut, archiveVars, IInv, Rest, Based
<1>6. \A h \in Games : h # g => index'[h] = index[h]
  BY <1>2, <1>5
<1>7. index[g] > 0 => index'[g] > 0
  BY <1>2, <1>3, <1>5
<1>8. PICK r \in PushRecord :
        /\ PushStep(p, r) /\ r.pc \in {"merge", "next"} /\ r.apps = push[p].apps
        /\ r.pc = "merge" => r.game = g
  <2>1. CASE IndexRead(p, answered)
    <3> DEFINE r == [push[p] EXCEPT !.pc = "merge", !.base = IF answered THEN index ELSE [h \in Games |-> 0]]
    <3>1. (IF answered THEN index ELSE [h \in Games |-> 0]) \in [Games -> Nat]
      BY <1>2
    <3>2. r \in PushRecord /\ r.pc = "merge" /\ r.apps = push[p].apps /\ r.game = g
      BY <1>0, <1>2, <3>1 DEF PushRecord, Active
    <3>3. PushStep(p, r)
      BY <2>1 DEF IndexRead
    <3>4. QED BY <3>2, <3>3
  <2>2. CASE IndexPut(p, answered)
    <3> DEFINE r == [push[p] EXCEPT !.pc = "next", !.game = "none", !.base = NoPush.base]
    <3>1. NoPush.base \in [Games -> Nat]
      BY NoPushType DEF PushRecord
    <3>2. r \in PushRecord /\ r.pc = "next" /\ r.apps = push[p].apps
      BY <1>0, <1>2, <3>1 DEF PushRecord, Active
    <3>3. PushStep(p, r)
      BY <2>2 DEF IndexPut
    <3>4. QED BY <3>2, <3>3
  <2>3. QED BY <2>1, <2>2
<1>9. r.pc \in Active /\ (r.pc \in OnGame => r.game = g)
  BY <1>8 DEF Active, OnGame
<1>10. Kept(g)' => Kept(g)
  BY <1>4 DEF Kept
<1>11. QED BY <1>0, <1>1, <1>2, <1>4, <1>6, <1>7, <1>8, <1>9, <1>10, GameWhole

LEMMA EndsWhole == ASSUME IInv, WholeInv, NEW p \in Pushers, PushEnds(p) PROVE WholeInv'
<1>1. push[p].pc \in Active /\ UNCHANGED <<disk, s3, index, restored, pull, laptop>>
  BY DEF PushEnds, Active, archiveVars
<1>2. lock = p
  BY <1>1, WhileActive
<1>3. ASSUME NEW q \in Pushers PROVE push'[q].pc \notin Active
  <2>1. q # p => push[q].pc \notin Active
    BY <1>2, OthersRest
  <2>2. push \in [Pushers -> PushRecord]
    BY DEF IInv, Types
  <2>3. CASE p = "stop"
    <3> DEFINE done == [NoPush EXCEPT !.pc = "done", !.withheld = push[p].withheld]
               due  == [push["unit"] EXCEPT !.pc = IF @ = "off" THEN "due" ELSE @]
    <3>1. push' = [push EXCEPT !["stop"] = done, !["unit"] = due]
      BY <2>2, <2>3 DEF PushEnds, Pushers
    <3>2. done.pc = "done" /\ due.pc \in {"due", push["unit"].pc}
      BY <2>2, NoPushType DEF PushRecord, Pushers
    <3> HIDE DEF done, due
    <3>3. push'["stop"] = done /\ push'["unit"] = due
      BY <2>2, <3>1 DEF Pushers
    <3>4. push["unit"].pc \notin Active
      BY <1>2, <2>3, OthersRest DEF Pushers
    <3>5. QED BY <3>2, <3>3, <3>4 DEF Pushers, Active
  <2>4. CASE p = "unit"
    <3> DEFINE done == [NoPush EXCEPT !.pc = "done", !.withheld = push[p].withheld]
    <3>1. push' = [push EXCEPT !["unit"] = done]
      BY <2>4 DEF PushEnds
    <3>2. done.pc = "done"
      BY NoPushType DEF PushRecord
    <3> HIDE DEF done
    <3>3. QED BY <2>1, <2>2, <2>4, <3>1, <3>2 DEF Pushers, Active
  <2>5. QED BY <2>3, <2>4 DEF Pushers
<1>4. Seen'
  BY <1>3 DEF Seen
<1>5. Pulls' /\ Deleted'
  BY <1>1 DEF WholeInv, Pulls, Deleted
<1>6. \A g \in Games : Kept(g)' => Kept(g) /\ (index[g] > 0 => index'[g] > 0)
  BY <1>1 DEF Kept
<1>7. QED BY <1>1, <1>4, <1>5, <1>6, BesideDrive DEF WholeInv, Pulls

\* The box goes down, and comes up with its drive or without.
LEMMA BootWhole ==
  ASSUME IInv, WholeInv, NEW copies, copies = disk \/ copies = Gone, Boot(copies)
  PROVE  WholeInv'
<1>1. /\ disk' = copies /\ ~restored' /\ pull' = [NoPull EXCEPT !.pc = "due"]
      /\ push' = [p \in Pushers |-> NoPush] /\ UNCHANGED <<s3, index, laptop>>
  BY DEF Boot, Marker, archiveVars
<1>2. Pulls' /\ pull'.pc = "due"
  BY <1>1 DEF Pulls, NoPull
<1>3. Seen'
  BY <1>1, NoPushType DEF Seen, NoPush, Active
<1>4. \A g \in Games : Torn(g)' => Torn(g)
  BY <1>1 DEF Torn, Gone, NoCopy
<1>5. QED BY <1>1, <1>2, <1>3, <1>4
          DEF WholeInv, Fetching, Restoring, Deleted, FromArchive, Noticed, Kept

LEMMA BoxWhole ==
  ASSUME IInv, WholeInv, UnitRefused \/ Terminated \/ PushKilled \/ StoppedAndStarted \/ Reset \/ Taken
  PROVE  WholeInv'
<1>1. ASSUME NEW q \in Pushers, NEW r, push' = [push EXCEPT ![q] = r], r.pc \notin Active,
             UNCHANGED <<disk, s3, index, restored, laptop>>, Pulls', pull'.skipped = pull.skipped,
             pull' = pull \/ pull'.pc = "off"
      PROVE  WholeInv'
  <2>1. push \in [Pushers -> PushRecord]
    BY DEF IInv, Types
  <2>2. \A p \in Pushers : push'[p] = push[p] \/ push'[p].pc \notin Active
    BY <1>1, <2>1
  <2>3. Seen'
    BY <1>1, <2>2 DEF WholeInv, Seen
  <2>4. Deleted'
    BY <1>1 DEF WholeInv, Deleted
  <2>5. \A g \in Games : Kept(g)' => Kept(g) /\ (index[g] > 0 => index'[g] > 0)
    BY <1>1 DEF Kept
  <2>6. QED BY <1>1, <2>3, <2>4, <2>5, BesideDrive
<1>2. CASE UnitRefused
  <2> DEFINE r == [NoPush EXCEPT !.pc = "done"]
  <2>1. r.pc = "done"
    BY DEF NoPush
  <2>2. /\ push' = [push EXCEPT !["unit"] = r] /\ UNCHANGED <<disk, s3, index, restored, laptop, pull>>
    BY <1>2 DEF UnitRefused, PushStep, archiveVars
  <2> HIDE DEF r
  <2>3. QED BY <1>1, <2>1, <2>2 DEF Pushers, Active, WholeInv, Pulls
<1>3. CASE Terminated
  <2>1. PICK pc \in {"due", "done"} : push' = [push EXCEPT !["unit"].pc = pc]
    BY <1>3 DEF Terminated
  <2>2. PICK r : r = [push["unit"] EXCEPT !.pc = pc]
    OBVIOUS
  <2>3. push' = [push EXCEPT !["unit"] = r] /\ r.pc \notin Active
    BY <2>1, <2>2 DEF IInv, Types, PushRecord, Pushers, Active
  <2>4. pull' = [NoPull EXCEPT !.skipped = pull.skipped] /\ UNCHANGED <<disk, s3, index, restored, laptop>>
    BY <1>3 DEF Terminated, archiveVars
  <2>5. Pulls' /\ pull'.pc = "off" /\ pull'.skipped = pull.skipped
    BY <2>4 DEF Pulls, NoPull
  <2>6. QED BY <1>1, <2>3, <2>4, <2>5 DEF Pushers
<1>4. CASE PushKilled
  <2>1. push' = [push EXCEPT !["stop"] = NoPush] /\ UNCHANGED <<disk, s3, index, restored, laptop, pull>>
    BY <1>4 DEF PushKilled, archiveVars
  <2>2. NoPush.pc \notin Active
    BY DEF NoPush, Active
  <2>3. QED BY <1>1, <2>1, <2>2 DEF Pushers, WholeInv, Pulls
<1>5. CASE StoppedAndStarted \/ Reset \/ Taken
  BY <1>5, BootWhole DEF StoppedAndStarted, Reset, Taken
<1>6. QED BY <1>2, <1>3, <1>4, <1>5

\* A forget deletes a whole copy, or less than all of it, and the entry last.
LEMMA LaptopWhole ==
  ASSUME Calm, IInv, WholeInv,
         \/ \E g \in Games : ForgetAsks(g)
         \/ ForgetDeletes \/ ForgetLeft
         \/ \E answered \in BOOLEAN : ForgetWrites(answered)
  PROVE  WholeInv'
<1>0. UNCHANGED <<disk, restored, pull, push>> /\ Pulls' /\ Seen'
  BY DEF ForgetAsks, ForgetDeletes, ForgetLeft, ForgetWrites, archiveVars, WholeInv, Pulls, Seen
<1>1. ~Restoring
  <2>1. laptop.pc # "off" => ~Restoring
    BY DEF WholeInv, Fetching
  <2>2. (\E g \in Games : ForgetAsks(g)) => ~Restoring
    BY DEF ForgetAsks, Quiet, Calm, Restoring
  <2>3. QED BY <2>1, <2>2 DEF ForgetDeletes, ForgetLeft, ForgetWrites
<1>2. s3 \in [Games -> Copy] /\ index \in [Games -> Nat]
  BY DEF IInv, Types
<1>3. ASSUME Deleted', \A h \in Games : Kept(h)' => Kept(h) /\ (index[h] > 0 => index'[h] > 0)
      PROVE  WholeInv'
  BY <1>0, <1>1, <1>3, BesideDrive DEF WholeInv, Pulls
<1>4. ASSUME NEW g \in Games, ForgetAsks(g) PROVE WholeInv'
  <2>1. UNCHANGED <<s3, index>> /\ laptop'.pc = "asked" /\ laptop'.game = g
    BY <1>4 DEF ForgetAsks, archiveVars
  <2>2. QED BY <1>3, <2>1 DEF Deleted, Kept
<1>5. CASE ForgetLeft
  <2>1. UNCHANGED <<s3, index>> /\ laptop'.pc = "off"
    BY <1>5 DEF ForgetLeft, NoForget, archiveVars
  <2>2. QED BY <1>3, <2>1 DEF Deleted, Kept
<1>6. CASE ForgetDeletes
  <2>1. PICK g \in Games : g = laptop.game
    BY <1>6 DEF ForgetDeletes, WholeInv, Deleted
  <2>2. PICK left : /\ s3' = [s3 EXCEPT ![g] = left]
                    /\ \/ left = NoCopy /\ laptop' = [laptop EXCEPT !.pc = "deleted"]
                       \/ left \in Refused(s3[g]) /\ laptop' = NoForget
    <3>1. CASE s3' = [s3 EXCEPT ![laptop.game] = NoCopy] /\ laptop' = [laptop EXCEPT !.pc = "deleted"]
      BY <2>1, <3>1
    <3>2. CASE /\ \E left \in Refused(s3[laptop.game]) : s3' = [s3 EXCEPT ![laptop.game] = left]
               /\ laptop' = NoForget
      BY <2>1, <3>2
    <3>3. QED BY <1>6, <3>1, <3>2 DEF ForgetDeletes
  <2>3. left.files \in {"none", s3[g].files} /\ left.man \in {"none", s3[g].man}
    <3>1. \A copy : \A l \in Refused(copy) : l.files \in {"none", copy.files} /\ l.man \in {"none", copy.man}
      BY DEF Refused
    <3>2. NoCopy.files = "none" /\ NoCopy.man = "none"
      BY DEF NoCopy
    <3>3. QED BY <2>2, <3>1, <3>2
  <2>4. s3'[g] = left /\ \A h \in Games : h # g => s3'[h] = s3[h]
    BY <1>2, <2>2
  <2>5. laptop'.pc # "off" => left.files = "none" /\ laptop'.game = g
    BY <2>1, <2>2 DEF NoForget, NoCopy, IInv, Types
  <2>6. Deleted'
    BY <2>4, <2>5 DEF Deleted
  <2>7. UNCHANGED index
    BY <1>6 DEF ForgetDeletes
  <2>8. ASSUME NEW h \in Games, Kept(h)' PROVE Kept(h)
    BY <2>3, <2>4, <2>8 DEF Kept
  <2>9. QED BY <1>3, <2>6, <2>7, <2>8
<1>7. ASSUME NEW answered \in BOOLEAN, ForgetWrites(answered) PROVE WholeInv'
  <2>1. PICK g \in Games : g = laptop.game
    BY <1>7 DEF ForgetWrites, WholeInv, Deleted
  <2>2. s3[g].files = "none" /\ laptop.apps = index
    BY <1>7, <2>1 DEF ForgetWrites, WholeInv, Deleted, IInv, Rest, Listed
  <2>3. UNCHANGED s3 /\ laptop'.pc = "off" /\ (index' = index \/ index' = [index EXCEPT ![g] = 0])
    BY <1>7, <2>1, <2>2 DEF ForgetWrites, NoForget
  <2>4. Deleted'
    BY <2>3 DEF Deleted
  <2>5. \A h \in Games : h # g => index'[h] = index[h]
    BY <1>2, <2>3
  <2>6. ASSUME NEW h \in Games, Kept(h)' PROVE Kept(h) /\ index'[h] = index[h]
    BY <2>2, <2>3, <2>5, <2>6 DEF Kept
  <2>7. QED BY <1>3, <2>4, <2>6
<1>8. QED BY <1>4, <1>5, <1>6, <1>7

LEMMA WholeInductive == ASSUME Noticing, IInv, WholeInv, [Next]_vars PROVE WholeInv'
<1>0. Calm
  BY DEF Noticing
<1>1. ASSUME NEW g \in Games, SteamFetches(g) \/ SteamFinishes(g) \/ Played(g) \/ Uninstalled(g)
      PROVE WholeInv'
  BY <1>0, <1>1, SteamWhole
<1>2. ASSUME \/ \E answered \in BOOLEAN : PullStarts(answered)
             \/ \E g \in Games : GameSkipped(g) \/ GameAbsent(g) \/ GameStarts(g)
             \/ \E clean, linksRead \in BOOLEAN : GameEnds(clean, linksRead)
             \/ PullEnds
      PROVE WholeInv'
  BY <1>0, <1>2, StartsWhole, LeavesWhole, FetchesWhole, LandsWhole, MarksWhole
<1>3. ASSUME NEW p \in Pushers,
             \/ \E force \in Forces : PushStarts(p, force)
             \/ \E g \in Games : GamePassedOver(p, g) \/ GamePushed(p, g)
             \/ \E clean, recorded \in BOOLEAN : GameSynced(p, clean, recorded)
             \/ ManifestPut(p) \/ ManifestWithheld(p)
             \/ \E answered \in BOOLEAN : IndexRead(p, answered) \/ IndexPut(p, answered)
             \/ PushEnds(p)
      PROVE WholeInv'
  BY <1>0, <1>3, StartWhole, TurnWhole, SyncWhole, ManifestWhole, IndexWhole, EndsWhole
<1>4. CASE UnitRefused \/ Terminated \/ PushKilled \/ StoppedAndStarted \/ Reset \/ Taken
  BY <1>4, BoxWhole
<1>5. ASSUME \/ \E g \in Games : ForgetAsks(g)
             \/ ForgetDeletes \/ ForgetLeft
             \/ \E answered \in BOOLEAN : ForgetWrites(answered)
      PROVE WholeInv'
  BY <1>0, <1>5, LaptopWhole
<1>6. CASE UNCHANGED vars
  BY <1>6 DEF vars, archiveVars, procVars, WholeInv, Pulls, Seen, Fetching, Deleted, FromArchive, Noticed,
              Restoring, Torn, Kept
<1>7. QED BY <1>1, <1>2, <1>3, <1>4, <1>5, <1>6 DEF Next
\* Beside a forget, only a push that is on a game changes its archived files.
LEMMA ByAPush ==
  ASSUME IInv, [Next]_vars, NEW g \in Games, s3'[g].files # s3[g].files, laptop.game # g
  PROVE  \E p \in Pushers : \/ push[p].pc = "next" /\ push[p].apps[g] = "whole"
                            \/ push[p].pc = "sync" /\ push[p].game = g
<1>0. s3 \in [Games -> Copy] /\ s3' # s3
  BY DEF IInv, Types
<1>1. ASSUME NEW p \in Pushers, NEW h \in Games, GamePushed(p, h)
      PROVE  push[p].pc = "next" /\ push[p].apps[g] = "whole"
  <2>1. PICK copy : s3' = [s3 EXCEPT ![h] = copy]
    BY <1>1 DEF GamePushed, GameOpens
  <2>2. h = g
    BY <1>0, <2>1
  <2>3. QED BY <1>1, <2>2 DEF GamePushed, GameOpens, Turn, Whole
<1>2. ASSUME NEW p \in Pushers, NEW clean \in BOOLEAN, NEW recorded \in BOOLEAN, GameSynced(p, clean, recorded)
      PROVE  push[p].pc = "sync" /\ push[p].game = g
  <2>1. PICK h : h = push[p].game
    OBVIOUS
  <2>2. PICK copy : s3' = [s3 EXCEPT ![h] = copy]
    BY <1>2, <2>1 DEF GameSynced
  <2>3. h = g
    BY <1>0, <2>2
  <2>4. QED BY <1>2, <2>1, <2>3 DEF GameSynced
<1>3. ASSUME NEW p \in Pushers, ManifestPut(p) \/ ManifestWithheld(p) PROVE FALSE
  <2>1. PICK h : h = push[p].game
    OBVIOUS
  <2>2. PICK man : s3' = [s3 EXCEPT ![h].man = man]
    BY <1>3, <2>1 DEF ManifestPut, ManifestWithheld
  <2>3. s3'[g].files = s3[g].files
    BY <1>0, <2>2, CopyIs
  <2>4. QED BY <2>3
<1>4. ASSUME ForgetDeletes PROVE FALSE
  <2>1. PICK h : h = laptop.game
    OBVIOUS
  <2>2. PICK left : s3' = [s3 EXCEPT ![h] = left]
    BY <1>4, <2>1 DEF ForgetDeletes
  <2>3. QED BY <1>0, <2>1, <2>2
<1>5. ASSUME NEW p \in Pushers,
             \/ \E force \in Forces : PushStarts(p, force)
             \/ \E h \in Games : GamePassedOver(p, h)
             \/ \E answered \in BOOLEAN : IndexRead(p, answered) \/ IndexPut(p, answered)
             \/ PushEnds(p)
      PROVE  FALSE
  BY <1>0, <1>5, Zenon DEF PushStarts, GamePassedOver, IndexRead, IndexPut, PushEnds, archiveVars
<1>6. ASSUME \/ \E h \in Games : SteamFetches(h) \/ SteamFinishes(h) \/ Played(h) \/ Uninstalled(h)
             \/ \E answered \in BOOLEAN : PullStarts(answered)
             \/ \E h \in Games : GameSkipped(h) \/ GameAbsent(h) \/ GameStarts(h)
             \/ \E clean, linksRead \in BOOLEAN : GameEnds(clean, linksRead)
             \/ PullEnds
      PROVE  FALSE
  BY <1>0, <1>6, Zenon DEF SteamFetches, SteamFinishes, Played, Uninstalled, Steam, PullStarts, GameSkipped,
     GameAbsent, GameStarts, GameEnds, PullEnds, Stepped, archiveVars
<1>7. ASSUME \/ UnitRefused \/ Terminated \/ PushKilled \/ StoppedAndStarted \/ Reset \/ Taken
             \/ \E h \in Games : ForgetAsks(h)
             \/ \E answered \in BOOLEAN : ForgetWrites(answered)
             \/ ForgetLeft \/ UNCHANGED vars
      PROVE  FALSE
  BY <1>0, <1>7, Zenon DEF UnitRefused, Terminated, PushKilled, StoppedAndStarted, Reset, Taken, Boot,
     ForgetAsks, ForgetWrites, ForgetLeft, archiveVars, vars
<1>8. QED BY <1>1, <1>2, <1>3, <1>4, <1>5, <1>6, <1>7, Zenon DEF Next

LEMMA OverOnlySkipped ==
  ASSUME IInv, WholeInv, [Next]_vars, NEW g \in Games, OverWhole(g)
  PROVE  g \in pull.skipped
<1>1. Kept(g) /\ s3'[g].files # s3[g].files /\ laptop.game # g /\ disk[g].files # "whole"
  BY DEF OverWhole, Kept
<1>2. PICK p \in Pushers : \/ push[p].pc = "next" /\ push[p].apps[g] = "whole"
                           \/ push[p].pc = "sync" /\ push[p].game = g
  BY <1>1, ByAPush, Zenon
<1>3. push[p].pc \in Active
  BY <1>2 DEF Active
<1>4. restored
  BY <1>3, WhileActive
<1>5. disk[g].man = "whole"
  BY <1>2, <1>3 DEF WholeInv, Seen, OnGame
<1>6. QED BY <1>1, <1>4, <1>5 DEF WholeInv, Noticed, Torn

\* PartialNeverOverWhole: no cut-off, failure, reset or boot lets a push put a
\* partial game over a whole one in the archive, but for a game that this boot's
\* restore left for want of room.  It needs that the archive answers for its
\* manifests, and that a sync which fails leaves the game visibly short.
THEOREM PartialsStayHere == ASSUME Noticing PROVE Spec => PartialNeverOverWhole
<1>1. Calm
  BY DEF Noticing
<1>2. Spec => []IInv
  BY <1>1, Invariant
<1>3. IInv /\ WholeInv /\ [Next]_vars => WholeInv'
  BY WholeInductive
<1>4. IInv /\ WholeInv /\ [Next]_vars => [\A g \in Games : OverWhole(g) => g \in pull.skipped]_vars
  BY OverOnlySkipped
<1>5. QED BY <1>2, <1>3, <1>4, InitWhole, PTL DEF Spec, PartialNeverOverWhole
=============================================================================
