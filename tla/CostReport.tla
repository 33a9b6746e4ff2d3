------------------------------ MODULE CostReport ------------------------------
(***************************************************************************)
(* `cg cost`: what cg has in the region is read one AWS answer after the      *)
(* other, while the watchdog, the box and other cg commands go on changing    *)
(* it; each read may fail alone.  From what was read come the estimate of     *)
(* what is not billed yet, what bills with no box at all (--json), the line    *)
(* that says the region is empty, and what cg has in other regions.           *)
(* A fact is the set of what it is known to be: {} when it could not be read. *)
(* (internal/costfacts, internal/commands/cost, internal/storage)            *)
(***************************************************************************)
EXTENDS Naturals, Sequences, FiniteSets, SequencesExt, Functions

CONSTANTS MaxMoves, MaxFails    \* of the account during a report, and of its reads

ASSUME CostAssumption == MaxMoves \in Nat /\ MaxFails \in Nat

VARIABLES box,       \* the machine named for cg: "none", "here" or "leaving" (shutting down)
          there,     \* what exists of the things below
          attached,  \* ... the disks that are on the machine
          tagged,    \* ... the things that carry cg's tag; the others have cg's name only
          stayed, ever,   \* what billed all along, and at any time, while the report was read
          todo,      \* the reads still to come
          saw,       \* what each read found, or that it failed
          moves, fails,
          elsewhere  \* another region: what is there, and which reads of it failed

costVars == <<box, there, attached, tagged, stayed, ever, todo, saw, moves, fails, elsewhere>>

Disks == {"root", "legacy"}                  \* the box's, and the old games disk
SnapshotsOf == {"backing", "loose"}          \* behind the saved image, and by themselves
Billing == Disks \cup SnapshotsOf \cup {"address", "games"}
Things == Billing \cup {"box", "image", "budget"}

(* So big, in GB or hours, that no two sums of them are the same.            *)
Size(x) == CASE x = "root" -> 1 [] x = "legacy" -> 2 [] x = "backing" -> 4
             [] x = "loose" -> 8 [] x = "address" -> 16 [] x = "games" -> 32
SizeOf(things) == SumFunction([x \in things |-> Size(x)])

(* cg's as it counts: a shutting-down box takes its own disk along, and the   *)
(* old disk still on it is looked for again only when it is free.            *)
Counts(x, b, on) == ~(b = "leaving" /\ x \in on \cup {"box"})
ToRead == <<"account", "instance", "attached", "by tag", "by name", "images", "snapshots",
           "addresses", "budget", "hours", "bucket">>
Unread == {"?"}
NotSeen == [r \in Range(ToRead) |-> Unread]
NoRegion == [has |-> {}, asked |-> FALSE, failed |-> {}]

Worlds ==
  { w \in [box : {"none", "here", "leaving"}, there : SUBSET Things, attached : SUBSET {"root", "legacy"}] :
      /\ ("box" \in w.there <=> w.box # "none")
      /\ (w.box = "none" => w.attached = {})
      /\ (w.box # "none" <=> "root" \in w.there) /\ ("root" \in w.there => "root" \in w.attached)
      /\ w.attached \subseteq w.there
      /\ ("backing" \in w.there <=> "image" \in w.there) /\ "loose" \notin w.there }

CostInit ==
  /\ \E w \in Worlds :
       /\ box = w.box /\ there = w.there /\ attached = w.attached
       /\ stayed = { x \in w.there : Counts(x, w.box, w.attached) } /\ ever = w.there
  /\ \E named \in SUBSET {"legacy", "backing"} : tagged = Things \ named
  /\ todo = ToRead /\ saw = NotSeen /\ moves = 0 /\ fails = 0 /\ elsewhere = NoRegion
NoCost ==
  /\ box = "none" /\ there = {} /\ attached = {} /\ tagged = {} /\ stayed = {} /\ ever = {}
  /\ todo = <<>> /\ saw = NotSeen /\ moves = 0 /\ fails = 0 /\ elsewhere = NoRegion

-----------------------------------------------------------------------------
(* What others do meanwhile: the machine is ended, its disk goes with it and   *)
(* the old one comes free; another cg launches (one machine in a report),     *)
(* saves or removes something.                                               *)
Turns(b, things, on) ==
  /\ todo # <<>> /\ moves < MaxMoves /\ moves' = moves + 1
  /\ box' = b /\ there' = things /\ attached' = on
  /\ stayed' = stayed \cap { x \in things : Counts(x, b, on) }
  /\ ever' = ever \cup things
  /\ UNCHANGED <<tagged, todo, saw, fails, elsewhere>>

BoxEnds == box = "here" /\ Turns("leaving", there, attached)
BoxIsGone == box # "none" /\ Turns("none", there \ {"box", "root"}, {})
BoxComes == "box" \notin ever /\ Turns("here", there \cup {"box", "root"}, {"root"})
ThingGoes ==
  \E x \in there \ (attached \cup {"box", "backing"}) :
    Turns(box, there \ (IF x = "image" THEN {"image", "backing"} ELSE {x}), attached)
ThingComes ==
  \E x \in {"loose", "address", "games", "budget"} \ there : Turns(box, there \cup {x}, attached)
Moves == BoxEnds \/ BoxIsGone \/ BoxComes \/ ThingGoes \/ ThingComes

-----------------------------------------------------------------------------
(* What each read finds: the machine in any state but shutting down, the      *)
(* disks on it, the free ones by tag and by name, the images with their       *)
(* snapshots, the snapshots that carry the tag.                              *)
Free == (there \cap Disks) \ attached
Instance == IF box = "here" THEN {"box"} ELSE {}
AttachedTo(machine) == IF machine = {} \/ box = "none" THEN {} ELSE attached
Found(r) == CASE r = "instance"  -> Instance
              [] r = "attached"  -> AttachedTo(saw["instance"])
              [] r = "by tag"    -> Free \cap tagged
              [] r = "by name"   -> Free \cap {"legacy"}
              [] r = "images"    -> there \cap {"image", "backing"}
              [] r = "snapshots" -> there \cap SnapshotsOf \cap tagged
              [] r = "addresses" -> there \cap {"address"}
              [] r = "budget"    -> there \cap {"budget"}
              [] r = "bucket"    -> there \cap {"games"}
              [] OTHER           -> {}

NextRead == Head(todo)

(* Gather: a read that fails leaves its own fact unknown and the next is made *)
(* all the same; only the account itself stops it, with AWS's refusal.        *)
ReadsOne ==
  /\ todo # <<>>
  /\ saw' = [saw EXCEPT ![NextRead] = Found(NextRead)]
  /\ todo' = Tail(todo)
  /\ UNCHANGED <<box, there, attached, tagged, stayed, ever, moves, fails, elsewhere>>

ReadFails_isNone ==
  /\ todo # <<>> /\ fails < MaxFails /\ fails' = fails + 1
  /\ saw' = [saw EXCEPT ![NextRead] = IF NextRead = "account" THEN @ ELSE {}]
  /\ todo' = IF NextRead = "account" THEN <<>> ELSE Tail(todo)
  /\ UNCHANGED <<box, there, attached, tagged, stayed, ever, moves, elsewhere>>
ReadFails ==
  /\ todo # <<>> /\ fails < MaxFails /\ fails' = fails + 1
  /\ todo' = IF NextRead = "account" THEN <<>> ELSE Tail(todo)
  /\ UNCHANGED <<box, there, attached, tagged, stayed, ever, saw, moves, elsewhere>>

Gathered == todo = <<>> /\ saw["account"] # Unread

(* otherRegions: the list of regions (without it, only this one), every       *)
(* region's disks and images, the buckets, where each bucket is and what it    *)
(* holds.  Each of these reads may fail, and the rest goes on without it.     *)
LooksElsewhere ==
  /\ todo = <<>> /\ ~elsewhere.asked
  /\ \E has \in SUBSET {"disks", "bucket", "games"},
        failed \in SUBSET {"regions", "disks", "buckets", "location", "listing"} :
       /\ "games" \in has => "bucket" \in has
       /\ elsewhere' = [has |-> has, asked |-> TRUE, failed |-> failed]
  /\ UNCHANGED <<box, there, attached, tagged, stayed, ever, todo, saw, moves, fails>>

CostNext == Moves \/ ReadsOne \/ ReadFails

-----------------------------------------------------------------------------
Was(r) == saw[r] # Unread
List(things) == SetToSeq(things)

(* DiskGB and SnapshotGB: the lists that were read, each disk and each        *)
(* snapshot counted once though two reads found it.                          *)
Volumes == IF Was("instance") /\ (saw["instance"] = {} \/ Was("attached")) /\ Was("by tag") /\ Was("by name")
           THEN {List(IF saw["instance"] = {} THEN {} ELSE saw["attached"])
                   \o List(saw["by tag"]) \o List(saw["by name"])}
           ELSE {}
Snapshots == IF Was("images") /\ Was("snapshots")
             THEN {List(saw["images"] \ {"image"}) \o List(saw["snapshots"])}
             ELSE {}
GB(list) == SizeOf(Range(list))
DiskGB == { GB(v) : v \in Volumes }
SnapshotGB == { GB(s) : s \in Snapshots }

(* monthly: none costs nothing, whatever the price; some of an unknown price   *)
(* is unknown.  `priced` is what pricing.Load could tell.                     *)
Monthly(qty, price, priced) == { n \in qty : n = 0 \/ price \in priced }

Together(parts) ==
  IF \E i \in DOMAIN parts : parts[i] = {} THEN {}
  ELSE {SumFunction([i \in DOMAIN parts |-> CHOOSE n \in parts[i] : TRUE])}

(* What bills with no box at all: the archive, disks, snapshots, addresses.   *)
Amount(r) == IF Was(r) THEN {SizeOf(saw[r])} ELSE {}
Standby(priced) == Together(<<Monthly(Amount("bucket"), "s3", priced), Monthly(DiskGB, "disk", priced),
                              Monthly(SnapshotGB, "snapshot", priced), Monthly(Amount("addresses"), "address", priced)>>)

(* The estimate: the hours at the machine's price and its address's, the      *)
(* disks, the snapshots; the hours themselves are left at 0.                  *)
Compute(priced) == IF Was("hours") /\ {"machine", "address"} \subseteq priced THEN {0} ELSE {}
Estimate(priced) == Together(<<Compute(priced), Monthly(DiskGB, "disk", priced), Monthly(SnapshotGB, "snapshot", priced)>>)

SaysEmpty == saw["instance"] = {} /\ DiskGB = {0} /\ SnapshotGB = {0} /\ saw["images"] = {}
WarnsNoBudget == saw["budget"] = {}

(* OtherRegions: a row for what was found - for a bucket whose listing failed   *)
(* too, as 0.0 GB of saved games; "could not be read" for a region's disks,   *)
(* and for the buckets when there is no row; "nothing of cg's" otherwise.     *)
FarRows ==
  { x \in {"disks"} : x \in elsewhere.has /\ {"disks", "regions"} \cap elsewhere.failed = {} }
  \cup { x \in {"games"} : /\ "bucket" \in elsewhere.has /\ {"buckets", "location"} \cap elsewhere.failed = {}
                           /\ x \in elsewhere.has \/ "listing" \in elsewhere.failed }
FarGB == IF "listing" \in elsewhere.failed THEN 0 ELSE Size("games")
SaidUnread == elsewhere.failed \cap (IF FarRows = {} THEN {"disks", "buckets"} ELSE {"disks"})
NothingElsewhere == elsewhere.asked /\ FarRows = {} /\ SaidUnread = {}

-----------------------------------------------------------------------------
AllPrices == {"s3", "disk", "snapshot", "address", "machine"}

(* A sum is that of things there were: all that stayed, none that never was.  *)
IsOf(sum, kinds) ==
  \E S \in SUBSET (ever \cap kinds) : (stayed \cap kinds) \subseteq S /\ SizeOf(S) = sum

(***************************************************************************)
(* What `cg cost` says of money is whole or unknown.  Whatever changes, fails  *)
(* or has no price while it reads: a total it gives counts everything of cg's  *)
(* that billed all along exactly once, and nothing that never was; it says a   *)
(* region is empty, or that there is no budget, only when nothing was there    *)
(* all along; and "nothing of cg's" in other regions, or no GB of saved games,  *)
(* only when that is so.  (Exempt: a failed list of regions, a bucket whose     *)
(* place or contents could not be read - see FailedReadIsSaid - and the old     *)
(* disk while it is on a box that is shutting down - see Counts.)              *)
(***************************************************************************)
WholeOrUnknown ==
  /\ NothingElsewhere => \/ elsewhere.has \cap {"disks", "games"} = {}
                         \/ elsewhere.failed \cap {"regions", "location"} # {}
  /\ "games" \in FarRows /\ FarGB = 0 => "games" \notin elsewhere.has \/ "listing" \in elsewhere.failed
  /\ Gathered =>
    /\ \A priced \in {AllPrices} \cup { AllPrices \ {p} : p \in AllPrices } :
         /\ \A sum \in Standby(priced) : IsOf(sum, Billing)
         /\ \A sum \in Estimate(priced) : IsOf(sum, Disks \cup SnapshotsOf)
    /\ SaysEmpty => stayed \cap (Disks \cup SnapshotsOf \cup {"box", "image"}) = {}
    /\ WarnsNoBudget => "budget" \notin stayed

(***************************************************************************)
(* commands/cost/elsewhere.go:17: "A read that failed is said, never 'nothing *)
(* of cg's'".  Of other regions that is so for the disks of a region alone:   *)
(* nothing is said of a list of regions that failed (run.go:162-168), of a    *)
(* bucket whose region could not be read (library/elsewhere.go:64-67), of the  *)
(* buckets themselves when there is a row (elsewhere.go:83-99), and a bucket   *)
(* that could not be listed is shown as 0.0 GB (elsewhere.go:31-46).          *)
(***************************************************************************)
FailedReadIsSaid == elsewhere.asked => elsewhere.failed \subseteq SaidUnread

(***************************************************************************)
(* commands/cost/estimate.go:3-4: "an unreadable fact is "?" or null, never  *)
(* zero".  The saved games of a bucket elsewhere that could not be listed are  *)
(* 0.0 GB, whatever there is of them.                                         *)
(***************************************************************************)
UnreadIsNeverZero == elsewhere.asked /\ "games" \in FarRows \cap elsewhere.has => FarGB # 0
=============================================================================
