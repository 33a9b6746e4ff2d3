------------------------------- MODULE GamePlan -------------------------------
(***************************************************************************)
(* Which games a new box restores, and where they go: `cg init` asks before  *)
(* anything launches, sizes the disk that is added for what the machine's   *)
(* own drive does not hold, and tells the box the list; the box restores    *)
(* what there is room for where the list says, by what it measures.  Sizes  *)
(* are in steps of half the 10 GB a disk is rounded up to.                  *)
(* (internal/commands/initcmd/{choose,new,init}.go,                         *)
(* internal/provision/{placement,gamedisk}.go, host/cg-library)             *)
(***************************************************************************)
EXTENDS Naturals, FiniteSets, FiniteSetsExt, Folds, Functions

CONSTANTS Games, MaxSize,
          Drives,        \* how big the machine's own drive may be; 0 is none
          Asks,          \* the sizes of a disk somebody may have asked for; 0 is none
          Reserve, Step, MaxDisk,
          FormatLoss     \* what a file system takes of a disk it is made on

ASSUME SizesAssumption ==
  /\ IsFiniteSet(Games) /\ MaxSize \in Nat
  /\ Drives \subseteq Nat /\ Drives # {} /\ IsFiniteSet(Drives) /\ Asks \subseteq Nat
  /\ Reserve \in Nat /\ Step \in Nat \ {0} /\ MaxDisk \in Nat /\ FormatLoss \in Nat

VARIABLES archive,   \* each game's size in the archive, 0 when it is not there
          bucket,    \* .env names one; it is there; its index can be parsed
          drive,     \* the machine's own drive
          measured,  \* ... and cg status once measured one of this type
          apps,      \* GAME_APPS of .env
          plan       \* what this `cg init` settled

planVars == <<archive, bucket, drive, measured, apps, plan>>

(* GAME_APPS: nothing yet, every game, or the ids chosen ("none" for none).  *)
Unset == "unset"
All   == "all"
Is(word) == apps = {word}

ASSUME WordsAssumption == Unset \notin Games /\ All \notin Games   \* an id is a number

InArchive == { g \in Games : archive[g] > 0 }
Listed == IF bucket.whole THEN InArchive ELSE {}   \* an index that does not parse holds none

NoPlan == [at |-> "none", asks |-> "no", promised |-> {}, known |-> FALSE,
           data |-> 0, extra |-> {}, byHand |-> FALSE, written |-> FALSE, box |-> {}]

AnyBucket == { b \in [known : BOOLEAN, there : BOOLEAN, whole : BOOLEAN] : b.whole \/ b.there }
AnyArchive == { a \in [Games -> 0..MaxSize] : ~bucket.there => a = [g \in Games |-> 0] }
AnyApps == {{Unset}, {All}} \cup SUBSET Games

At(step) == plan.at = step
Goes(step) == plan' = [plan EXCEPT !.at = step]

-----------------------------------------------------------------------------
(* The machine's own drive as storeGB has it: measured by the box of the     *)
(* last time, or as AWS sells it; less what is kept free.                    *)
Room(disk) == IF disk > Reserve THEN disk - Reserve ELSE 0
SeenOnABox == measured /\ drive > FormatLoss
Own == IF SeenOnABox THEN drive - FormatLoss ELSE drive

(* PlaceGames: the largest first, on the drive while it still fits there;    *)
(* what is left over goes on the disk that is added.  (A fold begins with     *)
(* what it would pick last.)                                                 *)
Placed(sizes, games, room) ==
  LET smallest(rest) == CHOOSE g \in rest : \A h \in rest : sizes[g] <= sizes[h]
      put(g, so_far) ==
        IF sizes[g] <= so_far.left
        THEN [so_far EXCEPT !.left = @ - sizes[g]]
        ELSE [so_far EXCEPT !.extra = @ \cup {g}]
  IN MapThenFoldSet(put, [left |-> room, extra |-> {}], LAMBDA g : g, smallest, games).extra
LeftOver(games, room) == Placed(archive, games, room)

Size(games) == SumFunction([g \in games |-> archive[g]])
RoundedUp(n) == ((n + Step - 1) \div Step) * Step
DiskFor(extra) == IF extra = {} THEN 0 ELSE RoundedUp(Size(extra) + Reserve)

(* interactive: asked until the answer fits; the end of the input keeps what *)
(* .env says, and nothing typed is none.  "all" writes down every id.        *)
Kept == IF Is(Unset) THEN {} ELSE apps
Answers(known) ==
  { [sel |-> Kept, promised |-> {}], [sel |-> {}, promised |-> {}] } \cup
  { [sel |-> S, promised |-> IF known THEN {DiskFor(LeftOver(S, Room(Own)))} ELSE {}] :
      S \in { T \in (SUBSET Listed) \ {{}} : known => DiskFor(LeftOver(T, Room(Own))) <= MaxDisk } }

Only(sel) == { [sel |-> sel, promised |-> {}] }

(* Chooser.pick: what the index says decides, and not having read it is none.*)
Picks_allWhenUnread(read, named, tty, known) ==
  IF ~bucket.known /\ ~named THEN Only({})
  ELSE IF ~read THEN Only({All})
  ELSE IF ~bucket.there THEN Only(IF bucket.known THEN {All} ELSE {})
  ELSE IF Listed = {} THEN Only({All})
  ELSE IF tty THEN Answers(known)
  ELSE Only(IF Is(Unset) THEN {All} ELSE apps)
Picks(read, named, tty, known) ==
  IF ~bucket.known /\ ~named THEN Only({})
  ELSE IF ~read THEN Only({})
  ELSE IF ~bucket.there THEN Only(IF bucket.known THEN {All} ELSE {})
  ELSE IF Listed = {} THEN Only({All})
  ELSE IF tty THEN Answers(known)
  ELSE Only(IF Is(Unset) THEN {All} ELSE apps)

(* Choose: the answer is written to .env.  Whether it could be is not looked *)
(* at: then .env still says what it said, and that is what is launched with. *)
(* `asks` and `written` keep, for the properties, whether the index was read,*)
(* who answered, and whether the answer was written.                         *)
Chooses ==
  /\ At("choose")
  /\ \E read, named, tty, known, written \in BOOLEAN :
       \E a \in Picks(read, named, tty, known) :
         /\ apps' = IF written THEN a.sel ELSE apps
         /\ plan' = [plan EXCEPT !.at = "bucket", !.promised = a.promised, !.written = written,
                       !.asks = IF ~read \/ (~bucket.known /\ ~named) THEN "unread"
                                ELSE IF bucket.there THEN "read" ELSE "absent"]
  /\ UNCHANGED <<archive, bucket, drive, measured>>

(* Library.Ensure leaves a bucket that .env names; without one, no launch.   *)
EnsuresBucket ==
  /\ At("bucket")
  /\ \/ bucket' = [bucket EXCEPT !.known = TRUE, !.there = TRUE] /\ Goes("size")
     \/ plan' = NoPlan /\ UNCHANGED bucket
  /\ UNCHANGED <<archive, drive, measured, apps>>

(* The games GAME_APPS stands for, now.                                      *)
Taken == IF Is(All) \/ Is(Unset) THEN Listed ELSE apps \cap Listed

(* ExtraDisk: the disk for the games that do not fit the drive, or the one   *)
(* asked for if that is larger; nothing is sized when the index or the drive *)
(* is not known; one larger than the limit is refused.                       *)
Sizes ==
  /\ At("size")
  /\ \E read, known \in BOOLEAN, ask \in Asks :
       LET sized == (read \/ apps = {}) /\ known
           extra == IF sized THEN LeftOver(Taken, Room(Own)) ELSE {}
           want  == RoundedUp(ask)
           byHand == want > DiskFor(extra)
           data  == IF byHand THEN want ELSE DiskFor(extra)
       IN plan' = IF data > MaxDisk THEN NoPlan
                  ELSE [plan EXCEPT !.at = "image", !.known = sized, !.data = data,
                                    !.extra = extra, !.byHand = byHand]
  /\ UNCHANGED <<archive, bucket, drive, measured, apps>>

(* The box's restore, at its first boot.  Each disk has its own room, what a  *)
(* file system on it leaves less what is kept free; a game that does not fit *)
(* what is left is skipped and the next is tried, in the order of the index. *)
(* Nothing is restored when the drive is not mounted - a type without one has*)
(* none to mount - nor a game for the added disk when that is not.           *)
Free(disk) == Room(IF disk > FormatLoss THEN disk - FormatLoss ELSE 0)
Fills(games, disk) ==
  { some \in SUBSET games : /\ Size(some) <= Free(disk)
                            /\ \A g \in games \ some : Size(some) + archive[g] > Free(disk) }

Restores ==
  /\ At("launched")
  /\ \E read, mounted \in BOOLEAN :
       LET games == IF read THEN Taken ELSE {} IN
       \E own \in Fills(games \ plan.extra, drive),
          added \in IF mounted THEN Fills(games \cap plan.extra, plan.data) ELSE {{}} :
         plan' = [plan EXCEPT !.at = IF read /\ mounted THEN "restored" ELSE "cut",
                    !.box = IF drive > 0 THEN own \cup added ELSE {}]
  /\ UNCHANGED <<archive, bucket, drive, measured, apps>>

PlanNext == Chooses \/ EnsuresBucket \/ Sizes \/ Restores

-----------------------------------------------------------------------------
Sized == \/ At("image") \/ At("key") \/ At("group") \/ At("rule") \/ At("run")
         \/ At("launched") \/ At("restored") \/ At("cut")

(* Every archived game is taken - .env says so, or says nothing - only when  *)
(* the index was read, or when the bucket .env names is not there and all of *)
(* nothing is nothing; or when .env could not be written.  What .env said    *)
(* before is not a guess.  choose.go: "A chooser that broke should not decide*)
(* to move 158 GB".                                                          *)
Guessed == /\ apps' \in {{All}, {Unset}} /\ apps # {All}
           /\ ~(plan'.asks = "read" \/ (plan'.asks = "absent" /\ bucket.known))
NeverAllOnAGuess ==
  [][ At("choose") /\ plan'.at = "bucket" /\ Guessed => ~plan'.written ]_<<apps, plan, bucket>>

(* When the index was read and the drive is known, the box restores every    *)
(* game chosen, each where the list says: those for the drive when the drive *)
(* was once measured on a box, so that what a file system takes is known, and*)
(* those for the added disk when rounding it up left what a file system takes*)
(* and there is a drive.  placement.go "the box's restore, which is told the *)
(* list"; game-library.md "restore follows it".                              *)
RestoredAsPlanned ==
  At("restored") /\ plan.known =>
    /\ SeenOnABox => Taken \ plan.extra \subseteq plan.box
    /\ drive > 0 /\ Size(plan.extra) + Reserve + FormatLoss <= plan.data => plan.extra \subseteq plan.box

(* The disk a person was told of when choosing is the disk the build makes,  *)
(* when both times the same could be read and the answer reached .env, unless*)
(* a larger one was asked for: placement.go "the disk priced before the build*)
(* is the disk the build makes".                                             *)
PromisedIsBuilt ==
  Sized /\ plan.known /\ plan.written =>
    \A n \in plan.promised : plan.data = n \/ (plan.byHand /\ plan.data > n)

(* What a person chose is what is restored, where there is room for it by the*)
(* box's own count, and it costs what was said.                              *)
GamesAsChosen == NeverAllOnAGuess /\ []RestoredAsPlanned /\ []PromisedIsBuilt

(* choose.go:44-46 of a chooser that broke: "it keeps whatever .env already   *)
(* said rather than reaching for all".  Not of an .env that cannot be written*)
(* and says nothing: that is every game there is.                            *)
NeverAllUnasked ==
  [][ At("choose") /\ plan'.at = "bucket" /\ InArchive # {} => ~Guessed ]_<<apps, plan, bucket, archive>>

(* game-library.md:12-16: each game chosen goes to the drive "if it still    *)
(* fits what is left", "otherwise on the added disk", and "restore follows   *)
(* it".  Not when the sizes meet exactly - init_test.go:407: a disk of 190 GB *)
(* for games of 170, 20 kept free - for a file system takes its share first. *)
ChosenIsRestored ==
  At("restored") /\ plan.known /\ drive > 0 => Taken \subseteq plan.box

(* architecture.md:104-114, of types whose drive is small and of those with  *)
(* none: "Restore puts each game where it was told".                         *)
AddedIsRestored ==
  At("restored") /\ plan.known /\ Size(plan.extra) + Reserve + FormatLoss <= plan.data =>
    plan.extra \subseteq plan.box
=============================================================================
