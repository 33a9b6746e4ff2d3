-------------------------------- MODULE Prices --------------------------------
(***************************************************************************)
(* Where a price comes from: the environment, a file somebody named, the     *)
(* region's table in the cache while it is under a day old, else AWS, else   *)
(* the old table.  Every cg command loads prices by itself, so two of them    *)
(* may read, ask and write the one cache at the same time, and each may be    *)
(* stopped between any two steps.  A table is written to `<cache>.new` and    *)
(* renamed; the two names stand for files of their own.  The exchange rate    *)
(* has a cache of its own, kept the same way.                                *)
(* (internal/pricing/{pricing,fetch}.go)                                     *)
(***************************************************************************)
EXTENDS Naturals, FiniteSets, FiniteSetsExt

CONSTANTS Commands, MaxClock

ASSUME PricesAssumption == IsFiniteSet(Commands) /\ MaxClock \in Nat \ {0}

VARIABLES clock,     \* in half days
          file,      \* which file each of the two names is: "old", a command's, or none
          content,   \* the table in each file, by the clock when AWS gave it
          written,   \* ... and when it was last written
          loads      \* how far each command's pricing.Load is

priceVars == <<clock, file, content, written, loads>>

Day == 2
Keys == {"disk", "others"}      \* the disk's price names the prefix of the others'
NoFile == "none"
Files == Commands \cup {"old"}
Empty == 0                      \* created or truncated, nothing in it yet
Half == MaxClock + 1            \* a table without some of its prices
HasKeys(table) == CASE table = Empty -> {} [] table = Half -> {"disk"} [] OTHER -> Keys

NotLoaded == [at |-> "idle", env |-> {}, named |-> FALSE, filed |-> {}, table |-> Empty, fresh |-> FALSE,
              to |-> NoFile, refused |-> FALSE]

PricesInit(start) ==
  /\ clock = 1
  /\ \E old \in {Empty, 1} : \* nothing cached yet, or the table of an earlier command
      /\ content = [f \in Files |-> IF f = "old" THEN old ELSE Empty]
      /\ file = [cache |-> IF old = Empty THEN NoFile ELSE "old", new |-> NoFile]
  /\ written = [f \in Files |-> 1]
  /\ loads = [c \in Commands |-> [NotLoaded EXCEPT !.at = start]]

LoadAt(c, step) == loads[c].at = step
LoadGoes(c, step) == loads' = [loads EXCEPT ![c].at = step]

(* Load asks only for what the environment leaves open, and a file that      *)
(* CG_PRICES_FILE names answers in its stead, whichever prices it holds.      *)
Wants(c) ==
  /\ LoadAt(c, "idle")
  /\ \E env \in SUBSET Keys, named \in BOOLEAN, filed \in SUBSET Keys :
       /\ env = Keys \/ ~named => filed = {}
       /\ loads' = [loads EXCEPT ![c].env = env, ![c].named = named, ![c].filed = filed,
                              ![c].at = IF env = Keys \/ named THEN "done" ELSE "read"]
  /\ UNCHANGED <<clock, file, content, written>>

(* cached: the lines of the file, then the age of whatever has its name by    *)
(* then.  A file with nothing in it is no cache.                             *)
ReadsCache(c) ==
  /\ LoadAt(c, "read")
  /\ LET table == IF file.cache = NoFile THEN Empty ELSE content[file.cache]
     IN loads' = [loads EXCEPT ![c].table = table, ![c].at = IF table = Empty THEN "ask" ELSE "stat"]
  /\ UNCHANGED <<clock, file, content, written>>

Stats(c) ==
  /\ LoadAt(c, "stat")
  /\ loads' = [loads EXCEPT ![c].at = IF clock - written[file.cache] < Day THEN "done" ELSE "ask"]
  /\ UNCHANGED <<clock, file, content, written>>

(* AWSSource.Prices: the price of the disk, then all the others at once; a    *)
(* price that could not be read or was not there makes the whole no answer.   *)
Answers_half == IF clock > MaxClock THEN {} ELSE {Empty, Half, clock}
Answers == IF clock > MaxClock THEN {} ELSE {Empty, clock}

(* An answer goes to the cache; without one, the old table is better than none. *)
Asks(c) ==
  /\ LoadAt(c, "ask")
  /\ \E answer \in Answers :
       loads' = [loads EXCEPT ![c].at = IF answer = Empty THEN "done" ELSE "open",
                              ![c].refused = answer = Empty,
                              ![c].table = IF answer = Empty THEN @ ELSE answer]
  /\ UNCHANGED <<clock, file, content, written>>

(* writeAtomic: os.WriteFile empties the `.new` that is there, which another  *)
(* command may be writing; a step that fails leaves the cache as it is.  A     *)
(* table is less than one block: a write puts all of it there or nothing.     *)
Opens(c) ==
  /\ LoadAt(c, "open")
  /\ LET to == IF file.new = NoFile THEN c ELSE file.new IN
       /\ file' = [file EXCEPT !.new = to]
       /\ content' = [content EXCEPT ![to] = Empty]
       /\ written' = [written EXCEPT ![to] = clock]
       /\ loads' = [loads EXCEPT ![c].at = "write", ![c].to = to]
  /\ UNCHANGED clock

Writes(c) ==
  /\ LoadAt(c, "write")
  /\ content' = [content EXCEPT ![loads[c].to] = loads[c].table]
  /\ written' = [written EXCEPT ![loads[c].to] = clock]
  /\ LoadGoes(c, "rename")
  /\ UNCHANGED <<clock, file>>

Renames(c) ==
  /\ LoadAt(c, "rename")
  /\ file' = IF file.new = NoFile THEN file ELSE [cache |-> file.new, new |-> NoFile]
  /\ LoadGoes(c, "done")
  /\ UNCHANGED <<clock, content, written>>

CannotWrite(c) ==
  /\ loads[c].at \in {"open", "write", "rename"}
  /\ LoadGoes(c, "done")
  /\ UNCHANGED <<clock, file, content, written>>

Loads(c) == Wants(c) \/ ReadsCache(c) \/ Stats(c) \/ Asks(c) \/ Opens(c) \/ Writes(c) \/ Renames(c) \/ CannotWrite(c)

(* Ctrl-C, a kill or a power cut, between any two steps of a command.         *)
CutOff(c) ==
  /\ loads[c].at \notin {"idle", "done", "cut"}
  /\ LoadGoes(c, "cut")
  /\ UNCHANGED <<clock, file, content, written>>

Later == clock < MaxClock /\ clock' = clock + 1 /\ UNCHANGED <<file, content, written, loads>>

PricesNext == Later \/ \E c \in Commands : Loads(c) \/ CutOff(c)

(* Load's pick, key by key: the environment, then the named file or else the  *)
(* table.  What a named file does not hold is asked of nobody.                *)
Known(c, key) ==
  \/ key \in loads[c].env
  \/ IF loads[c].named THEN key \in loads[c].filed ELSE key \in HasKeys(loads[c].table)

(***************************************************************************)
(* Where nobody named a file, a report is printed from whole tables: every    *)
(* price is known to it, or AWS would not answer it and it had read no table  *)
(* either - then none of the prices AWS gives is known.  A command stopped    *)
(* half way, another writing the same `.new`, or a half answer never leaves it*)
(* some prices of a table.  (A named file may hold some prices only, and AWS  *)
(* is not asked for the others: pricing_test.go TestAPricesFileAnswersOffline)*)
(***************************************************************************)
PricesAreWhole ==
  \A c \in Commands : LoadAt(c, "done") =>
    LET l == loads[c]
        unknown == { k \in Keys : ~Known(c, k) }
    IN unknown # {} /\ ~l.named => l.refused /\ l.table = Empty
=============================================================================
