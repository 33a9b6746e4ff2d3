------------------------------ MODULE MoneyProofs ------------------------------
(***************************************************************************)
(* What cg says about money is true for any number of commands, days, usages  *)
(* and changes of the account while it reads.                                *)
(*   Prices: what is in a file or in a command's hands is a whole table or     *)
(* nothing, whoever wrote it and wherever that was cut off.                   *)
(*   Status: whoever saw a machine ready, it had finished; whoever saw it     *)
(* stranded, it never runs again.                                            *)
(*   The month: the sums by column, by usage type and by day are three ways   *)
(* through one sum (FoldProofs), so they are equal whatever was used.         *)
(*   The report: every list that was read holds, of what it is in charge of,  *)
(* all that stayed and nothing that never was; so do their sums.              *)
(***************************************************************************)
EXTENDS Money, FoldProofs, TLAPS

Tables == 1..MaxClock    \* whole tables, by the clock when AWS gave them

Steps == {"closed", "idle", "read", "stat", "ask", "open", "write", "rename", "done", "cut"}

LoadRecords == [at : Steps, env : SUBSET Keys, named : BOOLEAN, filed : SUBSET Keys, table : {Empty} \cup Tables,
                fresh : BOOLEAN, to : Files \cup {NoFile}, refused : BOOLEAN]

LoadTypes ==
  /\ clock \in 1..MaxClock
  /\ content \in [Files -> {Empty} \cup Tables]
  /\ loads \in [Commands -> LoadRecords]
  /\ file \in [cache : Files \cup {NoFile}, new : Files \cup {NoFile}]

\* A command that has a table in its hands, to judge or to keep, has a whole one.
InHandWhole ==
  \A c \in Commands : loads[c].at \in {"stat", "open", "write", "rename"} => loads[c].table \in Tables

\* A command is done with nothing only when nothing was needed or AWS refused it.
DoneForAReason ==
  \A c \in Commands : LoadAt(c, "done") =>
    \/ loads[c].env = Keys \/ loads[c].named
    \/ loads[c].table \in Tables
    \/ loads[c].refused

PriceInv == LoadTypes /\ InHandWhole /\ DoneForAReason

LEMMA WholeIsKnown == \A t \in Tables : HasKeys(t) = Keys
BY PricesAssumption, SMT DEF Tables, HasKeys, Empty, Half

LEMMA PriceInvInit == Init => PriceInv
<1>1. ASSUME NEW start \in {"idle", "closed"}, PricesInit(start) PROVE PriceInv
  <2>1. clock \in 1..MaxClock /\ 1 \in Tables
    BY <1>1, PricesAssumption DEF PricesInit, Tables
  <2>2. content \in [Files -> {Empty} \cup Tables]
    BY <1>1, <2>1 DEF PricesInit, Files
  <2>3. \A c \in Commands : loads[c] = [NotLoaded EXCEPT !.at = start]
    BY <1>1 DEF PricesInit
  <2>4. LoadTypes
    <3>1. [NotLoaded EXCEPT !.at = start] \in LoadRecords
      BY DEF NotLoaded, LoadRecords, Steps
    <3>2. loads \in [Commands -> LoadRecords]
      BY <1>1, <3>1 DEF PricesInit
    <3>3. file \in [cache : Files \cup {NoFile}, new : Files \cup {NoFile}]
      BY <1>1 DEF PricesInit, Files
    <3>4. QED BY <2>1, <2>2, <3>2, <3>3 DEF LoadTypes
  <2>5. InHandWhole /\ DoneForAReason
    BY <2>3 DEF InHandWhole, DoneForAReason, LoadAt, NotLoaded
  <2>6. QED BY <2>4, <2>5 DEF PriceInv
<1>2. QED BY <1>1 DEF Init

\* What a step may do with one command's record, and with the files.
LEMMA OneLoadGoes ==
  ASSUME PriceInv, NEW c \in Commands, NEW l \in LoadRecords,
         loads' = [loads EXCEPT ![c] = l], UNCHANGED clock,
         content' \in [Files -> {Empty} \cup Tables],
         file' \in [cache : Files \cup {NoFile}, new : Files \cup {NoFile}],
         l.at \in {"stat", "open", "write", "rename"} => l.table \in Tables,
         l.at = "done" => l.env = Keys \/ l.named \/ l.table \in Tables \/ l.refused
  PROVE  PriceInv'
<1>1. loads' \in [Commands -> LoadRecords] /\ \A d \in Commands : loads'[d] = IF d = c THEN l ELSE loads[d]
  BY DEF PriceInv, LoadTypes
<1>2. LoadTypes'
  BY <1>1 DEF PriceInv, LoadTypes, Tables, Files
<1>3. InHandWhole'
  BY <1>1 DEF PriceInv, InHandWhole, Tables
<1>4. DoneForAReason'
  BY <1>1 DEF PriceInv, DoneForAReason, LoadAt, Tables
<1>5. QED BY <1>2, <1>3, <1>4 DEF PriceInv

LEMMA PriceInvStep == PriceInv /\ [Next]_vars => PriceInv'
<1>0. SUFFICES ASSUME PriceInv, [Next]_vars PROVE PriceInv'
  OBVIOUS
<1>. DEFINE TypesNow == /\ clock \in 1..MaxClock
                        /\ content \in [Files -> {Empty} \cup Tables]
                        /\ loads \in [Commands -> LoadRecords]
                        /\ file \in [cache : Files \cup {NoFile}, new : Files \cup {NoFile}]
<1>1. TypesNow
  BY <1>0 DEF PriceInv, LoadTypes
<1>2. CASE UNCHANGED priceVars
  BY <1>0, <1>2 DEF PriceInv, LoadTypes, InHandWhole, DoneForAReason, LoadAt, priceVars
<1>3. CASE Later
  <2>1. clock' \in 1..MaxClock
    BY <1>1, <1>3, PricesAssumption DEF Later
  <2>2. QED BY <1>0, <1>3, <2>1 DEF Later, PriceInv, LoadTypes, InHandWhole, DoneForAReason, LoadAt
<1>4. ASSUME NEW c \in Commands, Loads(c) \/ CutOff(c) PROVE PriceInv'
  <2>0. loads[c] \in LoadRecords /\ loads = [d \in Commands |-> loads[d]]
    BY <1>1
  <2>1. CASE Wants(c)
    <3>1. PICK env \in SUBSET Keys, named \in BOOLEAN, filed \in SUBSET Keys :
            loads' = [loads EXCEPT ![c].env = env, ![c].named = named, ![c].filed = filed,
                              ![c].at = IF env = Keys \/ named THEN "done" ELSE "read"]
      BY <2>1 DEF Wants
    <3>. DEFINE l == [loads[c] EXCEPT !.env = env, !.named = named, !.filed = filed,
                              !.at = IF env = Keys \/ named THEN "done" ELSE "read"]
    <3>2. l \in LoadRecords /\ loads' = [loads EXCEPT ![c] = l]
      BY <2>0, <3>1 DEF LoadRecords, Steps
    <3>3. (l.at = "done" => env = Keys \/ named) /\ l.at \in {"done", "read"} /\ l.env = env /\ l.named = named
      BY <2>0 DEF LoadRecords
    <3>4. UNCHANGED <<clock, file, content>>
      BY <2>1 DEF Wants
    <3>. HIDE DEF l
    <3>5. QED BY <1>0, <1>1, <3>2, <3>3, <3>4, OneLoadGoes
  <2>2. CASE ReadsCache(c)
    <3>. DEFINE table == IF file.cache = NoFile THEN Empty ELSE content[file.cache]
                l == [loads[c] EXCEPT !.table = table, !.at = IF table = Empty THEN "ask" ELSE "stat"]
    <3>1. table \in {Empty} \cup Tables
      BY <1>1
    <3>2. l \in LoadRecords /\ loads' = [loads EXCEPT ![c] = l]
      BY <2>0, <2>2, <3>1 DEF ReadsCache, LoadRecords, Steps
    <3>3. l.at \in {"ask", "stat"} /\ (l.at = "stat" => l.table \in Tables)
      BY <2>0, <3>1 DEF LoadRecords
    <3>4. UNCHANGED <<clock, file, content>>
      BY <2>2 DEF ReadsCache
    <3>. HIDE DEF l, table
    <3>5. QED BY <1>0, <1>1, <3>2, <3>3, <3>4, OneLoadGoes
  <2>3. CASE Stats(c)
    <3>. DEFINE at == IF clock - written[file.cache] < Day THEN "done" ELSE "ask"
                l == [loads[c] EXCEPT !.at = at]
    <3>1. loads[c].table \in Tables
      BY <1>0, <2>3 DEF Stats, LoadAt, PriceInv, InHandWhole
    <3>2. at \in {"done", "ask"} /\ loads' = [loads EXCEPT ![c] = l]
      BY <2>0, <2>3 DEF Stats
    <3>. HIDE DEF at
    <3>3. l \in LoadRecords /\ l.at \in {"done", "ask"} /\ l.table \in Tables
      BY <2>0, <3>1, <3>2 DEF LoadRecords, Steps
    <3>4. UNCHANGED <<clock, file, content>>
      BY <2>3 DEF Stats
    <3>. HIDE DEF l
    <3>5. QED BY <1>0, <1>1, <3>2, <3>3, <3>4, OneLoadGoes
  <2>4. CASE Asks(c)
    <3>1. PICK answer \in Answers :
            loads' = [loads EXCEPT ![c].at = IF answer = Empty THEN "done" ELSE "open",
                              ![c].refused = answer = Empty,
                              ![c].table = IF answer = Empty THEN @ ELSE answer]
      BY <2>4 DEF Asks
    <3>. DEFINE l == [loads[c] EXCEPT !.at = IF answer = Empty THEN "done" ELSE "open",
                                      !.refused = answer = Empty,
                                      !.table = IF answer = Empty THEN @ ELSE answer]
    <3>2. answer \in {Empty} \cup Tables
      BY <1>1 DEF Answers, Tables
    <3>3. l \in LoadRecords /\ loads' = [loads EXCEPT ![c] = l]
      BY <2>0, <3>1, <3>2 DEF LoadRecords, Steps
    <3>4. /\ l.at = "open" => l.table \in Tables
          /\ l.at = "done" => l.refused
          /\ l.at \in {"open", "done"}
      BY <2>0, <3>2 DEF LoadRecords
    <3>5. UNCHANGED <<clock, file, content>>
      BY <2>4 DEF Asks
    <3>. HIDE DEF l
    <3>6. QED BY <1>0, <1>1, <3>3, <3>4, <3>5, OneLoadGoes
  <2>5. CASE Opens(c)
    <3>. DEFINE to == IF file.new = NoFile THEN c ELSE file.new
                l == [loads[c] EXCEPT !.at = "write", !.to = to]
    <3>1. to \in Files
      BY <1>1 DEF Files
    <3>2. loads[c].table \in Tables
      BY <1>0, <2>5 DEF Opens, LoadAt, PriceInv, InHandWhole
    <3>3. loads' = [loads EXCEPT ![c] = l]
      BY <2>0, <2>5 DEF Opens
    <3>4. content' = [content EXCEPT ![to] = Empty] /\ file' = [file EXCEPT !.new = to] /\ UNCHANGED clock
      BY <2>5 DEF Opens
    <3>. HIDE DEF to
    <3>5. l \in LoadRecords /\ l.at = "write" /\ l.table \in Tables
      BY <2>0, <3>1, <3>2 DEF LoadRecords, Steps
    <3>6. content' \in [Files -> {Empty} \cup Tables]
      BY <1>1, <3>1, <3>4
    <3>7. file' \in [cache : Files \cup {NoFile}, new : Files \cup {NoFile}]
      BY <1>1, <3>1, <3>4
    <3>. HIDE DEF l
    <3>8. QED BY <1>0, <3>3, <3>4, <3>5, <3>6, <3>7, OneLoadGoes
  <2>6. CASE Writes(c)
    <3>. DEFINE l == [loads[c] EXCEPT !.at = "rename"]
    <3>1. loads[c].table \in Tables
      BY <1>0, <2>6 DEF Writes, LoadAt, PriceInv, InHandWhole
    <3>2. loads' = [loads EXCEPT ![c] = l] /\ UNCHANGED <<clock, file>>
      BY <2>0, <2>6 DEF Writes, LoadGoes
    <3>3. l \in LoadRecords /\ l.at = "rename" /\ l.table \in Tables
      BY <2>0, <3>1 DEF LoadRecords, Steps
    <3>4. content' \in [Files -> {Empty} \cup Tables]
      BY <1>1, <2>6, <3>1 DEF Writes
    <3>. HIDE DEF l
    <3>5. QED BY <1>0, <1>1, <3>2, <3>3, <3>4, OneLoadGoes
  <2>7. CASE Renames(c) \/ CannotWrite(c)
    <3>. DEFINE l == [loads[c] EXCEPT !.at = "done"]
    <3>1. loads[c].table \in Tables
      BY <1>0, <2>7 DEF Renames, CannotWrite, LoadAt, PriceInv, InHandWhole
    <3>2. loads' = [loads EXCEPT ![c] = l] /\ UNCHANGED <<clock, content>>
      BY <2>0, <2>7 DEF Renames, CannotWrite, LoadGoes
    <3>3. l \in LoadRecords /\ l.at = "done" /\ l.table \in Tables
      BY <2>0, <3>1 DEF LoadRecords, Steps
    <3>4. file' \in [cache : Files \cup {NoFile}, new : Files \cup {NoFile}]
      BY <1>1, <2>7 DEF Renames, CannotWrite
    <3>. HIDE DEF l
    <3>5. QED BY <1>0, <1>1, <3>2, <3>3, <3>4, OneLoadGoes
  <2>8. CASE CutOff(c)
    <3>. DEFINE l == [loads[c] EXCEPT !.at = "cut"]
    <3>1. loads' = [loads EXCEPT ![c] = l] /\ UNCHANGED <<clock, file, content>>
      BY <2>0, <2>8 DEF CutOff, LoadGoes
    <3>2. l \in LoadRecords /\ l.at = "cut"
      BY <2>0 DEF LoadRecords, Steps
    <3>. HIDE DEF l
    <3>3. QED BY <1>0, <1>1, <3>1, <3>2, OneLoadGoes
  <2>9. QED BY <1>4, <2>1, <2>2, <2>3, <2>4, <2>5, <2>6, <2>7, <2>8 DEF Loads
<1>5. QED BY <1>0, <1>2, <1>3, <1>4 DEF Next, PricesNext, vars

\* PricesAreWhole: however many commands load prices at once, renew the cache, are
\* refused or cut off, a report knows every price or none that AWS gives, unless a
\* file that somebody named was to answer.
THEOREM PricesWhole == Spec => []PricesAreWhole
<1>1. PriceInv => PricesAreWhole
  <2>1. SUFFICES ASSUME PriceInv, NEW c \in Commands, LoadAt(c, "done"),
                        { k \in Keys : ~Known(c, k) } # {}, ~loads[c].named
                 PROVE  loads[c].refused /\ loads[c].table = Empty
    BY DEF PricesAreWhole
  <2>2. loads[c].env # Keys
    BY <2>1 DEF Known
  <2>3. loads[c].table \notin Tables
    BY <2>1, WholeIsKnown DEF Known
  <2>4. loads[c].table = Empty
    BY <2>1, <2>3 DEF PriceInv, LoadTypes, LoadRecords
  <2>5. QED BY <2>1, <2>2, <2>3, <2>4 DEF PriceInv, DoneForAReason
<1>2. QED BY <1>1, PriceInvInit, PriceInvStep, PTL DEF Spec

-----------------------------------------------------------------------------
(* `cg status`: what every command has read, and what the cache remembers.    *)
Phases == {"none", "up", "stopped", "leaving", "gone"}
Views == [at : {"idle", "running", "stopped", "marks", "looks"}, box : Boxes \cup {NoBox},
          answer : {"", "yes", "no"}]

StatusTypes ==
  /\ phase \in [Boxes -> Phases] /\ request \subseteq Boxes
  /\ view \in [Viewers -> Views]

\* Who is told to be ready, by a mark or by an answer, has been: its own
\* finishing, or another machine that answered to its name.
ReadyForAReason ==
  /\ marks \subseteq finished \cup mistaken
  /\ \A v \in Viewers : view[v].answer = "yes" => view[v].box \in finished \cup mistaken

\* A machine that runs has its spot request; one that was seen to have none
\* came long ago, and a request is not made twice.
StrandedForGood ==
  /\ \A b \in Boxes : phase[b] = "up" => b \in request
  /\ \A b \in doomed : b \in Boxes /\ b \notin request /\ phase[b] # "none"
  /\ \A v \in Viewers : view[v].at = "stopped" => view[v].box \in Boxes /\ phase[view[v].box] # "none"

StatusInv == StatusTypes /\ ReadyForAReason /\ StrandedForGood

LEMMA StatusInvInit == Init => StatusInv
<1> SUFFICES ASSUME StatusInit PROVE StatusInv
  BY DEF Init
<1>1. phase \in [Boxes -> Phases] /\ view \in [Viewers -> Views] /\ request \subseteq Boxes
  BY DEF StatusInit, Phases, Views, Idle
<1>2. \A v \in Viewers : view[v].answer = "" /\ view[v].at = "idle"
  BY DEF StatusInit, Idle
<1>3. \A b \in Boxes : phase[b] = "none"
  BY DEF StatusInit
<1>4. QED BY <1>1, <1>2, <1>3 DEF StatusInit, StatusInv, StatusTypes, ReadyForAReason, StrandedForGood

\* What a machine does by itself.
LEMMA MachineInv == ASSUME StatusInv, NEW b \in Boxes, MachineStep(b) PROVE StatusInv'
<1>1. /\ marks' = marks /\ view' = view /\ mistaken' = mistaken /\ doomed' = doomed
      /\ finished \subseteq finished'
  BY DEF MachineStep, MachineComes, MachineFinishes, MachineStops, MachineStarts, RequestCloses,
         MachineEnds, MachineIsGone
<1>2. ReadyForAReason'
  BY <1>1 DEF StatusInv, ReadyForAReason
<1>3. ASSUME NEW p \in Phases, PhaseBecomes(b, p)
      PROVE  phase' \in [Boxes -> Phases] /\ phase'[b] = p /\ \A c \in Boxes : c # b => phase'[c] = phase[c]
  BY <1>3 DEF PhaseBecomes, StatusInv, StatusTypes
<1>4. CASE MachineComes(b)
  <2>1. /\ phase' \in [Boxes -> Phases] /\ phase'[b] = "up" /\ \A c \in Boxes : c # b => phase'[c] = phase[c]
        /\ phase[b] = "none" /\ request' = request \cup {b}
    BY <1>3, <1>4 DEF MachineComes, Phases
  <2>2. QED BY <1>1, <1>2, <2>1 DEF StatusInv, StatusTypes, StrandedForGood, Views
<1>5. CASE MachineFinishes(b)
  <2>1. phase' = phase /\ request' = request
    BY <1>5 DEF MachineFinishes
  <2>2. QED BY <1>1, <1>2, <2>1 DEF StatusInv, StatusTypes, StrandedForGood
<1>6. CASE MachineStops(b) \/ MachineEnds(b) \/ MachineIsGone(b)
  <2>1. /\ phase' \in [Boxes -> Phases] /\ phase'[b] \in {"stopped", "leaving", "gone"}
        /\ \A c \in Boxes : c # b => phase'[c] = phase[c]
        /\ request' = request
    BY <1>3, <1>6 DEF MachineStops, MachineEnds, MachineIsGone, Phases
  <2>2. QED BY <1>1, <1>2, <2>1 DEF StatusInv, StatusTypes, StrandedForGood, Views
<1>7. CASE MachineStarts(b)
  <2>1. /\ phase' \in [Boxes -> Phases] /\ phase'[b] = "up" /\ \A c \in Boxes : c # b => phase'[c] = phase[c]
        /\ b \in request /\ request' = request
    BY <1>3, <1>7 DEF MachineStarts, Phases
  <2>2. QED BY <1>1, <1>2, <2>1 DEF StatusInv, StatusTypes, StrandedForGood, Views
<1>8. CASE RequestCloses(b)
  <2>1. phase[b] = "stopped" /\ request' = request \ {b} /\ phase' = phase
    BY <1>8 DEF RequestCloses
  <2>2. QED BY <1>1, <1>2, <2>1 DEF StatusInv, StatusTypes, StrandedForGood
<1>9. QED BY <1>4, <1>5, <1>6, <1>7, <1>8 DEF MachineStep

\* What a command reads, keeps and shows.
LEMMA ViewerInv == ASSUME StatusInv, NEW v \in Viewers, Status(v) PROVE StatusInv'
<1>1. phase' = phase /\ finished' = finished /\ request' = request /\ view[v] \in Views
  BY DEF Status, ReadsBox, ReadsRequest, AsksReady, Marks, Shows, NoNews, StatusInv, StatusTypes
\* A command comes to know news, which is true, and dooms only what has no request.
<1>2. ASSUME NEW news \in Views, view' = [view EXCEPT ![v] = news], mistaken \subseteq mistaken',
             news.answer = "yes" => news.box \in finished \cup mistaken',
             news.at = "stopped" => news.box \in Boxes /\ phase[news.box] # "none",
             marks' \subseteq finished \cup mistaken',
             doomed' \subseteq doomed \cup { b \in Boxes : b \notin request /\ phase[b] # "none" }
      PROVE  StatusInv'
  <2>1. view' \in [Viewers -> Views] /\ \A w \in Viewers : view'[w] = IF w = v THEN news ELSE view[w]
    BY <1>2 DEF StatusInv, StatusTypes
  <2>2. StatusTypes'
    BY <1>1, <2>1 DEF StatusInv, StatusTypes, Views
  <2>3. ReadyForAReason'
    BY <1>1, <1>2, <2>1 DEF StatusInv, ReadyForAReason
  <2>4. StrandedForGood'
    BY <1>1, <1>2, <2>1 DEF StatusInv, StrandedForGood
  <2>5. QED BY <2>2, <2>3, <2>4 DEF StatusInv
<1>3. Idle \in Views /\ Idle.answer = "" /\ Idle.at = "idle"
  BY DEF Idle, Views
<1>4. CASE ReadsBox(v)
  <2>1. PICK b \in Machines : Sees(v, ViewOf(b, IF phase[b] = "up" THEN "running" ELSE "stopped", ""))
    BY <1>4 DEF ReadsBox
  <2>2. b \in Boxes /\ phase[b] # "none" /\ marks' = marks /\ mistaken' = mistaken /\ doomed' = doomed
    BY <1>4 DEF ReadsBox, Machines
  <2>3. PICK at \in {"running", "stopped"} : Sees(v, ViewOf(b, at, ""))
    BY <2>1
  <2>4. PICK l : l = ViewOf(b, at, "")
    OBVIOUS
  <2>5. l \in Views /\ l.box = b /\ l.answer = "" /\ view' = [view EXCEPT ![v] = l]
    BY <2>2, <2>3, <2>4 DEF Sees, ViewOf, Views
  <2>6. l.at # "stopped" \/ (l.at = "stopped" /\ l.box \in Boxes /\ phase[l.box] # "none")
    BY <2>2, <2>5
  <2>7. marks' \subseteq finished \cup mistaken'
    BY <2>2 DEF StatusInv, ReadyForAReason
  <2>8. QED BY <1>2, <2>2, <2>5, <2>6, <2>7
<1>5. CASE ReadsRequest(v)
  <2>1. /\ view' = [view EXCEPT ![v] = Idle] /\ marks' = marks /\ mistaken' = mistaken /\ view[v].at = "stopped"
        /\ doomed' \in {doomed, IF view[v].box \in request THEN doomed ELSE doomed \cup {view[v].box}}
    BY <1>5 DEF ReadsRequest, ViewAt, Sees
  <2>2. view[v].box \in Boxes /\ phase[view[v].box] # "none"
    BY <2>1 DEF StatusInv, StrandedForGood
  <2>3. QED BY <1>2, <1>3, <2>1, <2>2 DEF StatusInv, ReadyForAReason
<1>6. CASE AsksReady(v)
  <2>1. marks' = marks /\ doomed' = doomed /\ view[v].box \in Boxes \cup {NoBox}
    BY <1>1, <1>6 DEF AsksReady, Views
  <2>2. PICK a \in {"", "yes", "no"} :
          /\ Sees(v, ViewOf(view[v].box, "marks", a)) /\ mistaken \subseteq mistaken'
          /\ a = "yes" => view[v].box \in marks \cup finished \cup mistaken'
    <3>1. CASE \E node \in Online :
                /\ Sees(v, ViewOf(view[v].box, "marks", IF node \in finished THEN "yes" ELSE "no"))
                /\ mistaken' = IF node = view[v].box THEN mistaken ELSE mistaken \cup {view[v].box}
      BY <3>1
    <3>2. CASE ~\E node \in Online :
                /\ Sees(v, ViewOf(view[v].box, "marks", IF node \in finished THEN "yes" ELSE "no"))
                /\ mistaken' = IF node = view[v].box THEN mistaken ELSE mistaken \cup {view[v].box}
      BY <1>6, <3>2 DEF AsksReady
    <3>3. QED BY <3>1, <3>2
  <2>3. PICK l : l = ViewOf(view[v].box, "marks", a)
    OBVIOUS
  <2>4. l \in Views /\ l.box = view[v].box /\ l.answer = a /\ l.at = "marks" /\ view' = [view EXCEPT ![v] = l]
    BY <2>1, <2>2, <2>3 DEF Sees, ViewOf, Views
  <2>5. marks' \subseteq finished \cup mistaken' /\ (a = "yes" => l.box \in finished \cup mistaken')
    BY <2>1, <2>2, <2>4 DEF StatusInv, ReadyForAReason
  <2>6. QED BY <1>2, <2>1, <2>2, <2>4, <2>5
<1>7. CASE Marks(v)
  <2>1. /\ Sees(v, ViewOf(view[v].box, "looks", view[v].answer)) /\ mistaken' = mistaken /\ doomed' = doomed
        /\ marks' \in {marks, IF view[v].answer = "yes" THEN marks \cup {view[v].box} ELSE marks}
    BY <1>7 DEF Marks
  <2>2. view[v].box \in Boxes \cup {NoBox} /\ view[v].answer \in {"", "yes", "no"}
    BY <1>1 DEF Views
  <2>3. PICK l : l = ViewOf(view[v].box, "looks", view[v].answer)
    OBVIOUS
  <2>4. /\ l \in Views /\ l.box = view[v].box /\ l.answer = view[v].answer /\ l.at = "looks"
        /\ view' = [view EXCEPT ![v] = l]
    BY <2>1, <2>2, <2>3 DEF Sees, ViewOf, Views
  <2>5. marks' \subseteq finished \cup mistaken' /\ (l.answer = "yes" => l.box \in finished \cup mistaken')
    BY <2>1, <2>4 DEF StatusInv, ReadyForAReason
  <2>6. QED BY <1>2, <2>1, <2>4, <2>5
<1>8. CASE Shows(v)
  <2>1. view' = [view EXCEPT ![v] = Idle] /\ marks' = marks /\ mistaken' = mistaken /\ doomed' = doomed
    BY <1>8 DEF Shows, Sees
  <2>2. QED BY <1>2, <1>3, <2>1 DEF StatusInv, ReadyForAReason
<1>9. QED BY <1>4, <1>5, <1>6, <1>7, <1>8 DEF Status

LEMMA StatusInvStep == StatusInv /\ [Next]_vars => StatusInv'
<1> SUFFICES ASSUME StatusInv, [Next]_vars PROVE StatusInv'
  OBVIOUS
<1>1. CASE UNCHANGED statusVars
  BY <1>1 DEF statusVars, StatusInv, StatusTypes, ReadyForAReason, StrandedForGood
<1>2. CASE StatusNext
  BY <1>2, MachineInv, ViewerInv DEF StatusNext
<1>3. QED BY <1>1, <1>2 DEF Next, vars

\* StatusIsTrue: a machine is said to be ready only after it has set itself up
\* (or another one answered to its name), whichever `cg status` saw it and
\* whichever believes the mark; one that is said to be stranded never runs again.
THEOREM StatusTrue == Spec => []StatusIsTrue
<1>1. StatusInv => StatusIsTrue
  BY DEF StatusInv, StatusTypes, ReadyForAReason, StrandedForGood, StatusIsTrue, SaysReady
<1>2. QED BY <1>1, StatusInvInit, StatusInvStep, PTL DEF Spec
-----------------------------------------------------------------------------
(* The month: what each set of usages costs, summed in every order.          *)
ChargeOf == [g \in Groups |-> g.c]
QuantityOf == [g \in Groups |-> g.q]

LEMMA DaysAre ==
  /\ IsFiniteSet(Usages)
  /\ \A day \in Days : day \subseteq Groups /\ IsFiniteSet(day)
  /\ \A g \in Groups : ChargeOf[g] = g.c /\ g.c \in Nat /\ QuantityOf[g] = g.q /\ g.q \in Nat
                       /\ g.u \in Usages /\ g.u.kind \in Kinds
<1>1. IsFiniteSet(Kinds)
  <2>1. /\ IsFiniteSet({"box"}) /\ IsFiniteSet({"spot"}) /\ IsFiniteSet({"egress"}) /\ IsFiniteSet({"s3"})
        /\ IsFiniteSet({"disk"}) /\ IsFiniteSet({"api"}) /\ IsFiniteSet({"other"})
    BY FS_Singleton
  <2>. DEFINE a == {"box"} \cup {"spot"}
              b == a \cup {"egress"}
              c == b \cup {"s3"}
              d == c \cup {"disk"}
              e == d \cup {"api"}
              f == e \cup {"other"}
  <2>2. IsFiniteSet(a)
    BY <2>1, FS_Union
  <2>3. IsFiniteSet(b)
    BY <2>1, <2>2, FS_Union
  <2>4. IsFiniteSet(c)
    BY <2>1, <2>3, FS_Union
  <2>5. IsFiniteSet(d)
    BY <2>1, <2>4, FS_Union
  <2>6. IsFiniteSet(e)
    BY <2>1, <2>5, FS_Union
  <2>7. IsFiniteSet(f)
    BY <2>1, <2>6, FS_Union
  <2>8. Kinds \in SUBSET f
    BY BillAssumption
  <2>. HIDE DEF f
  <2>. QED BY <2>7, <2>8, FS_Subset
<1>2. IsFiniteSet(Usages)
  <2>. DEFINE P == InRegions \X Kinds
              u == [p \in P |-> [prefix |-> p[1], kind |-> p[2]]]
  <2>1. IsFiniteSet(P)
    BY <1>1, BillAssumption, FS_Product
  <2>2. u \in Surjection(P, Usages)
    <3>1. u \in [P -> Usages]
      BY DEF Usages
    <3>2. ASSUME NEW x \in Usages PROVE \E p \in P : u[p] = x
      <4>1. <<x.prefix, x.kind>> \in P /\ u[<<x.prefix, x.kind>>] = x
        BY DEF Usages
      <4>. QED BY <4>1
    <3>. QED BY <3>1, <3>2 DEF Surjection
  <2>. HIDE DEF P, u
  <2>. QED BY <2>1, <2>2, FS_Surjection
<1>3. IsFiniteSet(Groups)
  <2>. DEFINE R == Charges \X {0, 1}
              P == Usages \X R
              u == [p \in P |-> [u |-> p[1], c |-> p[2][1], q |-> p[2][2]]]
              All == [u : Usages, c : Charges, q : {0, 1}]
  <2>1. IsFiniteSet({0, 1})
    <3>1. IsFiniteSet({0} \cup {1})
      BY FS_Singleton, FS_Union
    <3>2. {0} \cup {1} = {0, 1}
      OBVIOUS
    <3>. QED BY <3>1, <3>2
  <2>2. IsFiniteSet(R)
    BY <2>1, BillAssumption, FS_Product
  <2>3. u \in [P -> All]
    OBVIOUS
  <2>4. ASSUME NEW x \in All PROVE \E p \in P : u[p] = x
    <3>1. <<x.u, <<x.c, x.q>>>> \in P /\ u[<<x.u, <<x.c, x.q>>>>] = x
      OBVIOUS
    <3>. QED BY <3>1
  <2>5. u \in Surjection(P, All)
    BY <2>3, <2>4 DEF Surjection
  <2>6. Groups \in SUBSET All
    BY DEF Groups
  <2>. HIDE DEF R
  <2>7. IsFiniteSet(P)
    BY <1>2, <2>2, FS_Product
  <2>. HIDE DEF P, u, All
  <2>8. IsFiniteSet(All)
    BY <2>5, <2>7, FS_Surjection
  <2>. QED BY <2>6, <2>8, FS_Subset
<1>4. ASSUME NEW day \in Days PROVE day \subseteq Groups
  BY DEF Days, kSubset
<1>5. ASSUME NEW day \in Days PROVE IsFiniteSet(day)
  BY <1>3, <1>4, FS_Subset
<1>6. ASSUME NEW g \in Groups
      PROVE  ChargeOf[g] = g.c /\ g.c \in Nat /\ QuantityOf[g] = g.q /\ g.q \in Nat
             /\ g.u \in Usages /\ g.u.kind \in Kinds
  <2>1. g \in [u : Usages, c : Charges, q : {0, 1}]
    BY DEF Groups
  <2>2. g.u \in Usages /\ g.c \in Charges /\ g.q \in {0, 1}
    BY <2>1
  <2>3. g.u.kind \in Kinds
    BY <2>2 DEF Usages
  <2>4. ChargeOf[g] = g.c /\ QuantityOf[g] = g.q
    BY DEF ChargeOf, QuantityOf
  <2>5. g.c \in Nat /\ g.q \in Nat
    <3>1. \A c \in Charges : c \in Nat
      BY BillAssumption
    <3>. QED BY <2>2, <3>1
  <2>. QED BY <2>2, <2>3, <2>4, <2>5
<1>. QED BY <1>2, <1>4, <1>5, <1>6

LEMMA CostIs ==
  ASSUME NEW s, s \subseteq Groups, IsFiniteSet(s)
  PROVE  /\ Cost(s) = SumOver(ChargeOf, s) /\ Cost(s) \in Nat
         /\ Quantity(s) = SumOver(QuantityOf, s) /\ Quantity(s) \in Nat
<1>. DEFINE c == [g \in s |-> g.c]
            q == [g \in s |-> g.q]
<1>1. DOMAIN c = s /\ \A g \in s : ChargeOf[g] \in Nat /\ c[g] = ChargeOf[g]
  BY DaysAre
<1>2. DOMAIN q = s /\ \A g \in s : QuantityOf[g] \in Nat /\ q[g] = QuantityOf[g]
  BY DaysAre
<1>. HIDE DEF c, q
<1>3. SumFunction(c) = SumOver(ChargeOf, s) /\ SumFunction(c) \in Nat
  BY <1>1, SumIs
<1>4. SumFunction(q) = SumOver(QuantityOf, s) /\ SumFunction(q) \in Nat
  BY <1>2, SumIs
<1>. QED BY <1>3, <1>4 DEF c, q, Cost, Quantity

\* What some sets of usages cost, one after the other.
LEMMA CostsAre ==
  ASSUME NEW D, IsFiniteSet(D), NEW m, \A i \in D : m[i] \subseteq Groups /\ IsFiniteSet(m[i])
  PROVE  /\ \A i \in D : Cost(m[i]) = SumOver(ChargeOf, m[i]) /\ Cost(m[i]) \in Nat
         /\ SumFunction([i \in D |-> Cost(m[i])]) = SumOver([i \in D |-> SumOver(ChargeOf, m[i])], D)
         /\ SumFunction([i \in D |-> Cost(m[i])]) \in Nat
         /\ \A i \in D : Quantity(m[i]) = SumOver(QuantityOf, m[i]) /\ Quantity(m[i]) \in Nat
         /\ SumFunction([i \in D |-> Quantity(m[i])]) = SumOver([i \in D |-> SumOver(QuantityOf, m[i])], D)
         /\ SumFunction([i \in D |-> Quantity(m[i])]) \in Nat
<1>1. \A i \in D : /\ Cost(m[i]) = SumOver(ChargeOf, m[i]) /\ Cost(m[i]) \in Nat
                   /\ Quantity(m[i]) = SumOver(QuantityOf, m[i]) /\ Quantity(m[i]) \in Nat
  BY CostIs
<1>. DEFINE c == [i \in D |-> Cost(m[i])]
            d == [i \in D |-> SumOver(ChargeOf, m[i])]
            q == [i \in D |-> Quantity(m[i])]
            r == [i \in D |-> SumOver(QuantityOf, m[i])]
<1>2. DOMAIN c = D /\ \A i \in D : d[i] \in Nat /\ c[i] = d[i]
  BY <1>1
<1>3. DOMAIN q = D /\ \A i \in D : r[i] \in Nat /\ q[i] = r[i]
  BY <1>1
<1>. HIDE DEF c, d, q, r
<1>4. SumFunction(c) = SumOver(d, D) /\ SumFunction(c) \in Nat
  BY <1>2, SumIs
<1>5. SumFunction(q) = SumOver(r, D) /\ SumFunction(q) \in Nat
  BY <1>3, SumIs
<1>. QED BY <1>1, <1>4, <1>5 DEF c, d, q, r

LEMMA ProductGrows == ASSUME NEW a \in Nat, NEW b \in Nat, NEW k \in Nat, a <= b PROVE a * k <= b * k
OBVIOUS

LEMMA ShareAtMost ==
  ASSUME NEW b \in Nat, NEW n \in Nat \ {0}, NEW p \in Nat, b <= p * n
  PROVE  b \div n <= p
<1>. DEFINE q == b \div n
            r == b % n
<1>1. q \in Int /\ r \in 0..n-1 /\ b = n * q + r
  OBVIOUS
<1>. HIDE DEF q, r
<1>2. SUFFICES ASSUME q >= p + 1 PROVE FALSE
  BY <1>1 DEF q
<1>3. n * q >= n * (p + 1)
  BY <1>1, <1>2
<1>4. n * (p + 1) = p * n + n
  OBVIOUS
<1>. QED BY <1>1, <1>3, <1>4

\* Some days whose usages are of some kinds, and what each kind comes to over them.
OfKinds(D, m, K, key, cols) ==
  /\ IsFiniteSet(D) /\ IsFiniteSet(K) /\ DOMAIN cols = K
  /\ \A i \in D : m[i] \subseteq Groups /\ IsFiniteSet(m[i]) /\ \A g \in m[i] : key[g] \in K
CostsByKey(D, m, K, key, cols) ==
  /\ OfKinds(D, m, K, key, cols)
  /\ \A k \in K : cols[k] = SumFunction([i \in D |-> Cost({ g \in m[i] : key[g] = k })])
QuantitiesByKey(D, m, K, key, cols) ==
  /\ OfKinds(D, m, K, key, cols)
  /\ \A k \in K : cols[k] = SumFunction([i \in D |-> Quantity({ g \in m[i] : key[g] = k })])

\* What the kinds come to is what the days do.
LEMMA CostByKey ==
  ASSUME NEW D, NEW m, NEW K, NEW key, NEW cols, CostsByKey(D, m, K, key, cols)
  PROVE  SumFunction(cols) = SumFunction([i \in D |-> Cost(m[i])])
<1>. USE DEF CostsByKey, OfKinds
<1>. DEFINE total == [i \in D |-> SumOver(ChargeOf, m[i])]
<1>1. ASSUME NEW k \in K
      PROVE  cols[k] = SumOver([i \in D |-> SumOver(ChargeOf, { g \in m[i] : key[g] = k })], D)
  <2>. DEFINE p == [i \in D |-> { g \in m[i] : key[g] = k }]
  <2>1. \A i \in D : p[i] \subseteq Groups /\ IsFiniteSet(p[i])
    BY FS_Subset
  <2>2. cols[k] = SumFunction([i \in D |-> Cost(p[i])])
    OBVIOUS
  <2>3. [i \in D |-> SumOver(ChargeOf, p[i])] = [i \in D |-> SumOver(ChargeOf, { g \in m[i] : key[g] = k })]
    OBVIOUS
  <2>. HIDE DEF p
  <2>4. SumFunction([i \in D |-> Cost(p[i])]) = SumOver([i \in D |-> SumOver(ChargeOf, p[i])], D)
    BY <2>1, CostsAre
  <2>. QED BY <2>2, <2>3, <2>4
<1>2. \A i \in D : \A g \in m[i] : ChargeOf[g] \in Nat
  BY DaysAre
<1>3. Keyed(D, K, m, ChargeOf, key, total, cols)
  BY <1>1, <1>2 DEF Keyed
<1>4. SumFunction([i \in D |-> Cost(m[i])]) = SumOver(total, D)
  BY CostsAre
<1>. HIDE DEF total
<1>5. SumOver(cols, K) = SumOver(total, D) /\ \A k \in K : cols[k] \in Nat
  BY <1>3, SumsByKey
<1>6. SumFunction(cols) = SumOver(cols, K)
  BY <1>5, SumIs
<1>. QED BY <1>4, <1>5, <1>6

LEMMA QuantityByKey ==
  ASSUME NEW D, NEW m, NEW K, NEW key, NEW cols, QuantitiesByKey(D, m, K, key, cols)
  PROVE  SumFunction(cols) = SumFunction([i \in D |-> Quantity(m[i])])
<1>. USE DEF QuantitiesByKey, OfKinds
<1>. DEFINE total == [i \in D |-> SumOver(QuantityOf, m[i])]
<1>1. ASSUME NEW k \in K
      PROVE  cols[k] = SumOver([i \in D |-> SumOver(QuantityOf, { g \in m[i] : key[g] = k })], D)
  <2>. DEFINE p == [i \in D |-> { g \in m[i] : key[g] = k }]
  <2>1. \A i \in D : p[i] \subseteq Groups /\ IsFiniteSet(p[i])
    BY FS_Subset
  <2>2. cols[k] = SumFunction([i \in D |-> Quantity(p[i])])
    OBVIOUS
  <2>3. [i \in D |-> SumOver(QuantityOf, p[i])] = [i \in D |-> SumOver(QuantityOf, { g \in m[i] : key[g] = k })]
    OBVIOUS
  <2>. HIDE DEF p
  <2>4. SumFunction([i \in D |-> Quantity(p[i])]) = SumOver([i \in D |-> SumOver(QuantityOf, p[i])], D)
    BY <2>1, CostsAre
  <2>. QED BY <2>2, <2>3, <2>4
<1>2. \A i \in D : \A g \in m[i] : QuantityOf[g] \in Nat
  BY DaysAre
<1>3. Keyed(D, K, m, QuantityOf, key, total, cols)
  BY <1>1, <1>2 DEF Keyed
<1>4. SumFunction([i \in D |-> Quantity(m[i])]) = SumOver(total, D)
  BY CostsAre
<1>. HIDE DEF total
<1>5. SumOver(cols, K) = SumOver(total, D) /\ \A k \in K : cols[k] \in Nat
  BY <1>3, SumsByKey
<1>6. SumFunction(cols) = SumOver(cols, K)
  BY <1>5, SumIs
<1>. QED BY <1>4, <1>5, <1>6

LEMMA ColumnsAre ==
  /\ IsFiniteSet(Columns) /\ IsFiniteSet(MachineTime) /\ IsFiniteSet(Kinds)
  /\ \A g \in Groups : Bucket(g.u) \in Columns
                       /\ (Bucket(g.u) = "compute" <=> g.u.kind \in MachineTime)
<1>1. /\ IsFiniteSet({"compute"}) /\ IsFiniteSet({"s3"}) /\ IsFiniteSet({"disk"}) /\ IsFiniteSet({"egress"})
      /\ IsFiniteSet({"api"}) /\ IsFiniteSet({"other"}) /\ IsFiniteSet({"box"}) /\ IsFiniteSet({"spot"})
  BY FS_Singleton
<1>. DEFINE a == {"compute"} \cup {"s3"}
            b == a \cup {"disk"}
            c == b \cup {"egress"}
            d == c \cup {"api"}
            e == d \cup {"other"}
            m == {"box"} \cup {"spot"}
            f == e \cup m
<1>2. IsFiniteSet(a) /\ IsFiniteSet(m)
  BY <1>1, FS_Union
<1>3. IsFiniteSet(b)
  BY <1>1, <1>2, FS_Union
<1>4. IsFiniteSet(c)
  BY <1>1, <1>3, FS_Union
<1>5. IsFiniteSet(d)
  BY <1>1, <1>4, FS_Union
<1>6. IsFiniteSet(e)
  BY <1>1, <1>5, FS_Union
<1>7. Columns = e /\ MachineTime = m /\ Kinds \subseteq f
  BY BillAssumption DEF Columns, MachineTime
<1>8. IsFiniteSet(f)
  BY <1>2, <1>6, FS_Union
<1>9. IsFiniteSet(Kinds)
  BY <1>7, <1>8, FS_Subset
<1>10. ASSUME NEW g \in Groups
       PROVE Bucket(g.u) \in Columns /\ (Bucket(g.u) = "compute" <=> g.u.kind \in MachineTime)
  <2>1. g.u.kind \in {"box", "spot", "egress", "s3", "disk", "api", "other"}
    BY DaysAre, BillAssumption
  <2>. QED BY <2>1 DEF Bucket, StripRegion, Columns, MachineTime
<1>. QED BY <1>2, <1>6, <1>7, <1>9, <1>10

LEMMA MonthSums ==
  ASSUME month \in Seq(Days)
  PROVE  MonthAddsUp
<1>. DEFINE D == DOMAIN month
            R == Rows(month)
            total == [i \in D |-> Cost(month[i])]
            shown == [i \in R |-> Cost(month[i])]
            rest == [i \in D \ R |-> Cost(month[i])]
            table == Table(month)
            summary == Summary(month)
            report == Report(Aggregate(month))
<1>1. /\ IsFiniteSet(D) /\ R \subseteq D /\ IsFiniteSet(R) /\ IsFiniteSet(D \ R)
      /\ \A i \in D : month[i] \in Days /\ month[i] \subseteq Groups /\ IsFiniteSet(month[i])
  <2>1. D = 1..Len(month) /\ Len(month) \in Nat
    OBVIOUS
  <2>2. IsFiniteSet(1..Len(month))
    BY <2>1, FS_Interval
  <2>3. R \subseteq D
    BY DEF Rows
  <2>4. \A i \in D : month[i] \in Days
    OBVIOUS
  <2>. HIDE DEF D, R
  <2>5. IsFiniteSet(R) /\ IsFiniteSet(D \ R)
    BY <2>1, <2>2, <2>3, FS_Subset
  <2>. QED BY <2>1, <2>2, <2>3, <2>4, <2>5, DaysAre
<1>2. \A i \in D : Cost(month[i]) \in Nat /\ RowTotal(Row(month[i])) = Cost(month[i])
  <2>1. ASSUME NEW i \in D PROVE Cost(month[i]) \in Nat /\ RowTotal(Row(month[i])) = Cost(month[i])
    <3>. DEFINE S == month[i]
                part == [k \in Columns |-> { g \in S : Bucket(g.u) = k }]
                h == Row(month[i]).cols
    <3>1. S \subseteq Groups /\ IsFiniteSet(S) /\ \A g \in S : ChargeOf[g] \in Nat
      BY <1>1, DaysAre
    <3>2. /\ \A k \in Columns : part[k] \subseteq S
          /\ \A g \in S : \E k \in Columns : g \in part[k]
          /\ \A k \in Columns, l \in Columns : k # l => part[k] \cap part[l] = {}
      BY <3>1, ColumnsAre
    <3>3. DOMAIN h = Columns /\ \A k \in Columns : h[k] = Cost(part[k])
      BY DEF Row
    <3>4. RowTotal(Row(month[i])) = SumFunction(h)
      BY DEF RowTotal
    <3>. HIDE DEF S, part, h
    <3>5. \A k \in Columns : part[k] \subseteq Groups /\ IsFiniteSet(part[k])
      BY <3>1, <3>2, FS_Subset
    <3>6. \A k \in Columns : h[k] = SumOver(ChargeOf, part[k]) /\ h[k] \in Nat
      BY <3>3, <3>5, CostIs
    <3>7. SumOver(h, Columns) = SumOver(ChargeOf, S)
      BY <3>1, <3>2, <3>6, ColumnsAre, SumByKind
    <3>8. SumFunction(h) = SumOver(h, Columns)
      BY <3>3, <3>6, ColumnsAre, SumIs
    <3>9. Cost(S) = SumOver(ChargeOf, S) /\ Cost(S) \in Nat
      BY <3>1, CostIs
    <3>. QED BY <3>4, <3>7, <3>8, <3>9 DEF S
  <2>. QED BY <2>1
<1>3. MonthTotal(table) = SumFunction(shown)
  <2>. DEFINE key == [g \in Groups |-> Bucket(g.u)]
              cols == table.month
  <2>1. \A i \in R : \A g \in month[i] : key[g] \in Columns
    BY <1>1, ColumnsAre
  <2>2. \A i \in R : month[i] \subseteq Groups /\ IsFiniteSet(month[i])
    BY <1>1
  <2>3. DOMAIN cols = Columns
    BY DEF Table
  <2>4. ASSUME NEW k \in Columns
        PROVE  cols[k] = SumFunction([i \in R |-> Cost({ g \in month[i] : key[g] = k })])
    <3>1. cols[k] = SumFunction([i \in R |-> Row(month[i]).cols[k]])
      BY DEF Table
    <3>2. ASSUME NEW i \in R PROVE Row(month[i]).cols[k] = Cost({ g \in month[i] : key[g] = k })
      <4>1. { g \in month[i] : key[g] = k } = { g \in month[i] : Bucket(g.u) = k }
        BY <2>2
      <4>. HIDE DEF key
      <4>2. Row(month[i]).cols[k] = Cost({ g \in month[i] : Bucket(g.u) = k })
        BY DEF Row
      <4>. QED BY <4>1, <4>2
    <3>3. [i \in R |-> Row(month[i]).cols[k]] = [i \in R |-> Cost({ g \in month[i] : key[g] = k })]
      BY <3>2
    <3>. QED BY <3>1, <3>3
  <2>. HIDE DEF key, cols, R
  <2>5. CostsByKey(R, month, Columns, key, cols)
    BY <1>1, <2>1, <2>2, <2>3, <2>4, ColumnsAre DEF CostsByKey, OfKinds
  <2>6. SumFunction(cols) = SumFunction([i \in R |-> Cost(month[i])])
    BY <2>5, CostByKey
  <2>. QED BY <2>6 DEF cols, MonthTotal
<1>4. MonthTotal(table) = summary.total
  <2>1. [i \in R |-> RowTotal(Row(month[i]))] = shown
    BY <1>1, <1>2
  <2>2. summary.total = SumFunction([i \in R |-> RowTotal(Row(month[i]))])
    BY DEF Summary
  <2>. QED BY <1>3, <2>1, <2>2
<1>5. report.whole = SumFunction(total)
  <2>. DEFINE U == UNION { { g.u : g \in month[i] } : i \in D }
              usage == Aggregate(month)
              cols == [u \in U |-> usage[u].c]
              key == [g \in Groups |-> g.u]
  <2>1. U \subseteq Usages
    BY <1>1, DaysAre
  <2>2. IsFiniteSet(U)
    BY <2>1, DaysAre, FS_Subset
  <2>3. DOMAIN usage = U
    BY DEF Aggregate
  <2>4. report.whole = SumFunction(cols)
    BY <2>3 DEF Report
  <2>5. ASSUME NEW u \in U
        PROVE  cols[u] = SumFunction([i \in D |-> Cost({ g \in month[i] : key[g] = u })])
    <3>. DEFINE own == [i \in D |-> { g \in month[i] : g.u = u }]
    <3>1. cols[u] = Costs(own)
      BY DEF Aggregate
    <3>2. Costs(own) = SumFunction([i \in D |-> Cost(own[i])])
      BY DEF Costs
    <3>3. ASSUME NEW i \in D PROVE own[i] = { g \in month[i] : key[g] = u }
      BY <1>1
    <3>4. [i \in D |-> Cost(own[i])] = [i \in D |-> Cost({ g \in month[i] : key[g] = u })]
      BY <3>3
    <3>. QED BY <3>1, <3>2, <3>4
  <2>6. \A i \in D : \A g \in month[i] : key[g] \in U
    BY <1>1
  <2>7. DOMAIN cols = U
    OBVIOUS
  <2>. HIDE DEF U, usage, cols, key, D
  <2>8. CostsByKey(D, month, U, key, cols)
    BY <1>1, <2>2, <2>5, <2>6, <2>7 DEF CostsByKey, OfKinds
  <2>9. SumFunction(cols) = SumFunction([i \in D |-> Cost(month[i])])
    BY <2>8, CostByKey
  <2>. QED BY <2>4, <2>9
<1>6. SumFunction(summary.usage) = SumFunction(total)
  <2>. DEFINE cols == summary.usage
              key == [g \in Groups |-> StripRegion(g.u)]
  <2>1. DOMAIN cols = Kinds
    BY DEF Summary
  <2>2. \A i \in D : \A g \in month[i] : key[g] \in Kinds
    BY <1>1, DaysAre DEF StripRegion
  <2>3. ASSUME NEW k \in Kinds
        PROVE  cols[k] = SumFunction([i \in D |-> Cost({ g \in month[i] : key[g] = k })])
    <3>. DEFINE own == OfKind(month, k)
    <3>1. cols[k] = Costs(own) /\ own = [i \in D |-> { g \in month[i] : StripRegion(g.u) = k }]
      BY DEF Summary, OfKind
    <3>2. Costs(own) = SumFunction([i \in D |-> Cost(own[i])])
      BY <3>1 DEF Costs
    <3>3. ASSUME NEW i \in D PROVE own[i] = { g \in month[i] : key[g] = k }
      BY <1>1, <3>1
    <3>4. [i \in D |-> Cost(own[i])] = [i \in D |-> Cost({ g \in month[i] : key[g] = k })]
      BY <3>3
    <3>. QED BY <3>1, <3>2, <3>4
  <2>. HIDE DEF cols, key, D
  <2>4. CostsByKey(D, month, Kinds, key, cols)
    BY <1>1, <2>1, <2>2, <2>3, ColumnsAre DEF CostsByKey, OfKinds
  <2>5. SumFunction(cols) = SumFunction([i \in D |-> Cost(month[i])])
    BY <2>4, CostByKey
  <2>. QED BY <2>5 DEF cols
<1>7. SumFunction(total) = SumFunction(shown) + SumFunction(rest)
  <2>1. \A i \in D : total[i] = Cost(month[i]) /\ total[i] \in Nat
    BY <1>2
  <2>2. /\ DOMAIN total = D /\ DOMAIN shown = R /\ DOMAIN rest = D \ R
        /\ \A i \in R : shown[i] = total[i] /\ total[i] \in Nat
        /\ \A i \in D \ R : rest[i] = total[i] /\ total[i] \in Nat
    BY <1>1, <2>1
  <2>. DEFINE E == D \ R
  <2>3. /\ DOMAIN rest = E /\ IsFiniteSet(E) /\ \A i \in E : rest[i] = total[i] /\ total[i] \in Nat
    BY <1>1, <2>2
  <2>4. SumOver(total, D) = SumOver(total, R) + SumOver(total, E)
    <3>. HIDE DEF total, R, D
    <3>. QED BY <1>1, <2>1, SumPart
  <2>. HIDE DEF D, R, E, total, shown, rest
  <2>5. SumFunction(total) = SumOver(total, D)
    BY <1>1, <2>1, <2>2, SumIs
  <2>6. SumFunction(shown) = SumOver(total, R)
    BY <1>1, <2>2, SumIs
  <2>7. SumFunction(rest) = SumOver(total, E)
    BY <2>3, SumIs
  <2>. QED BY <2>4, <2>5, <2>6, <2>7
<1>8. table.hours = SumFunction(summary.hours)
  <2>. DEFINE m == [i \in D |-> { g \in month[i] : Bucket(g.u) = "compute" }]
              hours == [i \in D |-> Quantity(m[i])]
              own == [i \in R |-> Row(month[i]).hours]
              cols == summary.hours
              key == [g \in Groups |-> StripRegion(g.u)]
  <2>1. \A i \in D : m[i] \subseteq Groups /\ IsFiniteSet(m[i])
    BY <1>1, FS_Subset
  <2>2. \A i \in D : \A g \in m[i] : key[g] \in MachineTime
    BY <1>1, ColumnsAre DEF StripRegion
  <2>3. DOMAIN cols = MachineTime
    BY DEF Summary
  <2>4. ASSUME NEW k \in MachineTime
        PROVE  cols[k] = SumFunction([i \in D |-> Quantity({ g \in m[i] : key[g] = k })])
    <3>. DEFINE was == OfKind(month, k)
    <3>1. cols[k] = Quantities(was) /\ was = [i \in D |-> { g \in month[i] : StripRegion(g.u) = k }]
      BY DEF Summary, OfKind
    <3>2. Quantities(was) = SumFunction([i \in D |-> Quantity(was[i])])
      BY <3>1 DEF Quantities
    <3>3. ASSUME NEW i \in D PROVE was[i] = { g \in m[i] : key[g] = k }
      <4>1. \A g \in month[i] : g \in Groups /\ key[g] = g.u.kind /\ (Bucket(g.u) = "compute" <=> g.u.kind \in MachineTime)
        BY <1>1, ColumnsAre DEF StripRegion
      <4>. HIDE DEF key
      <4>. QED BY <3>1, <4>1 DEF StripRegion
    <3>4. [i \in D |-> Quantity(was[i])] = [i \in D |-> Quantity({ g \in m[i] : key[g] = k })]
      BY <3>3
    <3>. QED BY <3>1, <3>2, <3>4
  <2>5. \A i \in D : hours[i] = Row(month[i]).hours
    BY DEF Row
  <2>6. table.hours = SumFunction(own)
    BY DEF Table
  <2>7. SumFunction(cols) = SumFunction(hours)
    <3>. HIDE DEF m, key, cols, D
    <3>1. QuantitiesByKey(D, m, MachineTime, key, cols)
      BY <1>1, <2>1, <2>2, <2>3, <2>4, ColumnsAre DEF QuantitiesByKey, OfKinds
    <3>2. SumFunction(cols) = SumFunction([i \in D |-> Quantity(m[i])])
      BY <3>1, QuantityByKey
    <3>. QED BY <3>2
  <2>8. \A i \in D : hours[i] \in Nat
    <3>. HIDE DEF m
    <3>1. \A i \in D : Quantity(m[i]) \in Nat
      BY <2>1, CostIs
    <3>. QED BY <3>1
  <2>9. \A i \in D \ R : hours[i] = 0
    BY <2>5 DEF Rows, Hidden
  <2>. DEFINE E == D \ R
  <2>10. /\ DOMAIN hours = D /\ DOMAIN own = R /\ IsFiniteSet(E)
         /\ \A i \in R : own[i] = hours[i] /\ hours[i] \in Nat
         /\ \A i \in E : hours[i] \in Nat /\ hours[i] <= 0
    BY <1>1, <2>5, <2>8, <2>9
  <2>. HIDE DEF D, R, hours, own
  <2>11. SumOver(hours, D) = SumOver(hours, R) + SumOver(hours, E)
    BY <1>1, <2>8, SumPart
  <2>. HIDE DEF E
  <2>12. SumOver(hours, E) <= Cardinality(E) * 0 /\ SumOver(hours, E) \in Nat /\ Cardinality(E) \in Nat
    BY <2>10, SumAtMost, SumType, FS_CardinalityType
  <2>13. SumFunction(hours) = SumOver(hours, D)
    BY <1>1, <2>8, <2>10, SumIs
  <2>14. SumFunction(own) = SumOver(hours, R) /\ SumFunction(own) \in Nat
    BY <1>1, <2>10, SumIs
  <2>15. SumOver(hours, E) = 0
    BY <2>12
  <2>16. SumFunction(own) = SumFunction(hours)
    BY <2>11, <2>13, <2>14, <2>15
  <2>. QED BY <2>6, <2>7, <2>16
<1>9. report.nothing => report.whole = 0
  BY DEF Report
<1>10. ASSUME NEW pace \in Pace(month)
       PROVE  pace <= Max({0} \cup { Cost(month[i]) : i \in D }) * DaysInMonth
  <2>. DEFINE S == {0} \cup { Cost(month[i]) : i \in D }
              d == Max(S)
              n == Len(month) - 1
              F == 1..n
              f == [i \in DOMAIN Front(month) |-> Cost(Front(month)[i])]
              b == Costs(Front(month))
  <2>1. ~(Len(month) < 2) /\ pace = (b * DaysInMonth) \div n
    BY <1>10 DEF Pace
  <2>2. n \in Nat \ {0} /\ F \subseteq D /\ Len(month) \in Nat
    <3>1. Len(month) \in Nat /\ D = 1..Len(month)
      OBVIOUS
    <3>. DEFINE l == Len(month)
    <3>2. l \in Nat /\ ~(l < 2) /\ D = 1..l /\ n = l - 1
      BY <2>1, <3>1
    <3>. HIDE DEF l, n, D
    <3>3. n \in Nat \ {0} /\ 1..n \subseteq D
      BY <3>2
    <3>. QED BY <3>1, <3>3
  <2>3. DOMAIN Front(month) = F /\ \A i \in F : Front(month)[i] = month[i]
    BY <2>2 DEF Front
  <2>4. d \in Nat /\ \A i \in D : total[i] <= d
    <3>1. IsFiniteSet({ Cost(month[i]) : i \in D })
      <4>. DEFINE T == { Cost(month[i]) : i \in D }
      <4>1. total \in Surjection(D, T)
        BY DEF Surjection
      <4>. HIDE DEF D, total, T
      <4>2. IsFiniteSet(T)
        BY <1>1, <4>1, FS_Surjection
      <4>. QED BY <4>2 DEF T
    <3>2. IsFiniteSet(S)
      BY <3>1, FS_Union, FS_Singleton
    <3>3. S \subseteq Nat /\ S # {} /\ \A i \in D : total[i] \in S
      BY <1>2
    <3>. HIDE DEF S
    <3>4. d \in S /\ \A x \in S : x <= d
      BY <3>2, <3>3, MaxIs
    <3>. QED BY <3>3, <3>4
  <2>5. /\ DOMAIN f = F /\ IsFiniteSet(F) /\ Cardinality(F) = n
        /\ \A i \in F : f[i] = total[i] /\ total[i] \in Nat /\ total[i] <= d
    <3>0. n \in Nat
      BY <2>2
    <3>1. IsFiniteSet(F) /\ Cardinality(F) = n
      <4>. HIDE DEF n
      <4>1. 1 \in Int /\ n \in Int
        BY <3>0
      <4>2. IsFiniteSet(1..n) /\ Cardinality(1..n) = IF 1 <= n THEN n - 1 + 1 ELSE 0
        BY <4>1, FS_Interval
      <4>. QED BY <3>0, <4>2
    <3>. HIDE DEF d
    <3>. QED BY <1>2, <2>2, <2>3, <2>4, <3>1
  <2>6. b = SumFunction(f)
    BY DEF Costs
  <2>. HIDE DEF b, f, F, n, d, S, total
  <2>7. SumFunction(f) = SumOver(total, F) /\ SumFunction(f) \in Nat
    BY <2>5, SumIs
  <2>8. SumOver(total, F) <= Cardinality(F) * d
    BY <2>4, <2>5, SumAtMost
  <2>9. b \in Nat /\ b <= n * d /\ n * d \in Nat
    BY <2>2, <2>4, <2>5, <2>6, <2>7, <2>8
  <2>10. b * DaysInMonth <= (n * d) * DaysInMonth
    BY <2>9, BillAssumption, ProductGrows
  <2>11. (n * d) * DaysInMonth = (d * DaysInMonth) * n
    BY <2>2, <2>4, BillAssumption
  <2>12. b * DaysInMonth \in Nat /\ d * DaysInMonth \in Nat
    BY <2>4, <2>9, BillAssumption
  <2>13. (b * DaysInMonth) \div n <= d * DaysInMonth
    BY <2>2, <2>10, <2>11, <2>12, ShareAtMost
  <2>. QED BY <2>1, <2>13 DEF d, S
<1>11. MonthTotal(table) + SumFunction(rest) = report.whole
  BY <1>3, <1>5, <1>7
<1>12. report.whole = SumFunction(summary.usage)
  BY <1>5, <1>6
<1>. QED BY <1>4, <1>8, <1>9, <1>10, <1>11, <1>12 DEF MonthAddsUp

MonthInv == month \in Seq(Days)

LEMMA MonthInvInit == Init => MonthInv
<1>1. Init => month = <<>>
  BY DEF Init, BillInit
<1>2. <<>> \in Seq(Days)
  OBVIOUS
<1>. QED BY <1>1, <1>2 DEF MonthInv

LEMMA MonthInvStep == MonthInv /\ [Next]_vars => MonthInv'
<1>. SUFFICES ASSUME MonthInv, [Next]_vars PROVE MonthInv'
  OBVIOUS
<1>1. CASE UNCHANGED billVars
  BY <1>1 DEF billVars, MonthInv
<1>2. CASE BillNext
  <2>1. CASE ReadsADay
    BY <2>1 DEF ReadsADay, MonthInv
  <2>2. CASE ReadsTheLast
    BY <2>2 DEF ReadsTheLast, MonthInv
  <2>3. CASE PageFails
    BY <2>3 DEF PageFails, MonthInv
  <2>. QED BY <1>2, <2>1, <2>2, <2>3 DEF BillNext
<1>3. UNCHANGED billVars \/ BillNext
  BY DEF Next, vars
<1>. QED BY <1>1, <1>2, <1>3

\* MonthAddsUp: for any number of regions, charges, usages and days the table with
\* what it hides, --json's usages and the report come to one total, the hours of the
\* table are those of both ways to pay, the report calls only a month of no charge
\* empty, and the pace is at most the dearest day's.
THEOREM MonthAlwaysAddsUp == Spec => []MonthAddsUp
<1>1. MonthInv => MonthAddsUp
  BY MonthSums DEF MonthInv
<1>. QED BY <1>1, MonthInvInit, MonthInvStep, PTL DEF Spec
-----------------------------------------------------------------------------
(* `cg cost`: what its reads are in charge of, and what they found.           *)
Reads == {"account", "instance", "attached", "by tag", "by name", "images", "snapshots",
          "addresses", "budget", "hours", "bucket"}

\* The account: a machine has its own disk on it for as long as it is there, and what
\* stayed is there now and counts.
WorldOK ==
  /\ box \in {"none", "here", "leaving"}
  /\ there \subseteq ever /\ ever \subseteq Things /\ attached \subseteq there \cap Disks
  /\ ("box" \in there <=> box # "none") /\ ("root" \in there <=> "root" \in attached)
  /\ ("root" \in there <=> box # "none") /\ (box = "none" => attached = {})
  /\ \A x \in stayed : x \in there /\ Counts(x, box, attached)
  /\ Things \ {"legacy", "backing"} \subseteq tagged

\* The reads are made in their order, each once.
ToCome(k) == [i \in 1..(12 - k) |-> ToRead[k - 1 + i]]
InOrder ==
  /\ saw \in [Reads -> SUBSET (Things \cup {"?"})]
  /\ \E k \in 1..12 : todo = ToCome(k) /\ \A j \in k..11 : saw[ToRead[j]] = Unread

\* What a read can find, of what there was at any time.
CanFind(r) == CASE r = "instance"  -> {"box"}
                [] r \in {"attached", "by tag"} -> Disks
                [] r = "by name"   -> {"legacy"}
                [] r = "images"    -> {"image", "backing"}
                [] r = "snapshots" -> SnapshotsOf
                [] r = "addresses" -> {"address"}
                [] r = "budget"    -> {"budget"}
                [] r = "bucket"    -> {"games"}
                [] OTHER           -> {}
FindsWhatWas == \A r \in Reads : Was(r) => saw[r] \subseteq ever \cap CanFind(r)

\* ... and of what is in one read's care it finds what stayed.
Cares(r) == CASE r = "images" -> {"image", "backing"} [] r = "snapshots" -> {"loose"}
              [] r = "addresses" -> {"address"} [] r = "budget" -> {"budget"}
              [] r = "bucket" -> {"games"} [] r = "instance" -> {"box"} [] OTHER -> {}
FindsWhatStays == \A r \in Reads : Was(r) => stayed \cap Cares(r) \subseteq saw[r]

\* The machine's own disk is on it in every read of both.
SeenOnBox(x) == (Was("instance") => "box" \in saw["instance"]) /\ (Was("attached") => x \in saw["attached"])
RootIsSeen == "root" \in stayed => SeenOnBox("root")

\* The old disk moves once, off its machine: until then each read has seen it there, and
\* the read by name comes after both.
LegacyIsSeen ==
  /\ "legacy" \in stayed \cap attached => SeenOnBox("legacy")
  /\ "legacy" \in stayed /\ Was("by name") => "legacy" \in saw["by name"] \/ SeenOnBox("legacy")

CostInv == WorldOK /\ InOrder /\ FindsWhatWas /\ FindsWhatStays /\ RootIsSeen /\ LegacyIsSeen

\* The other regions: saved games are in a bucket.
FarOK == "games" \in elsewhere.has => "bucket" \in elsewhere.has

LEMMA ReadsAre ==
  /\ Range(ToRead) = Reads /\ DOMAIN ToRead = 1..11
  /\ ToRead[1] = "account" /\ ToRead[2] = "instance" /\ ToRead[3] = "attached" /\ ToRead[4] = "by tag"
  /\ ToRead[5] = "by name" /\ ToRead[6] = "images" /\ ToRead[7] = "snapshots" /\ ToRead[8] = "addresses"
  /\ ToRead[9] = "budget" /\ ToRead[10] = "hours" /\ ToRead[11] = "bucket"
<1>1. DOMAIN ToRead = 1..11
  BY DEF ToRead
<1>2. /\ ToRead[1] = "account" /\ ToRead[2] = "instance" /\ ToRead[3] = "attached" /\ ToRead[4] = "by tag"
      /\ ToRead[5] = "by name" /\ ToRead[6] = "images" /\ ToRead[7] = "snapshots" /\ ToRead[8] = "addresses"
      /\ ToRead[9] = "budget" /\ ToRead[10] = "hours" /\ ToRead[11] = "bucket"
  BY DEF ToRead
<1>3. 1..11 = {1, 2, 3, 4, 5, 6, 7, 8, 9, 10, 11}
  OBVIOUS
<1>4. Range(ToRead) = { ToRead[i] : i \in 1..11 }
  BY <1>1 DEF Range
<1>5. ASSUME NEW i \in 1..11 PROVE ToRead[i] \in Reads
  BY <1>2, <1>3 DEF Reads
<1>6. ASSUME NEW r \in Reads PROVE \E i \in 1..11 : r = ToRead[i]
  <2>1. /\ 1 \in 1..11 /\ 2 \in 1..11 /\ 3 \in 1..11 /\ 4 \in 1..11 /\ 5 \in 1..11 /\ 6 \in 1..11
        /\ 7 \in 1..11 /\ 8 \in 1..11 /\ 9 \in 1..11 /\ 10 \in 1..11 /\ 11 \in 1..11
    OBVIOUS
  <2>. QED BY <1>2, <2>1 DEF Reads
<1>7. Range(ToRead) = Reads
  BY <1>4, <1>5, <1>6
<1>. QED BY <1>1, <1>2, <1>7

LEMMA ReadsOnce ==
  ASSUME NEW i \in 1..11, NEW j \in 1..11, i < j
  PROVE  ToRead[i] # ToRead[j] /\ ToRead[i] \in Reads
<1>. DEFINE place(r) == CASE r = "account" -> 1 [] r = "instance" -> 2 [] r = "attached" -> 3 [] r = "by tag" -> 4
                          [] r = "by name" -> 5 [] r = "images" -> 6 [] r = "snapshots" -> 7
                          [] r = "addresses" -> 8 [] r = "budget" -> 9 [] r = "hours" -> 10 [] OTHER -> 11
<1>1. ASSUME NEW n \in 1..11 PROVE place(ToRead[n]) = n
  <2>1. n \in {1, 2, 3, 4, 5, 6, 7, 8, 9, 10, 11}
    OBVIOUS
  <2>. QED BY <2>1, ReadsAre
<1>2. place(ToRead[i]) = i /\ place(ToRead[j]) = j
  BY <1>1
<1>. HIDE DEF place
<1>3. ToRead[i] # ToRead[j]
  BY <1>2
<1>4. ToRead[i] \in Reads
  BY ReadsAre DEF Range
<1>. QED BY <1>3, <1>4

LEMMA ToComeTyped ==
  ASSUME NEW n \in 1..12
  PROVE  ToCome(n) \in Seq(Reads) /\ Len(ToCome(n)) = 12 - n
         /\ \A i \in 1..(12 - n) : ToCome(n)[i] = ToRead[n - 1 + i]
<1>1. \A i \in 1..(12 - n) : n - 1 + i \in 1..11
  OBVIOUS
<1>2. \A i \in 1..11 : ToRead[i] \in Reads
  BY ReadsAre DEF Range
<1>3. ToCome(n) \in [1..(12 - n) -> Reads] /\ 12 - n \in Nat
  BY <1>1, <1>2 DEF ToCome
<1>4. \A i \in 1..(12 - n) : ToCome(n)[i] = ToRead[n - 1 + i]
  BY DEF ToCome
<1>. QED BY <1>3, <1>4

LEMMA ToComeIs ==
  ASSUME NEW k \in 1..12
  PROVE  /\ ToCome(k) = <<>> <=> k = 12
         /\ k # 12 => Head(ToCome(k)) = ToRead[k] /\ Tail(ToCome(k)) = ToCome(k + 1)
<1>1. ToCome(k) \in Seq(Reads) /\ Len(ToCome(k)) = 12 - k /\ \A i \in 1..(12 - k) : ToCome(k)[i] = ToRead[k - 1 + i]
  BY ToComeTyped
<1>2. CASE k = 12
  BY <1>1, <1>2
<1>3. CASE k # 12
  <2>1. k + 1 \in 1..12
    BY <1>3
  <2>2. ToCome(k + 1) \in Seq(Reads) /\ Len(ToCome(k + 1)) = 11 - k
        /\ \A i \in 1..(11 - k) : ToCome(k + 1)[i] = ToRead[k + i]
    <3>1. PICK n \in 1..12 : n = k + 1
      BY <2>1
    <3>2. ToCome(n) \in Seq(Reads) /\ Len(ToCome(n)) = 12 - n
          /\ \A i \in 1..(12 - n) : ToCome(n)[i] = ToRead[n - 1 + i]
      BY ToComeTyped
    <3>3. 12 - n = 11 - k /\ \A i \in 1..(11 - k) : n - 1 + i = k + i
      BY <3>1
    <3>. QED BY <3>1, <3>2, <3>3
  <2>. DEFINE s == ToCome(k)
              t == ToCome(k + 1)
  <2>3. /\ s \in Seq(Reads) /\ Len(s) = 12 - k /\ 12 - k >= 1
        /\ t \in Seq(Reads) /\ Len(t) = 11 - k
    BY <1>1, <1>3, <2>2
  <2>4. s[1] = ToRead[k] /\ \A i \in 1..(11 - k) : s[i + 1] = t[i]
    <3>1. 1 \in 1..(12 - k) /\ k - 1 + 1 = k
      BY <1>3
    <3>2. ASSUME NEW i \in 1..(11 - k)
          PROVE  i + 1 \in 1..(12 - k) /\ k - 1 + (i + 1) = k + i
      OBVIOUS
    <3>. QED BY <1>1, <2>2, <3>1, <3>2
  <2>. HIDE DEF s, t
  <2>5. s # <<>> /\ Head(s) = s[1] /\ Tail(s) \in Seq(Reads) /\ Len(Tail(s)) = 11 - k
        /\ \A i \in 1..(11 - k) : Tail(s)[i] = s[i + 1]
    BY <2>3
  <2>6. Tail(s) = t
    BY <2>3, <2>4, <2>5
  <2>. QED BY <1>3, <2>4, <2>5, <2>6 DEF s, t
<1>. QED BY <1>2, <1>3

LEMMA NextIs ==
  ASSUME InOrder, todo # <<>>
  PROVE  /\ NextRead \in Reads /\ saw[NextRead] = Unread
         /\ NextRead = "instance" => saw["attached"] = Unread /\ saw["by name"] = Unread
         /\ NextRead = "attached" => saw["by name"] = Unread
         /\ \E k \in 1..12 : Tail(todo) = ToCome(k)
                             /\ \A j \in k..11 : saw[ToRead[j]] = Unread /\ ToRead[j] # NextRead
<1>1. PICK k \in 1..12 : todo = ToCome(k) /\ \A j \in k..11 : saw[ToRead[j]] = Unread
  BY DEF InOrder
<1>2. k # 12 /\ k \in 1..11 /\ NextRead = ToRead[k] /\ Tail(todo) = ToCome(k + 1)
  <2>1. k # 12
    BY <1>1, ToComeIs
  <2>2. Head(ToCome(k)) = ToRead[k] /\ Tail(ToCome(k)) = ToCome(k + 1)
    BY <2>1, ToComeIs
  <2>. QED BY <1>1, <2>1, <2>2 DEF NextRead
<1>3. NextRead \in Reads /\ saw[NextRead] = Unread
  <2>1. k \in k..11
    BY <1>2
  <2>. QED BY <1>1, <1>2, <2>1, ReadsAre DEF Range
<1>4. \A j \in (k + 1)..11 : saw[ToRead[j]] = Unread /\ ToRead[j] # NextRead
  <2>1. \A j \in (k + 1)..11 : j \in k..11 /\ j \in 1..11 /\ k < j
    BY <1>2
  <2>. QED BY <1>1, <1>2, <2>1, ReadsOnce
<1>5. NextRead = "instance" => k = 2
  <2>1. k \in {1, 2, 3, 4, 5, 6, 7, 8, 9, 10, 11}
    BY <1>2
  <2>. QED BY <1>2, <2>1, ReadsAre
<1>6. NextRead = "attached" => k = 3
  <2>1. k \in {1, 2, 3, 4, 5, 6, 7, 8, 9, 10, 11}
    BY <1>2
  <2>. QED BY <1>2, <2>1, ReadsAre
<1>7. k = 2 => saw["attached"] = Unread /\ saw["by name"] = Unread
  <2>1. k = 2 => 3 \in (k + 1)..11 /\ 5 \in (k + 1)..11
    OBVIOUS
  <2>. QED BY <1>4, <2>1, ReadsAre
<1>8. k = 3 => saw["by name"] = Unread
  <2>1. k = 3 => 5 \in (k + 1)..11
    OBVIOUS
  <2>. QED BY <1>4, <2>1, ReadsAre
<1>9. k + 1 \in 1..12
  BY <1>2
<1>. QED BY <1>2, <1>3, <1>4, <1>5, <1>6, <1>7, <1>8, <1>9

LEMMA CostInvInit == CostInit => CostInv
<1>. SUFFICES ASSUME CostInit PROVE CostInv
  OBVIOUS
<1>1. PICK w \in Worlds : box = w.box /\ there = w.there /\ attached = w.attached
        /\ stayed = { x \in w.there : Counts(x, w.box, w.attached) } /\ ever = w.there
  BY DEF CostInit
<1>2. todo = ToRead /\ saw = [r \in Reads |-> Unread]
  BY ReadsAre DEF CostInit, NotSeen
<1>3. WorldOK
  <2>1. Things \ {"legacy", "backing"} \subseteq tagged
    BY DEF CostInit
  <2>. QED BY <1>1, <2>1 DEF WorldOK, Worlds, Disks
<1>4. InOrder
  <2>1. ToCome(1) = ToRead
    BY DEF ToCome, ToRead
  <2>2. \A j \in 1..11 : saw[ToRead[j]] = Unread
    BY <1>2, ReadsAre DEF Range
  <2>3. saw \in [Reads -> SUBSET (Things \cup {"?"})]
    BY <1>2 DEF Unread
  <2>. QED BY <1>2, <2>1, <2>2, <2>3 DEF InOrder
<1>5. \A r \in Reads : ~Was(r)
  BY <1>2 DEF Was
<1>6. ~Was("instance") /\ ~Was("attached") /\ ~Was("by name")
  BY <1>5 DEF Reads
<1>. QED BY <1>3, <1>4, <1>5, <1>6 DEF CostInv, FindsWhatWas, FindsWhatStays, RootIsSeen, LegacyIsSeen, SeenOnBox

\* Others change the account; what was seen is as it was.
LEMMA CostMoves ==
  ASSUME CostInv, Moves
  PROVE  CostInv'
<1>1. WorldOK' /\ attached' \subseteq attached \cup {"root"} /\ stayed' \subseteq stayed /\ ever \subseteq ever'
      /\ UNCHANGED <<todo, saw>>
  <2>1. CASE BoxEnds
    BY <2>1 DEF CostInv, WorldOK, BoxEnds, Turns, Counts
  <2>2. CASE BoxIsGone
    BY <2>2 DEF CostInv, WorldOK, BoxIsGone, Turns, Counts
  <2>3. CASE BoxComes
    BY <2>3 DEF CostInv, WorldOK, BoxComes, Turns, Counts, Things, Billing, Disks
  <2>4. CASE ThingGoes
    BY <2>4 DEF CostInv, WorldOK, ThingGoes, Turns, Counts
  <2>5. CASE ThingComes
    <3>1. PICK x \in {"loose", "address", "games", "budget"} \ there : Turns(box, there \cup {x}, attached)
      BY <2>5 DEF ThingComes
    <3>2. x \in Things /\ x # "root" /\ x # "box"
      BY DEF Things, Billing, SnapshotsOf
    <3>. QED BY <3>1, <3>2 DEF CostInv, WorldOK, Turns, Counts
  <2>. QED BY <2>1, <2>2, <2>3, <2>4, <2>5 DEF Moves
<1>2. InOrder'
  BY <1>1 DEF CostInv, InOrder
<1>3. FindsWhatWas' /\ FindsWhatStays'
  BY <1>1 DEF CostInv, FindsWhatWas, FindsWhatStays, Was
<1>4. RootIsSeen' /\ LegacyIsSeen'
  BY <1>1 DEF CostInv, RootIsSeen, LegacyIsSeen, SeenOnBox, Was
<1>. QED BY <1>1, <1>2, <1>3, <1>4 DEF CostInv

LEMMA CostReadFails ==
  ASSUME CostInv, ReadFails
  PROVE  CostInv'
<1>1. UNCHANGED <<box, there, attached, tagged, stayed, ever, saw>> /\ todo # <<>>
      /\ (todo' = <<>> \/ todo' = Tail(todo))
  BY DEF ReadFails
<1>2. InOrder'
  <2>1. CASE todo' = <<>>
    <3>1. todo' = ToCome(12) /\ 12 \in 1..12 /\ \A j \in 12..11 : FALSE
      BY <2>1, ToComeIs
    <3>. QED BY <1>1, <3>1 DEF CostInv, InOrder
  <2>2. CASE todo' = Tail(todo)
    BY <1>1, <2>2, NextIs DEF CostInv, InOrder
  <2>. QED BY <1>1, <2>1, <2>2
<1>. QED BY <1>1, <1>2 DEF CostInv, WorldOK, FindsWhatWas, FindsWhatStays, RootIsSeen, LegacyIsSeen, SeenOnBox, Was

\* What a read finds is there, and is all that it cares for.
LEMMA FoundIs ==
  ASSUME WorldOK, NEW r \in Reads
  PROVE  /\ Found(r) \subseteq there \cap CanFind(r)
         /\ stayed \cap Cares(r) \subseteq Found(r)
         /\ "?" \notin Found(r) /\ Found(r) \in SUBSET (Things \cup {"?"})
<1>1. Found(r) \subseteq there \cap CanFind(r) /\ stayed \cap Cares(r) \subseteq Found(r)
  <2>1. CASE r = "instance"
    BY <2>1 DEF WorldOK, Found, CanFind, Cares, Instance, Counts
  <2>2. CASE r = "attached"
    BY <2>2 DEF WorldOK, Found, CanFind, Cares, AttachedTo, Disks
  <2>3. CASE r \in {"by tag", "by name"}
    BY <2>3 DEF WorldOK, Found, CanFind, Cares, Free, Disks
  <2>4. CASE r \in {"images", "snapshots"}
    BY <2>4 DEF WorldOK, Found, CanFind, Cares, SnapshotsOf, Things, Billing
  <2>5. CASE r \in {"addresses", "budget", "bucket"}
    BY <2>5 DEF WorldOK, Found, CanFind, Cares
  <2>6. CASE r \in {"account", "hours"}
    BY <2>6 DEF WorldOK, Found, CanFind, Cares
  <2>. QED BY <2>1, <2>2, <2>3, <2>4, <2>5, <2>6 DEF Reads
<1>2. there \subseteq Things /\ "?" \notin Things
  BY DEF WorldOK, Things, Billing, Disks, SnapshotsOf
<1>. QED BY <1>1, <1>2

LEMMA CostReads ==
  ASSUME CostInv, ReadsOne
  PROVE  CostInv'
<1>0. PICK r : r = NextRead
  OBVIOUS
<1>1. UNCHANGED <<box, there, attached, tagged, stayed, ever>> /\ todo # <<>>
      /\ todo' = Tail(todo) /\ saw' = [saw EXCEPT ![r] = Found(r)]
  BY <1>0 DEF ReadsOne
<1>2. r \in Reads /\ saw[r] = Unread /\ saw \in [Reads -> SUBSET (Things \cup {"?"})]
  BY <1>0, <1>1, NextIs DEF CostInv, InOrder
<1>3. saw'[r] = Found(r) /\ \A q \in Reads : q # r => saw'[q] = saw[q]
  BY <1>1, <1>2
<1>4. /\ Found(r) \subseteq there \cap CanFind(r) /\ stayed \cap Cares(r) \subseteq Found(r)
      /\ "?" \notin Found(r) /\ Found(r) \in SUBSET (Things \cup {"?"})
  BY <1>2, FoundIs DEF CostInv
<1>5. WorldOK'
  BY <1>1 DEF CostInv, WorldOK
<1>6. InOrder'
  <2>1. PICK k \in 1..12 : Tail(todo) = ToCome(k) /\ \A j \in k..11 : saw[ToRead[j]] = Unread /\ ToRead[j] # r
    BY <1>0, <1>1, NextIs DEF CostInv
  <2>2. \A j \in k..11 : ToRead[j] \in Reads
    <3>1. \A j \in k..11 : j \in 1..11
      OBVIOUS
    <3>. QED BY <3>1, ReadsAre DEF Range
  <2>3. \A j \in k..11 : saw'[ToRead[j]] = Unread
    BY <1>3, <2>1, <2>2
  <2>4. saw' \in [Reads -> SUBSET (Things \cup {"?"})]
    BY <1>1, <1>2, <1>4
  <2>. QED BY <1>1, <2>1, <2>3, <2>4 DEF InOrder
<1>7. Was(r)' /\ \A q \in Reads : q # r => (Was(q)' <=> Was(q))
  <2>2. Found(r) # Unread
    BY <1>4 DEF Unread
  <2>3. \A q \in Reads : (Was(q)' <=> saw'[q] # Unread)
    BY DEF Was, Unread
  <2>. QED BY <1>2, <1>3, <2>2, <2>3 DEF Was
<1>8. FindsWhatWas'
  <2>1. ASSUME NEW q \in Reads, Was(q)' PROVE saw'[q] \subseteq ever \cap CanFind(q)
    <3>1. CASE q = r
      BY <1>3, <1>4, <3>1 DEF CostInv, WorldOK
    <3>2. CASE q # r
      BY <1>3, <1>7, <2>1, <3>2 DEF CostInv, FindsWhatWas
    <3>. QED BY <3>1, <3>2
  <2>. QED BY <1>1, <2>1 DEF FindsWhatWas, CanFind, Was
<1>9. FindsWhatStays'
  <2>1. ASSUME NEW q \in Reads, Was(q)' PROVE stayed \cap Cares(q) \subseteq saw'[q]
    <3>1. CASE q = r
      BY <1>3, <1>4, <3>1
    <3>2. CASE q # r
      BY <1>3, <1>7, <2>1, <3>2 DEF CostInv, FindsWhatStays
    <3>. QED BY <3>1, <3>2
  <2>. QED BY <1>1, <2>1 DEF FindsWhatStays, Cares, Was
<1>10. /\ "instance" \in Reads /\ "attached" \in Reads /\ "by name" \in Reads
       /\ r = "instance" => ~Was("attached") /\ ~Was("by name")
       /\ r = "attached" => ~Was("by name")
  BY <1>0, <1>1, NextIs DEF CostInv, Reads, Was
\* A disk that stays, on a machine, is found on it, by a machine that was found.
<1>11. ASSUME NEW x \in stayed, x \in attached, SeenOnBox(x) PROVE SeenOnBox(x)'
  <2>1. box = "here"
    BY <1>11 DEF CostInv, WorldOK, Counts
  <2>2. r = "instance" => saw'["instance"] = {"box"}
    BY <1>3, <2>1 DEF Found, Instance
  <2>3. r = "attached" => x \in saw'["attached"]
    <3>1. saw["instance"] # {}
      BY <1>11 DEF SeenOnBox, Was, Unread
    <3>2. AttachedTo(saw["instance"]) = attached
      BY <2>1, <3>1 DEF AttachedTo
    <3>. QED BY <1>3, <1>11, <3>2 DEF Found
  <2>4. Was("instance")' => "box" \in saw'["instance"]
    BY <1>3, <1>7, <1>10, <1>11, <2>2 DEF SeenOnBox
  <2>5. Was("attached")' => x \in saw'["attached"]
    BY <1>3, <1>7, <1>10, <1>11, <2>3 DEF SeenOnBox
  <2>. QED BY <2>4, <2>5 DEF SeenOnBox
<1>12. RootIsSeen'
  <2>1. "root" \in stayed => "root" \in attached
    BY DEF CostInv, WorldOK
  <2>. QED BY <1>1, <1>11, <2>1 DEF CostInv, RootIsSeen
<1>13. LegacyIsSeen'
  <2>1. "legacy" \in stayed \cap attached => SeenOnBox("legacy")'
    BY <1>11 DEF CostInv, LegacyIsSeen
  <2>2. ASSUME "legacy" \in stayed, Was("by name")'
        PROVE  "legacy" \in saw'["by name"] \/ SeenOnBox("legacy")'
    <3>1. CASE r = "by name"
      <4>1. "legacy" \in attached \/ "legacy" \in Free
        BY <2>2 DEF CostInv, WorldOK, Free, Disks
      <4>2. saw'["by name"] = Free \cap {"legacy"}
        BY <1>3, <3>1 DEF Found
      <4>. QED BY <2>1, <2>2, <4>1, <4>2
    <3>2. CASE r # "by name"
      <4>1. Was("by name") /\ saw'["by name"] = saw["by name"]
        BY <1>3, <1>7, <1>10, <2>2, <3>2
      <4>2. r # "instance" /\ r # "attached"
        BY <1>10, <4>1
      <4>3. SeenOnBox("legacy") => SeenOnBox("legacy")'
        BY <1>3, <1>7, <1>10, <4>2 DEF SeenOnBox
      <4>. QED BY <2>2, <4>1, <4>3 DEF CostInv, LegacyIsSeen
    <3>. QED BY <3>1, <3>2
  <2>. QED BY <1>1, <2>1, <2>2 DEF LegacyIsSeen
<1>. QED BY <1>5, <1>6, <1>8, <1>9, <1>12, <1>13 DEF CostInv

\* A list of a set has its elements and no others.
LEMMA ListOf ==
  ASSUME NEW S, IsFiniteSet(S)
  PROVE  List(S) \in Seq(S) /\ Range(List(S)) = S
<1>. DEFINE n == Cardinality(S)
<1>1. n \in Nat /\ ExistsBijection(1..n, S)
  BY FS_CardinalityType
<1>2. \E f \in [1..n -> S] : IsInjective(f)
  BY <1>1 DEF ExistsBijection, Bijection, Injection
<1>3. List(S) \in [1..n -> S] /\ IsInjective(List(S))
  BY <1>2 DEF List, SetToSeq
<1>4. List(S) \in Injection(1..n, S)
  BY <1>3 DEF Injection
<1>5. IsFiniteSet(1..n) /\ Cardinality(1..n) = n
  BY <1>1, FS_Interval
<1>6. List(S) \in Surjection(1..n, S)
  BY <1>4, <1>5, FS_Injection
<1>7. Range(List(S)) = S
  BY <1>3, <1>6 DEF Surjection, Range
<1>. HIDE DEF n
<1>. QED BY <1>1, <1>3, <1>7

LEMMA RangeOfTwo ==
  ASSUME NEW S, NEW s \in Seq(S), NEW t \in Seq(S)
  PROVE  s \o t \in Seq(S) /\ Range(s \o t) = Range(s) \cup Range(t)
<1>1. s \o t \in Seq(S) /\ Len(s \o t) = Len(s) + Len(t) /\ Len(s) \in Nat /\ Len(t) \in Nat
      /\ DOMAIN s = 1..Len(s) /\ DOMAIN t = 1..Len(t) /\ DOMAIN (s \o t) = 1..(Len(s) + Len(t))
  OBVIOUS
<1>2. \A i \in 1..Len(s) : (s \o t)[i] = s[i] /\ i \in 1..(Len(s) + Len(t))
  BY <1>1
<1>3. \A i \in 1..Len(t) : (s \o t)[Len(s) + i] = t[i] /\ Len(s) + i \in 1..(Len(s) + Len(t))
  BY <1>1
<1>4. ASSUME NEW i \in 1..(Len(s) + Len(t))
      PROVE  (s \o t)[i] \in Range(s) \cup Range(t)
  <2>1. CASE i <= Len(s)
    <3>1. i \in 1..Len(s)
      BY <1>1, <2>1
    <3>. QED BY <1>1, <1>2, <3>1 DEF Range
  <2>2. CASE i > Len(s)
    <3>1. i - Len(s) \in 1..Len(t) /\ Len(s) + (i - Len(s)) = i
      BY <1>1, <2>2
    <3>2. (s \o t)[i] = t[i - Len(s)]
      BY <1>3, <3>1
    <3>. QED BY <1>1, <3>1, <3>2 DEF Range
  <2>. QED BY <1>1, <2>1, <2>2
<1>5. Range(s) \subseteq Range(s \o t)
  BY <1>1, <1>2 DEF Range
<1>6. Range(t) \subseteq Range(s \o t)
  BY <1>1, <1>3 DEF Range
<1>7. Range(s \o t) \subseteq Range(s) \cup Range(t)
  BY <1>1, <1>4 DEF Range
<1>. QED BY <1>1, <1>5, <1>6, <1>7

-----------------------------------------------------------------------------
Sizes == [x \in Billing |-> Size(x)]

LEMMA SizesAre ==
  IsFiniteSet(Billing) /\ \A x \in Billing : Sizes[x] = Size(x) /\ Size(x) \in Nat /\ Size(x) # 0
<1>1. Billing = {"root"} \cup ({"legacy"} \cup ({"backing"} \cup ({"loose"} \cup ({"address"} \cup {"games"}))))
  BY DEF Billing, Disks, SnapshotsOf
<1>2. IsFiniteSet(Billing)
  BY <1>1, FS_Singleton, FS_Union
<1>3. \A x \in Billing : Size(x) \in Nat /\ Size(x) # 0
  BY DEF Billing, Disks, SnapshotsOf, Size
<1>. QED BY <1>2, <1>3 DEF Sizes

LEMMA SizeIs ==
  ASSUME NEW S, S \subseteq Billing
  PROVE  /\ IsFiniteSet(S) /\ SizeOf(S) = SumOver(Sizes, S) /\ SizeOf(S) \in Nat
         /\ SizeOf(S) = 0 => S = {}
<1>1. IsFiniteSet(S) /\ \A x \in S : Sizes[x] \in Nat /\ Sizes[x] # 0 /\ Sizes[x] = Size(x)
  BY SizesAre, FS_Subset
<1>. DEFINE f == [x \in S |-> Size(x)]
<1>2. DOMAIN f = S /\ \A x \in S : Sizes[x] \in Nat /\ f[x] = Sizes[x]
  BY <1>1
<1>3. SizeOf(S) = SumFunction(f)
  BY DEF SizeOf
<1>. HIDE DEF f
<1>4. SumFunction(f) = SumOver(Sizes, S) /\ SumFunction(f) \in Nat
  BY <1>1, <1>2, SumIs
<1>5. SumOver(Sizes, S) = 0 => \A x \in S : Sizes[x] = 0
  BY <1>1, SumOfParts
<1>. QED BY <1>1, <1>3, <1>4, <1>5

LEMMA SizeOfTwo ==
  ASSUME NEW S, NEW T, S \subseteq Billing, T \subseteq Billing, S \cap T = {}
  PROVE  SizeOf(S \cup T) = SizeOf(S) + SizeOf(T)
<1>1. IsFiniteSet(S) /\ IsFiniteSet(T) /\ \A x \in S \cup T : Sizes[x] \in Nat
  BY SizeIs, SizesAre
<1>2. SumOver(Sizes, S \cup T) = SumOver(Sizes, S) + SumOver(Sizes, T)
  BY <1>1, SumDisjoint
<1>3. S \cup T \subseteq Billing
  OBVIOUS
<1>. QED BY <1>2, <1>3, SizeIs

LEMMA ListIs ==
  ASSUME NEW S, S \subseteq Billing
  PROVE  List(S) \in Seq(Billing) /\ Range(List(S)) = S
<1>1. List(S) \in Seq(S) /\ Range(List(S)) = S
  BY ListOf, SizeIs
<1>. QED BY <1>1

\* What a list of disks or snapshots, of which some may be twice on it, comes to.
LEMMA TwoLists ==
  ASSUME NEW S, NEW T, S \subseteq Billing, T \subseteq Billing
  PROVE  /\ List(S) \o List(T) \in Seq(Billing) /\ Range(List(S) \o List(T)) = S \cup T
         /\ GB(List(S) \o List(T)) = SizeOf(S \cup T)
<1>1. List(S) \in Seq(Billing) /\ List(T) \in Seq(Billing) /\ Range(List(S)) = S /\ Range(List(T)) = T
  BY ListIs
<1>. HIDE DEF List
<1>2. List(S) \o List(T) \in Seq(Billing) /\ Range(List(S) \o List(T)) = S \cup T
  BY <1>1, RangeOfTwo
<1>. QED BY <1>2 DEF GB
-----------------------------------------------------------------------------
LEMMA DisksAreWhole ==
  ASSUME CostInv, NEW sum \in DiskGB
  PROVE  IsOf(sum, Disks)
<1>. DEFINE on == IF saw["instance"] = {} THEN {} ELSE saw["attached"]
            S == (on \cup saw["by tag"]) \cup saw["by name"]
<1>1. /\ Was("instance") /\ (saw["instance"] = {} \/ Was("attached")) /\ Was("by tag") /\ Was("by name")
      /\ sum = GB(List(on) \o List(saw["by tag"]) \o List(saw["by name"]))
  BY DEF DiskGB, Volumes
<1>2. /\ "instance" \in Reads /\ "attached" \in Reads /\ "by tag" \in Reads /\ "by name" \in Reads
      /\ CanFind("attached") = Disks /\ CanFind("by tag") = Disks /\ CanFind("by name") \subseteq Disks
  BY DEF Reads, CanFind, Disks
<1>3. on \subseteq ever \cap Disks /\ saw["by tag"] \subseteq ever \cap Disks /\ saw["by name"] \subseteq ever \cap Disks
  BY <1>1, <1>2 DEF CostInv, FindsWhatWas
<1>4. stayed \cap Disks \subseteq S
  <2>1. \A x \in Disks : SeenOnBox(x) => x \in on
    BY <1>1 DEF SeenOnBox
  <2>2. "root" \in stayed => "root" \in S
    BY <2>1 DEF CostInv, RootIsSeen, Disks
  <2>3. "legacy" \in stayed => "legacy" \in S
    BY <1>1, <2>1 DEF CostInv, LegacyIsSeen, Disks
  <2>. QED BY <2>2, <2>3 DEF Disks
<1>5. sum = SizeOf(S)
  <2>1. on \subseteq Billing /\ saw["by tag"] \subseteq Billing /\ saw["by name"] \subseteq Billing
    BY <1>3 DEF Billing
  <2>. HIDE DEF on
  <2>2. /\ List(on) \o List(saw["by tag"]) \in Seq(Billing)
        /\ Range(List(on) \o List(saw["by tag"])) = on \cup saw["by tag"]
    BY <2>1, TwoLists
  <2>3. List(saw["by name"]) \in Seq(Billing) /\ Range(List(saw["by name"])) = saw["by name"]
    BY <2>1, ListIs
  <2>4. Range(List(on) \o List(saw["by tag"]) \o List(saw["by name"])) = S
    <3>. DEFINE one == List(on) \o List(saw["by tag"])
                two == List(saw["by name"])
    <3>1. one \in Seq(Billing) /\ two \in Seq(Billing)
          /\ Range(one) = on \cup saw["by tag"] /\ Range(two) = saw["by name"]
      BY <2>2, <2>3
    <3>. HIDE DEF one, two
    <3>2. Range(one \o two) = Range(one) \cup Range(two)
      BY <3>1, RangeOfTwo, ZenonT(40)
    <3>. QED BY <3>1, <3>2 DEF one, two
  <2>. QED BY <1>1, <2>4 DEF GB
<1>6. S \in SUBSET (ever \cap Disks)
  BY <1>3
<1>. QED BY <1>4, <1>5, <1>6 DEF IsOf

LEMMA SnapshotsAreWhole ==
  ASSUME CostInv, NEW sum \in SnapshotGB
  PROVE  IsOf(sum, SnapshotsOf)
<1>. DEFINE behind == saw["images"] \ {"image"}
            S == behind \cup saw["snapshots"]
<1>1. Was("images") /\ Was("snapshots") /\ sum = GB(List(behind) \o List(saw["snapshots"]))
  BY DEF SnapshotGB, Snapshots
<1>2. /\ "images" \in Reads /\ "snapshots" \in Reads /\ CanFind("images") = {"image", "backing"}
      /\ CanFind("snapshots") = SnapshotsOf /\ Cares("images") = {"image", "backing"} /\ Cares("snapshots") = {"loose"}
  BY DEF Reads, CanFind, Cares
<1>3. behind \subseteq ever \cap SnapshotsOf /\ saw["snapshots"] \subseteq ever \cap SnapshotsOf
  BY <1>1, <1>2 DEF CostInv, FindsWhatWas, SnapshotsOf
<1>4. stayed \cap SnapshotsOf \subseteq S
  <2>1. stayed \cap {"image", "backing"} \subseteq saw["images"] /\ stayed \cap {"loose"} \subseteq saw["snapshots"]
    BY <1>1, <1>2 DEF CostInv, FindsWhatStays
  <2>. QED BY <2>1 DEF SnapshotsOf
<1>5. sum = SizeOf(S)
  <2>1. behind \subseteq Billing /\ saw["snapshots"] \subseteq Billing
    BY <1>3 DEF Billing
  <2>. QED BY <1>1, <2>1, TwoLists
<1>. QED BY <1>3, <1>4, <1>5 DEF IsOf

LEMMA AmountsAreWhole ==
  ASSUME CostInv, NEW r \in {"bucket", "addresses"}, NEW sum \in Amount(r)
  PROVE  IsOf(sum, Cares(r))
<1>1. Was(r) /\ r \in Reads /\ sum = SizeOf(saw[r]) /\ CanFind(r) = Cares(r)
  BY DEF Amount, Reads, CanFind, Cares
<1>2. saw[r] \subseteq ever \cap Cares(r) /\ stayed \cap Cares(r) \subseteq saw[r]
  BY <1>1 DEF CostInv, FindsWhatWas, FindsWhatStays
<1>. QED BY <1>1, <1>2 DEF IsOf

\* Totals of two kinds together are one of both.
LEMMA WholeTogether ==
  ASSUME NEW a, NEW b, a \subseteq Billing, b \subseteq Billing, a \cap b = {},
         NEW m, NEW n, IsOf(m, a), IsOf(n, b)
  PROVE  m \in Nat /\ n \in Nat /\ IsOf(m + n, a \cup b)
<1>1. PICK S \in SUBSET (ever \cap a) : (stayed \cap a) \subseteq S /\ SizeOf(S) = m
  BY DEF IsOf
<1>2. PICK T \in SUBSET (ever \cap b) : (stayed \cap b) \subseteq T /\ SizeOf(T) = n
  BY DEF IsOf
<1>3. S \subseteq Billing /\ T \subseteq Billing /\ S \cap T = {}
  OBVIOUS
<1>4. m \in Nat /\ n \in Nat /\ SizeOf(S \cup T) = m + n
  BY <1>1, <1>2, <1>3, SizeIs, SizeOfTwo
<1>5. S \cup T \in SUBSET (ever \cap (a \cup b)) /\ stayed \cap (a \cup b) \subseteq S \cup T
  BY <1>1, <1>2
<1>. QED BY <1>4, <1>5 DEF IsOf

\* A sum of parts is of one amount of each, none of them unknown.
LEMMA SumOfThree ==
  ASSUME NEW p \in SUBSET Nat, NEW q \in SUBSET Nat, NEW r \in SUBSET Nat, NEW sum \in Together(<<p, q, r>>)
  PROVE  \E a \in p, b \in q, c \in r : sum = a + b + c
<1>. DEFINE parts == <<p, q, r>>
            f == [i \in DOMAIN parts |-> CHOOSE n \in parts[i] : TRUE]
            D == {1, 2, 3}
<1>1. DOMAIN parts = D /\ parts[1] = p /\ parts[2] = q /\ parts[3] = r
  OBVIOUS
<1>2. p # {} /\ q # {} /\ r # {} /\ sum = SumFunction(f)
  BY <1>1 DEF Together
<1>3. DOMAIN f = D /\ f[1] \in p /\ f[2] \in q /\ f[3] \in r
  BY <1>1, <1>2
<1>. HIDE DEF parts, f
<1>4. \A i \in D : f[i] \in Nat
  BY <1>3
<1>5. IsFiniteSet({1}) /\ IsFiniteSet({1, 2}) /\ IsFiniteSet(D)
  <2>1. {1, 2} = {1} \cup {2} /\ D = ({1} \cup {2}) \cup {3}
    OBVIOUS
  <2>2. IsFiniteSet({1}) /\ IsFiniteSet({1} \cup {2}) /\ IsFiniteSet(({1} \cup {2}) \cup {3})
    BY FS_Singleton, FS_Union
  <2>. QED BY <2>1, <2>2
<1>6. sum = SumOver(f, D)
  BY <1>2, <1>3, <1>4, <1>5, SumIs
<1>7. SumOver(f, {}) = 0 /\ SumOver(f, {1}) = SumOver(f, {}) + f[1]
  <2>1. {1} \ {1} = {}
    OBVIOUS
  <2>. QED BY <1>4, <1>5, <2>1, SumRule
<1>8. SumOver(f, {1, 2}) = SumOver(f, {1}) + f[2]
  <2>1. {1, 2} \ {2} = {1}
    OBVIOUS
  <2>. QED BY <1>4, <1>5, <2>1, SumRule
<1>9. SumOver(f, D) = SumOver(f, {1, 2}) + f[3]
  <2>1. D \ {3} = {1, 2}
    OBVIOUS
  <2>. QED BY <1>4, <1>5, <2>1, SumRule
<1>10. sum = f[1] + f[2] + f[3]
  BY <1>4, <1>6, <1>7, <1>8, <1>9
<1>. QED BY <1>3, <1>10

LEMMA SumOfFour ==
  ASSUME NEW p \in SUBSET Nat, NEW q \in SUBSET Nat, NEW r \in SUBSET Nat, NEW s \in SUBSET Nat,
         NEW sum \in Together(<<p, q, r, s>>)
  PROVE  \E a \in p, b \in q, c \in r, d \in s : sum = a + b + c + d
<1>. DEFINE parts == <<p, q, r, s>>
            f == [i \in DOMAIN parts |-> CHOOSE n \in parts[i] : TRUE]
            D == {1, 2, 3, 4}
<1>1. DOMAIN parts = D /\ parts[1] = p /\ parts[2] = q /\ parts[3] = r /\ parts[4] = s
  OBVIOUS
<1>2. p # {} /\ q # {} /\ r # {} /\ s # {} /\ sum = SumFunction(f)
  BY <1>1 DEF Together
<1>3. DOMAIN f = D /\ f[1] \in p /\ f[2] \in q /\ f[3] \in r /\ f[4] \in s
  BY <1>1, <1>2
<1>. HIDE DEF parts, f
<1>4. \A i \in D : f[i] \in Nat
  BY <1>3
<1>5. IsFiniteSet({1}) /\ IsFiniteSet({1, 2}) /\ IsFiniteSet({1, 2, 3}) /\ IsFiniteSet(D)
  <2>1. /\ {1, 2} = {1} \cup {2} /\ {1, 2, 3} = ({1} \cup {2}) \cup {3}
        /\ D = (({1} \cup {2}) \cup {3}) \cup {4}
    OBVIOUS
  <2>2. IsFiniteSet({1}) /\ IsFiniteSet({1} \cup {2}) /\ IsFiniteSet(({1} \cup {2}) \cup {3})
        /\ IsFiniteSet((({1} \cup {2}) \cup {3}) \cup {4})
    BY FS_Singleton, FS_Union
  <2>. QED BY <2>1, <2>2
<1>6. sum = SumOver(f, D)
  BY <1>2, <1>3, <1>4, <1>5, SumIs
<1>7. SumOver(f, {}) = 0 /\ SumOver(f, {1}) = SumOver(f, {}) + f[1]
  <2>1. {1} \ {1} = {}
    OBVIOUS
  <2>. QED BY <1>4, <1>5, <2>1, SumRule, ZenonT(40)
<1>8. SumOver(f, {1, 2}) = SumOver(f, {1}) + f[2]
  <2>1. {1, 2} \ {2} = {1}
    OBVIOUS
  <2>. QED BY <1>4, <1>5, <2>1, SumRule
<1>9. SumOver(f, {1, 2, 3}) = SumOver(f, {1, 2}) + f[3]
  <2>1. {1, 2, 3} \ {3} = {1, 2}
    OBVIOUS
  <2>. QED BY <1>4, <1>5, <2>1, SumRule
<1>10. SumOver(f, D) = SumOver(f, {1, 2, 3}) + f[4]
  <2>1. D \ {4} = {1, 2, 3}
    OBVIOUS
  <2>. QED BY <1>4, <1>5, <2>1, SumRule
<1>11. sum = f[1] + f[2] + f[3] + f[4]
  BY <1>4, <1>6, <1>7, <1>8, <1>9, <1>10
<1>. QED BY <1>3, <1>11

LEMMA KindsApart ==
  /\ Disks \subseteq Billing /\ SnapshotsOf \subseteq Billing
  /\ Cares("bucket") = {"games"} /\ Cares("addresses") = {"address"}
  /\ {"games"} \subseteq Billing /\ {"address"} \subseteq Billing
  /\ Disks \cap SnapshotsOf = {} /\ {"games"} \cap (Disks \cup SnapshotsOf) = {}
  /\ {"games"} \cap Disks = {} /\ ({"games"} \cup Disks) \cap SnapshotsOf = {}
  /\ (({"games"} \cup Disks) \cup SnapshotsOf) \cap {"address"} = {}
  /\ (({"games"} \cup Disks) \cup SnapshotsOf) \cup {"address"} = Billing
BY DEF Billing, Disks, SnapshotsOf, Cares

\* Any total that is given is whole, whatever prices are known.
LEMMA TotalsAreWhole ==
  ASSUME CostInv, NEW priced
  PROVE  /\ \A sum \in Standby(priced) : IsOf(sum, Billing)
         /\ \A sum \in Estimate(priced) : IsOf(sum, Disks \cup SnapshotsOf)
<1>. DEFINE games == Monthly(Amount("bucket"), "s3", priced)
            disks == Monthly(DiskGB, "disk", priced)
            snaps == Monthly(SnapshotGB, "snapshot", priced)
            kept == Monthly(Amount("addresses"), "address", priced)
<1>1. /\ \A n \in games : IsOf(n, {"games"})
      /\ \A n \in disks : IsOf(n, Disks)
      /\ \A n \in snaps : IsOf(n, SnapshotsOf)
      /\ \A n \in kept : IsOf(n, {"address"})
  BY AmountsAreWhole, DisksAreWhole, SnapshotsAreWhole, KindsApart DEF Monthly
<1>2. ASSUME NEW k, k \subseteq Billing, NEW n, IsOf(n, k) PROVE n \in Nat
  <2>1. PICK S \in SUBSET (ever \cap k) : SizeOf(S) = n
    BY <1>2 DEF IsOf
  <2>2. S \subseteq Billing
    BY <1>2
  <2>. QED BY <2>1, <2>2, SizeIs
<1>3. games \in SUBSET Nat /\ disks \in SUBSET Nat /\ snaps \in SUBSET Nat /\ kept \in SUBSET Nat
  BY <1>1, <1>2, KindsApart
<1>4. Standby(priced) = Together(<<games, disks, snaps, kept>>)
  BY DEF Standby
<1>5. Estimate(priced) = Together(<<Compute(priced), disks, snaps>>) /\ Compute(priced) \in SUBSET {0}
  BY DEF Estimate, Compute
<1>. HIDE DEF games, disks, snaps, kept
<1>6. ASSUME NEW sum \in Standby(priced) PROVE IsOf(sum, Billing)
  <2>1. PICK a \in games, b \in disks, c \in snaps, d \in kept : sum = a + b + c + d
    BY <1>3, <1>4, SumOfFour
  <2>2. IsOf(a, {"games"}) /\ IsOf(b, Disks) /\ IsOf(c, SnapshotsOf) /\ IsOf(d, {"address"})
    BY <1>1
  <2>3. IsOf(a + b, {"games"} \cup Disks)
    BY <2>2, KindsApart, WholeTogether
  <2>4. IsOf(a + b + c, ({"games"} \cup Disks) \cup SnapshotsOf)
    BY <2>2, <2>3, KindsApart, WholeTogether
  <2>5. IsOf(a + b + c + d, (({"games"} \cup Disks) \cup SnapshotsOf) \cup {"address"})
    BY <2>2, <2>4, KindsApart, WholeTogether
  <2>. QED BY <2>1, <2>5, KindsApart
<1>7. ASSUME NEW sum \in Estimate(priced) PROVE IsOf(sum, Disks \cup SnapshotsOf)
  <2>0. Compute(priced) \in SUBSET Nat
    BY <1>5
  <2>1. PICK a \in Compute(priced), b \in disks, c \in snaps : sum = a + b + c
    BY <1>3, <1>5, <2>0, SumOfThree
  <2>2. IsOf(b, Disks) /\ IsOf(c, SnapshotsOf)
    BY <1>1
  <2>3. b \in Nat /\ c \in Nat /\ IsOf(b + c, Disks \cup SnapshotsOf)
    BY <2>2, KindsApart, WholeTogether
  <2>4. sum = b + c
    BY <1>5, <2>1, <2>3
  <2>. QED BY <2>3, <2>4
<1>. QED BY <1>6, <1>7

LEMMA NothingIsNone == ASSUME NEW k, k \subseteq Billing, IsOf(0, k) PROVE stayed \cap k = {}
<1>1. PICK S \in SUBSET (ever \cap k) : (stayed \cap k) \subseteq S /\ SizeOf(S) = 0
  BY DEF IsOf
<1>2. S \subseteq Billing
  OBVIOUS
<1>. QED BY <1>1, <1>2, SizeIs

\* What WholeOrUnknown says of the other regions.
FarIsTrue ==
  /\ NothingElsewhere => \/ elsewhere.has \cap {"disks", "games"} = {}
                         \/ elsewhere.failed \cap {"regions", "location"} # {}
  /\ "games" \in FarRows /\ FarGB = 0 => "games" \notin elsewhere.has \/ "listing" \in elsewhere.failed

LEMMA FarTrue == FarOK => FarIsTrue
<1>1. FarOK => (NothingElsewhere => \/ elsewhere.has \cap {"disks", "games"} = {}
                                    \/ elsewhere.failed \cap {"regions", "location"} # {})
  BY DEF FarOK, NothingElsewhere, FarRows, SaidUnread
<1>2. FarGB = 0 => "listing" \in elsewhere.failed
  BY DEF FarGB, Size
<1>. QED BY <1>1, <1>2 DEF FarIsTrue

LEMMA CostIsWhole == CostInv /\ FarOK => WholeOrUnknown
<1>. SUFFICES ASSUME CostInv, FarOK PROVE WholeOrUnknown
  OBVIOUS
<1>1. FarIsTrue
  BY FarTrue
<1>2. SaysEmpty => stayed \cap (Disks \cup SnapshotsOf \cup {"box", "image"}) = {}
  <2>. SUFFICES ASSUME SaysEmpty PROVE stayed \cap (Disks \cup SnapshotsOf \cup {"box", "image"}) = {}
    OBVIOUS
  <2>1. 0 \in DiskGB /\ 0 \in SnapshotGB /\ saw["instance"] = {} /\ saw["images"] = {}
    BY DEF SaysEmpty
  <2>2. stayed \cap Disks = {} /\ stayed \cap SnapshotsOf = {}
    BY <2>1, DisksAreWhole, SnapshotsAreWhole, KindsApart, NothingIsNone
  <2>3. /\ "instance" \in Reads /\ "images" \in Reads /\ Was("instance") /\ Was("images")
        /\ Cares("instance") = {"box"} /\ Cares("images") = {"image", "backing"}
    BY <2>1 DEF Reads, Was, Unread, Cares
  <2>4. stayed \cap {"box"} = {} /\ stayed \cap {"image", "backing"} = {}
    BY <2>1, <2>3 DEF CostInv, FindsWhatStays
  <2>. QED BY <2>2, <2>4
<1>3. WarnsNoBudget => "budget" \notin stayed
  <2>1. "budget" \in Reads /\ Cares("budget") = {"budget"} /\ (WarnsNoBudget => Was("budget"))
    BY DEF Reads, Cares, WarnsNoBudget, Was, Unread
  <2>. QED BY <2>1 DEF CostInv, FindsWhatStays, WarnsNoBudget
<1>. QED BY <1>1, <1>2, <1>3, TotalsAreWhole DEF WholeOrUnknown, FarIsTrue

\* Only of a report that is being made; until then nothing was read.
ReportInv == (open = "cost" => CostInv) /\ (open # "cost" => saw = NotSeen) /\ FarOK

LEMMA ReportInvInit == Init => ReportInv
<1>. SUFFICES ASSUME Init PROVE ReportInv
  OBVIOUS
<1>1. elsewhere = NoRegion /\ (open = "cost" => CostInit) /\ (open # "cost" => saw = NotSeen)
  BY DEF Init, NoCost, CostInit
<1>2. FarOK
  BY <1>1 DEF FarOK, NoRegion
<1>. QED BY <1>1, <1>2, CostInvInit DEF ReportInv

LEMMA ReportInvStep == ReportInv /\ [Next]_vars => ReportInv'
<1>. SUFFICES ASSUME ReportInv, [Next]_vars PROVE ReportInv'
  OBVIOUS
<1>1. open' = open
  BY DEF Next, vars
<1>2. CASE UNCHANGED costVars
  BY <1>1, <1>2 DEF costVars, ReportInv, FarOK, CostInv, WorldOK, InOrder, FindsWhatWas, FindsWhatStays,
                    RootIsSeen, LegacyIsSeen, SeenOnBox, Was
<1>3. CASE open = "cost" /\ CostNext
  <2>1. CostInv'
    BY <1>3, CostMoves, CostReads, CostReadFails DEF CostNext, ReportInv
  <2>2. elsewhere' = elsewhere
    BY <1>3 DEF CostNext, Moves, BoxEnds, BoxIsGone, BoxComes, ThingGoes, ThingComes, Turns, ReadsOne, ReadFails
  <2>. QED BY <1>1, <1>3, <2>1, <2>2 DEF ReportInv, FarOK
<1>4. CASE open = "elsewhere" /\ LooksElsewhere
  <2>1. \E has, failed : /\ "games" \in has => "bucket" \in has
                         /\ elsewhere' = [has |-> has, asked |-> TRUE, failed |-> failed]
    BY <1>4 DEF LooksElsewhere
  <2>2. \E has : elsewhere'.has = has /\ ("games" \in has => "bucket" \in has)
    BY <2>1
  <2>3. FarOK'
    BY <2>2 DEF FarOK
  <2>4. saw' = saw
    BY <1>4 DEF LooksElsewhere
  <2>. QED BY <1>1, <1>4, <2>3, <2>4 DEF ReportInv
<1>5. UNCHANGED costVars \/ (open = "cost" /\ CostNext) \/ (open = "elsewhere" /\ LooksElsewhere)
  BY DEF Next, vars
<1>. QED BY <1>2, <1>3, <1>4, <1>5

\* WholeOrUnknown: however the account changes and whichever reads fail while
\* `cg cost` looks at it, a total that it gives counts once all that billed all along
\* and nothing that never was, and it calls a region or a budget missing only when
\* that is so.
THEOREM CostWholeOrUnknown == Spec => []WholeOrUnknown
<1>1. ReportInv => WholeOrUnknown
  <2>. SUFFICES ASSUME ReportInv PROVE WholeOrUnknown
    OBVIOUS
  <2>1. CASE open = "cost"
    BY <2>1, CostIsWhole DEF ReportInv
  <2>2. CASE open # "cost"
    <3>1. ~Gathered
      BY <2>2, ReadsAre DEF ReportInv, NotSeen, Gathered, Reads
    <3>2. FarIsTrue
      BY FarTrue DEF ReportInv
    <3>. QED BY <3>1, <3>2 DEF WholeOrUnknown, FarIsTrue
  <2>. QED BY <2>1, <2>2
<1>. QED BY <1>1, ReportInvInit, ReportInvStep, PTL DEF Spec
=============================================================================
