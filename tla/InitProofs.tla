------------------------------- MODULE InitProofs -------------------------------
(* What `cg init` sees through, from the regions it looks at to the build it     *)
(* follows.  No region is lost from a table, the disk a person was told of is    *)
(* the one that is made, a launch is of a box that can be reached or is refused  *)
(* for a reason, a machine joins with its key; and what is shown of the build is *)
(* what the box said, once, in order, in time.                                   *)
EXTENDS Renting, Followed, FoldProofs, SequenceTheorems, TLAPS

-----------------------------------------------------------------------------
(* The scan: what is out of the shortlist did not answer or is too far.         *)
Rtts == Times \cup {NoTime}
ScanSays ==
  /\ scan \in [at : {"none", "probe", "quiet", "ask"}, rtt : [Regions -> Rtts], near : SUBSET Regions]
  /\ scan.at = "quiet" => scan.near = { r \in Regions : scan.rtt[r] # NoTime /\ scan.rtt[r] <= Slack }
  /\ scan.at = "quiet" => Measured
  /\ scan.at = "ask" => \A r \in Regions \ scan.near : scan.rtt[r] = NoTime \/ scan.rtt[r] > MaxMS
  /\ scan.at = "ask" /\ ~Measured => scan.near = Regions

ScanInv == ScanSays /\ EveryRegionAccounted

-----------------------------------------------------------------------------
(* The plan: a promise is the disk that what was chosen needs, still.           *)
PlanFields ==
  /\ plan = [at |-> plan.at, asks |-> plan.asks, promised |-> plan.promised, known |-> plan.known,
             data |-> plan.data, extra |-> plan.extra, byHand |-> plan.byHand,
             written |-> plan.written, box |-> plan.box]
  /\ bucket \in [known : BOOLEAN, there : BOOLEAN, whole : BOOLEAN]
Promise ==
  /\ plan.promised # {} /\ plan.written => plan.promised = {DiskFor(LeftOver(Taken, Room(Own)))}
  /\ At("none") \/ At("choose") => plan.promised = {}
PlanInv == PlanFields /\ Promise /\ PromisedIsBuilt

(* The launch: what stands when it is asked for.                                *)
LaunchInv ==
  /\ try \in [n : 1..Tries, waited : 0..MaxWait, blind : BOOLEAN, uncompared : BOOLEAN]
  /\ said = [code |-> said.code, bills |-> said.bills]
  /\ At("run") \/ At("launched") => group = "open"
  /\ At("group") \/ At("rule") \/ At("run") \/ At("launched") => Matches \/ try.uncompared

-----------------------------------------------------------------------------
(* The key: what a command or a machine was shown to have still works.          *)
Steps == {"idle", "ensures", "mints", "deletes", "saves", "asks again", "proves", "starts"}
Lives == {"unmade", "live", "last hour", "dead", "deleted"}
Run == [at : Steps, key : AllKeys \cup {NoKey}, new : AllKeys \cup {NoKey}, shown : BOOLEAN]
HasKeys(run) ==
  /\ run.at \in {"starts", "proves"} => run.key # NoKey
  /\ run.at \in {"deletes", "saves"} => run.new # NoKey
KeyTypes ==
  /\ life \in [AllKeys -> Lives]
  /\ once \subseteq AllKeys /\ token \in {"none", "good"} /\ stored \in AllKeys \cup {NoKey}
  /\ runs \in [Runs -> Run] /\ \A r \in Runs : HasKeys(runs[r])
  /\ boots \subseteq [by : Runs, key : AllKeys, shown : BOOLEAN] /\ spoilt \subseteq AllKeys

(* No key in use is one that was never made; a new one is nobody else's yet.    *)
Made(k) == k # NoKey => life[k] # "unmade"
KeysMade ==
  /\ life[2] # "unmade" /\ Made(stored)
  /\ \A r \in Runs : Made(runs[r].key) /\ Made(runs[r].new)
  /\ \A m \in boots : Made(m.key)
  /\ \A r \in Runs : runs[r].new # NoKey =>
       /\ runs[r].new # 2 /\ runs[r].new # stored
       /\ \A s \in Runs : runs[s].key # runs[r].new /\ (s # r => runs[s].new # runs[r].new)
       /\ \A m \in boots : m.key # runs[r].new

Fine(k) == Works(k) \/ k \in spoilt
KeysWork ==
  /\ \A r \in Runs : runs[r].at \in {"mints", "deletes"} /\ runs[r].key # NoKey => life[runs[r].key] # "live"
  /\ \A r \in Runs : runs[r].new # NoKey => Fine(runs[r].new)
  /\ \A r \in Runs : runs[r].at = "starts" /\ runs[r].shown => Fine(runs[r].key)
  /\ runs["init"].at = "starts" => runs["init"].shown
  /\ \A m \in boots : (m.by = "init" => m.shown) /\ (m.shown => Fine(m.key))
  /\ \A m, n \in boots : m.by = n.by => m = n
  /\ \A m, n \in boots : m # n /\ m.key = n.key /\ m.key \in once => m.key \in spoilt

KeysInv == KeyTypes /\ KeysMade /\ KeysWork
KeyInv == open = "key" => KeysInv

-----------------------------------------------------------------------------
(* A table of the regions that are near enough.                              *)
LEMMA RttsAre == Rtts \subseteq Nat /\ NoTime \in Rtts /\ MaxMS \in Nat /\ Slack \in Nat /\ MaxMS < Slack
BY ScanAssumption DEF Rtts, Times, NoTime

LEMMA TableIs ==
  ASSUME ScanSays, ScanAt("ask"), NEW score \in [Regions -> Scores], NEW readable \in SUBSET Regions,
         NEW rows \in Ranked(score, readable)
  PROVE  LET t == [rows |-> rows, far |-> TooFar, unreachable |-> Unreachable, error |-> FALSE]
         IN  Accounted(t) /\ BestFirst(t) /\ InBudget(t)
<1>. DEFINE Near == scan.near \ (Unreachable \cup TooFar)
            RowsOf == { Row(r, score, readable) : r \in Near }
            n == Cardinality(RowsOf)
            f == [r \in Near |-> Row(r, score, readable)]
            t == [rows |-> rows, far |-> TooFar, unreachable |-> Unreachable, error |-> FALSE]
<1>1. /\ Near \subseteq Regions /\ TooFar \subseteq Regions /\ Unreachable \subseteq Regions
      /\ IsFiniteSet(Regions) /\ scan.rtt \in [Regions -> Rtts]
  BY ScanAssumption DEF ScanSays, TooFar, Unreachable
<1>2. \A r \in Near : Row(r, score, readable).region = r /\ Row(r, score, readable).ms = scan.rtt[r]
                    /\ Row(r, score, readable).score = score[r]
  BY DEF Row
<1>3. IsFiniteSet(Near) /\ IsFiniteSet(TooFar) /\ IsFiniteSet(Unreachable)
  BY <1>1, FS_Subset
<1>4. f \in Bijection(Near, RowsOf)
  BY <1>2 DEF Bijection, Injection, Surjection, IsInjective
<1>5. IsFiniteSet(RowsOf) /\ n = Cardinality(Near) /\ n \in Nat
  BY <1>3, <1>4, FS_Bijection, FS_CardinalityType DEF ExistsBijection
<1>6. /\ rows \in [1..n -> RowsOf] /\ \A i, j \in 1..n : i # j => rows[i] # rows[j]
      /\ \A i, j \in 1..n : i < j => ~Before(rows[j], rows[i])
  BY DEF Ranked, SetToSeqs
<1>. HIDE DEF RowsOf, n, f, Near
<1>7. rows \in Surjection(1..n, RowsOf)
  <2>1. rows \in Injection(1..n, RowsOf)
    BY <1>6 DEF Injection, IsInjective
  <2>2. Cardinality(1..n) = n
    BY <1>5, FS_Interval
  <2>3. QED BY <1>5, <2>1, <2>2, FS_Injection DEF n
<1>8. DOMAIN rows = 1..n /\ Len(rows) = n
  BY <1>5, <1>6
<1>9. Offered(t) = Near
  <2>1. \A x \in RowsOf : \E i \in 1..n : rows[i] = x
    BY <1>7 DEF Surjection
  <2>2. \A r \in Near : \E i \in 1..n : rows[i].region = r
    BY <1>2, <2>1 DEF RowsOf
  <2>3. \A i \in 1..n : rows[i].region \in Near
    BY <1>2, <1>6 DEF RowsOf
  <2>4. QED BY <1>8, <2>2, <2>3 DEF Offered
<1>10. Unreachable \cap TooFar = {} /\ Near \cap (Unreachable \cup TooFar) = {}
  <2>1. ~(NoTime > MaxMS)
    BY ScanAssumption DEF NoTime
  <2>2. QED BY <2>1 DEF Unreachable, TooFar, Near
<1>11. Near \cup TooFar \cup Unreachable = Regions
  <2>1. ASSUME NEW r \in Regions, r \notin scan.near PROVE r \in TooFar \cup Unreachable
    BY <2>1 DEF ScanSays, ScanAt, TooFar, Unreachable
  <2>2. QED BY <1>1, <2>1 DEF Near
<1>12. Accounted(t)
  <2>1. /\ IsFiniteSet(Near \cup TooFar)
        /\ Cardinality(Near \cup TooFar) = Cardinality(Near) + Cardinality(TooFar) - Cardinality(Near \cap TooFar)
    BY <1>3, FS_Union
  <2>2. Cardinality((Near \cup TooFar) \cup Unreachable)
          = Cardinality(Near \cup TooFar) + Cardinality(Unreachable) - Cardinality((Near \cup TooFar) \cap Unreachable)
    BY <1>3, <2>1, FS_Union
  <2>3. Near \cap TooFar = {} /\ (Near \cup TooFar) \cap Unreachable = {}
    BY <1>10
  <2>4. Cardinality({}) = 0 /\ Cardinality(Near) \in Nat /\ Cardinality(TooFar) \in Nat /\ Cardinality(Unreachable) \in Nat
    BY <1>3, FS_EmptySet, FS_CardinalityType
  <2>5. Cardinality(Regions) = Cardinality(Near) + Cardinality(TooFar) + Cardinality(Unreachable)
    <3>1. Cardinality(Near \cap TooFar) = 0 /\ Cardinality((Near \cup TooFar) \cap Unreachable) = 0
      BY <2>3, <2>4, Zenon
    <3>2. Cardinality(Regions) = Cardinality((Near \cup TooFar) \cup Unreachable)
      BY <1>11, Zenon
    <3>3. QED BY ONLY <2>1, <2>2, <2>4, <3>1, <3>2
  <2>6. QED BY <1>5, <1>8, <1>9, <1>11, <2>5 DEF Accounted
<1>13. BestFirst(t)
  <2>1. ASSUME NEW i \in 1..n PROVE ~Before(rows[i], rows[1])
    <3>1. 1 \in 1..n /\ (i = 1 \/ 1 < i)
      BY <1>5
    <3>2. PICK r \in Near : rows[i] = Row(r, score, readable)
      BY <1>6 DEF RowsOf
    <3>3. rows[i].score \in Nat /\ Time(rows[i]) \in Nat
      <4>1. rows[i].score = score[r] /\ rows[i].ms = scan.rtt[r]
        BY <1>2, <3>2
      <4>2. r \in Regions /\ score[r] \in Nat /\ scan.rtt[r] \in Nat /\ Far + 1 \in Nat
        <5>1. r \in Regions /\ Scores \subseteq Nat /\ Far \in Nat
          BY <1>1, ScanAssumption
        <5>2. score[r] \in Scores /\ scan.rtt[r] \in Rtts
          BY <1>1, <5>1
        <5>3. Far + 1 \in Nat
          BY ONLY <5>1
        <5>4. QED BY <5>1, <5>2, <5>3, RttsAre
      <4>3. QED BY <4>1, <4>2 DEF Time
    <3>4. ~Before(rows[i], rows[i])
      BY <3>3 DEF Before
    <3>5. QED BY <1>6, <3>1, <3>4
  <2>2. QED BY <1>8, <2>1 DEF BestFirst
<1>14. InBudget(t)
  <2>1. \A i \in 1..n : \E r \in Near : rows[i].ms = scan.rtt[r]
    BY <1>2, <1>6 DEF RowsOf
  <2>2. CASE Measured
    <3>1. \A r \in Near : scan.rtt[r] \in Nat /\ scan.rtt[r] # 0 /\ ~(scan.rtt[r] > MaxMS)
      BY <1>1, <2>2, RttsAre DEF Near, Unreachable, TooFar, NoTime
    <3>2. \A r \in Near : scan.rtt[r] \in 1..MaxMS
      BY <3>1, RttsAre
    <3>3. QED BY <1>8, <2>1, <3>2 DEF InBudget
  <2>3. CASE ~Measured
    <3>1. \A r \in Regions : scan.rtt[r] = NoTime
      BY <2>3 DEF Measured
    <3>2. Near = Regions
      <4>1. ~(NoTime > MaxMS) /\ scan.near = Regions
        BY <2>3, ScanAssumption DEF NoTime, ScanSays, ScanAt
      <4>2. QED BY <2>3, <3>1, <4>1 DEF Near, Unreachable, TooFar
    <3>3. QED BY <1>8, <1>9, <2>1, <3>1, <3>2 DEF InBudget
  <2>4. QED BY <2>2, <2>3
<1>15. QED BY <1>12, <1>13, <1>14

\* What is shown and what is remembered.
LEMMA SavesTable ==
  ASSUME EveryRegionAccounted, NEW t, Save(t),
         t.error \/ (Accounted(t) /\ BestFirst(t) /\ InBudget(t)), t.error \in BOOLEAN
  PROVE  EveryRegionAccounted'
<1>1. \A u \in store : ~u.error /\ Accounted(u) /\ BestFirst(u) /\ InBudget(u)
  BY DEF EveryRegionAccounted
<1>2. shown' = t /\ \A u \in store' : u \in store \/ (u = t /\ ~t.error)
  BY DEF Save
<1>3. QED BY <1>1, <1>2 DEF EveryRegionAccounted

LEMMA ScanKept == ASSUME ScanInv, ScanNext PROVE ScanInv'
<1>. USE DEF ScanInv, ScanAt
<1>0. /\ scan = [at |-> scan.at, rtt |-> scan.rtt, near |-> scan.near]
      /\ scan.rtt \in [Regions -> Rtts] /\ scan.near \subseteq Regions
  BY DEF ScanSays
<1>1. CASE Starts
  <2>1. ScanSays'
    <3>1. CASE scan' = [NoScan EXCEPT !.at = "probe"]
      <4>1. scan' = [at |-> "probe", rtt |-> [r \in Regions |-> NoTime], near |-> {}]
        BY <3>1 DEF NoScan
      <4>2. [r \in Regions |-> NoTime] \in [Regions -> Rtts]
        BY RttsAre
      <4>3. QED BY <4>1, <4>2 DEF ScanSays
    <3>2. CASE UNCHANGED scan
      BY <3>2 DEF ScanSays, Measured
    <3>3. QED BY <1>1, <3>1, <3>2 DEF Starts
  <2>2. EveryRegionAccounted'
    <3>1. CASE Save(Error)
      BY <3>1, SavesTable DEF Error
    <3>2. CASE UNCHANGED <<shown, store>>
      BY <3>2 DEF EveryRegionAccounted
    <3>3. QED BY <1>1, <3>1, <3>2 DEF Starts
  <2>3. QED BY <2>1, <2>2
<1>2. CASE Probes
  <2>1. PICK rtt \in [Regions -> Rtts] :
          LET some == \E r \in Regions : rtt[r] # NoTime IN
          scan' = [scan EXCEPT !.at = IF some THEN "quiet" ELSE "ask", !.rtt = rtt,
                     !.near = IF some THEN { r \in Regions : rtt[r] # NoTime /\ rtt[r] <= Slack }
                                      ELSE Regions]
    BY <1>2 DEF Probes, Rtts
  <2>2. CASE \E r \in Regions : rtt[r] # NoTime
    <3>1. /\ scan' = [at |-> "quiet", rtt |-> rtt, near |-> { r \in Regions : rtt[r] # NoTime /\ rtt[r] <= Slack }]
      BY <1>0, <2>1, <2>2
    <3>2. QED BY <1>2, <2>2, <3>1 DEF ScanSays, Measured, EveryRegionAccounted, Probes
  <2>3. CASE ~\E r \in Regions : rtt[r] # NoTime
    <3>1. scan' = [at |-> "ask", rtt |-> rtt, near |-> Regions]
      BY <1>0, <2>1, <2>3
    <3>2. QED BY <1>2, <3>1 DEF ScanSays, EveryRegionAccounted, Probes
  <2>4. QED BY <2>2, <2>3
<1>3. CASE Remeasures
  <2>1. PICK again \in [scan.near -> Rtts] :
          LET rtt == [r \in Regions |-> IF r \in scan.near /\ again[r] # NoTime THEN again[r] ELSE scan.rtt[r]]
          IN  scan' = [scan EXCEPT !.at = "ask", !.rtt = rtt, !.near = { r \in @ : rtt[r] <= MaxMS }]
    BY <1>3 DEF Remeasures, Rtts
  <2>. DEFINE rtt == [r \in Regions |-> IF r \in scan.near /\ again[r] # NoTime THEN again[r] ELSE scan.rtt[r]]
  <2>2. scan' = [at |-> "ask", rtt |-> rtt, near |-> { r \in scan.near : rtt[r] <= MaxMS }]
    BY <1>0, <2>1
  <2>3. rtt \in [Regions -> Rtts]
    BY <1>0
  <2>4. \A r \in Regions : /\ r \notin scan.near => rtt[r] = scan.rtt[r]
                           /\ rtt[r] # NoTime \/ rtt[r] = scan.rtt[r]
    OBVIOUS
  <2>. HIDE DEF rtt
  <2>5. scan.near = { r \in Regions : scan.rtt[r] # NoTime /\ scan.rtt[r] <= Slack }
    BY <1>3 DEF Remeasures, ScanSays
  <2>6. \A r \in Regions : rtt[r] \in Nat /\ scan.rtt[r] \in Nat
    BY <1>0, <2>3, RttsAre
  <2>7. ASSUME NEW r \in Regions, ~(r \in scan.near /\ rtt[r] <= MaxMS) PROVE rtt[r] = NoTime \/ rtt[r] > MaxMS
    BY <2>4, <2>5, <2>6, <2>7, RttsAre
  <2>8. \E r \in Regions : rtt[r] # NoTime
    BY <1>3, <2>4 DEF Remeasures, ScanSays, Measured
  <2>9. ScanSays'
    BY <1>0, <2>2, <2>3, <2>7, <2>8 DEF ScanSays, Measured
  <2>10. QED BY <1>3, <2>9 DEF Remeasures, EveryRegionAccounted
<1>4. CASE AsksAll
  <2>1. scan' = [at |-> "none", rtt |-> [r \in Regions |-> NoTime], near |-> {}]
    BY <1>4 DEF AsksAll, NoScan
  <2>2. ScanSays'
    <3>1. [r \in Regions |-> NoTime] \in [Regions -> Rtts]
      BY RttsAre
    <3>2. QED BY <2>1, <3>1 DEF ScanSays
  <2>3. PICK score \in [Regions -> Scores], readable \in SUBSET Regions : \E rows \in Ranked(score, readable) :
          Save([rows |-> rows, far |-> TooFar, unreachable |-> Unreachable, error |-> FALSE])
    BY <1>4 DEF AsksAll
  <2>4. QED BY <1>4, <2>2, <2>3, TableIs, SavesTable DEF AsksAll
<1>5. CASE UNCHANGED <<scan, shown, store>>
  BY <1>5 DEF ScanSays, Measured, EveryRegionAccounted
<1>6. QED
  BY <1>1, <1>2, <1>3, <1>4, <1>5 DEF ScanNext, RequestsQuota, Enables, RegionIsOn, QuotaAnswered

-----------------------------------------------------------------------------
(* The plan and the launch.                                                  *)
Settled == <<archive, bucket, drive, measured, apps>>

LEMMA NeedStays ==
  ASSUME UNCHANGED Settled
  PROVE  /\ Taken' = Taken /\ Own' = Own
         /\ DiskFor(LeftOver(Taken, Room(Own)))' = DiskFor(LeftOver(Taken, Room(Own)))
BY DEF Settled, Taken, Own, SeenOnABox, Is, Listed, InArchive, DiskFor, LeftOver, Size, Room

\* The plan goes on as it is, or is given up or begun again.
LEMMA PlanGoesOn ==
  ASSUME PlanInv, UNCHANGED Settled, NEW step, plan' = [plan EXCEPT !.at = step],
         Sized' => Sized, step \notin {"none", "choose"}
  PROVE  PlanInv'
<1>1. plan' = [at |-> step, asks |-> plan.asks, promised |-> plan.promised, known |-> plan.known,
               data |-> plan.data, extra |-> plan.extra, byHand |-> plan.byHand,
               written |-> plan.written, box |-> plan.box]
  BY DEF PlanInv, PlanFields
<1>2. PlanFields'
  BY <1>1 DEF PlanInv, PlanFields, Settled
<1>3. Promise'
  BY <1>1, NeedStays DEF PlanInv, Promise, At
<1>4. PromisedIsBuilt'
  BY <1>1 DEF PlanInv, PromisedIsBuilt
<1>5. QED BY <1>2, <1>3, <1>4 DEF PlanInv

LEMMA PlanBegins ==
  ASSUME bucket' \in [known : BOOLEAN, there : BOOLEAN, whole : BOOLEAN],
         plan' = NoPlan \/ plan' = [NoPlan EXCEPT !.at = "choose"]
  PROVE  PlanInv'
<1>1. PICK step \in {"none", "choose"} :
        plan' = [at |-> step, asks |-> "no", promised |-> {}, known |-> FALSE,
                 data |-> 0, extra |-> {}, byHand |-> FALSE, written |-> FALSE, box |-> {}]
  BY DEF NoPlan
<1>2. QED BY <1>1 DEF PlanInv, PlanFields, Promise, PromisedIsBuilt, Sized, At

\* What was picked: nothing is promised, or the disk for what was chosen.
LEMMA PicksAre ==
  ASSUME NEW read \in BOOLEAN, NEW named \in BOOLEAN, NEW tty \in BOOLEAN, NEW known \in BOOLEAN,
         NEW a \in Picks(read, named, tty, known)
  PROVE  /\ a.promised = {} \/ (/\ a.sel \subseteq Listed /\ a.sel # {}
                                /\ a.promised = {DiskFor(LeftOver(a.sel, Room(Own)))})
         /\ a.sel # {Unset}
         /\ a.sel = {All} =>
              \/ apps = {All}
              \/ a.sel \subseteq Games
              \/ read /\ (bucket.known \/ named) /\ (bucket.there \/ bucket.known)
<1>0. Listed \subseteq Games
  BY DEF Listed, InArchive
<1>1. CASE a \in Answers(known)
  <2>1. CASE a = [sel |-> Kept, promised |-> {}]
    BY <2>1 DEF Kept, Is
  <2>2. CASE a = [sel |-> {}, promised |-> {}]
    BY <2>2
  <2>3. ASSUME NEW S \in (SUBSET Listed) \ {{}},
               a = [sel |-> S, promised |-> IF known THEN {DiskFor(LeftOver(S, Room(Own)))} ELSE {}]
        PROVE  /\ a.sel = S /\ S \subseteq Listed /\ S # {}
               /\ a.promised = {} \/ a.promised = {DiskFor(LeftOver(S, Room(Own)))}
               /\ a.sel # {Unset}
    BY <1>0, <2>3, WordsAssumption
  <2>4. QED BY <1>0, <1>1, <2>1, <2>2, <2>3 DEF Answers
<1>2. CASE a \notin Answers(known)
  <2>1. a \in Only({}) \/ a \in Only({All}) \/ (a \in Only(apps) /\ apps # {Unset})
    BY <1>2 DEF Picks, Is
  <2>2. a.promised = {} /\ (a.sel = {} \/ a.sel = {All} \/ (a.sel = apps /\ apps # {Unset}))
    BY <2>1 DEF Only
  <2>3. a.sel = {All} => \/ apps = {All}
                         \/ read /\ (bucket.known \/ named) /\ (bucket.there \/ bucket.known)
    BY <1>2 DEF Picks, Only
  <2>4. {All} # {Unset}
    BY DEF All, Unset
  <2>. QED BY <2>2, <2>3, <2>4
<1>3. QED BY <1>1, <1>2

ChoseSo(read, named, written, a) ==
  /\ apps' = IF written THEN a.sel ELSE apps
  /\ plan' = [at |-> "bucket",
              asks |-> IF ~read \/ (~bucket.known /\ ~named) THEN "unread"
                       ELSE IF bucket.there THEN "read" ELSE "absent",
              promised |-> a.promised, known |-> plan.known, data |-> plan.data,
              extra |-> plan.extra, byHand |-> plan.byHand, written |-> written, box |-> plan.box]

LEMMA ChoosesAre ==
  ASSUME PlanFields, Chooses
  PROVE  \E read \in BOOLEAN, named \in BOOLEAN, tty \in BOOLEAN, known \in BOOLEAN, written \in BOOLEAN :
           \E a \in Picks(read, named, tty, known) : ChoseSo(read, named, written, a)
<1>1. PICK read \in BOOLEAN, named \in BOOLEAN, tty \in BOOLEAN, known \in BOOLEAN, written \in BOOLEAN :
        \E a \in Picks(read, named, tty, known) :
          /\ apps' = IF written THEN a.sel ELSE apps
          /\ plan' = [plan EXCEPT !.at = "bucket", !.promised = a.promised, !.written = written,
                        !.asks = IF ~read \/ (~bucket.known /\ ~named) THEN "unread"
                                 ELSE IF bucket.there THEN "read" ELSE "absent"]
  BY DEF Chooses
<1>2. PICK a \in Picks(read, named, tty, known) :
          /\ apps' = IF written THEN a.sel ELSE apps
          /\ plan' = [plan EXCEPT !.at = "bucket", !.promised = a.promised, !.written = written,
                        !.asks = IF ~read \/ (~bucket.known /\ ~named) THEN "unread"
                                 ELSE IF bucket.there THEN "read" ELSE "absent"]
  BY <1>1
<1>. DEFINE asks == IF ~read \/ (~bucket.known /\ ~named) THEN "unread"
                    ELSE IF bucket.there THEN "read" ELSE "absent"
            promised == a.promised
<1>3. plan' = [plan EXCEPT !.at = "bucket", !.promised = promised, !.written = written, !.asks = asks]
  BY <1>2
<1>. HIDE DEF asks, promised
<1>4. plan' = [at |-> "bucket", asks |-> asks, promised |-> promised, known |-> plan.known, data |-> plan.data,
               extra |-> plan.extra, byHand |-> plan.byHand, written |-> written, box |-> plan.box]
  BY <1>3 DEF PlanFields
<1>5. ChoseSo(read, named, written, a)
  BY <1>2, <1>4 DEF ChoseSo, asks, promised
<1>. QED BY <1>5, Zenon

\* The restore leaves the plan as it is.
LEMMA RestoresAre ==
  ASSUME PlanFields, Restores
  PROVE  /\ At("launched") /\ UNCHANGED Settled
         /\ \E step \in {"restored", "cut"} : \E box :
              plan' = [at |-> step, asks |-> plan.asks, promised |-> plan.promised, known |-> plan.known,
                       data |-> plan.data, extra |-> plan.extra, byHand |-> plan.byHand,
                       written |-> plan.written, box |-> box]
<1>1. PICK read \in BOOLEAN, mounted \in BOOLEAN :
        \E box : plan' = [plan EXCEPT !.at = IF read /\ mounted THEN "restored" ELSE "cut", !.box = box]
  BY DEF Restores
<1>. DEFINE step == IF read /\ mounted THEN "restored" ELSE "cut"
<1>2. PICK box : plan' = [plan EXCEPT !.at = step, !.box = box]
  BY <1>1
<1>3. step \in {"restored", "cut"}
  OBVIOUS
<1>. HIDE DEF step
<1>4. plan' = [at |-> step, asks |-> plan.asks, promised |-> plan.promised, known |-> plan.known,
               data |-> plan.data, extra |-> plan.extra, byHand |-> plan.byHand,
               written |-> plan.written, box |-> box]
  BY <1>2 DEF PlanFields
<1>5. At("launched") /\ UNCHANGED Settled
  BY <1>4 DEF Restores, Settled
<1>6. \E b : plan' = [at |-> step, asks |-> plan.asks, promised |-> plan.promised, known |-> plan.known,
                        data |-> plan.data, extra |-> plan.extra, byHand |-> plan.byHand,
                        written |-> plan.written, box |-> b]
  BY <1>4
<1>. QED BY <1>3, <1>5, <1>6

LEMMA PlanKept ==
  ASSUME PlanInv, PlanNext, UNCHANGED <<scanVars, launchVars, keyVars, open, given>>
  PROVE  PlanInv'
<1>. USE DEF At
<1>1. CASE Chooses
  <2>1. PICK read \in BOOLEAN, named \in BOOLEAN, tty \in BOOLEAN, known \in BOOLEAN, written \in BOOLEAN :
          \E a \in Picks(read, named, tty, known) : ChoseSo(read, named, written, a)
    BY <1>1, ChoosesAre DEF PlanInv
  <2>2. PICK a \in Picks(read, named, tty, known) : ChoseSo(read, named, written, a)
    BY <2>1
  <2>3. UNCHANGED <<archive, bucket, drive, measured>>
    BY <1>1 DEF Chooses
  <2>4. PlanFields' /\ plan'.promised = a.promised /\ plan'.at = "bucket" /\ plan'.written = written
    BY <2>2, <2>3 DEF PlanInv, PlanFields, ChoseSo
  <2>5. PromisedIsBuilt'
    BY <2>4 DEF PromisedIsBuilt, Sized
  <2>6. Promise'
    <3>1. CASE a.promised = {}
      BY <2>4, <3>1 DEF Promise
    <3>4. CASE ~written
      <4>1. ~plan'.written
        BY <2>4, <3>4
      <4>. QED BY <2>4, <4>1 DEF Promise
    <3>2. CASE written /\ a.sel \subseteq Listed /\ a.sel # {} /\ a.promised = {DiskFor(LeftOver(a.sel, Room(Own)))}
      <4>1. Listed' = Listed /\ Own' = Own
        BY <2>3 DEF Listed, InArchive, Own, SeenOnABox
      <4>2. a.sel # {All} /\ a.sel # {Unset}
        BY <3>2, WordsAssumption DEF Listed, InArchive
      <4>3. Taken' = a.sel
        BY <2>2, <3>2, <4>1, <4>2 DEF Taken, Is, ChoseSo
      <4>4. DiskFor(LeftOver(Taken, Room(Own)))' = DiskFor(LeftOver(a.sel, Room(Own)))
        BY <2>3, <4>1, <4>3 DEF DiskFor, LeftOver, Size, Room
      <4>5. QED BY <2>4, <3>2, <4>4 DEF Promise
    <3>3. QED BY <3>1, <3>2, <3>4, PicksAre
  <2>7. QED BY <2>4, <2>5, <2>6 DEF PlanInv
<1>2. CASE EnsuresBucket
  <2>1. CASE plan' = NoPlan /\ UNCHANGED bucket
    BY <2>1, PlanBegins DEF PlanInv, PlanFields
  <2>2. CASE bucket' = [bucket EXCEPT !.known = TRUE, !.there = TRUE] /\ Goes("size")
    <3>1. plan' = [at |-> "size", asks |-> plan.asks, promised |-> plan.promised, known |-> plan.known,
                   data |-> plan.data, extra |-> plan.extra, byHand |-> plan.byHand,
               written |-> plan.written, box |-> plan.box]
      BY <2>2 DEF PlanInv, PlanFields, Goes
    <3>2. bucket' \in [known : BOOLEAN, there : BOOLEAN, whole : BOOLEAN] /\ bucket'.whole = bucket.whole
      BY <2>2 DEF PlanInv, PlanFields
    <3>3. UNCHANGED <<archive, drive, measured, apps>>
      BY <1>2 DEF EnsuresBucket
    <3>4. /\ Taken' = Taken /\ Own' = Own
          /\ DiskFor(LeftOver(Taken, Room(Own)))' = DiskFor(LeftOver(Taken, Room(Own)))
      BY <3>2, <3>3 DEF Taken, Own, SeenOnABox, Is, Listed, InArchive, DiskFor, LeftOver, Size, Room
    <3>5. QED BY <3>1, <3>2, <3>4 DEF PlanInv, PlanFields, Promise, PromisedIsBuilt, Sized
  <2>3. QED BY <1>2, <2>1, <2>2 DEF EnsuresBucket
<1>3. CASE Sizes
  <2>1. PICK read \in BOOLEAN, known \in BOOLEAN, ask \in Asks :
          LET sized == (read \/ apps = {}) /\ known
              extra == IF sized THEN LeftOver(Taken, Room(Own)) ELSE {}
              want  == RoundedUp(ask)
              byHand == want > DiskFor(extra)
              data  == IF byHand THEN want ELSE DiskFor(extra)
          IN plan' = IF data > MaxDisk THEN NoPlan
                     ELSE [plan EXCEPT !.at = "image", !.known = sized, !.data = data,
                                       !.extra = extra, !.byHand = byHand]
    BY <1>3 DEF Sizes
  <2>. DEFINE sized == (read \/ apps = {}) /\ known
              extra == IF sized THEN LeftOver(Taken, Room(Own)) ELSE {}
              want  == RoundedUp(ask)
              byHand == want > DiskFor(extra)
              data  == IF byHand THEN want ELSE DiskFor(extra)
  <2>2. UNCHANGED Settled
    BY <1>3 DEF Sizes, Settled
  <2>3. CASE plan' = NoPlan
    BY <2>2, <2>3, PlanBegins DEF PlanInv, PlanFields, Settled
  <2>4. CASE plan' = [plan EXCEPT !.at = "image", !.known = sized, !.data = data,
                                  !.extra = extra, !.byHand = byHand]
    <3>1. plan' = [at |-> "image", asks |-> plan.asks, promised |-> plan.promised, known |-> sized,
                   data |-> data, extra |-> extra, byHand |-> byHand,
                   written |-> plan.written, box |-> plan.box]
      BY <2>4 DEF PlanInv, PlanFields
    <3>2. PlanFields'
      BY <2>2, <3>1 DEF PlanInv, PlanFields, Settled
    <3>3. Promise'
      BY <2>2, <3>1, NeedStays DEF PlanInv, Promise
    <3>4. PromisedIsBuilt'
      <4>1. ASSUME NEW n \in plan.promised, sized, plan.written PROVE data = n \/ (byHand /\ data > n)
        <5>1. n = DiskFor(extra)
          BY <4>1 DEF PlanInv, Promise
        <5>2. QED BY <5>1
      <4>2. /\ plan'.promised = plan.promised /\ plan'.known = sized /\ plan'.data = data
            /\ plan'.byHand = byHand /\ plan'.written = plan.written
        BY <3>1
      <4>3. QED BY <4>1, <4>2 DEF PromisedIsBuilt
    <3>5. QED BY <3>2, <3>3, <3>4 DEF PlanInv
  <2>5. QED BY <2>1, <2>3, <2>4
<1>4. CASE Restores
  <2>1. PICK step \in {"restored", "cut"} : \E box :
          plan' = [at |-> step, asks |-> plan.asks, promised |-> plan.promised, known |-> plan.known,
                   data |-> plan.data, extra |-> plan.extra, byHand |-> plan.byHand,
                   written |-> plan.written, box |-> box]
    BY <1>4, RestoresAre DEF PlanInv
  <2>2. UNCHANGED Settled /\ Sized
    BY <1>4, RestoresAre DEF PlanInv, Sized
  <2>3. QED BY <2>1, <2>2, NeedStays DEF PlanInv, PlanFields, Promise, PromisedIsBuilt, Settled
<1>5. QED BY <1>1, <1>2, <1>3, <1>4 DEF PlanNext

-----------------------------------------------------------------------------
(* Where the games go.  The drive is filled in one order (a fold): what it    *)
(* holds and what is left of it are its size, after every game.              *)
LEMMA LeastOf ==
  ASSUME NEW S, IsFiniteSet(S), S # {}, NEW f, \A x \in S : f[x] \in Nat
  PROVE  \E x \in S : \A y \in S : f[x] <= f[y]
<1>. DEFINE Good == { s \in SUBSET S : s # {} => \E x \in s : \A y \in s : f[x] <= f[y] }
<1>1. {} \in Good
  OBVIOUS
<1>2. ASSUME NEW s \in SUBSET S, s # {}, \A x \in s : s \ {x} \in Good PROVE s \in Good
  <2>1. PICK x \in s : TRUE
    BY <1>2
  <2>2. CASE s \ {x} = {}
    <3>1. \A y \in s : y = x
      BY <2>2
    <3>. QED BY <2>1, <3>1
  <2>3. CASE s \ {x} # {}
    <3>1. PICK z \in s \ {x} : \A y \in s \ {x} : f[z] <= f[y]
      BY <1>2, <2>1, <2>3
    <3>2. f[x] \in Nat /\ f[z] \in Nat /\ \A y \in s : f[y] \in Nat
      OBVIOUS
    <3>3. CASE f[z] <= f[x]
      <4>1. \A y \in s : f[z] <= f[y]
        BY <3>1, <3>3
      <4>. QED BY <4>1
    <3>4. CASE ~(f[z] <= f[x])
      <4>1. ASSUME NEW y \in s PROVE f[x] <= f[y]
        <5>1. y # x => f[z] <= f[y]
          BY <3>1
        <5>. QED BY <3>2, <3>4, <5>1
      <4>. QED BY <2>1, <4>1
    <3>. QED BY <3>3, <3>4
  <2>. QED BY <2>2, <2>3
<1>. HIDE DEF Good
<1>3. S \in SUBSET S /\ \A s \in SUBSET S : s \in Good
  BY <1>1, <1>2, BySubsets
<1>. QED BY <1>3 DEF Good

\* What PlaceGames puts on the drive fits it, in whatever order games of one size come.
LEMMA PlacedFits ==
  ASSUME NEW games, IsFiniteSet(games), NEW sizes, \A g \in games : sizes[g] \in Nat, NEW room \in Nat
  PROVE  /\ Placed(sizes, games, room) \subseteq games
         /\ SumOver(sizes, games \ Placed(sizes, games, room)) <= room
<1>. DEFINE smallest(rest) == CHOOSE g \in rest : \A h \in rest : sizes[g] <= sizes[h]
            put(g, so_far) ==
              IF sizes[g] <= so_far.left
              THEN [so_far EXCEPT !.left = @ - sizes[g]]
              ELSE [so_far EXCEPT !.extra = @ \cup {g}]
            base == [left |-> room, extra |-> {}]
            Rec(it) == it = [s \in SUBSET games |-> IF s = {} THEN base ELSE put(smallest(s), it[s \ {smallest(s)}])]
            Packed == [left : Nat, extra : SUBSET games]
            pick == [s \in SUBSET games |-> smallest(s)]
            step == [p \in games \X Packed |-> put(p[1], p[2])]
<1>1. Placed(sizes, games, room) = (CHOOSE it : Rec(it))[games].extra
  BY DEF Placed, MapThenFoldSet
<1>2. ASSUME NEW s \in SUBSET games, s # {} PROVE smallest(s) \in s
  <2>1. IsFiniteSet(s) /\ \A g \in s : sizes[g] \in Nat
    BY FS_Subset
  <2>2. \E g \in s : \A h \in s : sizes[g] <= sizes[h]
    BY <1>2, <2>1, LeastOf
  <2>. QED BY <2>2
<1>. HIDE DEF smallest
<1>3. ASSUME NEW g \in games, NEW so_far \in Packed
      PROVE  /\ put(g, so_far) \in Packed /\ step[<<g, so_far>>] = put(g, so_far)
             /\ sizes[g] <= so_far.left => put(g, so_far) = [left |-> so_far.left - sizes[g], extra |-> so_far.extra]
             /\ ~(sizes[g] <= so_far.left) => put(g, so_far) = [left |-> so_far.left, extra |-> so_far.extra \cup {g}]
  <2>1. sizes[g] \in Nat /\ so_far.left \in Nat /\ so_far.extra \in SUBSET games
        /\ so_far = [left |-> so_far.left, extra |-> so_far.extra]
    BY <1>3
  <2>2. CASE sizes[g] <= so_far.left
    <3>1. put(g, so_far) = [left |-> so_far.left - sizes[g], extra |-> so_far.extra]
      BY <2>1, <2>2
    <3>2. so_far.left - sizes[g] \in Nat
      BY <2>1, <2>2
    <3>. QED BY <2>1, <2>2, <3>1, <3>2
  <2>3. CASE ~(sizes[g] <= so_far.left)
    <3>1. put(g, so_far) = [left |-> so_far.left, extra |-> so_far.extra \cup {g}]
      BY <2>1, <2>3
    <3>. QED BY <2>1, <2>3, <3>1
  <2>. QED BY <2>2, <2>3
<1>4. base \in Packed
  OBVIOUS
<1>. HIDE DEF put, Packed
<1>5. \E it : Rec(it)
  <2>. HIDE DEF step, base
  <2>1. \A s \in SUBSET games : s # {} => pick[s] \in s
    BY <1>2
  <2>. HIDE DEF pick
  <2>2. PICK it : Folds(games, pick, base, step, it)
    BY <2>1, FoldsExist
  <2>3. /\ it = [s \in SUBSET games |-> it[s]]
        /\ \A s \in SUBSET games : it[s] = IF s = {} THEN base ELSE step[<<pick[s], it[s \ {pick[s]}]>>]
    BY <2>2 DEF Folds
  <2>. DEFINE Good == { s \in SUBSET games : it[s] \in Packed }
  <2>4. {} \in Good
    BY <1>4, <2>3
  <2>5. ASSUME NEW s \in SUBSET games, s # {}, \A x \in s : s \ {x} \in Good PROVE s \in Good
    <3>1. pick[s] \in s /\ pick[s] \in games /\ it[s \ {pick[s]}] \in Packed
      BY <2>1, <2>5
    <3>2. it[s] = step[<<pick[s], it[s \ {pick[s]}]>>]
      BY <2>3, <2>5
    <3>3. step[<<pick[s], it[s \ {pick[s]}]>>] = put(pick[s], it[s \ {pick[s]}])
          /\ put(pick[s], it[s \ {pick[s]}]) \in Packed
      BY <1>3, <3>1
    <3>4. it[s] \in Packed
      BY <3>2, <3>3
    <3>. QED BY <2>5, <3>4
  <2>. HIDE DEF Good
  <2>6. \A s \in SUBSET games : s \in Good
    BY <2>4, <2>5, BySubsets
  <2>7. ASSUME NEW s \in SUBSET games
        PROVE  it[s] = IF s = {} THEN base ELSE put(smallest(s), it[s \ {smallest(s)}])
    <3>1. CASE s = {}
      BY <2>3, <3>1
    <3>2. CASE s # {}
      <4>1. pick[s] = smallest(s) /\ pick[s] \in games /\ it[s \ {pick[s]}] \in Packed
        BY <2>1, <2>6, <3>2 DEF pick, Good
      <4>2. it[s] = step[<<pick[s], it[s \ {pick[s]}]>>]
        BY <2>3, <3>2
      <4>. QED BY <1>3, <3>2, <4>1, <4>2
    <3>. QED BY <3>1, <3>2
  <2>8. Rec(it)
    BY <2>3, <2>7
  <2>. HIDE DEF Rec
  <2>. QED BY <2>8
<1>6. PICK it : it = (CHOOSE jt : Rec(jt)) /\ Rec(it)
  <2>. HIDE DEF Rec
  <2>. QED BY <1>5
<1>. DEFINE Good == { s \in SUBSET games : /\ it[s] \in Packed /\ it[s].extra \subseteq s
                                           /\ it[s].left + SumOver(sizes, s \ it[s].extra) = room }
<1>7. {} \in Good
  <2>1. it[{}] = base
    BY <1>6
  <2>2. SumOver(sizes, {}) = 0
    BY SumRule, FS_EmptySet
  <2>3. {} \ base.extra = {} /\ base.left = room
    OBVIOUS
  <2>. QED BY <1>4, <2>1, <2>2, <2>3
<1>8. ASSUME NEW s \in SUBSET games, s # {}, \A x \in s : s \ {x} \in Good PROVE s \in Good
  <2>1. PICK g \in s : g = smallest(s)
    BY <1>2, <1>8
  <2>2. PICK so_far \in Packed : so_far = it[s \ {g}]
    BY <1>8
  <2>3. /\ so_far.extra \subseteq s \ {g} /\ g \in games
        /\ so_far.left + SumOver(sizes, (s \ {g}) \ so_far.extra) = room
    BY <1>8, <2>2
  <2>4. it[s] = put(g, so_far)
    BY <1>6, <1>8, <2>1, <2>2
  <2>5. it[s] \in Packed
    BY <1>3, <2>3, <2>4
  <2>6. so_far.left \in Nat /\ sizes[g] \in Nat
    BY DEF Packed
  <2>7. CASE sizes[g] <= so_far.left
    <3>0. put(g, so_far) = [left |-> so_far.left - sizes[g], extra |-> so_far.extra]
      BY <1>3, <2>3, <2>7
    <3>1. it[s].left = so_far.left - sizes[g] /\ it[s].extra = so_far.extra
      BY <2>4, <3>0
    <3>. DEFINE kept == s \ so_far.extra
    <3>2. IsFiniteSet(kept) /\ (\A x \in kept : sizes[x] \in Nat) /\ g \in kept
          /\ kept \ {g} = (s \ {g}) \ so_far.extra
      BY <2>3, FS_Subset
    <3>. HIDE DEF kept
    <3>3. SumOver(sizes, kept) = SumOver(sizes, kept \ {g}) + sizes[g]
      BY <3>2, SumRule
    <3>4. SumOver(sizes, kept \ {g}) \in Nat
      <4>1. IsFiniteSet(kept \ {g}) /\ \A x \in kept \ {g} : sizes[x] \in Nat
        BY <3>2, FS_Subset
      <4>. QED BY <4>1, SumType
    <3>5. so_far.left + SumOver(sizes, kept \ {g}) = room
      BY <2>3, <3>2
    <3>6. it[s].left + SumOver(sizes, kept) = room
      BY <2>6, <3>1, <3>3, <3>4, <3>5
    <3>. QED BY <2>3, <2>5, <3>1, <3>6 DEF kept
  <2>8. CASE ~(sizes[g] <= so_far.left)
    <3>0. put(g, so_far) = [left |-> so_far.left, extra |-> so_far.extra \cup {g}]
      BY <1>3, <2>3, <2>8
    <3>1. it[s].left = so_far.left /\ it[s].extra = so_far.extra \cup {g}
      BY <2>4, <3>0
    <3>2. s \ it[s].extra = (s \ {g}) \ so_far.extra
      BY <3>1
    <3>. QED BY <2>3, <2>5, <3>1, <3>2
  <2>. QED BY <2>7, <2>8
<1>. HIDE DEF Good
<1>9. games \in SUBSET games /\ \A s \in SUBSET games : s \in Good
  BY <1>7, <1>8, BySubsets
<1>10. /\ it[games].left \in Nat /\ it[games].extra \subseteq games
       /\ it[games].left + SumOver(sizes, games \ it[games].extra) = room
  BY <1>9 DEF Good, Packed
<1>11. SumOver(sizes, games \ it[games].extra) \in Nat
  <2>1. IsFiniteSet(games \ it[games].extra) /\ \A x \in games \ it[games].extra : sizes[x] \in Nat
    BY FS_Subset
  <2>. QED BY <2>1, SumType
<1>12. Placed(sizes, games, room) = it[games].extra
  BY <1>1, <1>6
<1>. QED BY <1>10, <1>11, <1>12

LEMMA SizeIs ==
  ASSUME archive \in [Games -> Nat], NEW games, games \subseteq Games
  PROVE  /\ IsFiniteSet(games) /\ Size(games) = SumOver(archive, games) /\ Size(games) \in Nat
<1>1. IsFiniteSet(games) /\ \A g \in games : archive[g] \in Nat
  BY SizesAssumption, FS_Subset
<1>. DEFINE f == [g \in games |-> archive[g]]
<1>2. DOMAIN f = games /\ \A g \in games : archive[g] \in Nat /\ f[g] = archive[g]
  BY <1>1
<1>3. Size(games) = SumFunction(f)
  BY DEF Size
<1>. HIDE DEF f
<1>. QED BY <1>1, <1>2, <1>3, SumIs

LEMMA RoundsUp == ASSUME NEW n \in Nat PROVE RoundedUp(n) \in Nat /\ RoundedUp(n) >= n
<1>. DEFINE a == n + Step - 1
            q == a \div Step
            r == a % Step
<1>1. Step \in Nat /\ Step > 0 /\ a \in Nat
  BY SizesAssumption
<1>2. q \in Int /\ r \in 0..(Step - 1) /\ a = Step * q + r
  <2>. HIDE DEF a
  <2>. QED BY <1>1
<1>3. RoundedUp(n) = q * Step
  BY DEF RoundedUp
<1>4. q * Step = Step * q
  BY <1>1, <1>2
<1>. HIDE DEF q, r
<1>5. Step * q \in Int
  BY <1>1, <1>2
<1>. QED BY <1>1, <1>2, <1>3, <1>4, <1>5

\* The games for the drive fit what the laptop takes it to hold.
LEMMA NeedFits ==
  ASSUME archive \in [Games -> Nat], drive \in Nat
  PROVE  LET extra == LeftOver(Taken, Room(Own)) IN
         /\ extra \subseteq Taken /\ Taken \subseteq Games /\ Size(Taken \ extra) <= Room(Own)
<1>. DEFINE extra == LeftOver(Taken, Room(Own))
<1>1. Taken \subseteq Games /\ IsFiniteSet(Taken) /\ \A g \in Taken : archive[g] \in Nat
  <2>1. Taken \subseteq InArchive /\ InArchive \subseteq Games
    BY DEF Taken, Listed, InArchive
  <2>. QED BY <2>1, SizeIs
<1>2. Room(Own) \in Nat
  BY SizesAssumption DEF Own, SeenOnABox, Room
<1>3. extra \subseteq Taken /\ SumOver(archive, Taken \ extra) <= Room(Own)
  BY <1>1, <1>2, PlacedFits DEF LeftOver
<1>. HIDE DEF extra
<1>4. Size(Taken \ extra) = SumOver(archive, Taken \ extra)
  BY <1>1, SizeIs
<1>. QED BY <1>1, <1>3, <1>4 DEF extra

\* The box skips nothing of what fits.
LEMMA FillsAll ==
  ASSUME archive \in [Games -> Nat], NEW games, games \subseteq Games, NEW disk \in Nat,
         Size(games) <= Free(disk), NEW some \in Fills(games, disk)
  PROVE  some = games
<1>1. some \subseteq games /\ \A g \in games \ some : Size(some) + archive[g] > Free(disk)
  BY DEF Fills
<1>2. Free(disk) \in Nat
  BY SizesAssumption DEF Free, Room
<1>3. ASSUME NEW g \in games \ some PROVE FALSE
  <2>1. /\ IsFiniteSet(games) /\ Size(games) = SumOver(archive, games)
        /\ Size(some) = SumOver(archive, some) /\ Size(some) \in Nat
        /\ IsFiniteSet(games \ some) /\ \A h \in games : archive[h] \in Nat
    <3>1. some \subseteq Games /\ games \ some \subseteq Games
      BY <1>1
    <3>. QED BY <3>1, SizeIs
  <2>2. SumOver(archive, games) = SumOver(archive, some) + SumOver(archive, games \ some)
    BY <1>1, <2>1, SumPart
  <2>3. archive[g] <= SumOver(archive, games \ some) /\ SumOver(archive, games \ some) \in Nat
    BY <2>1, SumOfParts, SumType
  <2>4. Size(some) + archive[g] > Free(disk) /\ archive[g] \in Nat
    BY <1>1, <2>1
  <2>5. Size(games) = Size(some) + SumOver(archive, games \ some)
    BY <2>1, <2>2
  <2>. QED BY <1>2, <2>1, <2>3, <2>4, <2>5
<1>. QED BY <1>1, <1>3

PlacedSo == Sized /\ plan.known =>
  plan.extra \subseteq Taken /\ Size(Taken \ plan.extra) <= Room(Own) /\ plan.data \in Nat
FitInv == archive \in [Games -> Nat] /\ drive \in Nat /\ PlacedSo /\ RestoredAsPlanned

LEMMA FitGoesOn ==
  ASSUME FitInv, UNCHANGED Settled,
         Sized' => Sized /\ plan'.known = plan.known /\ plan'.extra = plan.extra /\ plan'.data = plan.data,
         At("restored")' => At("restored") /\ plan'.known = plan.known /\ plan'.extra = plan.extra
                            /\ plan'.data = plan.data /\ plan'.box = plan.box
  PROVE  FitInv'
<1>1. Taken' = Taken /\ archive' = archive /\ drive' = drive /\ Own' = Own /\ measured' = measured
  BY NeedStays DEF Settled
<1>2. PlacedSo'
  BY <1>1 DEF FitInv, PlacedSo, Size, Room
<1>3. RestoredAsPlanned'
  BY <1>1 DEF FitInv, RestoredAsPlanned, Size, SeenOnABox
<1>. QED BY <1>1, <1>2, <1>3 DEF FitInv

LEMMA FitNotYet == ASSUME FitInv, UNCHANGED <<archive, drive>>, ~Sized' PROVE FitInv'
BY DEF FitInv, PlacedSo, RestoredAsPlanned, Sized

LEMMA FitRestores ==
  ASSUME PlanFields, FitInv, Restores PROVE FitInv'
<1>1. PICK step \in {"restored", "cut"} : \E box :
        plan' = [at |-> step, asks |-> plan.asks, promised |-> plan.promised, known |-> plan.known,
                 data |-> plan.data, extra |-> plan.extra, byHand |-> plan.byHand,
                 written |-> plan.written, box |-> box]
  BY RestoresAre
<1>2. /\ At("launched") /\ Sized /\ UNCHANGED Settled
      /\ plan'.known = plan.known /\ plan'.extra = plan.extra /\ plan'.data = plan.data
  BY <1>1, RestoresAre DEF Sized
<1>3. Taken' = Taken /\ archive' = archive /\ drive' = drive /\ Own' = Own /\ measured' = measured
  BY <1>2, NeedStays DEF Settled
<1>4. PlacedSo'
  BY <1>2, <1>3 DEF FitInv, PlacedSo, Size, Room
<1>5. ASSUME At("restored")', plan.known
      PROVE  /\ SeenOnABox => Taken \ plan.extra \subseteq plan'.box
             /\ drive > 0 /\ Size(plan.extra) + Reserve + FormatLoss <= plan.data => plan.extra \subseteq plan'.box
  <2>1. PICK own, added :
          /\ own \in Fills(Taken \ plan.extra, drive)
          /\ added \in Fills(Taken \cap plan.extra, plan.data)
          /\ plan'.box = IF drive > 0 THEN own \cup added ELSE {}
    <3>1. PICK read, mounted, own, added :
            LET games == IF read THEN Taken ELSE {} IN
            /\ read \in BOOLEAN /\ mounted \in BOOLEAN
            /\ own \in Fills(games \ plan.extra, drive)
            /\ added \in IF mounted THEN Fills(games \cap plan.extra, plan.data) ELSE {{}}
            /\ plan' = [plan EXCEPT !.at = IF read /\ mounted THEN "restored" ELSE "cut",
                          !.box = IF drive > 0 THEN own \cup added ELSE {}]
      BY DEF Restores
    <3>. DEFINE left == IF drive > 0 THEN own \cup added ELSE {}
                at == IF read /\ mounted THEN "restored" ELSE "cut"
    <3>2. plan' = [plan EXCEPT !.at = at, !.box = left]
      BY <3>1
    <3>. HIDE DEF left, at
    <3>3. plan'.at = at /\ plan'.box = left
      BY <3>2 DEF PlanFields
    <3>4. read /\ mounted
      BY <1>5, <3>3 DEF At, at
    <3>. QED BY <3>1, <3>3, <3>4 DEF left
  <2>2. /\ plan.extra \subseteq Taken /\ Size(Taken \ plan.extra) <= Room(Own) /\ plan.data \in Nat
        /\ archive \in [Games -> Nat] /\ drive \in Nat /\ Taken \subseteq Games
    BY <1>2, <1>5, NeedFits DEF FitInv, PlacedSo
  <2>3. ASSUME SeenOnABox PROVE Taken \ plan.extra \subseteq plan'.box
    <3>1. drive > 0 /\ Room(Own) = Free(drive)
      <4>1. drive > FormatLoss /\ drive \in Nat /\ FormatLoss \in Nat
        BY <2>2, <2>3, SizesAssumption DEF SeenOnABox
      <4>2. Own = drive - FormatLoss
        BY <2>3 DEF Own
      <4>3. Free(drive) = Room(drive - FormatLoss)
        BY <4>1 DEF Free
      <4>. QED BY <4>1, <4>2, <4>3
    <3>2. own = Taken \ plan.extra
      BY <2>1, <2>2, <3>1, FillsAll
    <3>. QED BY <2>1, <3>1, <3>2
  <2>4. ASSUME drive > 0, Size(plan.extra) + Reserve + FormatLoss <= plan.data
        PROVE  plan.extra \subseteq plan'.box
    <3>1. Size(plan.extra) \in Nat /\ Taken \cap plan.extra = plan.extra /\ plan.extra \subseteq Games
      BY <2>2, SizeIs
    <3>2. Size(plan.extra) <= Free(plan.data)
      <4>1. \A n, d \in Nat : n + Reserve + FormatLoss <= d => n <= Free(d)
        BY SizesAssumption DEF Free, Room
      <4>2. Size(plan.extra) \in Nat /\ plan.data \in Nat
        BY <2>2, <3>1
      <4>. QED BY <2>4, <4>1, <4>2
    <3>3. added = plan.extra
      BY <2>1, <2>2, <3>1, <3>2, FillsAll
    <3>. QED BY <2>1, <2>4, <3>3
  <2>. QED BY <2>3, <2>4
<1>6. RestoredAsPlanned'
  <2>1. SeenOnABox' = SeenOnABox /\ Size(plan.extra)' = Size(plan.extra)
    BY <1>2, <1>3 DEF SeenOnABox, Size
  <2>. QED BY <1>2, <1>3, <1>5, <2>1 DEF RestoredAsPlanned
<1>. QED BY <1>3, <1>4, <1>6 DEF FitInv

LEMMA FitSizes ==
  ASSUME PlanFields, FitInv, Sizes PROVE FitInv'
<1>1. PICK read \in BOOLEAN, known \in BOOLEAN, ask \in Asks :
        LET sized == (read \/ apps = {}) /\ known
            extra == IF sized THEN LeftOver(Taken, Room(Own)) ELSE {}
            want  == RoundedUp(ask)
            byHand == want > DiskFor(extra)
            data  == IF byHand THEN want ELSE DiskFor(extra)
        IN plan' = IF data > MaxDisk THEN NoPlan
                   ELSE [plan EXCEPT !.at = "image", !.known = sized, !.data = data,
                                     !.extra = extra, !.byHand = byHand]
  BY DEF Sizes
<1>. DEFINE sized == (read \/ apps = {}) /\ known
            extra == IF sized THEN LeftOver(Taken, Room(Own)) ELSE {}
            want  == RoundedUp(ask)
            byHand == want > DiskFor(extra)
            data  == IF byHand THEN want ELSE DiskFor(extra)
<1>2. UNCHANGED Settled
  BY DEF Sizes, Settled
<1>3. CASE plan' = NoPlan
  <2>1. ~Sized'
    BY <1>3 DEF Sized, At, NoPlan
  <2>. QED BY <1>2, <2>1, FitNotYet DEF Settled
<1>4. CASE plan' = [plan EXCEPT !.at = "image", !.known = sized, !.data = data, !.extra = extra, !.byHand = byHand]
  <2>1. plan'.known = sized /\ plan'.extra = extra /\ plan'.data = data
    BY <1>4 DEF PlanFields
  <2>. SUFFICES ASSUME sized
                PROVE  extra \subseteq Taken /\ Size(Taken \ extra) <= Room(Own) /\ data \in Nat
    <3>1. Taken' = Taken /\ archive' = archive /\ drive' = drive /\ Own' = Own
      BY <1>2, NeedStays DEF Settled
    <3>2. ~At("restored")'
      BY <1>4 DEF PlanFields, At
    <3>3. PlacedSo'
      BY <2>1, <3>1 DEF PlacedSo, Size, Room
    <3>. QED BY <3>1, <3>2, <3>3 DEF FitInv, RestoredAsPlanned
  <2>2. extra = LeftOver(Taken, Room(Own))
    OBVIOUS
  <2>. HIDE DEF extra
  <2>3. extra \subseteq Games /\ extra \subseteq Taken /\ Size(Taken \ extra) <= Room(Own)
    BY <2>2, NeedFits DEF FitInv
  <2>4. DiskFor(extra) \in Nat
    <3>1. Size(extra) \in Nat
      BY <2>3, SizeIs DEF FitInv
    <3>. QED BY <3>1, SizesAssumption, RoundsUp DEF DiskFor
  <2>5. want \in Nat
    BY SizesAssumption, RoundsUp
  <2>. QED BY <2>3, <2>4, <2>5
<1>. QED BY <1>1, <1>3, <1>4, SMTT(30)

-----------------------------------------------------------------------------
(* The launch.                                                               *)
LEMMA GoesTo ==
  ASSUME PlanFields, NEW step, plan' = [plan EXCEPT !.at = step] PROVE plan'.at = step
<1>1. plan' = [at |-> step, asks |-> plan.asks, promised |-> plan.promised, known |-> plan.known,
               data |-> plan.data, extra |-> plan.extra, byHand |-> plan.byHand,
               written |-> plan.written, box |-> plan.box]
  BY DEF PlanFields
<1>2. QED BY <1>1

LEMMA LaunchMoves ==
  ASSUME LaunchNext
  PROVE  \/ plan' = NoPlan
         \/ UNCHANGED plan
         \/ \E step \in {"key", "group", "rule", "run", "launched"} : Sized /\ plan' = [plan EXCEPT !.at = step]
         \/ \E step \in {"report", "refused"} : plan' = [plan EXCEPT !.at = step]
BY DEF LaunchNext, FindsImage, EnsuresKey, FindsGroup, OpensPort, Launches, ProfileUnseen, NoAllowance,
       RefusedOtherwise, Reports, GivesUp, Launched, Fails, Goes, At, Sized

LEMMA LaunchPlanKept ==
  ASSUME PlanInv, LaunchNext, UNCHANGED Settled PROVE PlanInv'
<1>1. CASE plan' = NoPlan
  BY <1>1, PlanBegins DEF PlanInv, PlanFields, Settled
<1>2. CASE UNCHANGED plan
  BY <1>2, NeedStays DEF PlanInv, PlanFields, Promise, PromisedIsBuilt, Sized, At, Settled
<1>3. ASSUME NEW step \in {"key", "group", "rule", "run", "launched"}, Sized, plan' = [plan EXCEPT !.at = step]
      PROVE  PlanInv'
  BY <1>3, PlanGoesOn
<1>4. ASSUME NEW step \in {"report", "refused"}, plan' = [plan EXCEPT !.at = step] PROVE PlanInv'
  <2>1. ~Sized'
    BY <1>4, GoesTo DEF PlanInv, Sized, At
  <2>2. QED BY <1>4, <2>1, PlanGoesOn
<1>5. QED BY <1>1, <1>2, <1>3, <1>4, LaunchMoves

\* A launch that is given up, or reported, asks for nothing more.
LEMMA TryFields ==
  ASSUME LaunchInv
  PROVE  /\ try = [n |-> try.n, waited |-> try.waited, blind |-> try.blind, uncompared |-> try.uncompared]
         /\ try.n \in 1..Tries /\ try.waited \in 0..MaxWait
         /\ try.blind \in BOOLEAN /\ try.uncompared \in BOOLEAN
BY DEF LaunchInv

LEMMA GivesUpKept ==
  ASSUME PlanFields, LaunchInv, NEW code, NEW blind \in BOOLEAN, GivesUp(code, blind)
  PROVE  /\ plan'.at = "report" /\ said' = [code |-> code, bills |-> "nothing"]
         /\ try' = [n |-> try.n, waited |-> try.waited, blind |-> blind, uncompared |-> try.uncompared]
         /\ LaunchInv'
<1>1. plan'.at = "report"
  BY GoesTo DEF GivesUp
<1>2. /\ try' = [n |-> try.n, waited |-> try.waited, blind |-> blind, uncompared |-> try.uncompared]
      /\ said' = [code |-> code, bills |-> "nothing"]
  BY TryFields DEF GivesUp, Silence
<1>3. LaunchInv'
  BY <1>1, <1>2, TryFields DEF LaunchInv, At
<1>4. QED BY <1>1, <1>2, <1>3

LEMMA BeginsClean ==
  ASSUME try' = NoTry, plan'.at \in {"none", "choose"}, said' = [code |-> said'.code, bills |-> said'.bills]
  PROVE  LaunchInv'
<1>1. 1 \in 1..Tries /\ 0 \in 0..MaxWait
  BY LaunchAssumption
<1>2. QED BY <1>1 DEF LaunchInv, NoTry, At

LEMMA LaunchKept ==
  ASSUME PlanFields, LaunchInv, LaunchNext PROVE LaunchInv'
<1>. USE DEF At, Goes, Matches
<1>0. /\ \A step : plan' = [plan EXCEPT !.at = step] => plan'.at = step
      /\ NoPlan.at = "none"
  BY GoesTo DEF NoPlan
<1>1. CASE FindsImage
  BY <1>0, <1>1 DEF FindsImage, LaunchInv, Fails
<1>2. CASE EnsuresKey
  <2>1. CASE Goes("group") /\ UNCHANGED <<key, said>> /\ try' = [try EXCEPT !.uncompared = ~Matches]
    <3>1. /\ try' = [n |-> try.n, waited |-> try.waited, blind |-> try.blind, uncompared |-> ~Matches]
          /\ (~Matches) \in BOOLEAN
      BY <2>1, TryFields
    <3>2. plan'.at = "group" /\ UNCHANGED <<key, said>>
      BY <1>0, <2>1
    <3>3. try' \in [n : 1..Tries, waited : 0..MaxWait, blind : BOOLEAN, uncompared : BOOLEAN]
      BY <3>1, TryFields
    <3>4. Matches' \/ try'.uncompared
      BY <3>1, <3>2
    <3>5. QED BY <3>2, <3>3, <3>4 DEF LaunchInv
  <2>2. CASE key' = [pair |-> "this", pem |-> "this"] /\ Goes("group") /\ UNCHANGED <<try, said>>
    BY <1>0, <2>2 DEF LaunchInv
  <2>3. CASE Fails /\ UNCHANGED try
    BY <1>0, <2>3 DEF LaunchInv, Fails
  <2>4. QED BY <1>2, <2>1, <2>2, <2>3 DEF EnsuresKey
<1>3. CASE FindsGroup
  BY <1>0, <1>3 DEF FindsGroup, LaunchInv, Fails
<1>4. CASE OpensPort
  BY <1>0, <1>4 DEF OpensPort, LaunchInv, Fails
<1>5. CASE Launches
  BY <1>0, <1>5 DEF Launches, Launched, LaunchInv
<1>6. CASE ProfileUnseen
  <2>1. CASE GivesUp("profile", FALSE)
    BY <2>1, GivesUpKept
  <2>2. CASE try.n < Tries /\ try' = [try EXCEPT !.n = @ + 1] /\ UNCHANGED <<plan, said, key, group>>
    <3>1. try' = [n |-> try.n + 1, waited |-> try.waited, blind |-> try.blind, uncompared |-> try.uncompared]
          /\ try.n + 1 \in 1..Tries
      BY <2>2, TryFields, LaunchAssumption
    <3>2. QED BY <2>2, <3>1, TryFields DEF LaunchInv
  <2>3. QED BY <1>6, <2>1, <2>2 DEF ProfileUnseen
<1>7. CASE NoAllowance
  <2>1. ASSUME NEW read \in BOOLEAN, GivesUp("allowance", ~read) PROVE LaunchInv'
    BY <2>1, GivesUpKept
  <2>2. CASE try.waited < MaxWait /\ try' = [try EXCEPT !.waited = @ + 1] /\ UNCHANGED <<plan, said, key, group>>
    <3>1. try' = [n |-> try.n, waited |-> try.waited + 1, blind |-> try.blind, uncompared |-> try.uncompared]
          /\ try.waited + 1 \in 0..MaxWait
      BY <2>2, TryFields, LaunchAssumption
    <3>2. QED BY <2>2, <3>1, TryFields DEF LaunchInv
  <2>3. QED BY <1>7, <2>1, <2>2 DEF NoAllowance
<1>8. CASE RefusedOtherwise
  BY <1>8, GivesUpKept DEF RefusedOtherwise
<1>9. CASE Reports
  <2>1. PICK read \in BOOLEAN :
          /\ said' = [said EXCEPT !.bills = IF said.code = "allowance" /\ read /\ Live THEN "another" ELSE "nothing"]
          /\ try' = [try EXCEPT !.blind = ~read]
    BY <1>9 DEF Reports
  <2>2. plan'.at = "refused"
    BY <1>0, <1>9 DEF Reports
  <2>3. try' = [n |-> try.n, waited |-> try.waited, blind |-> ~read, uncompared |-> try.uncompared]
    BY <2>1, TryFields
  <2>4. said' = [code |-> said'.code, bills |-> said'.bills]
    BY <2>1 DEF LaunchInv
  <2>5. QED BY <2>2, <2>3, <2>4, TryFields DEF LaunchInv
<1>10. QED BY <1>1, <1>2, <1>3, <1>4, <1>5, <1>6, <1>7, <1>8, <1>9 DEF LaunchNext

-----------------------------------------------------------------------------
(* The keys.                                                                 *)
LEMMA KeysAre == 2 \in AllKeys /\ 1 \in AllKeys /\ NoKey \notin AllKeys /\ AllKeys \subseteq Nat
BY JoinKeyAssumption DEF AllKeys, NoKey

LEMMA RunGoesTo ==
  ASSUME KeyTypes, NEW r \in Runs, NEW what, RunGoes(r, what)
  PROVE  /\ runs'[r] = what /\ \A s \in Runs : s # r => runs'[s] = runs[s]
         /\ what \in Run => runs' \in [Runs -> Run]
BY DEF KeyTypes, RunGoes

\* What a command may become by itself: it keeps its keys, takes the one that
\* is stored or a person's, or uses the new one, which is then no longer only its.
CanBe(r, what) ==
  /\ what \in Run /\ HasKeys(what)
  /\ what.new # NoKey => what.new = runs[r].new
  /\ what.key \in {runs[r].key, NoKey, stored, 2} \/ (what.key = runs[r].new /\ what.new = NoKey)
  /\ what.at \in {"mints", "deletes"} /\ what.key # NoKey => life[what.key] # "live"
  /\ what.at = "starts" => (what.shown => Fine(what.key)) /\ (r = "init" => what.shown)

LEMMA RunMovesKept ==
  ASSUME KeysInv, NEW r \in Runs, NEW what, CanBe(r, what), RunGoes(r, what), NoneElse, UNCHANGED life,
         \/ stored' \in {stored, 2}
         \/ stored' = runs[r].new /\ runs[r].new # NoKey /\ what.new = NoKey
  PROVE  KeysInv'
<1>1. /\ runs'[r] = what /\ \A s \in Runs : s # r => runs'[s] = runs[s]
      /\ runs' \in [Runs -> Run] /\ UNCHANGED <<life, once, token, boots, spoilt>>
  BY RunGoesTo DEF KeysInv, CanBe, NoneElse
<1>2. KeyTypes'
  <2>1. runs[r].new \in AllKeys \cup {NoKey}
    BY DEF KeysInv, KeyTypes, Run
  <2>2. stored' \in AllKeys \cup {NoKey}
    BY <2>1, KeysAre DEF KeysInv, KeyTypes
  <2>3. QED BY <1>1, <2>2 DEF KeysInv, KeyTypes, CanBe
<1>3. KeysMade'
  <2>1. Made(what.key) /\ Made(what.new) /\ Made(stored')
    BY DEF KeysInv, KeysMade, CanBe, Made
  <2>2. Made(stored)' /\ \A s \in Runs : Made(runs'[s].key) /\ Made(runs'[s].new)
    BY <1>1, <2>1 DEF KeysInv, KeysMade, Made
  <2>3. ASSUME NEW s \in Runs, runs'[s].new # NoKey
        PROVE  runs'[s].new = runs[s].new /\ runs'[s].new # 2 /\ runs'[s].new # stored'
    BY <1>1, <2>3 DEF KeysInv, KeysMade, CanBe
  <2>4. ASSUME NEW s \in Runs, runs'[s].new # NoKey, NEW q \in Runs
        PROVE  runs'[q].key # runs'[s].new /\ (q # s => runs'[q].new # runs'[s].new)
    BY <1>1, <2>3, <2>4 DEF KeysInv, KeysMade, CanBe
  <2>5. QED BY <1>1, <2>2, <2>3, <2>4 DEF KeysInv, KeysMade, Made
<1>4. KeysWork'
  <2>1. \A k : Fine(k)' <=> Fine(k)
    BY <1>1 DEF Fine, Works
  <2>2. \A s \in Runs :
          /\ runs'[s].at \in {"mints", "deletes"} /\ runs'[s].key # NoKey => life[runs'[s].key] # "live"
          /\ runs'[s].at = "starts" /\ runs'[s].shown => Fine(runs'[s].key)
    BY <1>1 DEF KeysInv, KeysWork, CanBe
  <2>3. \A s \in Runs : runs'[s].new # NoKey => Fine(runs'[s].new)
    BY <1>1 DEF KeysInv, KeysWork, CanBe
  <2>4. runs'["init"].at = "starts" => runs'["init"].shown
    BY <1>1 DEF KeysInv, KeysWork, CanBe, Runs
  <2>5. QED BY <1>1, <2>1, <2>2, <2>3, <2>4 DEF KeysInv, KeysWork, Fine, Works
<1>5. QED BY <1>2, <1>3, <1>4 DEF KeysInv

\* What Tailscale says of a key that was made.
LEMMA ProbeIs ==
  ASSUME KeysInv, NEW k \in AllKeys \cup {NoKey}, Made(k)
  PROVE  /\ "ok" \in Probe(k) => k # NoKey /\ life[k] = "live" /\ State(k) = "ok"
         /\ Probe(k) \cap Dead # {} => k # NoKey /\ life[k] # "live"
BY DEF KeysInv, KeyTypes, Probe, Dead, State, Made, Lives

LEMMA RunIs ==
  ASSUME KeysInv, NEW r \in Runs
  PROVE  /\ runs[r] = [at |-> runs[r].at, key |-> runs[r].key, new |-> runs[r].new, shown |-> runs[r].shown]
         /\ runs[r].at \in Steps /\ runs[r].shown \in BOOLEAN
         /\ runs[r].key \in AllKeys \cup {NoKey} /\ runs[r].new \in AllKeys \cup {NoKey}
         /\ Made(runs[r].key) /\ Made(runs[r].new)
         /\ (runs[r].at \in {"deletes", "saves"} => runs[r].new # NoKey)
         /\ (runs[r].at \in {"starts", "proves"} => runs[r].key # NoKey)
         /\ (runs[r].new # NoKey => Fine(runs[r].new))
BY DEF KeysInv, KeyTypes, KeysMade, KeysWork, Run, HasKeys

LEMMA RunGoesOn ==
  ASSUME NEW run \in Run, NEW step, NEW what, what = [run EXCEPT !.at = step]
  PROVE  what = [at |-> step, key |-> run.key, new |-> run.new, shown |-> run.shown]
<1>1. run = [at |-> run.at, key |-> run.key, new |-> run.new, shown |-> run.shown]
  BY DEF Run
<1>2. QED BY <1>1

LEMMA IdleCan == ASSUME KeysInv, NEW r \in Runs PROVE CanBe(r, NotRunning)
BY DEF CanBe, NotRunning, Run, HasKeys, Steps

\* A command that has the key it will use.
LEMMA UsedAsCan ==
  ASSUME KeysInv, NEW r \in Runs, NEW k \in AllKeys, NEW shown1 \in BOOLEAN,
         k \in {runs[r].key, 2, runs[r].new}, r = "host" /\ shown1 => Fine(k)
  PROVE  CanBe(r, UsedAs(r, k, shown1)) /\ UsedAs(r, k, shown1).new = NoKey
<1>1. k # NoKey
  BY KeysAre
<1>2. QED BY <1>1 DEF CanBe, UsedAs, Run, HasKeys, Steps, Runs

LEMMA CommandKept ==
  ASSUME KeysInv, NEW r \in Runs, Begins(r) \/ Ensures(r) \/ Saves(r) \/ AsksAgain(r) \/ Proves(r) \/ KeyCutOff(r)
  PROVE  KeysInv'
<1>. USE DEF RunAt
<1>1. CASE Begins(r)
  <2>1. CanBe(r, [NotRunning EXCEPT !.at = "ensures", !.key = stored])
    BY DEF KeysInv, KeyTypes, CanBe, NotRunning, Run, HasKeys, Steps
  <2>2. QED BY <1>1, <2>1, RunMovesKept DEF Begins
<1>2. CASE Ensures(r)
  <2>. DEFINE k == runs[r].key
  <2>1. NoneElse /\ UNCHANGED <<life, stored>> /\ runs[r].at = "ensures"
    BY <1>2 DEF Ensures
  <2>2. ASSUME k # NoKey, NEW v \in Verdicts(k), RunGoes(r, UsedAs(r, k, v = "ok")) PROVE KeysInv'
    <3>1. k \in AllKeys /\ (v = "ok") \in BOOLEAN
      BY <2>2, RunIs
    <3>2. v = "ok" => Fine(k)
      BY <2>2, RunIs, ProbeIs DEF Verdicts, Fine, Works
    <3>3. CanBe(r, UsedAs(r, k, v = "ok"))
      BY <3>1, <3>2, UsedAsCan
    <3>4. QED BY <2>1, <2>2, <3>3, RunMovesKept
  <2>3. ASSUME k = NoKey \/ Verdicts(k) \cap Dead # {}, RunGoes(r, [runs[r] EXCEPT !.at = "mints"]) PROVE KeysInv'
    <3>1. k # NoKey => life[k] # "live"
      BY <2>3, RunIs, ProbeIs DEF Verdicts
    <3>2. [runs[r] EXCEPT !.at = "mints"] = [at |-> "mints", key |-> k, new |-> runs[r].new, shown |-> runs[r].shown]
      BY RunGoesOn DEF KeysInv, KeyTypes
    <3>3. CanBe(r, [runs[r] EXCEPT !.at = "mints"])
      BY <3>1, <3>2, RunIs DEF CanBe, Run, HasKeys, Steps
    <3>4. QED BY <2>1, <2>3, <3>3, RunMovesKept
  <2>4. QED BY <1>2, <2>2, <2>3 DEF Ensures
<1>3. \A what : RunGoes(r, what) /\ what = [runs[r] EXCEPT !.at = "asks again"] => CanBe(r, what)
  <2>1. [runs[r] EXCEPT !.at = "asks again"]
          = [at |-> "asks again", key |-> runs[r].key, new |-> runs[r].new, shown |-> runs[r].shown]
    BY RunGoesOn DEF KeysInv, KeyTypes
  <2>2. QED BY <2>1, RunIs DEF CanBe, Run, HasKeys, Steps
<1>4. CASE Saves(r)
  <2>1. NoneElse /\ UNCHANGED life /\ runs[r].at = "saves"
    BY <1>4 DEF Saves
  <2>2. CASE stored' = runs[r].new /\ RunGoes(r, UsedAs(r, runs[r].new, TRUE))
    <3>1. runs[r].new \in AllKeys /\ runs[r].new # NoKey /\ Fine(runs[r].new)
      BY <2>1, RunIs
    <3>2. CanBe(r, UsedAs(r, runs[r].new, TRUE)) /\ UsedAs(r, runs[r].new, TRUE).new = NoKey
      BY <3>1, UsedAsCan
    <3>3. QED BY <2>1, <2>2, <3>1, <3>2, RunMovesKept
  <2>3. CASE RunGoes(r, [runs[r] EXCEPT !.at = "asks again"]) /\ UNCHANGED stored
    BY <1>3, <2>1, <2>3, RunMovesKept
  <2>4. QED BY <1>4, <2>2, <2>3 DEF Saves
<1>5. CASE AsksAgain(r)
  <2>. DEFINE k == runs[r].key
  <2>1. NoneElse /\ UNCHANGED life
    BY <1>5 DEF AsksAgain
  <2>2. CASE Stops(r) /\ UNCHANGED stored
    BY <2>1, <2>2, IdleCan, RunMovesKept DEF Stops
  <2>3. CASE r = "init" /\ k # NoKey /\ RunGoes(r, UsedAs(r, k, FALSE)) /\ UNCHANGED stored
    <3>1. CanBe(r, UsedAs(r, k, FALSE))
      BY <2>3, RunIs, UsedAsCan
    <3>2. QED BY <2>1, <2>3, <3>1, RunMovesKept
  <2>4. ASSUME NEW v \in Probe(2), RunGoes(r, UsedAs(r, 2, v = "ok")), stored' \in {stored, 2} PROVE KeysInv'
    <3>1. v = "ok" => Fine(2)
      BY <2>4, KeysAre, ProbeIs DEF Fine, Works, KeysInv, KeysMade, Made
    <3>2. CanBe(r, UsedAs(r, 2, v = "ok"))
      BY <3>1, KeysAre, UsedAsCan
    <3>3. QED BY <2>1, <2>4, <3>2, RunMovesKept
  <2>5. QED BY <1>5, <2>2, <2>3, <2>4 DEF AsksAgain
<1>6. CASE Proves(r)
  <2>1. NoneElse /\ UNCHANGED <<life, stored>> /\ runs[r].at = "proves"
    BY <1>6 DEF Proves
  <2>2. CASE Stops(r)
    BY <2>1, <2>2, IdleCan, RunMovesKept DEF Stops
  <2>3. CASE Shows(runs[r].key) /\ RunGoes(r, [runs[r] EXCEPT !.at = "starts", !.shown = State(runs[r].key) = "ok"])
    <3>1. runs[r].key # NoKey /\ life[runs[r].key] = "live" /\ (State(runs[r].key) = "ok") = TRUE
      BY <2>1, <2>3, RunIs, ProbeIs DEF Shows
    <3>2. PICK what : what = [runs[r] EXCEPT !.at = "starts", !.shown = State(runs[r].key) = "ok"] /\ RunGoes(r, what)
      BY <2>3
    <3>3. what = [at |-> "starts", key |-> runs[r].key, new |-> runs[r].new, shown |-> TRUE]
      <4>1. PICK w : w = (State(runs[r].key) = "ok") /\ what = [runs[r] EXCEPT !.at = "starts", !.shown = w]
        BY <3>2
      <4>2. what = [at |-> "starts", key |-> runs[r].key, new |-> runs[r].new, shown |-> w]
        <5>1. runs[r] \in Run /\ what = [runs[r] EXCEPT !.at = "starts", !.shown = w]
          BY <4>1 DEF KeysInv, KeyTypes
        <5>2. PICK run \in Run : run = runs[r]
          BY <5>1
        <5>3. what = [run EXCEPT !.at = "starts", !.shown = w]
          BY ONLY <5>1, <5>2
        <5>4. run = [at |-> run.at, key |-> run.key, new |-> run.new, shown |-> run.shown]
          BY DEF Run
        <5>5. what = [at |-> "starts", key |-> run.key, new |-> run.new, shown |-> w]
          BY ONLY <5>3, <5>4
        <5>6. QED BY ONLY <5>2, <5>5
      <4>3. w = TRUE
        BY <3>1, <4>1
      <4>4. QED BY <4>2, <4>3
    <3>4. CanBe(r, what)
      BY <3>1, <3>3, RunIs DEF CanBe, Run, HasKeys, Steps, Fine, Works
    <3>5. QED BY <2>1, <3>2, <3>4, RunMovesKept
  <2>4. QED BY <1>6, <2>2, <2>3 DEF Proves
<1>7. CASE KeyCutOff(r)
  BY <1>7, IdleCan, RunMovesKept DEF KeyCutOff, Stops
<1>8. QED BY <1>1, <1>2, <1>4, <1>5, <1>6, <1>7

\* The keys in use go on: none is unmade, and the others' are not the new one.
LEMMA PersonKept ==
  ASSUME KeysInv, SetsToken \/ SetsKey PROVE KeysInv'
<1>1. stored' \in {stored, 2} /\ token' \in {token, "good"} /\ UNCHANGED <<life, once, runs, boots, spoilt>>
  BY DEF SetsToken, SetsKey, NoneElse
<1>2. KeyTypes'
  BY <1>1, KeysAre DEF KeysInv, KeyTypes
<1>3. KeysMade'
  BY <1>1 DEF KeysInv, KeysMade, Made
<1>4. KeysWork'
  BY <1>1 DEF KeysInv, KeysWork, Fine, Works
<1>5. QED BY <1>2, <1>3, <1>4 DEF KeysInv

FineNext(k) == life'[k] \in {"live", "last hour"} \/ k \in spoilt'

LEMMA MintsKept ==
  ASSUME KeysInv, NEW r \in Runs, Mints(r) PROVE KeysInv'
<1>1. CASE RunGoes(r, [runs[r] EXCEPT !.at = "asks again"]) /\ UNCHANGED <<life, once>>
  <2>1. NoneElse /\ UNCHANGED <<life, stored>>
    BY <1>1 DEF Mints, NoneElse
  <2>2. CanBe(r, [runs[r] EXCEPT !.at = "asks again"])
    <3>1. [runs[r] EXCEPT !.at = "asks again"]
            = [at |-> "asks again", key |-> runs[r].key, new |-> runs[r].new, shown |-> runs[r].shown]
      BY RunGoesOn DEF KeysInv, KeyTypes
    <3>2. QED BY <3>1, RunIs DEF CanBe, Run, HasKeys, Steps
  <2>3. QED BY <1>1, <2>1, <2>2, RunMovesKept
<1>2. ASSUME NEW n \in Unmade, life' = [life EXCEPT ![n] = "live"], once' = once \cup {n},
             RunGoes(r, [runs[r] EXCEPT !.at = "deletes", !.new = n]), runs[r].at = "mints",
             UNCHANGED <<token, stored, boots, spoilt>>
      PROVE  KeysInv'
  <2>0. n \in AllKeys /\ life[n] = "unmade" /\ n # NoKey /\ n # 2
    BY <1>2, KeysAre DEF Unmade, KeysInv, KeysMade
  <2>1. /\ life' \in [AllKeys -> Lives] /\ life'[n] = "live" /\ \A k \in AllKeys : k # n => life'[k] = life[k]
    BY <1>2, <2>0 DEF KeysInv, KeyTypes, Lives
  <2>2. runs' = [runs EXCEPT ![r] = [at |-> "deletes", key |-> runs[r].key, new |-> n, shown |-> runs[r].shown]]
    <3>1. PICK run \in Run : run = runs[r]
      BY DEF KeysInv, KeyTypes
    <3>2. PICK what : what = [run EXCEPT !.at = "deletes", !.new = n] /\ RunGoes(r, what)
      BY <1>2, <3>1
    <3>3. run = [at |-> run.at, key |-> run.key, new |-> run.new, shown |-> run.shown]
      BY DEF Run
    <3>4. what = [at |-> "deletes", key |-> run.key, new |-> n, shown |-> run.shown]
      BY ONLY <3>2, <3>3
    <3>5. QED BY <3>1, <3>2, <3>4 DEF RunGoes
  <2>3. /\ runs'[r] = [at |-> "deletes", key |-> runs[r].key, new |-> n, shown |-> runs[r].shown]
        /\ \A s \in Runs : s # r => runs'[s] = runs[s]
    BY <2>2 DEF KeysInv, KeyTypes
  <2>4. KeyTypes'
    <3>0. runs[r].key \in AllKeys \cup {NoKey} /\ runs[r].shown \in BOOLEAN
      BY RunIs
    <3>1. runs'[r] \in Run /\ HasKeys(runs'[r])
      BY <2>0, <2>3, <3>0 DEF Run, HasKeys, Steps
    <3>2. runs' \in [Runs -> Run]
      BY <2>2, <2>3, <3>1 DEF KeysInv, KeyTypes
    <3>3. \A s \in Runs : HasKeys(runs[s])'
      BY <2>3, <3>1 DEF KeysInv, KeyTypes, HasKeys
    <3>4. once' \subseteq AllKeys /\ life' \in [AllKeys -> Lives] /\ UNCHANGED <<token, stored, boots, spoilt>>
      BY <1>2, <2>0, <2>1 DEF KeysInv, KeyTypes
    <3>5. QED BY <3>2, <3>3, <3>4 DEF KeysInv, KeyTypes
  <2>5. KeysMade'
    <3>1. \A k \in AllKeys \cup {NoKey} : Made(k) => Made(k)' /\ k # n
      BY <2>0, <2>1 DEF Made
    <3>2. /\ stored \in AllKeys \cup {NoKey} /\ Made(stored) /\ 2 \in AllKeys /\ Made(2)
          /\ \A s \in Runs : /\ runs[s].key \in AllKeys \cup {NoKey} /\ Made(runs[s].key)
                             /\ runs[s].new \in AllKeys \cup {NoKey} /\ Made(runs[s].new)
          /\ \A m \in boots : m.key \in AllKeys \cup {NoKey} /\ Made(m.key)
      BY RunIs, KeysAre DEF KeysInv, KeysMade, KeyTypes, Made
    <3>3. Made(n)'
      BY <2>1 DEF Made
    <3>4. Made(stored)' /\ Made(2)' /\ \A m \in boots' : Made(m.key)' /\ m.key # n
      BY <1>2, <3>1, <3>2 DEF Made
    <3>5. \A s \in Runs : Made(runs[s].key)' /\ Made(runs[s].new)' /\ runs'[s].key # n
      BY <2>3, <3>1, <3>2, <3>3 DEF Made
    <3>6. ASSUME NEW s \in Runs, runs'[s].new # NoKey
          PROVE  /\ runs'[s].new # 2 /\ runs'[s].new # stored'
                 /\ \A q \in Runs : runs'[q].key # runs'[s].new /\ (q # s => runs'[q].new # runs'[s].new)
                 /\ \A m \in boots' : m.key # runs'[s].new
      <4>1. CASE s = r
        <5>1. runs'[s].new = n
          BY <2>3, <4>1
        <5>2. n # stored /\ \A q \in Runs : runs'[q].key # n /\ (q # s => runs'[q].new # n)
          BY <2>3, <3>1, <3>2, <3>5, <4>1
        <5>3. QED BY <1>2, <2>0, <3>4, <5>1, <5>2
      <4>2. CASE s # r
        <5>1. runs'[s].new = runs[s].new /\ runs[s].new \in AllKeys /\ runs[s].new # n
          BY <2>3, <3>1, <3>2, <3>6, <4>2
        <5>2. \A q \in Runs : runs'[q].key = runs[q].key /\ (q # s => runs'[q].new \in {n, runs[q].new})
          BY <2>3
        <5>3. QED BY <1>2, <3>6, <5>1, <5>2 DEF KeysInv, KeysMade
      <4>3. QED BY <4>1, <4>2
    <3>7. life'[2] # "unmade"
      BY <3>4, KeysAre DEF Made
    <3>8. QED BY <3>4, <3>5, <3>6, <3>7 DEF KeysMade
  <2>6. KeysWork'
    <3>1. \A k \in AllKeys : Fine(k) => FineNext(k)
      BY <1>2, <2>0, <2>1 DEF Fine, Works, FineNext
    <3>2. FineNext(n)
      BY <2>1 DEF FineNext
    <3>3. \A s \in Runs : runs[s].key \in AllKeys \cup {NoKey} /\ runs[s].new \in AllKeys \cup {NoKey}
                         /\ runs[s].key # n
      BY <2>0, RunIs DEF Made
    <3>4. \A m \in boots : m.key \in AllKeys /\ m.key # n
      BY <2>0 DEF KeysInv, KeyTypes, KeysMade, Made
    <3>5. \A s \in Runs : runs'[s].at \in {"mints", "deletes"} /\ runs'[s].key # NoKey => life'[runs'[s].key] # "live"
      BY <1>2, <2>1, <2>3, <3>3 DEF KeysInv, KeysWork
    <3>6. ASSUME NEW s \in Runs, runs'[s].new # NoKey PROVE FineNext(runs'[s].new)
      <4>1. CASE s = r
        BY <2>3, <3>2, <4>1
      <4>2. CASE s # r
        <5>1. runs'[s].new = runs[s].new /\ Fine(runs[s].new) /\ runs[s].new \in AllKeys
          BY <2>3, <3>3, <3>6, <4>2 DEF KeysInv, KeysWork
        <5>2. QED BY <3>1, <5>1
      <4>3. QED BY <4>1, <4>2
    <3>7. ASSUME NEW s \in Runs, runs'[s].at = "starts", runs'[s].shown PROVE FineNext(runs'[s].key)
      <4>1. s # r /\ runs'[s] = runs[s]
        BY <2>3, <3>7
      <4>2. runs[s].key \in AllKeys /\ Fine(runs[s].key)
        <5>1. runs[s].key # NoKey
          BY <3>7, <4>1, RunIs
        <5>2. QED BY <3>3, <3>7, <4>1, <5>1 DEF KeysInv, KeysWork
      <4>3. QED BY <3>1, <4>1, <4>2
    <3>8. runs'["init"].at = "starts" => runs'["init"].shown
      BY <2>3 DEF KeysInv, KeysWork, Runs
    <3>9. ASSUME NEW m \in boots' PROVE (m.by = "init" => m.shown) /\ (m.shown => FineNext(m.key))
      <4>1. m.key \in AllKeys /\ (m.by = "init" => m.shown) /\ (m.shown => Fine(m.key))
        BY <1>2, <3>4, <3>9 DEF KeysInv, KeysWork
      <4>2. QED BY <3>1, <4>1
    <3>10. \A m, q \in boots' : m.by = q.by => m = q
      BY <1>2 DEF KeysInv, KeysWork
    <3>11. ASSUME NEW m \in boots', NEW q \in boots', m # q, m.key = q.key, m.key \in once'
          PROVE  m.key \in spoilt'
      <4>1. m \in boots /\ q \in boots /\ m.key # n /\ m.key \in once
        BY <1>2, <3>4, <3>11
      <4>2. QED BY <1>2, <3>11, <4>1 DEF KeysInv, KeysWork
    <3>12. QED BY <3>5, <3>6, <3>7, <3>8, <3>9, <3>10, <3>11 DEF KeysWork, Fine, Works, FineNext
  <2>7. QED BY <2>4, <2>5, <2>6 DEF KeysInv
<1>3. QED BY <1>1, <1>2 DEF Mints, RunAt

\* No command takes a key that it has not, and no machine but a command's.
LEMMA MadeKept ==
  ASSUME KeysInv, UNCHANGED stored, \A k \in AllKeys : life[k] # "unmade" => life'[k] # "unmade",
         \A s \in Runs : runs'[s].key \in {runs[s].key, NoKey} /\ runs'[s].new \in {runs[s].new, NoKey},
         \A m \in boots' : m \in boots \/ \E s \in Runs : m.key = runs[s].key
  PROVE  KeysMade'
<1>1. \A k \in AllKeys \cup {NoKey} : Made(k) => (k # NoKey => life'[k] # "unmade")
  BY DEF Made
<1>2. \A s \in Runs : /\ runs[s].key \in AllKeys \cup {NoKey} /\ Made(runs[s].key)
                      /\ runs[s].new \in AllKeys \cup {NoKey} /\ Made(runs[s].new)
  BY RunIs
<1>3. life'[2] # "unmade" /\ (stored # NoKey => life'[stored] # "unmade")
  BY <1>1, KeysAre DEF KeysInv, KeysMade, KeyTypes, Made
<1>4. ASSUME NEW s \in Runs
      PROVE  (runs'[s].key # NoKey => life'[runs'[s].key] # "unmade")
             /\ (runs'[s].new # NoKey => life'[runs'[s].new] # "unmade")
  BY <1>1, <1>2
<1>5. ASSUME NEW m \in boots' PROVE m.key # NoKey => life'[m.key] # "unmade"
  <2>1. CASE m \in boots
    <3>1. m.key \in AllKeys /\ Made(m.key)
      BY <2>1 DEF KeysInv, KeyTypes, KeysMade
    <3>2. QED BY <1>1, <3>1
  <2>2. CASE \E s \in Runs : m.key = runs[s].key
    BY <1>1, <1>2, <2>2
  <2>3. QED BY <2>1, <2>2
<1>6. ASSUME NEW s \in Runs, runs'[s].new # NoKey
      PROVE  /\ runs'[s].new # 2 /\ runs'[s].new # stored
             /\ \A q \in Runs : runs'[q].key # runs'[s].new /\ (q # s => runs'[q].new # runs'[s].new)
             /\ \A m \in boots' : m.key # runs'[s].new
  <2>1. runs'[s].new = runs[s].new
    BY <1>6
  <2>2. QED BY <1>6, <2>1 DEF KeysInv, KeysMade
<1>7. QED BY <1>3, <1>4, <1>5, <1>6 DEF KeysMade, Made

\* The keys that something still needs are still good.
MovesOff(r) ==
  runs'[r].at \notin {"mints", "deletes", "starts"} /\ runs'[r].new \in {runs[r].new, NoKey}
LEMMA WorkKept ==
  ASSUME KeysInv, UNCHANGED once,
         \A k \in AllKeys : life'[k] = "live" => life[k] = "live",
         \A s \in Runs : runs'[s] = runs[s] \/ MovesOff(s),
         \A s \in Runs : runs'[s].new # NoKey /\ Fine(runs[s].new) => FineNext(runs[s].new),
         \A s \in Runs : runs[s].at = "starts" /\ runs'[s] = runs[s] /\ runs[s].shown /\ Fine(runs[s].key)
                           => FineNext(runs[s].key),
         \A m \in boots' : (m.by = "init" => m.shown) /\ (m.shown => FineNext(m.key)),
         \A m, n \in boots' : m.by = n.by => m = n,
         \A m, n \in boots' : m # n /\ m.key = n.key /\ m.key \in once => m.key \in spoilt'
  PROVE  KeysWork'
<1>1. ASSUME NEW s \in Runs, runs'[s].at \in {"mints", "deletes"}, runs'[s].key # NoKey
      PROVE  life'[runs'[s].key] # "live"
  <2>1. runs'[s] = runs[s]
    BY <1>1 DEF MovesOff
  <2>2. runs[s].key \in AllKeys
    <3>1. runs[s].key \in AllKeys \cup {NoKey}
      BY RunIs
    <3>2. runs[s].key # NoKey
      BY <1>1, <2>1
    <3>3. QED BY <3>1, <3>2
  <2>3. QED BY <1>1, <2>1, <2>2 DEF KeysInv, KeysWork
<1>2. ASSUME NEW s \in Runs, runs'[s].new # NoKey PROVE FineNext(runs'[s].new)
  <2>1. runs'[s].new = runs[s].new
    BY <1>2 DEF MovesOff
  <2>2. Fine(runs[s].new)
    BY <1>2, <2>1, RunIs
  <2>3. QED BY <1>2, <2>1, <2>2
<1>3. ASSUME NEW s \in Runs, runs'[s].at = "starts"
      PROVE  (runs'[s].shown => FineNext(runs'[s].key)) /\ (s = "init" => runs'[s].shown)
  <2>1. runs'[s] = runs[s]
    BY <1>3 DEF MovesOff
  <2>2. (runs[s].shown => Fine(runs[s].key)) /\ (s = "init" => runs[s].shown)
    BY <1>3, <2>1 DEF KeysInv, KeysWork
  <2>3. QED BY <1>3, <2>1, <2>2
<1>4. runs'["init"].at = "starts" => runs'["init"].shown
  BY <1>3 DEF Runs
<1>5. \A m \in boots' : (m.by = "init" => m.shown) /\ (m.shown => FineNext(m.key))
  OBVIOUS
<1>6. /\ \A m, n \in boots' : m.by = n.by => m = n
      /\ \A m, n \in boots' : m # n /\ m.key = n.key /\ m.key \in once' => m.key \in spoilt'
  OBVIOUS
<1>7. QED BY ONLY <1>1, <1>2, <1>3, <1>4, <1>5, <1>6 DEF KeysWork, Fine, Works, FineNext

LEMMA DeletesKept ==
  ASSUME KeysInv, NEW r \in Runs, Deletes(r) PROVE KeysInv'
<1>. DEFINE k == runs[r].key
<1>1. PICK what : what = [runs[r] EXCEPT !.at = "saves"] /\ RunGoes(r, what)
  BY DEF Deletes
<1>2. what = [at |-> "saves", key |-> k, new |-> runs[r].new, shown |-> runs[r].shown]
  BY <1>1, RunGoesOn DEF KeysInv, KeyTypes
<1>3. /\ k \in AllKeys \cup {NoKey} /\ runs[r].new \in AllKeys \cup {NoKey} /\ runs[r].shown \in BOOLEAN
      /\ runs[r].new # NoKey /\ runs[r].at = "deletes"
  BY RunIs DEF Deletes, RunAt
<1>4. what \in Run /\ HasKeys(what)
  BY <1>2, <1>3 DEF Run, HasKeys, Steps
<1>5. /\ runs'[r] = what /\ \A s \in Runs : s # r => runs'[s] = runs[s]
      /\ runs' \in [Runs -> Run]
  BY <1>1, <1>4, RunGoesTo DEF KeysInv
<1>6. /\ life' \in [AllKeys -> Lives]
      /\ \A q \in AllKeys : (life'[q] = life[q] /\ (q \in spoilt => q \in spoilt')) \/ (q = k /\ life'[q] = "deleted")
      /\ spoilt' \subseteq AllKeys /\ spoilt \subseteq spoilt'
      /\ life' # life => k # NoKey /\ (CountedOn(k) \/ (\E s \in Runs \ {r} : runs[s].key = k) => k \in spoilt')
  <2>1. CASE UNCHANGED <<life, spoilt>>
    BY <2>1 DEF KeysInv, KeyTypes
  <2>2. CASE /\ k # NoKey /\ life' = [life EXCEPT ![k] = "deleted"]
             /\ spoilt' = IF CountedOn(k) \/ \E s \in Runs \ {r} : runs[s].key = k
                          THEN spoilt \cup {k} ELSE spoilt
    BY <1>3, <2>2 DEF KeysInv, KeyTypes, Lives
  <2>3. QED BY <2>1, <2>2 DEF Deletes
<1>7. UNCHANGED <<once, token, stored, boots>>
  BY DEF Deletes
<1>8. KeyTypes'
  <2>1. \A s \in Runs : HasKeys(runs[s])'
    BY <1>4, <1>5 DEF KeysInv, KeyTypes, HasKeys
  <2>2. QED BY <1>5, <1>6, <1>7, <2>1 DEF KeysInv, KeyTypes
<1>9. KeysMade'
  <2>1. \A s \in Runs : runs'[s].key = runs[s].key /\ runs'[s].new = runs[s].new
    BY <1>2, <1>5
  <2>2. \A q \in AllKeys : life[q] # "unmade" => life'[q] # "unmade"
    BY <1>6
  <2>3. QED BY <1>7, <2>1, <2>2, MadeKept
<1>10. KeysWork'
  <2>1. \A q \in AllKeys : life'[q] = "live" => life[q] = "live"
    BY <1>6
  <2>2. \A s \in Runs : runs'[s] = runs[s] \/ MovesOff(s)
    BY <1>2, <1>5 DEF MovesOff
  <2>3. ASSUME NEW q \in AllKeys, Fine(q), q # k \/ CountedOn(k) \/ \E s \in Runs \ {r} : runs[s].key = k
        PROVE  FineNext(q)
    BY <1>6, <2>3 DEF Fine, Works, FineNext
  <2>4. ASSUME NEW s \in Runs, runs'[s].new # NoKey, Fine(runs[s].new) PROVE FineNext(runs[s].new)
    <3>1. runs[s].new # NoKey
      BY <1>2, <1>5, <2>4
    <3>2. runs[s].new # k /\ runs[s].new \in AllKeys
      BY <3>1, RunIs DEF KeysInv, KeysMade
    <3>3. QED BY <2>3, <2>4, <3>2
  <2>5. ASSUME NEW s \in Runs, runs[s].at = "starts", runs[s].shown, Fine(runs[s].key) PROVE FineNext(runs[s].key)
    <3>1. s # r /\ runs[s].key \in AllKeys
      BY <1>3, <2>5, RunIs
    <3>2. QED BY <2>3, <2>5, <3>1
  <2>6. ASSUME NEW m \in boots' PROVE (m.by = "init" => m.shown) /\ (m.shown => FineNext(m.key))
    <3>1. m \in boots /\ m.key \in AllKeys /\ (m.by = "init" => m.shown) /\ (m.shown => Fine(m.key))
      BY <1>7 DEF KeysInv, KeyTypes, KeysWork
    <3>2. m.key = k => CountedOn(k)
      BY <3>1 DEF CountedOn
    <3>3. QED BY <2>3, <3>1, <3>2
  <2>7. /\ \A m, n \in boots' : m.by = n.by => m = n
        /\ \A m, n \in boots' : m # n /\ m.key = n.key /\ m.key \in once => m.key \in spoilt'
    BY <1>6, <1>7 DEF KeysInv, KeysWork
  <2>8. UNCHANGED once
    BY <1>7
  <2>9. QED BY <2>1, <2>2, <2>4, <2>5, <2>6, <2>7, <2>8, WorkKept
<1>11. QED BY <1>8, <1>9, <1>10 DEF KeysInv

LEMMA HandsOverKept ==
  ASSUME KeysInv, NEW r \in Runs, HandsOver(r) PROVE KeysInv'
<1>. DEFINE k == runs[r].key
            m0 == [by |-> r, key |-> k, shown |-> runs[r].shown]
<1>1. /\ k \in AllKeys /\ runs[r].shown \in BOOLEAN /\ runs[r].at = "starts"
      /\ (runs[r].shown => Fine(k)) /\ (r = "init" => runs[r].shown)
  <2>1. runs[r].at = "starts"
    BY DEF HandsOver, RunAt
  <2>2. QED BY <2>1, RunIs DEF KeysInv, KeysWork
<1>2. /\ runs'[r] = NotRunning /\ \A s \in Runs : s # r => runs'[s] = runs[s]
      /\ runs' \in [Runs -> Run]
  <2>1. NotRunning \in Run /\ RunGoes(r, NotRunning) /\ KeyTypes
    BY DEF KeysInv, HandsOver, Stops, NotRunning, Run, Steps
  <2>2. QED BY <2>1, RunGoesTo
<1>3. /\ UNCHANGED <<life, once, token, stored>> /\ boots' = boots \cup {m0} /\ spoilt \subseteq spoilt'
      /\ spoilt' \subseteq spoilt \cup {k} /\ \A m \in boots : m.by # r
      /\ k \in once /\ CountedOn(k) => k \in spoilt'
  BY DEF HandsOver
<1>4. KeyTypes'
  <2>1. \A s \in Runs : HasKeys(runs[s])'
    BY <1>2 DEF KeysInv, KeyTypes, HasKeys, NotRunning
  <2>2. boots' \subseteq [by : Runs, key : AllKeys, shown : BOOLEAN] /\ spoilt' \subseteq AllKeys
    BY <1>1, <1>3 DEF KeysInv, KeyTypes
  <2>3. QED BY <1>2, <1>3, <2>1, <2>2 DEF KeysInv, KeyTypes
<1>5. KeysMade'
  <2>1. \A s \in Runs : runs'[s].key \in {runs[s].key, NoKey} /\ runs'[s].new \in {runs[s].new, NoKey}
    BY <1>2 DEF NotRunning
  <2>2. \A m \in boots' : m \in boots \/ \E s \in Runs : m.key = runs[s].key
    BY <1>3
  <2>3. \A q \in AllKeys : life[q] # "unmade" => life'[q] # "unmade"
    BY <1>3
  <2>4. QED BY <1>3, <2>1, <2>2, <2>3, MadeKept
<1>6. KeysWork'
  <2>1. \A q \in AllKeys : life'[q] = "live" => life[q] = "live"
    BY <1>3
  <2>2. \A s \in Runs : runs'[s] = runs[s] \/ MovesOff(s)
    BY <1>2 DEF MovesOff, NotRunning
  <2>3. \A q : Fine(q) => FineNext(q)
    BY <1>3 DEF Fine, Works, FineNext
  <2>4. ASSUME NEW m \in boots' PROVE (m.by = "init" => m.shown) /\ (m.shown => FineNext(m.key))
    <3>1. CASE m = m0
      BY <1>1, <2>3, <3>1
    <3>2. CASE m \in boots
      BY <2>3, <3>2 DEF KeysInv, KeysWork
    <3>3. QED BY <1>3, <3>1, <3>2
  <2>5. ASSUME NEW m \in boots', NEW n \in boots', m.by = n.by PROVE m = n
    <3>1. m0.by = r
      OBVIOUS
    <3>2. QED BY <1>3, <2>5, <3>1 DEF KeysInv, KeysWork
  <2>6. ASSUME NEW m \in boots', NEW n \in boots', m # n, m.key = n.key, m.key \in once PROVE m.key \in spoilt'
    <3>1. CASE m \in boots /\ n \in boots
      BY <1>3, <2>6, <3>1 DEF KeysInv, KeysWork
    <3>2. CASE m \notin boots \/ n \notin boots
      <4>1. m.key = k /\ CountedOn(k)
        BY <1>3, <2>6, <3>2 DEF CountedOn
      <4>2. QED BY <1>3, <2>6, <4>1
    <3>3. QED BY <3>1, <3>2
  <2>7. UNCHANGED once
    BY <1>3
  <2>8. /\ \A s \in Runs : runs'[s].new # NoKey /\ Fine(runs[s].new) => FineNext(runs[s].new)
        /\ \A s \in Runs : runs[s].at = "starts" /\ runs'[s] = runs[s] /\ runs[s].shown /\ Fine(runs[s].key)
                           => FineNext(runs[s].key)
    BY <2>3
  <2>9. QED BY <2>1, <2>2, <2>4, <2>5, <2>6, <2>7, <2>8, WorkKept
<1>7. QED BY <1>4, <1>5, <1>6 DEF KeysInv

LEMMA ComesUpKept ==
  ASSUME KeysInv, NEW m0 \in boots, ComesUp(m0) PROVE KeysInv'
<1>. DEFINE k == m0.key
<1>1. /\ boots' = boots \ {m0} /\ k \in AllKeys /\ UNCHANGED <<once, token, stored, runs>>
      /\ \A q \in spoilt : InHand(q) \/ (\E n \in boots' : n.key = q) => q \in spoilt'
  BY DEF ComesUp, KeysInv, KeyTypes
<1>2. /\ life' \in [AllKeys -> Lives] /\ spoilt' \subseteq AllKeys
      /\ \A q \in AllKeys : life'[q] = life[q] \/ (q = k /\ k \in once /\ life'[q] = "dead" /\ life[q] # "unmade"
                                                   /\ (InHand(k) => k \in spoilt'))
  <2>1. CASE Works(k) /\ k \in once
    <3>1. life' = [life EXCEPT ![k] = "dead"] /\ life'[k] = "dead" /\ life[k] \in {"live", "last hour"}
      BY <1>1, <2>1 DEF ComesUp, Works, KeysInv, KeyTypes
    <3>2. life' # life
      BY <3>1
    <3>3. QED BY <1>1, <2>1, <3>1, <3>2 DEF ComesUp, KeysInv, KeyTypes, Lives
  <2>2. CASE ~(Works(k) /\ k \in once)
    BY <1>1, <2>2 DEF ComesUp, KeysInv, KeyTypes
  <2>3. QED BY <2>1, <2>2
<1>3. KeyTypes'
  BY <1>1, <1>2 DEF KeysInv, KeyTypes, HasKeys
<1>4. KeysMade'
  <2>1. \A q \in AllKeys : life[q] # "unmade" => life'[q] # "unmade"
    BY <1>2
  <2>2. QED BY <1>1, <2>1, MadeKept
<1>5. KeysWork'
  <2>1. \A q \in AllKeys : life'[q] = "live" => life[q] = "live"
    BY <1>2
  <2>2. ASSUME NEW q \in AllKeys, Fine(q), InHand(q) PROVE FineNext(q)
    BY <1>1, <1>2, <2>2 DEF Fine, Works, FineNext
  <2>3. \A s \in Runs : /\ runs[s].new # NoKey => runs[s].new \in AllKeys /\ InHand(runs[s].new)
                        /\ runs[s].at = "starts" => runs[s].key \in AllKeys /\ InHand(runs[s].key)
    BY RunIs DEF InHand
  <2>4. ASSUME NEW m \in boots' PROVE (m.by = "init" => m.shown) /\ (m.shown => FineNext(m.key))
    <3>1. /\ m \in boots /\ m # m0 /\ m.key \in AllKeys
          /\ (m.by = "init" => m.shown) /\ (m.shown => Fine(m.key))
      BY <1>1 DEF KeysInv, KeyTypes, KeysWork
    <3>2. m.key = k /\ k \in once => k \in spoilt
      BY <3>1 DEF KeysInv, KeysWork
    <3>3. ASSUME m.shown PROVE FineNext(m.key)
      BY <1>1, <1>2, <3>1, <3>2, <3>3 DEF Fine, Works, FineNext
    <3>4. QED BY <3>1, <3>3
  <2>5. \A m, n \in boots' : m.by = n.by => m = n
    BY <1>1 DEF KeysInv, KeysWork
  <2>6. \A m, n \in boots' : m # n /\ m.key = n.key /\ m.key \in once => m.key \in spoilt'
    BY <1>1 DEF KeysInv, KeysWork
  <2>7. /\ \A s \in Runs : runs'[s].new # NoKey /\ Fine(runs[s].new) => FineNext(runs[s].new)
        /\ \A s \in Runs : runs[s].at = "starts" /\ runs'[s] = runs[s] /\ runs[s].shown /\ Fine(runs[s].key)
                           => FineNext(runs[s].key)
    BY <1>1, <2>2, <2>3
  <2>8. UNCHANGED once /\ \A s \in Runs : runs'[s] = runs[s] \/ MovesOff(s)
    BY <1>1
  <2>9. QED BY <2>1, <2>4, <2>5, <2>6, <2>7, <2>8, WorkKept
<1>6. QED BY <1>3, <1>4, <1>5 DEF KeysInv

\* A key that works less long, or no longer: what was shown is given its hour,
\* and what a person revokes is spoilt.
LEMMA WorldKept ==
  ASSUME KeysInv, NEW k \in AllKeys, Passes(k) \/ Revoked(k) PROVE KeysInv'
<1>1. /\ UNCHANGED <<once, token, stored, runs, boots>> /\ spoilt \subseteq spoilt' /\ spoilt' \subseteq AllKeys
      /\ life[k] \in {"live", "last hour"} /\ life' \in [AllKeys -> Lives] /\ life'[k] \in {"last hour", "dead"}
      /\ \A q \in AllKeys : q # k => life'[q] = life[q]
  <2>1. CASE Passes(k)
    BY <2>1 DEF Passes, Works, NoneElse, KeysInv, KeyTypes, Lives
  <2>2. CASE Revoked(k)
    BY <2>2 DEF Revoked, Works, KeysInv, KeyTypes, Lives
  <2>3. QED BY <2>1, <2>2
<1>2. KeyTypes'
  BY <1>1 DEF KeysInv, KeyTypes, HasKeys
<1>3. KeysMade'
  <2>1. \A q \in AllKeys : life[q] # "unmade" => life'[q] # "unmade"
    BY <1>1
  <2>2. QED BY <1>1, <2>1, MadeKept
<1>4. KeysWork'
  <2>1. \A q \in AllKeys : life'[q] = "live" => life[q] = "live"
    BY <1>1
  <2>2. ASSUME NEW q \in AllKeys, Fine(q), q # k PROVE FineNext(q)
    BY <1>1, <2>2 DEF Fine, Works, FineNext
  <2>3. FineNext(k) \/ (/\ \A m \in boots : m.key = k => ~m.shown
                       /\ \A s \in Runs : /\ runs[s].new # k
                                          /\ runs[s].at = "starts" /\ runs[s].key = k => ~runs[s].shown)
    <3>1. CASE Passes(k) /\ life[k] = "live"
      <4>1. life'[k] = "last hour"
        BY <3>1 DEF Passes, KeysInv, KeyTypes
      <4>2. QED BY <4>1 DEF FineNext
    <3>2. CASE Passes(k) /\ life[k] # "live"
      <4>1. life[k] = "last hour"
        BY <1>1, <3>2
      <4>2. QED BY <3>2, <4>1 DEF Passes, RunAt
    <3>3. CASE Revoked(k) /\ (CountedOn(k) \/ InHand(k))
      <4>1. k \in spoilt'
        BY <3>3 DEF Revoked
      <4>2. QED BY <4>1 DEF FineNext
    <3>4. CASE ~CountedOn(k) /\ ~InHand(k)
      BY <3>4 DEF CountedOn, InHand
    <3>5. QED BY <1>1, <3>1, <3>2, <3>3, <3>4
  <2>4. ASSUME NEW m \in boots' PROVE (m.by = "init" => m.shown) /\ (m.shown => FineNext(m.key))
    <3>1. m \in boots /\ m.key \in AllKeys /\ (m.by = "init" => m.shown) /\ (m.shown => Fine(m.key))
      BY <1>1 DEF KeysInv, KeyTypes, KeysWork
    <3>2. QED BY <2>2, <2>3, <3>1
  <2>5. ASSUME NEW s \in Runs, runs[s].new # NoKey, Fine(runs[s].new) PROVE FineNext(runs[s].new)
    <3>1. runs[s].new \in AllKeys
      BY <2>5, RunIs
    <3>2. QED BY <2>2, <2>3, <2>5, <3>1
  <2>6. ASSUME NEW s \in Runs, runs[s].at = "starts", runs[s].shown, Fine(runs[s].key) PROVE FineNext(runs[s].key)
    <3>1. runs[s].key \in AllKeys
      BY <2>6, RunIs
    <3>2. QED BY <2>2, <2>3, <2>6, <3>1
  <2>7. /\ \A m, n \in boots' : m.by = n.by => m = n
        /\ \A m, n \in boots' : m # n /\ m.key = n.key /\ m.key \in once => m.key \in spoilt'
    BY <1>1 DEF KeysInv, KeysWork
  <2>8. UNCHANGED once /\ \A s \in Runs : runs'[s] = runs[s]
    BY <1>1
  <2>9. QED BY <2>1, <2>4, <2>5, <2>6, <2>7, <2>8, WorkKept
<1>5. QED BY <1>2, <1>3, <1>4 DEF KeysInv

LEMMA KeysKept ==
  ASSUME KeysInv, KeyNext PROVE KeysInv'
BY PersonKept, CommandKept, MintsKept, DeletesKept, HandsOverKept, ComesUpKept, WorldKept DEF KeyNext, KeyStep

LEMMA KeysBegin == ASSUME KeyInit PROVE KeysInv
<1>. USE KeysAre DEF KeyInit
<1>1. \A r \in Runs : runs[r] = NotRunning
  OBVIOUS
<1>2. KeyTypes
  <2>1. NotRunning \in Run /\ HasKeys(NotRunning)
    BY DEF NotRunning, Run, Steps, HasKeys
  <2>2. life \in [AllKeys -> Lives]
    BY DEF Lives
  <2>3. QED BY <1>1, <2>1, <2>2 DEF KeyTypes
<1>3. KeysMade
  <2>1. life[2] = "live" /\ life[1] = "live"
    OBVIOUS
  <2>2. QED BY <1>1, <2>1 DEF KeysMade, Made, NotRunning
<1>4. KeysWork
  BY <1>1 DEF KeysWork, NotRunning, Runs
<1>5. QED BY <1>2, <1>3, <1>4 DEF KeysInv

-----------------------------------------------------------------------------
(* All four, together: each is disturbed by its own steps only.               *)
RentingInv == ScanInv /\ PlanInv /\ LaunchInv /\ KeyInv

LEMMA ScanStays == ASSUME ScanInv, UNCHANGED scanVars PROVE ScanInv'
BY DEF scanVars, ScanInv, ScanSays, EveryRegionAccounted, Measured, Accounted, BestFirst, InBudget,
       Offered, Before

LEMMA PlanStays == ASSUME PlanInv, UNCHANGED planVars PROVE PlanInv'
<1>1. UNCHANGED Settled /\ UNCHANGED plan
  BY DEF planVars, Settled
<1>2. QED BY <1>1, NeedStays DEF PlanInv, PlanFields, Promise, PromisedIsBuilt, Sized, At, Settled

LEMMA LaunchStays ==
  ASSUME LaunchInv, UNCHANGED <<key, group, try, said>>,
         plan' = plan \/ plan'.at \in {"none", "choose", "bucket", "size", "image", "restored", "cut"}
  PROVE  LaunchInv'
BY DEF LaunchInv, At, Matches

LEMMA KeyStays == ASSUME KeyInv, UNCHANGED <<keyVars, open>> PROVE KeyInv'
<1>1. UNCHANGED <<life, once, token, stored, runs, boots, spoilt, open>>
  BY DEF keyVars
<1>2. KeysInv => KeyTypes' /\ KeysMade' /\ KeysWork'
  BY <1>1 DEF KeysInv, KeyTypes, KeysMade, KeysWork, HasKeys, Made, Fine, Works
<1>3. QED BY <1>1, <1>2 DEF KeyInv, KeysInv

LEMMA RentingBegins == RentingInit => RentingInv
<1>. SUFFICES ASSUME RentingInit PROVE RentingInv
  OBVIOUS
<1>1. ScanInv
  <2>1. ScanSays
    BY RttsAre DEF RentingInit, ScanInit, ScanSays, NoScan, Rtts
  <2>2. EveryRegionAccounted
    BY DEF RentingInit, ScanInit, EveryRegionAccounted, Error
  <2>3. QED BY <2>1, <2>2 DEF ScanInv
<1>2. PlanInv
  <2>1. bucket \in [known : BOOLEAN, there : BOOLEAN, whole : BOOLEAN]
    <3>1. bucket \in AnyBucket \/ bucket = [known |-> TRUE, there |-> TRUE, whole |-> TRUE]
      BY DEF RentingInit
    <3>2. CASE bucket \in AnyBucket
      BY <3>2 DEF AnyBucket
    <3>3. CASE bucket = [known |-> TRUE, there |-> TRUE, whole |-> TRUE]
      BY <3>3
    <3>4. QED BY <3>1, <3>2, <3>3
  <2>2. plan = NoPlan
    BY DEF RentingInit
  <2>3. QED BY <2>1, <2>2 DEF PlanInv, PlanFields, Promise, PromisedIsBuilt, Sized, At, NoPlan
<1>3. LaunchInv
  <2>1. try = NoTry /\ said = Silence /\ plan = NoPlan
    BY DEF RentingInit, LaunchInit
  <2>2. 1 \in 1..Tries /\ 0 \in 0..MaxWait
    BY LaunchAssumption
  <2>3. QED BY <2>1, <2>2 DEF LaunchInv, NoTry, Silence, NoPlan, At
<1>4. KeyInv
  BY KeysBegin DEF RentingInit, KeyInv
<1>5. QED BY <1>1, <1>2, <1>3, <1>4 DEF RentingInv

LEMMA PlanMoves ==
  ASSUME PlanInv, PlanNext PROVE plan'.at \in {"none", "bucket", "size", "image", "restored", "cut"}
<1>1. plan = [at |-> plan.at, asks |-> plan.asks, promised |-> plan.promised, known |-> plan.known,
              data |-> plan.data, extra |-> plan.extra, byHand |-> plan.byHand,
               written |-> plan.written, box |-> plan.box]
  BY DEF PlanInv, PlanFields
<1>2. CASE Chooses
  BY <1>2, ChoosesAre DEF PlanInv, ChoseSo
<1>3. CASE EnsuresBucket
  BY <1>1, <1>3 DEF EnsuresBucket, Goes, NoPlan
<1>4. CASE Sizes
  <2>1. PICK read \in BOOLEAN, known \in BOOLEAN, ask \in Asks :
          LET sized == (read \/ apps = {}) /\ known
              extra == IF sized THEN LeftOver(Taken, Room(Own)) ELSE {}
              want  == RoundedUp(ask)
              byHand == want > DiskFor(extra)
              data  == IF byHand THEN want ELSE DiskFor(extra)
          IN plan' = IF data > MaxDisk THEN NoPlan
                     ELSE [plan EXCEPT !.at = "image", !.known = sized, !.data = data,
                                       !.extra = extra, !.byHand = byHand]
    BY <1>4 DEF Sizes
  <2>. DEFINE sized == (read \/ apps = {}) /\ known
              extra == IF sized THEN LeftOver(Taken, Room(Own)) ELSE {}
              want  == RoundedUp(ask)
              byHand == want > DiskFor(extra)
              data  == IF byHand THEN want ELSE DiskFor(extra)
  <2>2. CASE plan' = [plan EXCEPT !.at = "image", !.known = sized, !.data = data, !.extra = extra, !.byHand = byHand]
    <3>1. plan' = [at |-> "image", asks |-> plan.asks, promised |-> plan.promised, known |-> sized,
                   data |-> data, extra |-> extra, byHand |-> byHand,
                   written |-> plan.written, box |-> plan.box]
      BY <1>1, <2>2
    <3>2. QED BY <3>1
  <2>3. CASE plan' = NoPlan
    BY <2>3 DEF NoPlan
  <2>4. QED BY <2>1, <2>2, <2>3, SMTT(30)
<1>5. CASE Restores
  BY <1>5, RestoresAre DEF PlanInv
<1>6. QED BY <1>2, <1>3, <1>4, <1>5 DEF PlanNext

LEMMA RentingKept == RentingInv /\ [RentingNext]_rentingVars => RentingInv'
<1>. SUFFICES ASSUME RentingInv, [RentingNext]_rentingVars PROVE RentingInv'
  OBVIOUS
<1>. USE DEF RentingInv
<1>1. CASE open = "regions" /\ ScanNext /\ UNCHANGED <<planVars, launchVars, keyVars, open, given>>
  <2>1. UNCHANGED <<key, group, try, said, plan>> /\ UNCHANGED planVars /\ UNCHANGED <<keyVars, open>>
    BY <1>1 DEF launchVars, planVars
  <2>2. QED BY <1>1, <2>1, ScanKept, PlanStays, LaunchStays, KeyStays
<1>2. CASE InitBegins
  <2>1. /\ UNCHANGED scanVars /\ UNCHANGED <<keyVars, open>> /\ UNCHANGED <<bucket, said>>
        /\ plan' = [NoPlan EXCEPT !.at = "choose"] /\ try' = NoTry
    BY <1>2 DEF InitBegins
  <2>2. plan'.at = "choose"
    BY <2>1 DEF NoPlan
  <2>3. PlanInv'
    BY <2>1, PlanBegins DEF PlanInv, PlanFields
  <2>4. LaunchInv'
    BY <2>1, <2>2, BeginsClean DEF LaunchInv
  <2>5. QED BY <2>1, <2>3, <2>4, ScanStays, KeyStays
<1>3. CASE PlanNext /\ UNCHANGED <<scanVars, launchVars, keyVars, open, given>>
  <2>1. UNCHANGED scanVars /\ UNCHANGED <<keyVars, open>> /\ UNCHANGED <<key, group, try, said>>
    BY <1>3 DEF launchVars
  <2>2. PlanInv'
    BY <1>3, PlanKept
  <2>3. LaunchInv'
    BY <1>3, <2>1, PlanMoves, LaunchStays
  <2>4. QED BY <2>1, <2>2, <2>3, ScanStays, KeyStays
<1>4. CASE LaunchNext /\ UNCHANGED <<scanVars, archive, bucket, drive, measured, apps, keyVars, open, given>>
  <2>1. UNCHANGED scanVars /\ UNCHANGED <<keyVars, open>> /\ UNCHANGED Settled
    BY <1>4 DEF Settled
  <2>2. PlanInv' /\ LaunchInv'
    BY <1>4, <2>1, LaunchPlanKept, LaunchKept DEF PlanInv
  <2>3. QED BY <2>1, <2>2, ScanStays, KeyStays
<1>5. CASE WorldMoves /\ UNCHANGED <<scanVars, planVars, keyVars, open, given>>
  <2>1. /\ UNCHANGED scanVars /\ UNCHANGED <<keyVars, open>> /\ UNCHANGED planVars
        /\ UNCHANGED <<key, group, try, said>> /\ plan' = plan
    BY <1>5 DEF WorldMoves, planVars
  <2>2. QED BY <2>1, ScanStays, KeyStays, PlanStays, LaunchStays
<1>6. CASE open = "launch" /\ CutOff /\ UNCHANGED <<scanVars, archive, bucket, drive, measured, apps, keyVars, open, given>>
  <2>1. /\ UNCHANGED scanVars /\ UNCHANGED <<keyVars, open>> /\ UNCHANGED <<bucket, said>>
        /\ plan' = NoPlan /\ try' = NoTry /\ plan'.at = "none"
    BY <1>6 DEF CutOff, NoPlan
  <2>2. PlanInv'
    BY <2>1, PlanBegins DEF PlanInv, PlanFields
  <2>3. LaunchInv'
    BY <2>1, BeginsClean DEF LaunchInv
  <2>4. QED BY <2>1, <2>2, <2>3, ScanStays, KeyStays
<1>7. CASE open = "key" /\ KeyNext /\ UNCHANGED <<scanVars, planVars, launchVars, open, given>>
  <2>1. UNCHANGED scanVars /\ UNCHANGED planVars /\ UNCHANGED <<key, group, try, said, plan>> /\ UNCHANGED open
    BY <1>7 DEF launchVars, planVars
  <2>2. KeyInv'
    BY <1>7, <2>1, KeysKept DEF KeyInv
  <2>3. QED BY <2>1, <2>2, ScanStays, PlanStays, LaunchStays
<1>8. CASE UNCHANGED rentingVars
  <2>1. UNCHANGED scanVars /\ UNCHANGED planVars /\ UNCHANGED <<key, group, try, said, plan>> /\ UNCHANGED <<keyVars, open>>
    BY <1>8 DEF rentingVars, launchVars, planVars
  <2>2. QED BY <2>1, ScanStays, PlanStays, LaunchStays, KeyStays
<1>9. QED BY <1>1, <1>2, <1>3, <1>4, <1>5, <1>6, <1>7, <1>8 DEF RentingNext

-----------------------------------------------------------------------------
LEMMA FitBegins == RentingInit => FitInv
<1>. SUFFICES ASSUME RentingInit PROVE FitInv
  OBVIOUS
<1>1. drive \in Nat
  <2>1. Max(Drives) \in Drives
    BY SizesAssumption, MaxIs
  <2>. QED BY <2>1, SizesAssumption DEF RentingInit
<1>2. archive \in [Games -> Nat]
  BY SizesAssumption DEF RentingInit, AnyArchive
<1>3. ~Sized
  BY DEF RentingInit, Sized, At, NoPlan
<1>. QED BY <1>1, <1>2, <1>3 DEF FitInv, PlacedSo, RestoredAsPlanned, Sized

LEMMA FitKept ==
  ASSUME RentingInv, FitInv, [RentingNext]_rentingVars PROVE FitInv'
<1>0. PlanInv /\ PlanFields
  BY DEF RentingInv, PlanInv
<1>1. CASE UNCHANGED planVars
  BY <1>1, FitGoesOn DEF planVars, Settled, Sized, At
<1>2. CASE InitBegins
  <2>1. UNCHANGED <<archive, drive>> /\ ~Sized'
    BY <1>2 DEF InitBegins, Sized, At, NoPlan
  <2>. QED BY <2>1, FitNotYet
<1>3. CASE PlanNext
  <2>1. CASE Sizes
    BY <1>0, <2>1, FitSizes
  <2>2. CASE Chooses
    <3>1. UNCHANGED <<archive, drive>> /\ plan'.at = "bucket"
      BY <1>0, <2>2, ChoosesAre DEF Chooses, ChoseSo
    <3>. QED BY <3>1, FitNotYet DEF Sized, At
  <2>3. CASE EnsuresBucket
    <3>1. UNCHANGED <<archive, drive>> /\ (plan' = NoPlan \/ plan' = [plan EXCEPT !.at = "size"])
      BY <2>3 DEF EnsuresBucket, Goes
    <3>2. ~Sized'
      BY <1>0, <3>1 DEF PlanFields, NoPlan, Sized, At
    <3>. QED BY <3>1, <3>2, FitNotYet
  <2>4. CASE Restores
    BY <1>0, <2>4, FitRestores
  <2>. QED BY <1>3, <2>1, <2>2, <2>3, <2>4 DEF PlanNext
<1>4. CASE LaunchNext /\ UNCHANGED <<archive, bucket, drive, measured, apps>>
  <2>0. UNCHANGED Settled
    BY <1>4 DEF Settled
  <2>1. CASE plan' = NoPlan
    <3>1. ~Sized'
      BY <2>1 DEF Sized, At, NoPlan
    <3>. QED BY <1>4, <3>1, FitNotYet
  <2>2. CASE UNCHANGED plan
    BY <2>0, <2>2, FitGoesOn DEF Sized, At
  <2>3. ASSUME NEW step, Sized \/ step \in {"report", "refused"}, step # "restored", plan' = [plan EXCEPT !.at = step]
        PROVE  FitInv'
    <3>1. plan'.at = step /\ plan'.known = plan.known /\ plan'.extra = plan.extra /\ plan'.data = plan.data
      BY <1>0, <2>3 DEF PlanFields
    <3>2. (Sized' => Sized) /\ ~At("restored")'
      BY <2>3, <3>1 DEF Sized, At
    <3>. QED BY <2>0, <3>1, <3>2, FitGoesOn
  <2>. QED BY <1>4, <2>1, <2>2, <2>3, LaunchMoves
<1>5. CASE CutOff /\ UNCHANGED <<archive, drive>>
  <2>1. ~Sized'
    BY <1>5 DEF CutOff, Sized, At, NoPlan
  <2>. QED BY <1>5, <2>1, FitNotYet
<1>6. CASE WorldMoves /\ UNCHANGED planVars
  BY <1>1, <1>6
<1>. QED BY <1>1, <1>2, <1>3, <1>4, <1>5, <1>6 DEF RentingNext, rentingVars

-----------------------------------------------------------------------------
\* The launch a step gives up, and what it says.
LEMMA Refuses ==
  ASSUME RentingInv, [RentingNext]_rentingVars, plan'.at = "report", At("run")
  PROVE  LaunchNext
<1>1. plan.at = "run"
  BY DEF At
<1>2. ~InitBegins /\ ~PlanNext
  BY <1>1 DEF InitBegins, PlanNext, Chooses, EnsuresBucket, Sizes, Restores, At
<1>3. ~(UNCHANGED plan) /\ plan' # NoPlan
  BY <1>1 DEF NoPlan
<1>4. QED BY <1>2, <1>3 DEF RentingNext, rentingVars, planVars, CutOff

LEMMA RefusedStep ==
  ASSUME RentingInv, [RentingNext]_rentingVars, At("run"), plan'.at = "report"
  PROVE  /\ said'.code = "profile" => try.n = Tries
         /\ said'.code = "allowance" => Live \/ try'.blind \/ try.waited = MaxWait
<1>. USE DEF RentingInv, At
<1>1. LaunchNext /\ plan.at = "run"
  BY Refuses
<1>2. PlanFields /\ LaunchInv
  BY DEF PlanInv
<1>3. /\ \A step : plan' = [plan EXCEPT !.at = step] => step = "report"
      /\ plan' # NoPlan /\ plan' # plan
  <2>1. \A step : plan' = [plan EXCEPT !.at = step] => plan'.at = step
    BY <1>2, GoesTo
  <2>2. QED BY <1>1, <2>1 DEF NoPlan
<1>4. ProfileUnseen \/ NoAllowance \/ RefusedOtherwise
  BY <1>1, <1>3 DEF LaunchNext, FindsImage, EnsuresKey, FindsGroup, OpensPort, Launches, Launched, Reports, Goes, Fails
<1>5. CASE ProfileUnseen
  <2>1. GivesUp("profile", FALSE) /\ ~(try.n < Tries)
    BY <1>3, <1>5 DEF ProfileUnseen
  <2>2. said'.code = "profile"
    <3>1. said' = [code |-> "profile", bills |-> "nothing"]
      BY <1>2, <2>1, GivesUpKept
    <3>2. QED BY <3>1
  <2>3. try.n = Tries
    BY <1>2, <2>1, TryFields, LaunchAssumption
  <2>4. QED BY <2>2, <2>3
<1>6. CASE NoAllowance
  <2>1. PICK read \in BOOLEAN : GivesUp("allowance", ~read) /\ ~(try.waited < MaxWait /\ read /\ ~Live)
    BY <1>3, <1>6 DEF NoAllowance
  <2>2. said'.code = "allowance" /\ try'.blind = ~read
    <3>1. (~read) \in BOOLEAN
      OBVIOUS
    <3>2. PICK blind \in BOOLEAN : blind = ~read /\ GivesUp("allowance", blind)
      BY <2>1, <3>1
    <3>3. /\ said' = [code |-> "allowance", bills |-> "nothing"]
          /\ try' = [n |-> try.n, waited |-> try.waited, blind |-> blind, uncompared |-> try.uncompared]
      BY <1>2, <3>2, GivesUpKept
    <3>4. QED BY <3>2, <3>3
  <2>3. try.waited < MaxWait \/ try.waited = MaxWait
    BY <1>2, TryFields, LaunchAssumption
  <2>4. QED BY <2>1, <2>2, <2>3
<1>7. CASE RefusedOtherwise
  <2>1. said'.code = "other"
    <3>1. said' = [code |-> "other", bills |-> "nothing"]
      BY <1>2, <1>7, GivesUpKept DEF RefusedOtherwise
    <3>2. QED BY <3>1
  <2>2. QED BY <2>1
<1>8. QED BY <1>4, <1>5, <1>6, <1>7

LEMMA ReportStep ==
  ASSUME RentingInv, [RentingNext]_rentingVars, At("report"), plan'.at = "refused"
  PROVE  said'.bills = "another" <=> said.code = "allowance" /\ Live /\ ~try'.blind
<1>. USE DEF RentingInv, At
<1>1. plan.at = "report" /\ ~(UNCHANGED plan) /\ plan' # NoPlan
  BY DEF NoPlan
<1>2. ~InitBegins /\ ~PlanNext
  BY <1>1 DEF InitBegins, PlanNext, Chooses, EnsuresBucket, Sizes, Restores
<1>3. LaunchNext
  BY <1>1, <1>2 DEF RentingNext, rentingVars, planVars, CutOff
<1>4. Reports
  BY <1>1, <1>3 DEF LaunchNext, FindsImage, EnsuresKey, FindsGroup, OpensPort, Launches, ProfileUnseen,
     NoAllowance, RefusedOtherwise
<1>5. PICK read \in BOOLEAN :
        /\ said' = [said EXCEPT !.bills = IF said.code = "allowance" /\ read /\ Live THEN "another" ELSE "nothing"]
        /\ try' = [try EXCEPT !.blind = ~read]
  BY <1>4 DEF Reports
<1>6. try'.blind = ~read
  BY <1>5, TryFields
<1>7. said'.bills = IF said.code = "allowance" /\ read /\ Live THEN "another" ELSE "nothing"
  <2>1. said = [code |-> said.code, bills |-> said.bills]
    BY DEF LaunchInv
  <2>2. PICK bills : /\ bills = IF said.code = "allowance" /\ read /\ Live THEN "another" ELSE "nothing"
                    /\ said' = [said EXCEPT !.bills = bills]
    BY <1>5
  <2>3. said'.bills = bills
    BY <2>1, <2>2
  <2>4. QED BY <2>2, <2>3
<1>8. QED BY <1>6, <1>7

\* Only a machine that comes up goes, and only a command that replaced a key deletes it.
LEMMA JoinsStep ==
  ASSUME RentingInv, [RentingNext]_rentingVars
  PROVE  /\ \A k \in AllKeys : life[k] = "live" => life'[k] # "deleted"
         /\ \A m \in boots \ boots' : m.by = "init" \/ m.shown => Works(m.key) \/ m.key \in spoilt
<1>1. CASE open = "key" /\ KeyNext
  <2>0. KeysInv
    BY <1>1 DEF RentingInv, KeyInv
  <2>1. CASE SetsToken \/ SetsKey \/ \E r \in Runs : Begins(r) \/ Ensures(r) \/ Saves(r) \/ AsksAgain(r)
                                                     \/ Proves(r) \/ KeyCutOff(r)
    BY <2>1 DEF SetsToken, SetsKey, Begins, Ensures, Saves, AsksAgain, Proves, KeyCutOff, NoneElse
  <2>2. ASSUME NEW r \in Runs, Mints(r) PROVE UNCHANGED boots /\ \A k \in AllKeys : life[k] = "live" => life'[k] # "deleted"
    BY <2>0, <2>2 DEF Mints, KeysInv, KeyTypes
  <2>3. ASSUME NEW r \in Runs, Deletes(r) PROVE UNCHANGED boots /\ \A k \in AllKeys : life[k] = "live" => life'[k] # "deleted"
    <3>1. runs[r].key # NoKey => life[runs[r].key] # "live"
      BY <2>0, <2>3 DEF Deletes, RunAt, KeysInv, KeysWork
    <3>2. runs[r].key \in AllKeys \cup {NoKey}
      BY <2>0, RunIs
    <3>3. QED BY <2>0, <2>3, <3>1, <3>2 DEF Deletes, KeysInv, KeyTypes
  <2>4. ASSUME NEW r \in Runs, HandsOver(r) PROVE UNCHANGED life /\ boots \subseteq boots'
    BY <2>4 DEF HandsOver
  <2>5. ASSUME NEW m0 \in boots, ComesUp(m0)
        PROVE  /\ \A k \in AllKeys : life[k] = "live" => life'[k] # "deleted"
               /\ m0.by = "init" \/ m0.shown => Works(m0.key) \/ m0.key \in spoilt
               /\ boots \ boots' = {m0}
    <3>1. \A k \in AllKeys : life[k] = "live" => life'[k] # "deleted"
      BY <2>0, <2>5 DEF ComesUp, KeysInv, KeyTypes
    <3>2. m0.by = "init" \/ m0.shown => Fine(m0.key)
      BY <2>0 DEF KeysInv, KeysWork
    <3>3. QED BY <2>5, <3>1, <3>2 DEF ComesUp, Fine
  <2>6. ASSUME NEW k \in AllKeys, Passes(k) \/ Revoked(k)
        PROVE  UNCHANGED boots /\ \A q \in AllKeys : life[q] = "live" => life'[q] # "deleted"
    BY <2>0, <2>6 DEF Passes, Revoked, NoneElse, KeysInv, KeyTypes
  <2>7. QED BY <1>1, <2>1, <2>2, <2>3, <2>4, <2>5, <2>6 DEF KeyNext, KeyStep
<1>2. CASE UNCHANGED keyVars
  BY <1>2 DEF keyVars
<1>3. QED BY <1>1, <1>2 DEF RentingNext, rentingVars, InitBegins

\* What is written to .env while choosing.
LEMMA ChosenStep ==
  ASSUME RentingInv, [RentingNext]_rentingVars, At("choose"), plan'.at = "bucket", Guessed, plan'.written
  PROVE  FALSE
<1>. USE DEF At
<1>1. plan.at = "choose" /\ ~(UNCHANGED plan)
  OBVIOUS
<1>2. PlanNext
  <2>1. PlanFields /\ ~Sized
    BY <1>1 DEF RentingInv, PlanInv, Sized
  <2>2. ~LaunchNext
    <3>1. \A step : plan' = [plan EXCEPT !.at = step] => step = "bucket"
      BY <2>1, GoesTo
    <3>. QED BY <1>1, <2>1, <3>1, LaunchMoves DEF NoPlan
  <2>. QED BY <1>1, <2>2 DEF RentingNext, rentingVars, planVars, InitBegins, CutOff, WorldMoves, NoPlan
<1>3. Chooses /\ PlanFields
  <2>1. PlanFields
    BY DEF RentingInv, PlanInv
  <2>. QED BY <1>1, <1>2, <2>1 DEF PlanNext, EnsuresBucket, Sizes, Restores
<1>4. PICK read \in BOOLEAN, named \in BOOLEAN, tty \in BOOLEAN, known \in BOOLEAN, written \in BOOLEAN :
        \E a \in Picks(read, named, tty, known) : ChoseSo(read, named, written, a)
  BY <1>3, ChoosesAre
<1>5. PICK a \in Picks(read, named, tty, known) : ChoseSo(read, named, written, a)
  BY <1>4
<1>6. /\ plan'.asks = IF ~read \/ (~bucket.known /\ ~named) THEN "unread"
                      ELSE IF bucket.there THEN "read" ELSE "absent"
      /\ plan'.written = written
  BY <1>5 DEF ChoseSo
<1>7. apps' = a.sel /\ a.sel \in {{All}, {Unset}} /\ apps # {All}
  BY <1>5, <1>6 DEF Guessed, ChoseSo
<1>8. a.sel = {All}
  BY <1>7, PicksAre
<1>9. read /\ (bucket.known \/ named) /\ (bucket.there \/ bucket.known)
  <2>1. ~(a.sel \subseteq Games)
    BY <1>8, WordsAssumption
  <2>2. QED BY <1>7, <1>8, <2>1, PicksAre
<1>10. QED BY <1>6, <1>9 DEF Guessed

-----------------------------------------------------------------------------
(* What is said of a scan, a plan, a launch and the keys holds in every state   *)
(* of every behaviour.                                                          *)
THEOREM RentingInductive == RentingSpec => []RentingInv
BY RentingBegins, RentingKept, PTL DEF RentingSpec

(* No region is lost from a table that is shown or remembered, however many     *)
(* there are and whatever they answered (sweep.go, cache.go).                   *)
THEOREM EveryRegionIn == RentingSpec => []EveryRegionAccounted
<1>1. RentingInv => EveryRegionAccounted
  BY DEF RentingInv, ScanInv
<1>2. QED BY <1>1, RentingInductive, PTL

(* The games are never all taken on a guess, unless .env could not be written   *)
(* (choose.go).                                                                 *)
THEOREM NeverGuesses == RentingSpec => NeverAllOnAGuess
<1>1. RentingInv /\ [RentingNext]_rentingVars =>
        [At("choose") /\ plan'.at = "bucket" /\ Guessed => ~plan'.written]_<<apps, plan, bucket>>
  BY ChosenStep
<1>2. QED BY <1>1, RentingInductive, PTL DEF RentingSpec, NeverAllOnAGuess

(* The disk a person was told of is the disk the build makes, for any games, of *)
(* any size, and any drive, whatever .env said before, once it says what was    *)
(* answered (placement.go, gamedisk.go).                                        *)
THEOREM PromiseKept == RentingSpec => []PromisedIsBuilt
<1>1. RentingInv => PromisedIsBuilt
  BY DEF RentingInv, PlanInv
<1>2. QED BY <1>1, RentingInductive, PTL

(* The box skips none of the games the laptop found room for, whichever order it*)
(* fills its disks in, for any games, drives, disks and file systems: those for *)
(* a drive that was once measured, and those for the added disk where rounding  *)
(* it up left what a file system takes (placement.go PlaceGames, gamedisk.go,   *)
(* cg-library pull).                                                            *)
THEOREM ChosenFit == RentingSpec => []RestoredAsPlanned
<1>1. RentingInv /\ FitInv /\ [RentingNext]_rentingVars => FitInv'
  BY FitKept
<1>2. FitInv => RestoredAsPlanned
  BY DEF FitInv
<1>3. QED BY <1>1, <1>2, FitBegins, RentingInductive, PTL DEF RentingSpec

(* What a person chose is what is restored, where there is room for it by the   *)
(* box's own count, and it costs what was said.                                 *)
THEOREM ChosenAsSaid == RentingSpec => GamesAsChosen
BY NeverGuesses, PromiseKept, ChosenFit, PTL DEF GamesAsChosen

(* A box that is launched can be reached, whatever a launch that was cut off    *)
(* left behind, however often (launch.go, sshkey.go).                           *)
THEOREM ReachableBox == RentingSpec => []LaunchedIsReachable
<1>1. RentingInv => LaunchedIsReachable
  BY DEF RentingInv, LaunchInv, LaunchedIsReachable
<1>2. QED BY <1>1, RentingInductive, PTL

(* A launch is given up only for what does not pass, and the report of it names *)
(* a machine that bills just when it saw one (launcherror.go, launchplain.go).  *)
THEOREM RefusedRightly == RentingSpec => RefusedForAReason
<1>1. RentingInv /\ [RentingNext]_rentingVars =>
        [/\ At("run") /\ plan'.at = "report" =>
              /\ said'.code = "profile" => try.n = Tries
              /\ said'.code = "allowance" => Live \/ try'.blind \/ try.waited = MaxWait
         /\ At("report") /\ plan'.at = "refused" =>
              (said'.bills = "another" <=> said.code = "allowance" /\ Live /\ ~try'.blind)]_<<plan, try, said>>
  BY RefusedStep, ReportStep
<1>2. QED BY <1>1, RentingInductive, PTL DEF RentingSpec, RefusedForAReason

(* No key that works is thrown away, and a machine whose key was shown to work  *)
(* joins with it, for any number of keys (internal/tskey, check, creds).        *)
THEOREM JoinsTrue == RentingSpec => JoinsWithAKey
<1>1. RentingInv /\ [RentingNext]_rentingVars =>
        [/\ \A k \in AllKeys : life[k] = "live" => life'[k] # "deleted"
         /\ \A m \in boots \ boots' : m.by = "init" \/ m.shown => Works(m.key) \/ m.key \in spoilt]_keyVars
  BY JoinsStep
<1>2. QED BY <1>1, RentingInductive, PTL DEF RentingSpec, JoinsWithAKey

-----------------------------------------------------------------------------
(* The build that is followed.                                                *)

\* What is read of a record or a log only grows while it is followed.
Extends(s, t) == Len(s) <= Len(t) /\ \A i \in 1..Len(s) : t[i] = s[i]

\* The machine moves: what is over stays so, whoever else writes a result.
Ended == build = "failed" /\ rc = "1" /\ events = <<>>
MachineMoves ==
  /\ UNCHANGED <<followVars, supervised>>
  /\ Extends(events, events') /\ Extends(lines, lines')
  /\ installed => installed'
  /\ ready => ready'
  /\ Ended => Ended' \/ ready'
  /\ \A c \in copies' \ copies : c[1] \in Nat /\ c[1] > Len(lines)
  /\ ~supervised \/ events' = <<>> => copies' = copies

Following == {"record", "log", "ready", "state"}

\* A box: what its record and its result file say of the build.
BoxSays == supervised =>
  /\ retries \in Nat
  /\ build \in {"prelude", "dying"} => rc = "none" /\ events = <<>>
  /\ rc = "none" => build \in {"prelude", "dying"}
  /\ build = "prelude" => ~Has(lines, "FAILED")
  /\ build \in {"stages", "rebooting", "settled"} => events # <<>>
  /\ events # <<>> => installed
  /\ build = "failed" => rc = "1" /\ (events # <<>> => Has(events, "failed"))
  /\ retries = 0 /\ (rc = "1" \/ Has(events, "failed")) => build = "failed"
  /\ ready => build = "settled"
  /\ build \in {"prelude", "dying", "stages", "failed", "rebooting", "settled"}

\* A machine of yours, with its one script.
HostSays == ~supervised =>
  /\ events = <<>>
  /\ build = "failed" => rc = "1" \/ ready
  /\ Has(lines, "FAILED") => build \in {"dying", "failed", "cut"}
  /\ older = "none" => /\ rc = "1" => build = "failed"
                       /\ ready => build \in {"finishing", "settled"}

\* What the log and the record both say is later than when the record was last
\* found empty.
CopiesSay ==
  /\ asked_at <= Len(lines)
  /\ ~supervised \/ events = <<>> => copies = {}
  /\ \A c \in copies : c[1] \in Nat /\ c[1] > asked_at

\* What this run of the follower has read.
Reads ==
  /\ evOnly <=> evSeq > 0
  /\ evSeq > 0 => supervised /\ installed
  /\ pc = "log" => evSeq = 0
  /\ failedSeen => Has(lines, "FAILED") \/ events # <<>>
  /\ pc \in Following => \A i \in 1..evSeq : events[i] # "failed"
  /\ pc = "ready" /\ via = "events" /\ clear => events # <<>>
  /\ pc = "ready" => via \in {"events", "log"}

\* What it would have been told by now, had the build been over all this poll.
Knows ==
  pc \in Following /\ clear =>
    ready \/ Ended \/ (pc = "record" /\ \E i \in evSeq + 1..Len(events) : events[i] = "failed")

\* The polls it has heard nothing in are those that do not ask how it ended.
Unasked == \A i \in (waited - late)..(waited - 1) : i % StateEvery # 0
Lately ==
  /\ late <= waited /\ late <= StateEvery
  /\ pc \in Following => waited < MaxPolls
  /\ pc \in {"record", "log", "ready"} => ready \/ Unasked
  /\ pc = "state" /\ clear => Unasked

-----------------------------------------------------------------------------
(* Sequences and numbers.                                                    *)
LEMMA Appended ==
  ASSUME NEW S, NEW s \in Seq(S), NEW e \in S
  PROVE  /\ Append(s, e) \in Seq(S) /\ Extends(s, Append(s, e)) /\ Append(s, e) # <<>>
         /\ \A k : Has(Append(s, e), k) <=> Has(s, k) \/ k = e
<1>1. /\ Append(s, e) \in Seq(S) /\ Len(Append(s, e)) = Len(s) + 1 /\ Len(s) \in Nat
      /\ \A i \in 1..Len(s) : Append(s, e)[i] = s[i]
      /\ Append(s, e)[Len(s) + 1] = e
  OBVIOUS
<1>2. Append(s, e) # <<>>
  BY <1>1
<1>3. Extends(s, Append(s, e))
  BY <1>1 DEF Extends
<1>4. ASSUME NEW k PROVE Has(Append(s, e), k) <=> Has(s, k) \/ k = e
  <2>1. \A i \in 1..Len(s) + 1 : i \in 1..Len(s) \/ i = Len(s) + 1
    BY <1>1
  <2>2. \A i \in 1..Len(s) : i \in 1..Len(s) + 1
    BY <1>1
  <2>3. Len(s) + 1 \in 1..Len(s) + 1
    BY <1>1
  <2>4. QED BY <1>1, <2>1, <2>2, <2>3 DEF Has
<1>5. QED BY <1>1, <1>2, <1>3, <1>4

LEMMA Itself == ASSUME NEW S, NEW s \in Seq(S) PROVE Extends(s, s)
BY DEF Extends

LEMMA HasStill == ASSUME NEW s, NEW t, Extends(s, t), Len(s) \in Nat, Len(t) \in Nat
                  PROVE  \A k : Has(s, k) => Has(t, k)
<1>1. \A i \in 1..Len(s) : i \in 1..Len(t)
  BY DEF Extends
<1>2. QED BY <1>1 DEF Extends, Has

\* What is new in a sequence is in it.
LEMMA NewsAre ==
  ASSUME NEW S, NEW s \in Seq(S), NEW n \in 0..Len(s)
  PROVE  /\ News(s, n) # <<>> <=> n < Len(s)
         /\ \A k : Has(News(s, n), k) <=> \E i \in n + 1..Len(s) : s[i] = k
<1>1. Len(s) \in Nat /\ \A i \in n + 1..Len(s) : s[i] \in S
  OBVIOUS
<1>2. /\ News(s, n) \in Seq(S)
      /\ Len(News(s, n)) = IF n + 1 <= Len(s) THEN Len(s) - (n + 1) + 1 ELSE 0
      /\ \A i \in 1..Len(s) - (n + 1) + 1 : News(s, n)[i] = s[n + 1 + i - 1]
  BY <1>1, SubSeqProperties DEF News
<1>3. Len(News(s, n)) = Len(s) - n /\ \A i \in 1..Len(s) - n : News(s, n)[i] = s[n + i]
  BY <1>1, <1>2
<1>4. News(s, n) # <<>> <=> n < Len(s)
  BY <1>1, <1>2, <1>3
<1>5. ASSUME NEW k PROVE Has(News(s, n), k) <=> \E i \in n + 1..Len(s) : s[i] = k
  <2>1. ASSUME Has(News(s, n), k) PROVE \E i \in n + 1..Len(s) : s[i] = k
    <3>1. PICK i \in 1..Len(s) - n : s[n + i] = k
      BY <1>3, <2>1 DEF Has
    <3>2. n + i \in n + 1..Len(s)
      BY <1>1
    <3>3. QED BY <3>1, <3>2
  <2>2. ASSUME NEW i \in n + 1..Len(s), s[i] = k PROVE Has(News(s, n), k)
    <3>1. i - n \in 1..Len(s) - n /\ n + (i - n) = i
      BY <1>1
    <3>2. QED BY <1>3, <2>2, <3>1 DEF Has
  <2>3. QED BY <2>1, <2>2
<1>6. QED BY <1>4, <1>5

Lines == {"log", "ev"} \X Nat

LEMMA ShownIs ==
  ASSUME NEW w \in {"log", "ev"}, NEW a \in Nat, NEW b \in Nat, a <= b
  PROVE  /\ Shown(w, a, b) \in Seq(Lines) /\ Len(Shown(w, a, b)) = b - a
         /\ \A i \in 1..(b - a) : Shown(w, a, b)[i] = <<w, a + i>>
<1>1. \A i \in 1..(b - a) : <<w, a + i>> \in Lines
  BY DEF Lines
<1>2. b - a \in Nat
  OBVIOUS
<1>3. Shown(w, a, b) \in [1..(b - a) -> Lines]
  BY <1>1 DEF Shown
<1>4. QED BY <1>2, <1>3 DEF Shown

LEMMA ShownFirst ==
  ASSUME NEW w \in {"log", "ev"}, NEW b \in Nat
  PROVE  /\ Shown(w, 0, b) \in Seq(Lines) /\ Len(Shown(w, 0, b)) = b
         /\ \A i \in 1..b : Shown(w, 0, b)[i] = <<w, i>>
<1>1. 0 \in Nat /\ 0 <= b /\ b - 0 = b /\ \A i \in 1..b : 0 + i = i
  OBVIOUS
<1>2. /\ Shown(w, 0, b) \in Seq(Lines) /\ Len(Shown(w, 0, b)) = b - 0
      /\ \A i \in 1..(b - 0) : Shown(w, 0, b)[i] = <<w, 0 + i>>
  BY <1>1, ShownIs
<1>3. QED BY <1>1, <1>2

\* Reading on shows what follows.
LEMMA ShownOn ==
  ASSUME NEW w \in {"log", "ev"}, NEW a \in Nat, NEW b \in Nat, a <= b
  PROVE  Shown(w, 0, a) \o Shown(w, a, b) = Shown(w, 0, b)
<1>. DEFINE s == Shown(w, 0, a)
            t == Shown(w, a, b)
            u == Shown(w, 0, b)
<1>1. s \in Seq(Lines) /\ Len(s) = a /\ \A i \in 1..a : s[i] = <<w, i>>
  BY ShownFirst
<1>2. t \in Seq(Lines) /\ Len(t) = b - a /\ \A i \in 1..(b - a) : t[i] = <<w, a + i>>
  BY ShownIs
<1>3. u \in Seq(Lines) /\ Len(u) = b /\ \A i \in 1..b : u[i] = <<w, i>>
  BY ShownFirst
<1>. HIDE DEF s, t, u
<1>4. /\ s \o t \in Seq(Lines) /\ Len(s \o t) = Len(s) + Len(t)
      /\ \A i \in 1..Len(s) + Len(t) : (s \o t)[i] = IF i <= Len(s) THEN s[i] ELSE t[i - Len(s)]
  BY <1>1, <1>2, ConcatProperties
<1>5. Len(s \o t) = b /\ \A i \in 1..b : (s \o t)[i] = IF i <= a THEN s[i] ELSE t[i - a]
  <2>1. a + (b - a) = b
    OBVIOUS
  <2>2. Len(s) = a /\ Len(s) + Len(t) = b
    BY ONLY <1>1, <1>2, <2>1
  <2>3. QED BY <1>4, <2>2
<1>6. ASSUME NEW i \in 1..b PROVE (s \o t)[i] = u[i]
  <2>1. CASE i <= a
    <3>1. i \in 1..a
      BY <2>1
    <3>2. QED BY <1>1, <1>3, <1>5, <2>1, <3>1
  <2>2. CASE ~(i <= a)
    <3>1. i - a \in 1..(b - a) /\ a + (i - a) = i
      BY <2>2
    <3>2. QED BY <1>2, <1>3, <1>5, <2>2, <3>1
  <2>3. QED BY <2>1, <2>2
<1>7. s \o t = u
  BY <1>3, <1>4, <1>5, <1>6, SeqEqual
<1>8. QED BY <1>7 DEF s, t, u

LEMMA NothingShown == ASSUME NEW w, NEW a \in Nat PROVE Shown(w, a, a) = <<>>
<1>1. a - a = 0 /\ 1..0 = {}
  OBVIOUS
<1>2. QED BY <1>1 DEF Shown

\* Of as many polls in a row as there are in a minute, one asks how it ended.
LEMMA OneAsks ==
  ASSUME NEW S \in Nat \ {0}, NEW n \in Nat, NEW m \in Nat, m <= n, m >= S
  PROVE  \E i \in (n - m)..(n - 1) : i % S = 0
<1>. DEFINE q == (n - 1) \div S
            r == (n - 1) % S
<1>1. n - 1 \in Nat
  OBVIOUS
<1>2. q \in Int /\ r \in 0..(S - 1) /\ n - 1 = S * q + r
  BY <1>1
<1>3. S * q \in Int /\ S * q = (n - 1) - r
  BY <1>2
<1>4. S * q \in (n - m)..(n - 1)
  BY <1>2, <1>3
<1>5. (S * q) % S = 0
  BY <1>2
<1>6. QED BY <1>4, <1>5

-----------------------------------------------------------------------------
(* The machine's half.                                                       *)
MachineTypes ==
  /\ build \in Build /\ up \in BOOLEAN /\ installed \in BOOLEAN
  /\ events \in Seq(EventKind) /\ lines \in Seq(LineKind)
  /\ rc \in {"none", "0", "1"} /\ ready \in BOOLEAN
  /\ supervised \in BOOLEAN /\ older \in {"none", "running", "ended"}

LEMMA BoxMoves ==
  ASSUME MachineTypes, BoxSays, supervised, Box!Machine, UNCHANGED <<supervised, older>>
  PROVE  MachineTypes' /\ BoxSays' /\ HostSays' /\ MachineMoves
<1>. USE DEF MachineTypes, Build, EventKind, LineKind, BoxSays, MachineMoves, Ended,
       followVars, readVars, Box!followVars, Box!readVars, Box!boxVars
<1>0. HostSays'
  BY DEF HostSays
<1>1. \A e \in EventKind : /\ Append(events, e) \in Seq(EventKind) /\ Extends(events, Append(events, e))
                          /\ Append(events, e) # <<>>
                          /\ \A k : Has(Append(events, e), k) <=> Has(events, k) \/ k = e
  BY Appended
<1>2. \A e \in LineKind : /\ Append(lines, e) \in Seq(LineKind) /\ Extends(lines, Append(lines, e))
                          /\ \A k : Has(Append(lines, e), k) <=> Has(lines, k) \/ k = e
  BY Appended
<1>3. Extends(events, events) /\ Extends(lines, lines)
  BY Itself
<1>4. ASSUME NEW kind \in {"note", "FAILED"}, Box!PreludeSays(kind) PROVE MachineTypes' /\ BoxSays' /\ MachineMoves
  BY <1>2, <1>3, <1>4 DEF Box!PreludeSays
<1>5. CASE Box!PreludeFails
  BY <1>0, <1>3, <1>5 DEF Box!PreludeFails
<1>6. CASE Box!InstallSupervisor
  BY <1>0, <1>3, <1>6 DEF Box!InstallSupervisor
<1>7. CASE Box!StartSupervisor
  BY <1>0, <1>1, <1>3, <1>7 DEF Box!StartSupervisor
<1>8. ASSUME NEW kind \in {"note", "fail"}, Box!Emit(kind) PROVE MachineTypes' /\ BoxSays' /\ MachineMoves
  BY <1>1, <1>3, <1>8 DEF Box!Emit
<1>17. ASSUME NEW e, NEW l, NEW again, Box!Mirrored(e, l, again)
       PROVE  \A c \in copies' \ copies : c[1] \in Nat /\ c[1] > Len(lines)
  <2>1. Len(lines) \in Nat
    OBVIOUS
  <2>2. \A c \in copies' \ copies : c[1] = Len(lines) + 1
    BY <1>17 DEF Box!Mirrored
  <2>3. QED BY <2>1, <2>2
<1>18. ASSUME NEW e \in {"note", "check"}, NEW l \in {"note", "FAILED"}, Box!EmitBoth(e, l)
       PROVE  MachineTypes' /\ BoxSays' /\ MachineMoves
  BY <1>1, <1>2, <1>3, <1>17, <1>18 DEF Box!EmitBoth, Box!Mirrored
<1>9. CASE Box!StagesFail
  BY <1>0, <1>1, <1>2, <1>3, <1>9, <1>17 DEF Box!StagesFail, Box!Mirrored
<1>10. CASE Box!StagesDone
  BY <1>0, <1>1, <1>2, <1>3, <1>10, <1>17 DEF Box!StagesDone, Box!Mirrored
<1>11. CASE Box!GoDown
  BY <1>0, <1>1, <1>2, <1>3, <1>11, <1>17 DEF Box!GoDown, Box!Mirrored
<1>12. CASE Box!Crash
  BY <1>0, <1>3, <1>12 DEF Box!Crash
<1>13. CASE Box!Boot
  BY <1>0, <1>1, <1>3, <1>13 DEF Box!Boot
<1>14. CASE Box!DesktopUp
  BY <1>0, <1>3, <1>14 DEF Box!DesktopUp
<1>15. CASE Box!Retry
  BY <1>0, <1>1, <1>3, <1>15 DEF Box!Retry
<1>16. QED
  BY <1>0, <1>4, <1>5, <1>6, <1>7, <1>8, <1>9, <1>10, <1>11, <1>12, <1>13, <1>14, <1>15, <1>18 DEF Box!Machine

LEMMA HostMoves ==
  ASSUME MachineTypes, HostSays, ~supervised, Host!Machine, UNCHANGED <<supervised, retries, crashes, copies>>
  PROVE  MachineTypes' /\ BoxSays' /\ HostSays' /\ MachineMoves
<1>. USE DEF MachineTypes, Build, EventKind, LineKind, HostSays, MachineMoves, Ended,
       followVars, readVars, Host!followVars, Host!readVars
<1>0. BoxSays'
  BY DEF BoxSays
<1>1. \A e \in LineKind : /\ Append(lines, e) \in Seq(LineKind) /\ Extends(lines, Append(lines, e))
                          /\ \A k : Has(Append(lines, e), k) <=> Has(lines, k) \/ k = e
  BY Appended
<1>2. Extends(events, events) /\ Extends(lines, lines)
  BY Itself
<1>3. ASSUME NEW kind \in {"note", "FAILED"}, Host!Says(kind) PROVE MachineTypes' /\ HostSays' /\ MachineMoves
  BY <1>1, <1>2, <1>3 DEF Host!Says
<1>4. CASE Host!Fails
  BY <1>0, <1>2, <1>4 DEF Host!Fails, Host!Alive
<1>5. CASE Host!Done
  BY <1>0, <1>1, <1>2, <1>5 DEF Host!Done
<1>6. CASE Host!Exits
  BY <1>0, <1>2, <1>6 DEF Host!Exits
<1>7. ASSUME NEW status \in {"0", "1"}, Host!OlderEnds(status) PROVE MachineTypes' /\ HostSays' /\ MachineMoves
  BY <1>2, <1>7 DEF Host!OlderEnds
<1>8. CASE Host!Crash
  BY <1>0, <1>2, <1>8 DEF Host!Crash, Host!Alive
<1>9. CASE Host!Boot
  BY <1>0, <1>2, <1>9 DEF Host!Boot
<1>10. QED BY <1>0, <1>3, <1>4, <1>5, <1>6, <1>7, <1>8, <1>9 DEF Host!Machine

-----------------------------------------------------------------------------
(* The follower's half.                                                      *)
FollowerTypes ==
  /\ pc \in {"off", "record", "log", "ready", "state", "over"}
  /\ via \in {"none", "events", "log"}
  /\ evSeq \in 0..Len(events) /\ seen \in Nat /\ seen <= Len(lines) /\ asked_at \in Nat
  /\ evOnly \in BOOLEAN /\ failedSeen \in BOOLEAN
  /\ waited \in 0..MaxPolls
  /\ result \in {"none", "complete", "stopped", "refused", "timeout"}
  /\ clear \in BOOLEAN /\ late \in Nat /\ follows \in 0..MaxFollows
FollowerSays == FollowerTypes /\ Reads /\ CopiesSay /\ Knows /\ Lately /\ ShownInTurn

\* The machine moves under it.
LEMMA MovesKept ==
  ASSUME MachineTypes, MachineTypes', FollowerSays, MachineMoves
  PROVE  FollowerSays'
<1>. USE DEF followVars, readVars
<1>1. UNCHANGED followVars /\ supervised' = supervised /\ Len(events) \in Nat /\ Len(events') \in Nat
      /\ Len(lines) \in Nat /\ Len(lines') \in Nat
  BY DEF MachineMoves, MachineTypes
<1>2. Len(events) <= Len(events') /\ Len(lines) <= Len(lines')
      /\ \A i \in 1..Len(events) : events'[i] = events[i]
  BY DEF MachineMoves, Extends
<1>3. Has(lines, "FAILED") => Has(lines', "FAILED")
  BY <1>1, HasStill DEF MachineMoves
<1>4. events # <<>> => events' # <<>>
  <2>1. events # <<>> => Len(events) > 0
    BY DEF MachineTypes
  <2>2. Len(events') > 0 => events' # <<>>
    BY DEF MachineTypes
  <2>3. QED BY <1>1, <1>2, <2>1, <2>2
<1>5. FollowerTypes'
  BY <1>1, <1>2 DEF FollowerSays, FollowerTypes
<1>6. Reads'
  <2>1. \A i \in 1..evSeq : i \in 1..Len(events)
    BY <1>1 DEF FollowerSays, FollowerTypes
  <2>2. \A i \in 1..evSeq : events'[i] = events[i]
    BY <1>2, <2>1
  <2>3. installed => installed'
    BY DEF MachineMoves
  <2>4. QED BY <1>1, <1>3, <1>4, <2>2, <2>3 DEF FollowerSays, Reads
<1>7. Knows'
  <2>1. ASSUME NEW i \in evSeq + 1..Len(events), events[i] = "failed"
        PROVE  \E k \in evSeq + 1..Len(events') : events'[k] = "failed"
    <3>1. i \in 1..Len(events) /\ i \in evSeq + 1..Len(events')
      BY <1>1, <1>2 DEF FollowerSays, FollowerTypes
    <3>2. QED BY <1>2, <2>1, <3>1
  <2>2. QED BY <1>1, <2>1 DEF FollowerSays, Knows, MachineMoves
<1>8. Lately'
  BY <1>1 DEF FollowerSays, Lately, Unasked, MachineMoves
<1>9. ShownInTurn'
  BY <1>1 DEF FollowerSays, ShownInTurn, Shown
<1>10. CopiesSay'
  <2>1. asked_at \in Nat /\ asked_at <= Len(lines) /\ \A c \in copies : c[1] \in Nat /\ c[1] > asked_at
    BY DEF FollowerSays, FollowerTypes, CopiesSay
  <2>2. \A c \in copies' : c[1] \in Nat /\ c[1] > asked_at
    BY <1>1, <2>1 DEF MachineMoves
  <2>3. QED BY <1>1, <1>2, <1>4, <2>1, <2>2 DEF FollowerSays, CopiesSay, MachineMoves
<1>11. QED BY <1>5, <1>6, <1>7, <1>8, <1>9, <1>10 DEF FollowerSays

\* It starts over.
LEMMA BeginKept ==
  ASSUME MachineTypes, MachineTypes', FollowerTypes, Begin,
         ~supervised' \/ events' = <<>> => copies' = {}, \A c \in copies' : c[1] \in Nat /\ c[1] > 0,
         clear' => ready' \/ Ended' \/ \E i \in 1..Len(events') : events'[i] = "failed"
  PROVE  clear' \in BOOLEAN => FollowerSays'
<1>. SUFFICES ASSUME clear' \in BOOLEAN PROVE FollowerSays'
  OBVIOUS
<1>1. Len(events') \in Nat /\ Len(lines') \in Nat /\ MaxPolls \in Nat /\ StateEvery \in Nat /\ MaxFollows \in Nat
  BY FollowerAssumption DEF MachineTypes
<1>2. FollowerTypes'
  <2>1. follows + 1 \in 0..MaxFollows /\ 0 \in 0..Len(events') /\ 0 <= Len(lines') /\ 0 \in 0..MaxPolls
    BY <1>1 DEF Begin, FollowerTypes
  <2>2. QED BY <2>1 DEF Begin, FollowerTypes
<1>3. Reads'
  BY DEF Begin, Reads, Following
<1>4. Knows'
  <2>1. evSeq' + 1 = 1
    BY DEF Begin
  <2>2. QED BY <2>1 DEF Begin, Knows, Following
<1>5. Lately'
  <2>1. (waited' - late')..(waited' - 1) = {}
    BY DEF Begin
  <2>2. MaxPolls > 0 /\ StateEvery >= 0
    BY FollowerAssumption
  <2>3. QED BY <2>1, <2>2 DEF Begin, Lately, Unasked
<1>6. ShownInTurn'
  <2>1. Shown("log", 0, 0) = <<>> /\ Shown("ev", 0, 0) = <<>>
    BY NothingShown
  <2>2. told' = <<>> /\ seen' = 0 /\ evSeq' = 0
    BY DEF Begin
  <2>3. Shown("log", 0, seen)' = <<>> /\ Shown("ev", 0, evSeq)' = <<>>
    BY <2>1, <2>2 DEF Shown
  <2>4. <<>> \o <<>> = <<>>
    BY ConcatEmptySeq, EmptySeq
  <2>5. QED BY <2>2, <2>3, <2>4 DEF ShownInTurn
<1>7. CopiesSay'
  BY <1>1 DEF Begin, CopiesSay
<1>8. QED BY <1>2, <1>3, <1>4, <1>5, <1>6, <1>7 DEF FollowerSays

-----------------------------------------------------------------------------
(* Both halves are followed in the same way.                                 *)
LEMMA SameBox ==
  /\ Box!Follow => Follow
  /\ Box!Closed => Closed
  /\ Box!Begin => Begin
  /\ Box!FollowerInit => FollowerInit
<1>. USE DEF Box!machineVars, machineVars, Box!readVars, readVars, Box!Answered, Answered, Box!Unanswered, Unanswered,
       Box!Stop, Stop, Box!Ask, Ask, Box!PollEnds, PollEnds, Box!Over, Over
<1>1. Box!AskRecord => AskRecord
  BY DEF Box!AskRecord, AskRecord, Box!ReadEvents, ReadEvents, Box!News, News, Box!Has, Has,
         Box!Failing, Failing, Box!Shown, Shown
<1>2. Box!NoRecord => NoRecord
  BY DEF Box!NoRecord, NoRecord
<1>3. Box!RecordUnanswered => RecordUnanswered
  BY DEF Box!RecordUnanswered, RecordUnanswered
<1>4. Box!HostKeyChanged => HostKeyChanged
  BY DEF Box!HostKeyChanged, HostKeyChanged
<1>5. Box!AskLog => AskLog
  BY DEF Box!AskLog, AskLog, Box!ReadLog, ReadLog, Box!News, News, Box!Has, Has, Box!Shown, Shown
<1>6. Box!LogUnanswered => LogUnanswered
  BY DEF Box!LogUnanswered, LogUnanswered
<1>7. Box!AskReady => AskReady
  BY DEF Box!AskReady, AskReady
<1>8. \A answered \in BOOLEAN : Box!NotReady(answered) => NotReady(answered)
  BY DEF Box!NotReady, NotReady
<1>9. Box!AskState => AskState
  BY DEF Box!AskState, AskState, Box!Aborted, Aborted, Box!Has, Has
<1>10. Box!StateUnanswered => StateUnanswered
  BY DEF Box!StateUnanswered, StateUnanswered
<1>11. Box!Follow => Follow
  BY <1>1, <1>2, <1>3, <1>4, <1>5, <1>6, <1>7, <1>8, <1>9, <1>10 DEF Box!Follow, Follow
<1>12. Box!Closed => Closed
  BY DEF Box!Closed, Closed
<1>13. Box!Begin => Begin
  BY DEF Box!Begin, Begin
<1>14. Box!FollowerInit => FollowerInit
  BY DEF Box!FollowerInit, FollowerInit
<1>15. QED BY <1>11, <1>12, <1>13, <1>14

LEMMA SameHost ==
  /\ Host!Follow => Follow
  /\ Host!Closed => Closed
  /\ Host!Begin => Begin
  /\ Host!FollowerInit => FollowerInit
<1>. USE DEF Host!machineVars, machineVars, Host!readVars, readVars, Host!Answered, Answered, Host!Unanswered, Unanswered,
       Host!Stop, Stop, Host!Ask, Ask, Host!PollEnds, PollEnds, Host!Over, Over
<1>1. Host!AskRecord => AskRecord
  BY DEF Host!AskRecord, AskRecord, Host!ReadEvents, ReadEvents, Host!News, News, Host!Has, Has,
         Host!Failing, Failing, Host!Shown, Shown
<1>2. Host!NoRecord => NoRecord
  BY DEF Host!NoRecord, NoRecord
<1>3. Host!RecordUnanswered => RecordUnanswered
  BY DEF Host!RecordUnanswered, RecordUnanswered
<1>4. Host!HostKeyChanged => HostKeyChanged
  BY DEF Host!HostKeyChanged, HostKeyChanged
<1>5. Host!AskLog => AskLog
  BY DEF Host!AskLog, AskLog, Host!ReadLog, ReadLog, Host!News, News, Host!Has, Has, Host!Shown, Shown
<1>6. Host!LogUnanswered => LogUnanswered
  BY DEF Host!LogUnanswered, LogUnanswered
<1>7. Host!AskReady => AskReady
  BY DEF Host!AskReady, AskReady
<1>8. \A answered \in BOOLEAN : Host!NotReady(answered) => NotReady(answered)
  BY DEF Host!NotReady, NotReady
<1>9. Host!AskState => AskState
  BY DEF Host!AskState, AskState, Host!Aborted, Aborted, Host!Has, Has
<1>10. Host!StateUnanswered => StateUnanswered
  BY DEF Host!StateUnanswered, StateUnanswered
<1>11. Host!Follow => Follow
  BY <1>1, <1>2, <1>3, <1>4, <1>5, <1>6, <1>7, <1>8, <1>9, <1>10 DEF Host!Follow, Follow
<1>12. Host!Closed => Closed
  BY DEF Host!Closed, Closed
<1>13. Host!Begin => Begin
  BY DEF Host!Begin, Begin
<1>14. Host!FollowerInit => FollowerInit
  BY DEF Host!FollowerInit, FollowerInit
<1>15. QED BY <1>11, <1>12, <1>13, <1>14

-----------------------------------------------------------------------------
(* What the follower's own steps have in common.                             *)
FollowInv == MachineTypes /\ BoxSays /\ HostSays /\ FollowerSays
Stands == UNCHANGED <<supervised, retries, crashes, copies, older>>

\* A build that is over says so in what has not been read, or else in the marker
\* or the result file.
LEMMA OverSaid ==
  ASSUME MachineTypes, BoxSays, HostSays, Over
  PROVE  ready \/ Ended \/ \E i \in 1..Len(events) : events[i] = "failed"
BY DEF MachineTypes, BoxSays, HostSays, Over, Ended, Has

LEMMA Unread ==
  ASSUME FollowInv, pc \in Following, NEW i \in 1..Len(events), events[i] = "failed"
  PROVE  i \in evSeq + 1..Len(events)
BY DEF FollowInv, FollowerSays, FollowerTypes, Reads, MachineTypes

\* A poll ends.
LEMMA PollEndsKept ==
  ASSUME FollowInv, Stands, pc \in Following, NEW ans \in BOOLEAN, PollEnds(ans),
         clear /\ ans => \/ Unasked /\ waited % StateEvery # 0
                         \/ ready /\ late < StateEvery
  PROVE  FollowerSays'
<1>. USE DEF machineVars, readVars, Stands
<1>1. /\ waited \in Nat /\ late \in Nat /\ MaxPolls \in Nat \ {0} /\ StateEvery \in Nat \ {0}
      /\ late <= waited /\ late <= StateEvery /\ waited < MaxPolls
  BY FollowerAssumption DEF FollowInv, FollowerSays, FollowerTypes, Lately
<1>2. UNCHANGED <<machineVars, supervised, via, readVars, asked_at, follows>> /\ waited' = waited + 1
      /\ pc' = (IF waited + 1 = MaxPolls THEN "over" ELSE "record") /\ clear' = Over
      /\ result' = (IF waited + 1 = MaxPolls THEN "timeout" ELSE "none")
      /\ late' = (IF clear /\ ans THEN late + 1 ELSE 0)
  BY DEF PollEnds
<1>3. FollowerTypes'
  <2>1. waited + 1 \in 0..MaxPolls /\ late' \in Nat
    BY <1>1, <1>2
  <2>2. Over \in BOOLEAN
    BY DEF Over, FollowInv, MachineTypes
  <2>3. QED BY <1>2, <2>1, <2>2 DEF FollowInv, FollowerSays, FollowerTypes
<1>4. Reads'
  BY <1>2 DEF FollowInv, FollowerSays, Reads, Following
<1>5. Knows'
  <2>1. SUFFICES ASSUME Over PROVE ready \/ Ended \/ \E i \in evSeq + 1..Len(events) : events[i] = "failed"
    BY <1>2 DEF Knows, Following, Ended
  <2>2. QED BY <2>1, OverSaid, Unread DEF FollowInv
<1>6. Lately'
  <2>1. CASE ~(clear /\ ans)
    <3>1. late' = 0 /\ (waited' - late')..(waited' - 1) = {}
      BY <1>1, <1>2, <2>1
    <3>2. Unasked'
      BY <3>1 DEF Unasked
    <3>3. late' <= waited' /\ late' <= StateEvery /\ (pc' # "over" => waited' < MaxPolls)
      BY <1>1, <1>2, <3>1
    <3>4. QED BY <1>2, <3>2, <3>3 DEF Lately, Following
  <2>2. CASE clear /\ ans /\ Unasked /\ waited % StateEvery # 0
    <3>1. late' = late + 1 /\ late' \in Nat /\ waited' \in Nat /\ late' <= waited'
          /\ (pc' # "over" => waited' < MaxPolls)
      BY <1>1, <1>2, <2>2
    <3>2. \A i \in (waited' - late')..(waited' - 1) : i \in (waited - late)..(waited - 1) \/ i = waited
      BY <1>1, <1>2, <3>1
    <3>3. \A i \in (waited' - late')..(waited' - 1) : i % StateEvery # 0
      BY <2>2, <3>2 DEF Unasked
    <3>4. ~(late' >= StateEvery)
      BY <1>1, <3>1, <3>3, OneAsks
    <3>5. late' <= StateEvery
      BY <1>1, <3>1, <3>4
    <3>6. QED BY <1>2, <3>1, <3>3, <3>5 DEF Lately, Unasked, Following
  <2>3. CASE clear /\ ans /\ ready /\ late < StateEvery
    <3>1. late' <= waited' /\ late' <= StateEvery /\ (pc' # "over" => waited' < MaxPolls)
      BY <1>1, <1>2, <2>3
    <3>2. QED BY <1>2, <2>3, <3>1 DEF Lately, Following
  <2>4. QED BY <2>1, <2>2, <2>3
<1>7. ShownInTurn'
  BY <1>2 DEF FollowInv, FollowerSays, ShownInTurn, Shown
<1>8. CopiesSay'
  BY <1>2 DEF PollEnds, FollowInv, FollowerSays, CopiesSay
<1>9. QED BY <1>3, <1>4, <1>5, <1>6, <1>7, <1>8 DEF FollowerSays

\* It goes on to another question, or stops.
LEMMA AskKept ==
  ASSUME FollowInv, Stands, pc \in Following, NEW question \in {"log", "ready", "state"}, NEW from,
         NEW ans \in BOOLEAN, Ask(question, from, ans),
         clear /\ ans => ready \/ Ended,
         IF question = "state" THEN clear /\ ans => Unasked ELSE ready \/ Unasked
  PROVE  Knows' /\ Lately'
<1>1. Knows'
  BY DEF Ask, Knows, Following, Ended, machineVars
<1>2. UNCHANGED <<waited, late, ready>> /\ pc' = question /\ clear' = (clear /\ ans)
  BY DEF Ask, machineVars
<1>3. Unasked' <=> Unasked
  BY <1>2 DEF Unasked
<1>4. QED BY <1>1, <1>2, <1>3 DEF Lately, Following, FollowInv, FollowerSays

LEMMA StopKept ==
  ASSUME FollowInv, NEW verdict, Stop(verdict) PROVE Knows' /\ Lately'
BY DEF Stop, Knows, Lately, Following, FollowInv, FollowerSays

\* The log grows only later than the record is asked for; where the record has
\* nothing yet, nothing is in both.
LEMMA CopiesStay ==
  ASSUME FollowInv, Stands, UNCHANGED <<machineVars, asked_at>> PROVE CopiesSay'
BY DEF FollowInv, FollowerSays, CopiesSay, Stands, machineVars

LEMMA CopiesFrom ==
  ASSUME FollowInv, Stands, UNCHANGED machineVars, asked_at' = Len(lines), ~supervised \/ events = <<>>
  PROVE  CopiesSay' /\ asked_at' \in Nat
BY DEF FollowInv, MachineTypes, FollowerSays, CopiesSay, Stands, machineVars

LEMMA Associates == \A a, b, c \in Seq(Lines) : (a \o b) \o c = a \o (b \o c)
BY ConcatAssociative

\* Showing more of the record, or of the log while no event is shown, keeps the order.
LEMMA ShowsEvents ==
  ASSUME FollowInv, told' = told \o Shown("ev", evSeq, Len(events)), seen' = seen, evSeq' = Len(events)
  PROVE  ShownInTurn'
<1>1. /\ seen \in Nat /\ evSeq \in Nat /\ Len(events) \in Nat /\ evSeq <= Len(events)
      /\ told = Shown("log", 0, seen) \o Shown("ev", 0, evSeq)
  BY DEF FollowInv, MachineTypes, FollowerSays, FollowerTypes, ShownInTurn
<1>2. /\ Shown("log", 0, seen) \in Seq(Lines) /\ Shown("ev", 0, evSeq) \in Seq(Lines)
      /\ Shown("ev", evSeq, Len(events)) \in Seq(Lines)
  BY <1>1, ShownFirst, ShownIs
<1>3. told' = Shown("log", 0, seen) \o (Shown("ev", 0, evSeq) \o Shown("ev", evSeq, Len(events)))
  <2>. DEFINE a == Shown("log", 0, seen)
              b == Shown("ev", 0, evSeq)
              c == Shown("ev", evSeq, Len(events))
  <2>1. a \in Seq(Lines) /\ b \in Seq(Lines) /\ c \in Seq(Lines)
    BY <1>2
  <2>2. told' = (a \o b) \o c
    BY <1>1
  <2>. HIDE DEF a, b, c
  <2>3. (a \o b) \o c = a \o (b \o c)
    BY <2>1, Associates, Zenon
  <2>4. QED BY <2>2, <2>3 DEF a, b, c
<1>4. told' = Shown("log", 0, seen) \o Shown("ev", 0, Len(events))
  BY <1>1, <1>3, ShownOn
<1>5. QED BY <1>4 DEF ShownInTurn, Shown

LEMMA ShowsLines ==
  ASSUME FollowInv, evSeq = 0, told' = told \o Shown("log", seen, Len(lines)), seen' = Len(lines), evSeq' = evSeq
  PROVE  ShownInTurn'
<1>1. /\ seen \in Nat /\ Len(lines) \in Nat /\ seen <= Len(lines)
      /\ told = Shown("log", 0, seen) \o Shown("ev", 0, 0)
  BY DEF FollowInv, MachineTypes, FollowerSays, FollowerTypes, ShownInTurn
<1>2. /\ Shown("log", 0, seen) \in Seq(Lines) /\ Shown("log", 0, Len(lines)) \in Seq(Lines)
      /\ Shown("ev", 0, 0) = <<>>
  BY <1>1, ShownFirst, NothingShown
<1>3. told = Shown("log", 0, seen)
  BY <1>1, <1>2, ConcatEmptySeq
<1>4. told' = Shown("log", 0, Len(lines))
  BY <1>1, <1>3, ShownOn
<1>5. told' = Shown("log", 0, Len(lines)) \o Shown("ev", 0, 0)
  BY <1>2, <1>4, ConcatEmptySeq
<1>6. QED BY <1>5 DEF ShownInTurn, Shown

LEMMA ShowsNothing ==
  ASSUME FollowInv, UNCHANGED readVars PROVE ShownInTurn'
BY DEF FollowInv, FollowerSays, ShownInTurn, Shown, readVars

-----------------------------------------------------------------------------
(* Each question keeps what it knows.                                        *)
LEMMA AskRecordKept ==
  ASSUME FollowInv, Stands, AskRecord PROVE FollowerSays'
<1>. DEFINE batch == News(events, evSeq)
<1>1. /\ pc = "record" /\ pc \in Following /\ supervised /\ installed
      /\ events \in Seq(EventKind) /\ Len(events) \in Nat /\ evSeq \in 0..Len(events)
      /\ evOnly \in BOOLEAN /\ failedSeen \in BOOLEAN /\ (ready \/ Unasked)
      /\ (evOnly <=> evSeq > 0)
  BY DEF AskRecord, Following, FollowInv, MachineTypes, FollowerSays, FollowerTypes, Lately, Reads
<1>2. /\ batch # <<>> <=> evSeq < Len(events)
      /\ \A k : Has(batch, k) <=> \E i \in evSeq + 1..Len(events) : events[i] = k
  BY <1>1, NewsAre
<1>3. clear => ready \/ Ended \/ Has(batch, "failed")
  BY <1>1, <1>2 DEF FollowInv, FollowerSays, Knows
<1>4. CASE batch = <<>> /\ ~evOnly /\ Ask("log", "events", TRUE) /\ UNCHANGED readVars
  <2>1. evSeq = 0 /\ ~Has(batch, "failed")
    BY <1>1, <1>2, <1>4
  <2>2. Knows' /\ Lately'
    BY <1>1, <1>3, <1>4, <2>1, AskKept
  <2>3. CopiesSay' /\ asked_at' \in Nat
    <3>1. events = <<>>
      BY <1>1, <1>2, <1>4, <2>1
    <3>2. QED BY <1>4, <3>1, CopiesFrom DEF Ask
  <2>4. FollowerTypes' /\ Reads'
    BY <1>1, <1>4, <2>1, <2>3 DEF Ask, FollowInv, FollowerSays, FollowerTypes, Reads, Following, readVars, machineVars, Stands
  <2>5. QED BY <1>4, <2>2, <2>3, <2>4, ShowsNothing DEF FollowerSays
<1>5. CASE /\ batch # <<>> \/ evOnly
           /\ ReadEvents(batch)
           /\ IF Has(batch, "failed") THEN Stop("stopped") /\ UNCHANGED via
                                      ELSE Ask("ready", "events", TRUE)
  <2>1. UNCHANGED machineVars /\ UNCHANGED <<asked_at, waited, late, follows, supervised>>
    BY <1>5 DEF Ask, Stop, Stands
  <2>2. Len(events) > 0 /\ events # <<>>
    BY <1>1, <1>2, <1>5
  <2>3. /\ told' = told \o Shown("ev", evSeq, Len(events)) /\ seen' = seen /\ evSeq' = Len(events)
        /\ evOnly' = TRUE /\ failedSeen' \in BOOLEAN
    BY <1>1, <1>5 DEF ReadEvents, Has
  <2>4. pc' \in Following => ~Has(batch, "failed")
    BY <1>5 DEF Stop, Following
  <2>5. FollowerTypes'
    BY <1>1, <1>5, <2>1, <2>3 DEF Ask, Stop, FollowInv, FollowerSays, FollowerTypes, machineVars
  <2>6. Reads'
    <3>1. pc' \in Following => \A i \in 1..Len(events) : events[i] # "failed"
      <4>1. \A i \in 1..Len(events) : i \in 1..evSeq \/ i \in evSeq + 1..Len(events)
        BY <1>1
      <4>2. QED BY <1>1, <1>2, <2>4, <4>1 DEF FollowInv, FollowerSays, Reads
    <3>2. pc' \in {"over", "ready"} /\ (pc' = "ready" => via' = "events")
      BY <1>5 DEF Ask, Stop
    <3>3. QED BY <1>1, <2>1, <2>2, <2>3, <3>1, <3>2 DEF Reads, machineVars
  <2>7. Knows' /\ Lately'
    <3>1. CASE Has(batch, "failed")
      BY <1>5, <3>1, StopKept
    <3>2. CASE ~Has(batch, "failed")
      BY <1>1, <1>3, <1>5, <3>2, AskKept
    <3>3. QED BY <3>1, <3>2
  <2>8. QED BY <2>1, <2>3, <2>5, <2>6, <2>7, ShowsEvents, CopiesStay DEF FollowerSays
<1>6. QED BY <1>4, <1>5 DEF AskRecord

LEMMA NoRecordKept ==
  ASSUME FollowInv, Stands, NoRecord PROVE FollowerSays'
<1>1. /\ pc = "record" /\ pc \in Following /\ Ask("log", "log", TRUE) /\ UNCHANGED readVars
      /\ ~supervised \/ ~installed
  BY DEF NoRecord, Following
<1>2. events = <<>> /\ Len(events) = 0 /\ evSeq = 0
  BY <1>1 DEF FollowInv, MachineTypes, BoxSays, HostSays, FollowerSays, FollowerTypes
<1>3. clear => ready \/ Ended
  BY <1>1, <1>2 DEF FollowInv, FollowerSays, Knows
<1>4. Knows' /\ Lately'
  BY <1>1, <1>3, AskKept DEF FollowInv, FollowerSays, Lately
<1>5. CopiesSay' /\ asked_at' \in Nat
  BY <1>1, <1>2, CopiesFrom DEF Ask
<1>6. FollowerTypes' /\ Reads'
  BY <1>1, <1>2, <1>5 DEF Ask, FollowInv, FollowerSays, FollowerTypes, Reads, Following, readVars, machineVars, Stands
<1>7. QED BY <1>1, <1>4, <1>5, <1>6, ShowsNothing DEF FollowerSays

LEMMA UnansweredKept ==
  ASSUME FollowInv, Stands, RecordUnanswered \/ StateUnanswered \/ LogUnanswered PROVE FollowerSays'
<1>1. CASE pc \in Following /\ PollEnds(FALSE)
  BY <1>1, PollEndsKept
<1>2. CASE pc = "log" /\ Ask("ready", "events", FALSE) /\ UNCHANGED readVars
  <2>1. pc \in Following /\ (ready \/ Unasked)
    BY <1>2 DEF Following, FollowInv, FollowerSays, Lately
  <2>2. Knows' /\ Lately'
    BY <1>2, <2>1, AskKept
  <2>3. FollowerTypes' /\ Reads'
    BY <1>2 DEF Ask, FollowInv, FollowerSays, FollowerTypes, Reads, Following, readVars, machineVars, Stands
  <2>4. CopiesSay'
    BY <1>2, CopiesStay DEF Ask
  <2>5. QED BY <1>2, <2>2, <2>3, <2>4, ShowsNothing DEF FollowerSays
<1>3. QED BY <1>1, <1>2 DEF RecordUnanswered, StateUnanswered, LogUnanswered, Following

LEMMA StoppedKept ==
  ASSUME FollowInv, Stands, NEW verdict \in {"complete", "stopped", "refused"},
         Stop(verdict), UNCHANGED <<via, readVars>>
  PROVE  FollowerSays'
<1>1. Knows' /\ Lately'
  BY StopKept
<1>2. FollowerTypes' /\ Reads'
  BY DEF Stop, FollowInv, FollowerSays, FollowerTypes, Reads, Following, readVars, machineVars, Stands
<1>3. CopiesSay'
  BY CopiesStay DEF Stop
<1>4. QED BY <1>1, <1>2, <1>3, ShowsNothing DEF FollowerSays

LEMMA AskLogKept ==
  ASSUME FollowInv, Stands, AskLog PROVE FollowerSays'
<1>1. /\ pc = "log" /\ pc \in Following /\ Ask("ready", "log", TRUE) /\ evSeq = 0 /\ (ready \/ Unasked)
      /\ lines \in Seq(LineKind) /\ Len(lines) \in Nat /\ seen \in 0..Len(lines) /\ failedSeen \in BOOLEAN
  <2>1. pc = "log" /\ pc \in Following /\ Ask("ready", "log", TRUE)
    BY DEF AskLog, Following
  <2>2. evSeq = 0 /\ (ready \/ Unasked)
    BY <2>1 DEF FollowInv, FollowerSays, Reads, Lately
  <2>3. lines \in Seq(LineKind) /\ Len(lines) \in Nat /\ seen \in Nat /\ seen <= Len(lines) /\ failedSeen \in BOOLEAN
    BY DEF FollowInv, MachineTypes, FollowerSays, FollowerTypes
  <2>4. seen \in 0..Len(lines)
    BY ONLY <2>3
  <2>5. QED BY <2>1, <2>2, <2>3, <2>4, Zenon
<1>2. /\ told' = told \o Shown("log", seen, Len(lines)) /\ seen' = Len(lines) /\ UNCHANGED <<evSeq, evOnly>>
      /\ failedSeen' = (failedSeen \/ Has(News(lines, seen), "FAILED"))
  BY DEF AskLog, ReadLog
<1>3. Has(News(lines, seen), "FAILED") => Has(lines, "FAILED")
  <2>1. \A i \in seen + 1..Len(lines) : i \in 1..Len(lines)
    BY <1>1
  <2>2. Has(News(lines, seen), "FAILED") => \E i \in seen + 1..Len(lines) : lines[i] = "FAILED"
    BY <1>1, NewsAre
  <2>3. QED BY <2>1, <2>2 DEF Has
<1>4. clear => ready \/ Ended
  BY <1>1 DEF FollowInv, FollowerSays, Knows
<1>5. Knows' /\ Lately'
  BY <1>1, <1>4, AskKept
<1>6. failedSeen' \in BOOLEAN
  BY <1>1, <1>2 DEF Has
<1>7. FollowerTypes' /\ Reads'
  BY <1>1, <1>2, <1>3, <1>6 DEF Ask, FollowInv, FollowerSays, FollowerTypes, Reads, Following, machineVars, Stands
<1>8. CopiesSay'
  BY <1>1, CopiesStay DEF Ask
<1>9. QED BY <1>1, <1>2, <1>5, <1>7, <1>8, ShowsLines DEF FollowerSays

LEMMA NotReadyKept ==
  ASSUME FollowInv, Stands, NEW answered \in BOOLEAN, NotReady(answered) PROVE FollowerSays'
<1>1. /\ pc = "ready" /\ pc \in Following /\ (answered => ~ready) /\ (ready \/ Unasked)
      /\ (clear => ready \/ Ended) /\ via \in {"events", "log"}
      /\ via = "events" /\ clear => events # <<>>
  BY DEF NotReady, Following, FollowInv, FollowerSays, Reads, Lately, Knows
<1>2. CASE Ask("state", via, answered) /\ UNCHANGED readVars
  <2>1. Knows' /\ Lately'
    BY <1>1, <1>2, AskKept
  <2>2. FollowerTypes' /\ Reads'
    BY <1>1, <1>2 DEF Ask, FollowInv, FollowerSays, FollowerTypes, Reads, Following, readVars, machineVars, Stands
  <2>3. CopiesSay'
    BY <1>2, CopiesStay DEF Ask
  <2>4. QED BY <1>2, <2>1, <2>2, <2>3, ShowsNothing DEF FollowerSays
<1>3. CASE ~(via = "log" /\ (failedSeen \/ waited % StateEvery = 0)) /\ PollEnds(answered)
  <2>1. clear /\ answered => Unasked /\ waited % StateEvery # 0
    BY <1>1, <1>3 DEF Ended
  <2>2. QED BY <1>1, <1>3, <2>1, PollEndsKept
<1>4. QED BY <1>2, <1>3 DEF NotReady

LEMMA AskStateKept ==
  ASSUME FollowInv, Stands, AskState PROVE FollowerSays'
<1>1. pc = "state" /\ pc \in Following
  BY DEF AskState, Following
<1>2. CASE Stop("stopped") /\ UNCHANGED <<via, readVars>>
  BY <1>2, StoppedKept
<1>3. ASSUME NEW ci \in Clouds, ~Aborted(ci), PollEnds(TRUE) PROVE FollowerSays'
  <2>1. clear => ready
    BY <1>1, <1>3 DEF FollowInv, FollowerSays, Knows, Aborted, Ended
  <2>2. clear => late < StateEvery
    <3>1. /\ waited \in Nat /\ late \in Nat /\ late <= waited /\ StateEvery \in Nat \ {0}
          /\ clear => Unasked
      BY <1>1, FollowerAssumption DEF FollowInv, FollowerSays, FollowerTypes, Lately
    <3>2. clear => ~(late >= StateEvery)
      BY <3>1, OneAsks DEF Unasked
    <3>3. QED BY <3>1, <3>2
  <2>3. QED BY <1>1, <1>3, <2>1, <2>2, PollEndsKept
<1>4. QED BY <1>2, <1>3 DEF AskState

LEMMA FollowKept ==
  ASSUME FollowInv, Stands, Follow PROVE FollowInv'
<1>1. UNCHANGED machineVars
  BY DEF Follow, AskRecord, NoRecord, RecordUnanswered, HostKeyChanged, AskLog, LogUnanswered, AskReady,
         NotReady, AskState, StateUnanswered, Ask, Stop, PollEnds
<1>2. MachineTypes' /\ BoxSays' /\ HostSays'
  BY <1>1 DEF FollowInv, Stands, MachineTypes, BoxSays, HostSays, machineVars, Has
<1>3. FollowerSays'
  <2>1. CASE HostKeyChanged \/ AskReady
    BY <2>1, StoppedKept DEF HostKeyChanged, AskReady
  <2>2. QED BY <2>1, AskRecordKept, NoRecordKept, UnansweredKept, AskLogKept, NotReadyKept, AskStateKept DEF Follow
<1>4. QED BY <1>2, <1>3 DEF FollowInv

\* The follower's run goes away, or the next one begins.
LEMMA ClosedKept ==
  ASSUME FollowInv, Stands, Closed PROVE FollowInv'
<1>1. UNCHANGED <<machineVars, via, readVars, asked_at, waited, result, clear, late, follows>> /\ pc' = "off"
  BY DEF Closed
<1>2. MachineTypes' /\ BoxSays' /\ HostSays'
  BY <1>1 DEF FollowInv, Stands, MachineTypes, BoxSays, HostSays, machineVars, Has
<1>3. FollowerTypes' /\ Reads' /\ Knows' /\ Lately'
  BY <1>1 DEF FollowInv, FollowerSays, FollowerTypes, Reads, Knows, Lately, Following, Stands, machineVars, readVars
<1>4. CopiesSay'
  BY <1>1, CopiesStay
<1>5. QED BY <1>1, <1>2, <1>3, <1>4, ShowsNothing DEF FollowInv, FollowerSays

LEMMA CgInitKept ==
  ASSUME FollowInv, supervised, UNCHANGED <<supervised, older>>, Box!CgInit PROVE FollowInv'
<1>1. Begin /\ clear' = Over /\ UNCHANGED <<machineVars, supervised, retries, crashes, copies, older>>
  BY SameBox DEF Box!CgInit, Box!machineVars, machineVars, Box!boxVars, Box!Over, Over
<1>2. MachineTypes' /\ BoxSays' /\ HostSays'
  BY <1>1 DEF FollowInv, MachineTypes, BoxSays, HostSays, machineVars, Has
<1>3. clear' => ready' \/ Ended' \/ \E i \in 1..Len(events') : events'[i] = "failed"
  BY <1>1, OverSaid DEF FollowInv, machineVars, Ended
<1>4. clear' \in BOOLEAN
  BY <1>1 DEF Over, FollowInv, MachineTypes
<1>5. /\ ~supervised' \/ events' = <<>> => copies' = {}
      /\ \A c \in copies' : c[1] \in Nat /\ c[1] > 0
  BY <1>1 DEF FollowInv, FollowerSays, FollowerTypes, CopiesSay, machineVars
<1>6. QED BY <1>1, <1>2, <1>3, <1>4, <1>5, BeginKept DEF FollowInv, FollowerSays

LEMMA SetupKept ==
  ASSUME FollowInv, ~supervised, UNCHANGED <<supervised, retries, crashes, copies>>, Host!Setup PROVE FollowInv'
<1>1. /\ Begin /\ clear' = FALSE /\ UNCHANGED <<supervised, up, installed, events>>
      /\ build' = "prelude" /\ ready' = FALSE /\ rc' = "none" /\ lines' = <<>>
      /\ older' \in {"running", "none"}
  BY SameHost DEF Host!Setup, Host!Fresh
<1>2. MachineTypes' /\ BoxSays' /\ HostSays'
  <2>1. <<>> \in Seq(LineKind) /\ Len(<<>>) = 0 /\ 1..0 = {}
    OBVIOUS
  <2>2. ~Has(lines, "FAILED")'
    BY <1>1, <2>1 DEF Has
  <2>3. MachineTypes'
    BY <1>1, <2>1 DEF FollowInv, MachineTypes, Build
  <2>4. QED BY <1>1, <2>2, <2>3 DEF FollowInv, BoxSays, HostSays
<1>3. copies' = {}
  BY DEF FollowInv, FollowerSays, CopiesSay
<1>4. QED BY <1>1, <1>2, <1>3, BeginKept DEF FollowInv, FollowerSays

-----------------------------------------------------------------------------
(* The specification.                                                        *)
LEMMA BeginsSo == Init => FollowInv
<1>1. Init => FollowerInit /\ clear = FALSE /\ events = <<>> /\ lines = <<>> /\ copies = {}
  BY SameBox, SameHost DEF Init, Box!Init, Host!Init, FollowerInit
<1>2. Len(<<>>) = 0 /\ 1..0 = {} /\ <<>> \in Seq(EventKind) /\ <<>> \in Seq(LineKind)
  OBVIOUS
<1>3. Init => MachineTypes
  BY <1>2 DEF Init, Box!Init, Host!Init, MachineTypes, Build
<1>4. Init => BoxSays /\ HostSays
  BY <1>2 DEF Init, Box!Init, Host!Init, BoxSays, HostSays, Has
<1>5. Init => FollowerTypes /\ Reads /\ Knows
  <2>1. 0 \in 0..0 /\ 0 \in 0..MaxPolls /\ 0 \in 0..MaxFollows /\ 0 \in Nat /\ 0 <= 0 /\ ~(0 > 0)
    BY FollowerAssumption
  <2>2. Init => FollowerTypes
    BY <1>1, <1>2, <2>1 DEF FollowerInit, FollowerTypes
  <2>3. Init => Reads /\ Knows
    BY <1>1, <2>1 DEF FollowerInit, Reads, Knows, Following
  <2>4. QED BY <2>2, <2>3
<1>6. Init => Lately
  <2>1. 0 - 0 = 0 /\ 0..(0 - 1) = {}
    OBVIOUS
  <2>2. QED BY <1>1, <2>1, FollowerAssumption DEF FollowerInit, Lately, Unasked, Following
<1>7. Init => ShownInTurn
  <2>1. Shown("log", 0, 0) = <<>> /\ Shown("ev", 0, 0) = <<>> /\ <<>> \o <<>> = <<>>
    BY NothingShown, ConcatEmptySeq, EmptySeq
  <2>2. QED BY <1>1, <2>1 DEF FollowerInit, ShownInTurn
<1>8. Init => CopiesSay
  BY <1>1, <1>2 DEF FollowerInit, CopiesSay
<1>9. QED BY <1>3, <1>4, <1>5, <1>6, <1>7, <1>8 DEF FollowInv, FollowerSays

LEMMA NextKept == FollowInv /\ [Next]_followedVars => FollowInv'
<1>. SUFFICES ASSUME FollowInv, [Next]_followedVars PROVE FollowInv'
  OBVIOUS
<1>1. CASE supervised /\ Box!Next /\ UNCHANGED <<older, supervised>>
  <2>1. CASE Box!Machine
    BY <1>1, <2>1, BoxMoves, MovesKept DEF FollowInv
  <2>2. CASE Box!CgInit
    BY <1>1, <2>2, CgInitKept
  <2>3. CASE (Box!Follow \/ Box!Closed) /\ UNCHANGED Box!boxVars
    BY <1>1, <2>3, SameBox, FollowKept, ClosedKept DEF Stands, Box!boxVars
  <2>4. QED BY <1>1, <2>1, <2>2, <2>3 DEF Box!Next
<1>2. CASE ~supervised /\ Host!Next /\ UNCHANGED <<retries, crashes, copies, supervised>>
  <2>1. CASE Host!Machine
    BY <1>2, <2>1, HostMoves, MovesKept DEF FollowInv
  <2>2. CASE Host!Setup
    BY <1>2, <2>2, SetupKept
  <2>3. CASE (Host!Follow \/ Host!Closed) /\ UNCHANGED older
    BY <1>2, <2>3, SameHost, FollowKept, ClosedKept DEF Stands
  <2>4. QED BY <1>2, <2>1, <2>2, <2>3 DEF Host!Next
<1>3. CASE UNCHANGED followedVars
  <2>. USE <1>3 DEF followedVars, vars, machineVars, followVars, readVars
  <2>1. MachineTypes' /\ BoxSays' /\ HostSays'
    BY DEF FollowInv, MachineTypes, BoxSays, HostSays, Has
  <2>2. FollowerTypes' /\ Reads' /\ Lately'
    BY DEF FollowInv, FollowerSays, FollowerTypes, Reads, Lately, Unasked, Has
  <2>3. Knows'
    BY DEF FollowInv, FollowerSays, Knows, Ended
  <2>4. CopiesSay'
    BY CopiesStay DEF Stands
  <2>5. QED BY <2>1, <2>2, <2>3, <2>4, ShowsNothing DEF FollowInv, FollowerSays
<1>4. QED BY <1>1, <1>2, <1>3 DEF Next

\* What is said of the machine and of the follower holds in every state.
THEOREM FollowedInductive == Spec => []FollowInv
BY BeginsSo, NextKept, PTL DEF Spec

\* Whatever drops, refuses or reboots, what one run of the follower shows is the
\* log's first lines and then the record's first events, each once and in order.
THEOREM ShownInOrder == Spec => []ShownOnceInOrder
<1>1. FollowInv => ShownOnceInOrder
  BY DEF FollowInv, FollowerSays, CopiesSay, ShownOnceInOrder, Box!TwiceOnlyAsItStarts
<1>2. QED BY <1>1, FollowedInductive, PTL

\* Polls that all get through to a build that is over say so within a minute of
\* them, however long the wait and however many polls a minute has.
THEOREM SaidInTime == Spec => []SaidWithinAMinute
<1>1. FollowInv => SaidWithinAMinute
  BY DEF FollowInv, FollowerSays, Lately, SaidWithinAMinute
<1>2. QED BY <1>1, FollowedInductive, PTL

\* What makes a person hear that it stopped.
LEMMA SaysStopped ==
  ASSUME FollowInv, Follow, result' = "stopped", result # "stopped"
  PROVE  rc = "1" \/ Has(events, "failed") \/ (rc = "none" /\ (Has(lines, "FAILED") \/ events # <<>>))
<1>1. /\ events \in Seq(EventKind) /\ evSeq \in 0..Len(events) /\ Len(events) \in Nat
      /\ failedSeen => Has(lines, "FAILED") \/ events # <<>>
  BY DEF FollowInv, MachineTypes, FollowerSays, FollowerTypes, Reads
<1>2. CASE AskRecord /\ Has(News(events, evSeq), "failed")
  <2>1. \A i \in evSeq + 1..Len(events) : i \in 1..Len(events)
    BY <1>1
  <2>2. \E i \in evSeq + 1..Len(events) : events[i] = "failed"
    BY <1>1, <1>2, NewsAre
  <2>3. QED BY <2>1, <2>2 DEF Has
<1>3. CASE \E ci \in Clouds : Aborted(ci)
  BY <1>1, <1>3 DEF Aborted
<1>4. AskRecord /\ ~Has(News(events, evSeq), "failed") => result' = result
  BY DEF AskRecord, Ask
<1>5. AskState => \/ \E ci \in Clouds : Aborted(ci)
                  \/ PollEnds(TRUE)
  BY DEF AskState
<1>6. \A ans \in BOOLEAN : PollEnds(ans) => result' # "stopped"
  BY DEF PollEnds
<1>7. ~NoRecord /\ ~RecordUnanswered /\ ~HostKeyChanged /\ ~AskLog /\ ~LogUnanswered /\ ~AskReady
      /\ ~(\E answered \in BOOLEAN : NotReady(answered)) /\ ~StateUnanswered
  BY <1>6 DEF NoRecord, RecordUnanswered, HostKeyChanged, AskLog, LogUnanswered, AskReady, NotReady,
              StateUnanswered, Ask, Stop
<1>8. QED BY <1>2, <1>3, <1>4, <1>5, <1>6, <1>7 DEF Follow

LEMMA SaysComplete ==
  ASSUME FollowInv, Follow, result' = "complete", result # "complete" PROVE ready
<1>1. \A ans \in BOOLEAN : PollEnds(ans) => result' # "complete"
  BY DEF PollEnds
<1>2. Follow => AskReady
  BY <1>1 DEF Follow, AskRecord, NoRecord, RecordUnanswered, HostKeyChanged, AskLog, LogUnanswered, NotReady,
              AskState, StateUnanswered, Ask, Stop
<1>3. QED BY <1>2 DEF AskReady

LEMMA OnlyFollowSays ==
  ASSUME FollowInv, [Next]_followedVars, result' # result, result' \in {"stopped", "complete"}
  PROVE  Follow
<1>. USE DEF followVars, Box!followVars, Host!followVars
<1>1. ~(Box!Machine /\ supervised)
  BY DEF Box!Machine, Box!PreludeSays, Box!PreludeFails, Box!InstallSupervisor, Box!StartSupervisor, Box!Emit, Box!EmitBoth,
         Box!StagesFail, Box!StagesDone, Box!GoDown, Box!Crash, Box!Boot, Box!DesktopUp, Box!Retry
<1>2. ~(Host!Machine /\ ~supervised)
  BY DEF Host!Machine, Host!Says, Host!Fails, Host!Done, Host!Exits, Host!OlderEnds, Host!Crash, Host!Boot
<1>3. ~Begin /\ ~Closed
  BY DEF Begin, Closed
<1>4. QED
  BY <1>1, <1>2, <1>3, SameBox, SameHost
     DEF Next, Box!Next, Host!Next, Box!CgInit, Host!Setup, followedVars, vars

\* The verdict a person hears is the build's own: that it stopped, only of a box
\* whose build has (until somebody retries it there) or of the script they
\* started, and that it is complete, only of a script that is.
THEOREM VerdictTrue == Spec => VerdictIsTrue
<1>1. FollowInv /\ [Next]_followedVars =>
        [IF supervised THEN Box!FirstStopIsOver ELSE Host!VerdictIsThisBuilds]_followedVars
  <2>. SUFFICES ASSUME FollowInv, [Next]_followedVars
                PROVE  IF supervised THEN Box!FirstStopIsOver ELSE Host!VerdictIsThisBuilds
    OBVIOUS
  <2>1. ASSUME supervised, retries = 0, result' = "stopped", result # "stopped"
        PROVE  build \in {"failed", "dying"}
    <3>1. rc = "1" \/ Has(events, "failed") \/ (rc = "none" /\ (Has(lines, "FAILED") \/ events # <<>>))
      BY <2>1, OnlyFollowSays, SaysStopped
    <3>2. QED BY <2>1, <3>1 DEF FollowInv, BoxSays
  <2>2. ASSUME ~supervised, older = "none", result' # result
        PROVE  /\ result' = "stopped" => build \in {"failed", "dying", "cut"}
               /\ result' = "complete" => build \in {"finishing", "settled"}
    <3>1. ASSUME result' = "stopped" PROVE build \in {"failed", "dying", "cut"}
      <4>1. rc = "1" \/ Has(events, "failed") \/ (rc = "none" /\ (Has(lines, "FAILED") \/ events # <<>>))
        BY <2>2, <3>1, OnlyFollowSays, SaysStopped
      <4>2. ~Has(<<>>, "failed")
        BY DEF Has
      <4>3. QED BY <2>2, <4>1, <4>2 DEF FollowInv, HostSays
    <3>2. ASSUME result' = "complete" PROVE build \in {"finishing", "settled"}
      <4>1. ready
        BY <2>2, <3>2, OnlyFollowSays, SaysComplete
      <4>2. QED BY <2>2, <4>1 DEF FollowInv, HostSays
    <3>3. QED BY <3>1, <3>2
  <2>3. QED BY <2>1, <2>2 DEF Box!FirstStopIsOver, Host!VerdictIsThisBuilds
<1>2. QED BY <1>1, FollowedInductive, PTL DEF Spec, VerdictIsTrue
===============================================================================
