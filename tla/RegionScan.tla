------------------------------ MODULE RegionScan ------------------------------
(***************************************************************************)
(* Where a GPU can be rented: `cg sweep` measures every region and asks     *)
(* those near enough what they have; `cg machines` reads which machines     *)
(* there are; `cg quota request` and `cg regions enable` change what a      *)
(* region allows, and AWS takes its time over both.  Times are in steps: the *)
(* budget of 80 ms is MaxMS of them, half again is Slack.                   *)
(* (internal/commands/{sweep,machines,quota,regions})                       *)
(***************************************************************************)
EXTENDS Naturals, Sequences, FiniteSets, Functions, SequencesExt

CONSTANTS Regions, Home,     \* every region, and the one in use
          MaxMS, Slack, Far, \* the budget, half again, and a time beyond it
          Scores,            \* how likely a machine is: 0 for no machine there
          MaxScans           \* how often the regions are measured

ASSUME ScanAssumption ==
  /\ IsFiniteSet(Regions) /\ Home \in Regions
  /\ MaxMS \in Nat /\ Slack \in Nat /\ Far \in Nat /\ MaxMS < Slack /\ Slack < Far
  /\ Scores \subseteq Nat /\ 0 \in Scores /\ MaxScans \in Nat

VARIABLES opt,     \* what AWS says of a region: "off", "enabling", "on"
          quota,   \* the vCPUs a region allows cover one machine
          asked,   \* a request for more is open
          types,   \* the regions whose machines were listed once, and remembered
          scan,    \* the scan under way
          shown,   \* the table the last `cg sweep` showed
          store,   \* sweep.json: the last scan remembered, if any
          scans

scanVars == <<opt, quota, asked, types, scan, shown, store, scans>>

NoTime == 0                  \* no probe answered
Times == {1, MaxMS, Slack, Far}

NoScan == [at |-> "none", rtt |-> [r \in Regions |-> NoTime], near |-> {}]
Error == [rows |-> <<>>, far |-> {}, unreachable |-> {}, error |-> TRUE]

ScanInit ==
  /\ opt \in [Regions -> {"off", "on"}] /\ opt[Home] = "on"
  /\ quota \in [Regions -> BOOLEAN]
  /\ asked = [r \in Regions |-> FALSE]
  /\ types \in {{}, {Home}}
  /\ scan = NoScan /\ shown = Error /\ store = {} /\ scans = 0

ScanAt(step) == scan.at = step

(* A cached list of machines stands in when AWS does not answer: "a stale    *)
(* answer beats none".                                                       *)
Known(answered) == types \cup answered

(* Options.from: the first region that lists a machine and knows placement   *)
(* scores; the one in use when none does.                                    *)
From(answered, scored) ==
  LET can == Known(answered) \cap scored
  IN IF Home \in can \/ can = {} THEN Home ELSE CHOOSE r \in can : TRUE

(* Store.Save: an error is not remembered; what could not be written is not  *)
(* either, and nothing is said.                                              *)
Save(t) == shown' = t /\ store' \in IF t.error THEN {store} ELSE {store, {t}}

(* The beginning: where to ask from, and which machines to look for.  The    *)
(* regions AWS has come next; either unread is the end of the scan.          *)
Starts ==
  /\ ScanAt("none")
  /\ \E answered, scored \in SUBSET Regions :
       LET from == From(answered, scored) IN
       /\ types' = Known(answered)
       /\ \/ /\ Known(answered) \cap {Home, from} # {} /\ scans < MaxScans
             /\ scan' = [NoScan EXCEPT !.at = "probe"] /\ scans' = scans + 1
             /\ UNCHANGED <<shown, store>>
          \/ Save(Error) /\ UNCHANGED <<scan, scans>>
  /\ UNCHANGED <<opt, quota, asked>>

Measured == \E r \in Regions : scan.rtt[r] # NoTime

(* The first pass, every region at once: kept within half again the budget,  *)
(* all of them when nothing answered, for a firewall is not a distance.      *)
Probes ==
  /\ ScanAt("probe")
  /\ \E rtt \in [Regions -> Times \cup {NoTime}] :
       LET some == \E r \in Regions : rtt[r] # NoTime IN
       scan' = [scan EXCEPT !.at = IF some THEN "quiet" ELSE "ask", !.rtt = rtt,
                  !.near = IF some THEN { r \in Regions : rtt[r] # NoTime /\ rtt[r] <= Slack }
                                   ELSE Regions]
  /\ UNCHANGED <<opt, quota, asked, types, shown, store, scans>>

(* The second pass, two at a time: a region that does not answer now keeps   *)
(* the time it had.                                                          *)
Remeasures ==
  /\ ScanAt("quiet")
  /\ \E again \in [scan.near -> Times \cup {NoTime}] :
       LET rtt == [r \in Regions |-> IF r \in scan.near /\ again[r] # NoTime
                                     THEN again[r] ELSE scan.rtt[r]]
       IN scan' = [scan EXCEPT !.at = "ask", !.rtt = rtt, !.near = { r \in @ : rtt[r] <= MaxMS }]
  /\ UNCHANGED <<opt, quota, asked, types, shown, store, scans>>

(* What is said of a region near enough: its chance, 0 when AWS gave none,   *)
(* and whether the quota covers a machine - asked only of a region that is   *)
(* on, and read as no vCPUs at all when it cannot be read.                   *)
Row(r, score, readable) ==
  [region |-> r, ms |-> scan.rtt[r], score |-> score[r],
   fits |-> IF opt[r] # "on" THEN "not asked"
            ELSE IF r \in readable /\ quota[r] THEN "yes" ELSE "no"]

Time(row) == IF row.ms = NoTime THEN Far + 1 ELSE row.ms
Before(a, b) == a.score > b.score \/ (a.score = b.score /\ Time(a) < Time(b))

(* Which list a region is in: first the ones that did not answer, then the   *)
(* ones over the budget.                                                     *)
Unreachable == { r \in Regions : Measured /\ scan.rtt[r] = NoTime }
TooFar_overSlack == { r \in Regions : scan.rtt[r] > Slack }
TooFar == { r \in Regions : scan.rtt[r] > MaxMS }

(* The rows of the others: the likeliest first, then the nearest, and those   *)
(* that neither tells apart in whatever order they came.                     *)
Ranked(score, readable) ==
  { rows \in SetToSeqs({ Row(r, score, readable) : r \in scan.near \ (Unreachable \cup TooFar) }) :
      \A i, j \in DOMAIN rows : i < j => ~Before(rows[j], rows[i]) }

(* The scores, the details of each region, and the table; remembered unless  *)
(* it is an error.                                                           *)
AsksAll ==
  /\ ScanAt("ask")
  /\ \E score \in [Regions -> Scores], readable \in SUBSET Regions :
       \E rows \in Ranked(score, readable) :
         Save([rows |-> rows, far |-> TooFar, unreachable |-> Unreachable, error |-> FALSE])
  /\ scan' = NoScan
  /\ UNCHANGED <<opt, quota, asked, types, scans>>

-----------------------------------------------------------------------------
(* `cg quota request`: nothing is asked for what is enough, nor while a      *)
(* request is open - when both could be read.                                *)
RequestsQuota(r) ==
  /\ ScanAt("none") /\ opt[r] = "on"
  /\ \E read \in SUBSET {"value", "history"} :
       /\ ~("value" \in read /\ quota[r]) /\ ~("history" \in read /\ asked[r])
       /\ ~asked[r]                                 \* AWS refuses a second one
  /\ asked' = [asked EXCEPT ![r] = TRUE]
  /\ UNCHANGED <<opt, quota, types, scan, shown, store, scans>>

(* `cg regions enable`: one call, then six looks at how it goes; not for a   *)
(* region whose status cannot be read, nor for one that is on.               *)
Enables(r) ==
  /\ ScanAt("none") /\ opt[r] = "off"
  /\ opt' = [opt EXCEPT ![r] = "enabling"]
  /\ UNCHANGED <<quota, asked, types, scan, shown, store, scans>>

(* AWS: a region is on, a request is answered.                               *)
RegionIsOn == \E r \in Regions :
  /\ opt[r] = "enabling" /\ opt' = [opt EXCEPT ![r] = "on"]
  /\ UNCHANGED <<quota, asked, types, scan, shown, store, scans>>

QuotaAnswered == \E r \in Regions, granted \in BOOLEAN :
  /\ asked[r] /\ asked' = [asked EXCEPT ![r] = FALSE]
  /\ quota' = [quota EXCEPT ![r] = @ \/ granted]
  /\ UNCHANGED <<opt, types, scan, shown, store, scans>>

ScanNext ==
  \/ Starts \/ Probes \/ Remeasures \/ AsksAll
  \/ \E r \in Regions : RequestsQuota(r) \/ Enables(r)
  \/ RegionIsOn \/ QuotaAnswered

-----------------------------------------------------------------------------
(* A table accounts for every region once: it is offered, or too far, or did *)
(* not answer.                                                               *)
Offered(t) == { t.rows[i].region : i \in DOMAIN t.rows }
Accounted(t) ==
  /\ Offered(t) \cup t.far \cup t.unreachable = Regions
  /\ Len(t.rows) + Cardinality(t.far) + Cardinality(t.unreachable) = Cardinality(Regions)

(* The most likely machine is first, the nearest of those as likely; and     *)
(* what is offered was measured within the budget, or nothing was measured.  *)
BestFirst(t) == \A i \in DOMAIN t.rows : ~Before(t.rows[i], t.rows[1])
InBudget(t) ==
  \/ \A i \in DOMAIN t.rows : t.rows[i].ms \in 1..MaxMS
  \/ Offered(t) = Regions /\ \A i \in DOMAIN t.rows : t.rows[i].ms = NoTime

(* A scan that ends at every region measured twice, once in a crowd, or not  *)
(* answering, hides none: each is in the table once, none is excluded because*)
(* nothing could be measured, the likeliest is first, and what is remembered *)
(* is such a table, never an error.  sweep.go "filtering on that would        *)
(* exclude every region"; cache.go "An error is not a scan".                 *)
EveryRegionAccounted ==
  \A t \in {shown} \cup store :
    \/ t = shown /\ t.error /\ t \notin store
    \/ ~t.error /\ Accounted(t) /\ BestFirst(t) /\ InBudget(t)
=============================================================================
