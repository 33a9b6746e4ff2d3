--------------------------------- MODULE Bill ---------------------------------
(***************************************************************************)
(* The month as AWS billed it: one Cost Explorer question, read page by       *)
(* page, and the four things made of its answer - the day by day table, the   *)
(* data of `cg cost --json`, the sums by usage type and the report of them.   *)
(* Money is in twentieths of a cent, the least a day is shown for.            *)
(* (internal/costfacts/gather.go month, internal/costdaily/costdaily.go,      *)
(* internal/costreport/costreport.go)                                        *)
(***************************************************************************)
EXTENDS Naturals, Sequences, FiniteSets, FiniteSetsExt, SequencesExt, Functions

CONSTANTS InRegions,     \* the regions that usage types are prefixed with
          Kinds,         \* what was used
          Charges,       \* what a usage cost on a day
          MaxUsages,     \* of a day
          MaxDays, DaysInMonth

ASSUME BillAssumption ==
  /\ IsFiniteSet(InRegions) /\ IsFiniteSet(Charges) /\ Charges \subseteq Nat
  /\ MaxUsages \in Nat /\ MaxDays \in Nat \ {0} /\ DaysInMonth \in Nat \ {0}
  /\ Kinds \subseteq {"box", "spot", "egress", "s3", "disk", "api", "other"}

VARIABLES month,     \* the days read so far
          read       \* "pages" while there are more, "known", "unknown"

billVars == <<month, read>>

(* One usage type's charge and quantity on one day, which has each type once;  *)
(* part of an hour is 0.                                                      *)
Usages == [prefix : InRegions, kind : Kinds]
MachineTime == {"box", "spot"}
Groups == { g \in [u : Usages, c : Charges, q : {0, 1}] : g.u.kind \in MachineTime \/ g.q = 1 }
Days == { day \in UNION { kSubset(n, Groups) : n \in 0..MaxUsages } :
            \A g, h \in day : g.u = h.u => g = h }

Cost(groups) == SumFunction([g \in groups |-> g.c])
Quantity(groups) == SumFunction([g \in groups |-> g.q])

BillInit(start) == month = <<>> /\ read = start

(* Gatherer.month: a page that fails makes the month unknown, whatever was    *)
(* read before it.                                                           *)
ReadsADay ==
  /\ read = "pages" /\ Len(month) < MaxDays
  /\ \E day \in Days : month' = Append(month, day)
  /\ UNCHANGED read
ReadsTheLast == read = "pages" /\ read' = "known" /\ UNCHANGED month
PageFails == read = "pages" /\ read' = "unknown" /\ month' = <<>>
BillNext == ReadsADay \/ ReadsTheLast \/ PageFails

-----------------------------------------------------------------------------
(* The kinds of charge, and which one a usage type is, its region left out.   *)
Columns == {"compute", "s3", "disk", "egress", "api", "other"}
StripRegion(u) == u.kind
Bucket_noSpot(u) == CASE StripRegion(u) = "box" -> "compute"
                      [] StripRegion(u) \in Columns -> StripRegion(u)
                      [] OTHER -> "other"
Bucket(u) == CASE StripRegion(u) \in MachineTime -> "compute"
               [] StripRegion(u) \in Columns -> StripRegion(u)
               [] OTHER -> "other"

(* rows: a day's charges by column, and the hours of its machines; a day with *)
(* neither hours nor a charge worth showing is left out and counted.          *)
Row(day) == [cols |-> [k \in Columns |-> Cost({ g \in day : Bucket(g.u) = k })],
             hours |-> Quantity({ g \in day : Bucket(g.u) = "compute" })]
RowTotal(row) == SumFunction(row.cols)
Hidden(row) == RowTotal(row) <= 1 /\ row.hours = 0
Rows(days) == { i \in DOMAIN days : ~Hidden(Row(days[i])) }     \* which days have one

Table(days) ==
  LET rows == Rows(days)
  IN [empty |-> Len(days) - Cardinality(rows),
      month |-> [k \in Columns |-> SumFunction([i \in rows |-> Row(days[i]).cols[k]])],
      hours |-> SumFunction([i \in rows |-> Row(days[i]).hours])]
MonthTotal(table) == SumFunction(table.month)

(* Summarize: the shown days, every usage over the month without its region,  *)
(* and the hours of each way to pay.                                         *)
OfKind(days, kind) == [i \in DOMAIN days |-> { g \in days[i] : StripRegion(g.u) = kind }]
Costs(days) == SumFunction([i \in DOMAIN days |-> Cost(days[i])])
Quantities(days) == SumFunction([i \in DOMAIN days |-> Quantity(days[i])])
Summary(days) ==
  [total |-> SumFunction([i \in Rows(days) |-> RowTotal(Row(days[i]))]),
   usage |-> [k \in Kinds |-> Costs(OfKind(days, k))],
   hours |-> [k \in MachineTime |-> Quantities(OfKind(days, k))]]

(* Aggregate: every usage type as AWS names it, region and all.               *)
Aggregate(days) ==
  [u \in UNION { { g.u : g \in days[i] } : i \in DOMAIN days } |->
     LET own == [i \in DOMAIN days |-> { g \in days[i] : g.u = u }]
     IN [c |-> Costs(own), q |-> Quantities(own)]]

(* costreport.Render: only charges of 0.4 cents are listed, but the total is  *)
(* of them all, and egress is taken out before the small ones are dropped.    *)
Shown(usage) == { u \in DOMAIN usage : usage[u].c > 8 }
Report(usage) ==
  LET whole == SumFunction([u \in DOMAIN usage |-> usage[u].c])
      out == SumFunction([u \in { v \in DOMAIN usage : v.kind = "egress" } |-> usage[u].q])
  IN [whole |-> whole, out |-> out, listed |-> Shown(usage),
      nothing |-> Shown(usage) = {} /\ out = 0 /\ whole = 0]

(* Project: the pace of the whole days, without the last, which is partial.   *)
Pace(days) ==
  IF Len(days) < 2 \/ MonthTotal(Table(days)) = 0 THEN {}
  ELSE {(Costs(Front(days)) * DaysInMonth) \div (Len(days) - 1)}

-----------------------------------------------------------------------------
(***************************************************************************)
(* The parts of the bill add up to one month: the table's columns and the     *)
(* days it hides come to what the report totals, and so do the usages of      *)
(* --json; every machine hour of the table is either on demand or spot; the   *)
(* report never says nothing was billed of a month that has a charge; and the  *)
(* pace of the month is never more than its dearest day, every day.           *)
(***************************************************************************)
MonthAddsUp ==
  read = "known" =>
    LET table == Table(month)
        summary == Summary(month)
        report == Report(Aggregate(month))
        hidden == SumFunction([i \in DOMAIN month \ Rows(month) |-> Cost(month[i])])
        dearest == Max({0} \cup { Cost(month[i]) : i \in DOMAIN month })
    IN /\ MonthTotal(table) + hidden = report.whole
       /\ MonthTotal(table) = summary.total
       /\ report.whole = SumFunction(summary.usage)
       /\ table.hours = SumFunction(summary.hours)
       /\ report.nothing => report.whole = 0
       /\ \A pace \in Pace(month) : pace <= dearest * DaysInMonth
=============================================================================
