-------------------------------- MODULE Money --------------------------------
(***************************************************************************)
(* What cg says about money: the prices it loads, the month as billed, the    *)
(* report of `cg cost`, and the machine that `cg status` tells of.  They      *)
(* share the account and the cache directory but no step, so each behaviour   *)
(* is of one of them.  (internal/pricing, costfacts, costdaily, costreport,   *)
(* commands/cost, commands/status)                                           *)
(***************************************************************************)
EXTENDS Prices, Bill, CostReport, StatusReport

VARIABLE open    \* which of them

vars == <<open, priceVars, billVars, costVars, statusVars>>

Init ==
  \/ open = "prices" /\ PricesInit("idle") /\ BillInit("closed") /\ NoCost /\ StatusInit
  \/ open = "month" /\ PricesInit("closed") /\ BillInit("pages") /\ NoCost /\ StatusInit
  \/ open = "cost" /\ PricesInit("closed") /\ BillInit("closed") /\ CostInit /\ StatusInit
  \/ open = "elsewhere" /\ PricesInit("closed") /\ BillInit("closed") /\ NoCost /\ StatusInit
  \/ open = "status" /\ PricesInit("closed") /\ BillInit("closed") /\ NoCost /\ StatusInit

Next ==
  \/ open = "prices" /\ PricesNext /\ UNCHANGED <<open, billVars, costVars, statusVars>>
  \/ open = "month" /\ BillNext /\ UNCHANGED <<open, priceVars, costVars, statusVars>>
  \/ open = "cost" /\ CostNext /\ UNCHANGED <<open, priceVars, billVars, statusVars>>
  \/ open = "elsewhere" /\ LooksElsewhere /\ UNCHANGED <<open, priceVars, billVars, statusVars>>
  \/ open = "status" /\ StatusNext /\ UNCHANGED <<open, priceVars, billVars, costVars>>

Spec == Init /\ [][Next]_vars
=============================================================================
