-------------------------- MODULE MCBuildSupervisor --------------------------
(* A plan with the shape of provision.Plan(): two installers that share the *)
(* lock, a stage beside them that needs nothing, one that needs the first,  *)
(* and a last stage that needs what nothing else needs and reboots.  Three  *)
(* of them could run together, one more than max_parallel allows here.      *)
EXTENDS BuildSupervisor, BoxPlan

CONSTANTS base, desktop, xorg, scratch, finish, apt

MCStages  == {base, desktop, xorg, scratch, finish}
MCOrder   == <<base, scratch, desktop, xorg, finish>>
MCNeeds   == [n \in MCStages |-> CASE n = xorg   -> {base}
                                   [] n = finish -> {desktop, xorg, scratch}
                                   [] OTHER      -> {}]
MCLockOf  == [n \in MCStages |-> IF n \in {base, desktop} THEN {apt} ELSE {}]
MCRetries == [n \in MCStages |-> IF n = base THEN 1 ELSE 0]
MCFinish  == {finish}
MCNamed   == {base}
MCNone    == {}

(* The same without the two stages that take no lock, for the runs in which *)
(* a retry may be given at any moment.                                      *)
SmallStages  == {base, desktop, finish}
SmallOrder   == <<base, desktop, finish>>
SmallNeeds   == [n \in SmallStages |-> IF n = finish THEN {base, desktop} ELSE {}]
SmallLockOf  == [n \in SmallStages |-> IF n = finish THEN {} ELSE {apt}]
SmallRetries == [n \in SmallStages |-> IF n = base THEN 1 ELSE 0]
=============================================================================
