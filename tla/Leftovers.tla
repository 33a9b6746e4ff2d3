------------------------------ MODULE Leftovers ------------------------------
(***************************************************************************)
(* Leaving AWS: `cg destroy --all`, which takes away what this region has,  *)
(* and `cg aws disconnect`, which runs it, goes on to every other region,   *)
(* and then looks at the account again before it says that nothing is left. *)
(* Every delete can be refused, every read can fail, and a failure stops    *)
(* only what depends on it.  A machine is guarded by the watchdog of its    *)
(* region until it is gone.  (internal/commands/boxcmd/destroyall.go,       *)
(* internal/destroy, internal/teardown, internal/inventory,                 *)
(* internal/storage, internal/commands/awscmd)                              *)
(***************************************************************************)
EXTENDS Naturals, FiniteSets, FiniteSetsExt

CONSTANTS Regions, Home,  \* the regions of the account, and the one in use
          Bundles,        \* how many kinds of things there may be at first
          Faults,         \* what may fail: see Faulty
          MaxFaults

ASSUME RegionsAssumption == IsFiniteSet(Regions) /\ Home \in Regions
ASSUME FaultsAssumption == Faults \subseteq
  {"call", "cancel_elsewhere", "said_read", "silent_read", "silent_billing", "silent_regions"}
ASSUME BoundsAssumption == Bundles \in Nat /\ MaxFaults \in Nat

VARIABLES left,     \* the things of cg's that are in the account: <<kind, region>>
          plan,     \* what the inventory showed, which the disconnect works from
          order,      \* the command under way, and the step it is at
          gone,     \* the box of this region is confirmed gone
          failed,   \* something of this region could not be deleted
          said,     \* what the last command has printed, and how it ended
          faults

leavingVars == <<left, plan, order, gone, failed, said, faults>>

(* A machine with a spot request (of a box built when they were persistent:  *)
(* one that outlives its machine launches another), an image with the        *)
(* snapshot behind it, a watchdog with the role all of them share.           *)
Elsewhere == Regions \ {Home}
Bundle(r) == { {<<"machine", r>>}, {<<"machine", r>>, <<"request", r>>}, {<<"games", r>>},
               {<<"disk", r>>}, {<<"image", r>>, <<"snapshot", r>>},
               {<<"watchdog", r>>, <<"role", Home>>}, {<<"settings", r>>} }
Global == { {<<"box_role", Home>>}, {<<"budget", Home>>}, {<<"free", Home>>} }
AllBundles == Global \cup UNION { Bundle(r) : r \in Regions }
Things == UNION AllBundles

Billing == {"machine", "request", "games", "disk", "image", "snapshot"}
Has(kind, r) == <<kind, r>> \in left
OfKind(kinds) == { t \in left : t[1] \in kinds }

NoOrder == [kind |-> "none", pc |-> "none"]

LeavingInit ==
  /\ left \in { UNION B : B \in UNION { kSubset(n, AllBundles) : n \in 0..Bundles } }
  /\ plan = {} /\ order = NoOrder /\ gone = FALSE /\ failed = FALSE /\ said = {} /\ faults = 0

OrderAt(kind, pc) == order = [kind |-> kind, pc |-> pc]
GoTo(pc) == order' = [order EXCEPT !.pc = pc]
Says(what) == order' = NoOrder /\ said' = said \cup {what}
Faulty(what) == what \in Faults /\ faults < MaxFaults /\ faults' = faults + 1

(* Delete these: all of them, or, when calls are refused, all but some.  A   *)
(* snapshot cannot be deleted while its image is registered.                 *)
Kept(S) == { K \in SUBSET S : \A t \in K : t[1] = "image" => (<<"snapshot", t[2]>> \in S => <<"snapshot", t[2]>> \in K) }
Delete(S) ==
  \/ left' = left \ S /\ UNCHANGED faults
  \/ \E K \in Kept(S) \ {{}} : left' = left \ (S \ K) /\ Faulty("call")
AllDeleted(S) == left' \cap S = {}

-----------------------------------------------------------------------------
(* Wrong: the machines of the region in use only.                            *)
ListedHere == { t \in left : /\ t[1] \notin {"request", "box_role", "free"}
                             /\ (t[1] \in {"settings", "machine"} => t[2] = Home) }

(* Inventory.Read: what it is told there is.  The error of some reads is     *)
(* said; of others it reads as nothing there: of the watchdogs, the role, the*)
(* budget and the settings, and also of a machine in another region, of the  *)
(* saved games, and of the list of regions.  Settings are looked for where   *)
(* there are saved games.                                                    *)
Listed == { t \in left : /\ t[1] \notin {"request", "box_role", "free"}
                         /\ (t[1] = "settings" => t[2] = Home \/ Has("games", t[2])) }
SilentFree == { {t} : t \in { u \in Listed : u[1] \in {"watchdog", "role", "budget", "settings"} } }
SilentBilling ==
  { {t} : t \in { u \in Listed : u[1] = "games" \/ (u[1] = "machine" /\ u[2] # Home) } }
    \cup { { t \in Listed : t[2] # Home /\ t[1] # "games" } }
Inventory(error, seen) ==
  \/ ~error /\ seen = Listed /\ UNCHANGED faults
  \/ error /\ seen = Listed /\ Faulty("said_read")
  \/ ~error /\ (\E S \in SilentFree : seen = Listed \ S) /\ Faulty("silent_read")
  \/ ~error /\ (\E S \in SilentBilling : seen = Listed \ S) /\ Faulty("silent_billing")
Views == {Listed} \cup { Listed \ S : S \in SilentFree \cup SilentBilling }

Disconnect ==
  /\ order = NoOrder /\ order' = [kind |-> "disconnect", pc |-> "ask"] /\ said' = {}
  /\ UNCHANGED <<left, plan, gone, failed, faults>>

(* Nothing is deleted when AWS could not be asked, or unless DELETE is typed.*)
Ask ==
  /\ OrderAt("disconnect", "ask")
  /\ \E error \in BOOLEAN, seen \in Views :
       /\ Inventory(error, seen)
       /\ plan' = seen
       /\ \/ error /\ Says("not asked")
          \/ ~error /\ Says("not confirmed")
          \/ ~error /\ GoTo("box") /\ UNCHANGED said
  /\ gone' = FALSE /\ failed' = FALSE
  /\ UNCHANGED left

-----------------------------------------------------------------------------
(* cg destroy --all.                                                         *)
DestroyAll ==
  /\ order = NoOrder /\ order' = [kind |-> "destroy_all", pc |-> "box"] /\ said' = {}
  /\ gone' = FALSE /\ failed' = FALSE
  /\ UNCHANGED <<left, plan, faults>>

(* Where a command goes when destroy --all is over: it ends, with 0 or 1, but *)
(* the disconnect carries on past a failure.                                 *)
HereEnds(bad, printed) ==
  LET all == said \cup printed
  IN  IF order.kind = "disconnect" THEN GoTo("others") /\ said' = all
      ELSE order' = NoOrder /\ said' = all \cup {IF bad THEN "exit 1" ELSE "exit 0"}

(* The box of this region.  An instance whose spot request cannot be         *)
(* cancelled is not terminated: the request would launch a replacement.      *)
BoxHere == { t \in left : t[2] = Home /\ t[1] \in {"machine", "request"} }
EndBox ==
  /\ order.pc = "box"
  /\ \/ /\ left' = left \ BoxHere
        /\ gone' = TRUE /\ GoTo("images") /\ UNCHANGED <<failed, said, faults>>
     \/ /\ Faulty("call")                       \* the plan could not be read
        /\ gone' = FALSE /\ failed' = TRUE /\ UNCHANGED left /\ HereEnds(TRUE, {})
     \/ /\ Has("request", Home) /\ Faulty("call")
        /\ gone' = FALSE /\ failed' = TRUE /\ GoTo("images") /\ UNCHANGED <<left, said>>
     \/ /\ Has("machine", Home) /\ Faulty("call")   \* refused, or not seen to be gone
        /\ left' = left \ {<<"request", Home>>}
        /\ gone' = FALSE /\ failed' = TRUE /\ (GoTo("keys") \/ GoTo("images")) /\ UNCHANGED said
  /\ UNCHANGED plan

(* Images with the snapshots behind them, and the box's disks; then the      *)
(* budget, the key pair and the group.  A group still in use is only said.   *)
DeleteHere ==
  /\ order.pc = "images"
  /\ LET mine == { t \in left : t[2] = Home /\ t[1] \in {"image", "snapshot", "disk"} }
     IN  /\ Delete(mine)
         /\ failed' = (failed \/ ~AllDeleted(mine))
  /\ GoTo("keys")
  /\ UNCHANGED <<plan, gone, said>>

(* It then prints "everything deleted", whatever was refused, and goes on to  *)
(* the archive, when the box is gone.                                        *)
Deleted == {"everything deleted"}
(* Wrong: the archive goes whatever became of the box.                       *)
DeleteKeysAndGoOn ==
  /\ order.pc = "keys"
  /\ Delete(OfKind({"budget", "free"}))
  /\ GoTo("bucket") /\ said' = said \cup Deleted
  /\ UNCHANGED <<plan, gone, failed>>

DeleteKeys ==
  /\ order.pc = "keys"
  /\ Delete(OfKind({"budget", "free"}))
  /\ failed' \in { f \in BOOLEAN : /\ failed \/ ~AllDeleted(OfKind({"budget"})) => f
                                   /\ f => failed \/ ~AllDeleted(OfKind({"budget", "free"})) }
  /\ IF gone THEN GoTo("bucket") /\ said' = said \cup Deleted ELSE HereEnds(TRUE, Deleted)
  /\ UNCHANGED <<plan, gone>>

(* What guards and feeds a running box goes only once the box is gone.       *)
DeleteBucket ==
  /\ order.pc = "bucket"
  /\ Delete({<<"games", Home>>} \cap left)
  /\ failed' = (failed \/ <<"games", Home>> \in left')
  /\ GoTo("box_role")
  /\ UNCHANGED <<plan, gone, said>>
RemoveBoxRole ==
  /\ order.pc = "box_role"
  /\ Delete(OfKind({"box_role"}))
  /\ failed' = (failed \/ ~AllDeleted(OfKind({"box_role"})))
  /\ GoTo("watchdog")
  /\ UNCHANGED <<plan, gone, said>>

(* The watchdog of a region: its function, and the role when no other region *)
(* has one.  Neither failure is reported back.                               *)
Guard(r) == { t \in left : \/ t = <<"watchdog", r>>
                           \/ t[1] = "role" /\ \A o \in Regions \ {r} : ~Has("watchdog", o) }
RemoveWatchdog(r) == Delete(Guard(r))
RemoveWatchdogHere ==
  /\ order.pc = "watchdog" /\ RemoveWatchdog(Home) /\ GoTo("clean")
  /\ UNCHANGED <<plan, gone, failed, said>>

(* Wrong: only this region is looked at.                                     *)
ScannedHere == { t \in OfKind({"disk", "image", "snapshot"}) : t[2] = Home }

(* CleanEverywhere: what the scan of every region found.  A region that did  *)
(* not answer is a failure; but when AWS does not list the regions, the one  *)
(* in use is scanned and taken for all of them.                              *)
Scanned == OfKind({"disk", "image", "snapshot"})
ScansHomeOnly == Faulty("silent_regions") /\ left' = left \ { t \in Scanned : t[2] = Home }
CleanEverywhere(ok) ==
  \/ Delete(Scanned) /\ ok = AllDeleted(Scanned)
  \/ \E r \in Regions : /\ Faulty("said_read") /\ left' = left \ { t \in Scanned : t[2] # r }
                        /\ ok = FALSE
  \/ ScansHomeOnly /\ ok
CleanHere ==
  /\ order.pc = "clean"
  /\ \E ok \in BOOLEAN : CleanEverywhere(ok) /\ failed' = (failed \/ ~ok)
  /\ HereEnds(failed', {})
  /\ UNCHANGED <<plan, gone>>

-----------------------------------------------------------------------------
(* The rest of the disconnect.                                               *)
OtherWatchdogs ==
  /\ OrderAt("disconnect", "others")
  /\ LET rs == { r \in Elsewhere : <<"watchdog", r>> \in plan }
     IN  IF rs = {} THEN UNCHANGED <<left, faults>>
         ELSE Delete({ t \in left : \/ t[1] = "watchdog" /\ t[2] \in rs
                                    \/ t[1] = "role" /\ \A o \in Regions \ rs : ~Has("watchdog", o) })
  /\ GoTo("role")
  /\ UNCHANGED <<plan, gone, failed, said>>

(* A role that is still there: this region's removal takes it, with all else *)
(* of the watchdog here.                                                     *)
RoleLeft ==
  /\ OrderAt("disconnect", "role")
  /\ IF OfKind({"role"}) # {} THEN RemoveWatchdog(Home) ELSE UNCHANGED <<left, faults>>
  /\ GoTo("machines")
  /\ UNCHANGED <<plan, gone, failed, said>>

(* EndMachine: the spot request first; whether it could be cancelled is not  *)
(* asked.                                                                    *)
EndMachines ==
  /\ OrderAt("disconnect", "machines")
  /\ LET ends == { r \in Elsewhere : <<"machine", r>> \in plan }
         machines == { <<"machine", r>> : r \in ends }
         requests == { <<"request", r>> : r \in ends } \cap left
     IN  \/ left' = left \ (machines \cup requests) /\ UNCHANGED faults
         \/ machines # {} /\ Faulty("call") /\ left' = left \ requests
         \/ requests # {} /\ Faulty("cancel_elsewhere") /\ left' = left \ machines
  /\ GoTo("disks")
  /\ UNCHANGED <<plan, gone, failed, said>>

CleanAll ==
  /\ OrderAt("disconnect", "disks")
  /\ \E ok \in BOOLEAN : CleanEverywhere(ok)
  /\ GoTo("games")
  /\ UNCHANGED <<plan, gone, failed, said>>

OtherGames ==
  /\ OrderAt("disconnect", "games")
  /\ Delete({ t \in plan \cap left : t[1] = "games" /\ t[2] # Home })
  /\ GoTo("settings")
  /\ UNCHANGED <<plan, gone, failed, said>>

DeleteSettings ==
  /\ OrderAt("disconnect", "settings")
  /\ Delete({ t \in plan \cap left : t[1] = "settings" })
  /\ GoTo("look")
  /\ UNCHANGED <<plan, gone, failed, said>>

(* A look, not a hope.                                                       *)
Look ==
  /\ OrderAt("disconnect", "look")
  /\ \E error \in BOOLEAN, seen \in Views :
       /\ Inventory(error, seen)
       /\ Says(IF error \/ seen # {} THEN "still there" ELSE "disconnected")
  /\ UNCHANGED <<left, plan, gone, failed>>

Step ==
  \/ Ask \/ EndBox \/ DeleteHere \/ DeleteKeys \/ DeleteBucket \/ RemoveBoxRole
  \/ RemoveWatchdogHere \/ CleanHere \/ OtherWatchdogs \/ RoleLeft \/ EndMachines
  \/ CleanAll \/ OtherGames \/ DeleteSettings \/ Look
LeavingNext == DestroyAll \/ Disconnect \/ Step

(* A command that runs goes on.                                             *)
LeavingSpec == LeavingInit /\ [][LeavingNext]_leavingVars
LeavingFairSpec == LeavingSpec /\ WF_leavingVars(Step)

-----------------------------------------------------------------------------
LeavingTypeOK ==
  /\ left \subseteq Things /\ plan \subseteq Things
  /\ order.kind \in {"none", "disconnect", "destroy_all"}
  /\ gone \in BOOLEAN /\ failed \in BOOLEAN
  /\ said \subseteq {"not asked", "not confirmed", "everything deleted", "exit 0", "exit 1",
                     "still there", "disconnected"}
  /\ faults \in 0..MaxFaults

(* "AWS disconnected - nothing of cg is left billing": no machine, nothing   *)
(* that would launch one, no games, disk, image or snapshot in any region.   *)
DisconnectedBillsNothing == "disconnected" \in said => OfKind(Billing) = {}

(* destroy --all ends with 0 only when nothing of this region bills any more. *)
NothingBillsHere == \A t \in OfKind(Billing) : t[2] # Home
DoneLeavesNothingHere == "exit 0" \in said => NothingBillsHere

(* "everything deleted" is printed too early and whatever failed; when it is  *)
(* not so, the command has said otherwise by its end.                        *)
DeletedOrTakenBack ==
  order = NoOrder /\ "everything deleted" \in said /\ said \cap {"exit 1", "still there"} = {}
    => NothingBillsHere

(* A command ends as one that has done its work only when it has.            *)
DoneIsTrue == DisconnectedBillsNothing /\ DoneLeavesNothingHere /\ DeletedOrTakenBack

(* destroy --all shows "cg's disks, images and snapshots, in every region" as *)
(* what it deletes, and a region that would not answer is "said, never read  *)
(* as empty" (storage.go:3-4): ending with 0, it has left none anywhere.      *)
DoneLeavesNoDisk == "exit 0" \in said => Scanned = {}

(* "anything of cg's still there - billing or not - is said" (disconnect.go:  *)
(* 137), before "nothing of cg is left billing, nor anything else of cg's".  *)
AnythingLeftIsSaid == "disconnected" \in said => left = {}

(* destroy --all takes the archive, the box's role and the watchdog only     *)
(* from under a box that is gone.                                            *)
GuardedUntilGone ==
  [][ order.kind = "destroy_all" /\ Has("machine", Home)
        => \A t \in left \ left' : t[1] \notin {"games", "box_role", "watchdog", "role"} ]_leavingVars

(* A disconnect that failed can be run again: when nothing fails any more,   *)
(* the next one that is confirmed ends with nothing billing.                 *)
AgainFinishes ==
  (order.kind = "disconnect" /\ order.pc = "box" /\ faults = MaxFaults /\ plan = Listed)
     ~> ("disconnected" \in said /\ OfKind(Billing) = {})

(* The watchdog of this region is not removed by a disconnect while the box *)
(* it guards is there.  destroyall.go: "none of it goes until the box is     *)
(* confirmed gone".  In another region it goes first in any case.            *)
DisconnectKeepsGuard ==
  [][ Has("machine", Home) /\ Has("watchdog", Home) => <<"watchdog", Home>> \in left' ]_leavingVars
=============================================================================
