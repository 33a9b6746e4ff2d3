-------------------------------- MODULE Renting --------------------------------
(***************************************************************************)
(* Renting a machine, from looking for a place to the box that is launched: *)
(* `cg sweep`, `cg quota`, `cg regions` and `cg init`, one command at a time *)
(* on one laptop.  To keep an instance small, what the first state leaves   *)
(* open is one of four: the regions, the games and disks, what AWS has of    *)
(* an earlier launch, or the key to join the tailnet with; only the last two *)
(* are given again and cut off.                                              *)
(***************************************************************************)
EXTENDS RegionScan, Launch, JoinKey

CONSTANTS Given        \* how often `cg init` is given

VARIABLES open,        \* which of the four it is
          given

rentingVars == <<scanVars, planVars, launchVars, keyVars, open, given>>

OneRegionOn == opt = [r \in Regions |-> "on"] /\ quota = [r \in Regions |-> TRUE]

RentingInit ==
  /\ open \in {"regions", "games", "launch", "key"} /\ given = 0
  /\ ScanInit /\ (open # "regions" => OneRegionOn /\ types = {Home})
  /\ plan = NoPlan /\ LaunchInit
  /\ IF open = "games"
     THEN bucket \in AnyBucket /\ archive \in AnyArchive /\ drive \in Drives
          /\ measured \in BOOLEAN /\ (measured => drive > FormatLoss) /\ apps \in AnyApps
     ELSE bucket = [known |-> TRUE, there |-> TRUE, whole |-> TRUE]
          /\ archive = [g \in Games |-> 0] /\ drive = Max(Drives)
          /\ measured = FALSE /\ apps = {}
  /\ IF open = "launch" THEN AnyWorld ELSE QuietWorld
  /\ IF open = "key" THEN KeyInit ELSE NoKeys

InitBegins ==
  /\ open \in {"games", "launch"} /\ given < IF open = "launch" THEN Given ELSE 1
  /\ At("none") \/ At("refused")
  /\ given' = given + 1
  /\ plan' = [NoPlan EXCEPT !.at = "choose"] /\ try' = NoTry
  /\ UNCHANGED <<scanVars, archive, bucket, drive, measured, apps,
                 key, group, profile, other, spot, small, said, cuts, keyVars, open>>

RentingNext ==
  \/ open = "regions" /\ ScanNext /\ UNCHANGED <<planVars, launchVars, keyVars, open, given>>
  \/ InitBegins
  \/ PlanNext /\ UNCHANGED <<scanVars, launchVars, keyVars, open, given>>
  \/ LaunchNext /\ UNCHANGED <<scanVars, archive, bucket, drive, measured, apps, keyVars, open, given>>
  \/ WorldMoves /\ UNCHANGED <<scanVars, planVars, keyVars, open, given>>
  \/ open = "launch" /\ CutOff /\ UNCHANGED <<scanVars, archive, bucket, drive, measured, apps, keyVars, open, given>>
  \/ open = "key" /\ KeyNext /\ UNCHANGED <<scanVars, planVars, launchVars, open, given>>

RentingSpec == RentingInit /\ [][RentingNext]_rentingVars

-----------------------------------------------------------------------------
(* Type correctness.                                                         *)
RentingTypeOK ==
  /\ opt \in [Regions -> {"off", "enabling", "on"}]
  /\ quota \in [Regions -> BOOLEAN] /\ asked \in [Regions -> BOOLEAN]
  /\ types \subseteq Regions /\ scan.near \subseteq Regions
  /\ archive \in [Games -> 0..MaxSize] /\ drive \in Drives /\ apps \in AnyApps
  /\ plan.extra \subseteq Games /\ plan.box \subseteq Games /\ plan.data \in 0..MaxDisk
  /\ try.n \in 1..Tries /\ try.waited \in 0..MaxWait
  /\ cuts \in 0..MaxCuts /\ given \in 0..Given
=============================================================================
