-------------------------------- MODULE Launch --------------------------------
(***************************************************************************)
(* Launching the box `cg init` planned: the image, the key pair this laptop *)
(* can log in with, the security group, and RunInstances, which AWS refuses *)
(* for reasons that pass - an instance profile it cannot see yet, the        *)
(* allowance of the machine before, still held - and for reasons that do    *)
(* not.  Another machine of the account may hold the allowance meanwhile.   *)
(* (internal/provision/{launch,launcherror,launchplain}.go, internal/sshkey) *)
(***************************************************************************)
EXTENDS GamePlan

CONSTANTS Tries,      \* how often run-instances is asked: 6
          MaxWait,    \* the rounds of 20 s it waits for an allowance: 18
          MaxCuts     \* how often the laptop may go away in the middle

ASSUME LaunchAssumption == Tries \in Nat \ {0} /\ MaxWait \in Nat /\ MaxCuts \in Nat

VARIABLES key,      \* the key pair AWS has, and the .pem here: which one, or none
          group,    \* the security group: "none", "closed", "open" (with its rule)
          profile,  \* the instance profile: "new" until AWS sees it everywhere
          other,    \* the machine before: its state, then its allowance
          spot,     \* the purchase model, of both
          small,    \* the allowance is too small whatever else there is
          try,      \* the launch: how often asked, how long waited, and what was read
          said,     \* what the report of a refused launch said
          cuts

launchVars == <<key, group, profile, other, spot, small, try, said, cuts>>

NoTry == [n |-> 1, waited |-> 0, blind |-> FALSE, uncompared |-> FALSE]
Silence == [code |-> "none", bills |-> "nothing"]

AnyWorld ==
  /\ key \in [pair : {"none", "this", "old"}, pem : {"none", "this"}]
  /\ group \in {"none", "closed", "open"} /\ profile \in {"new", "visible"}
  /\ other \in {"none", "running", "stopped", "shutting-down", "gone"}
  /\ spot \in BOOLEAN /\ small \in BOOLEAN
QuietWorld ==
  /\ key = [pair |-> "this", pem |-> "this"] /\ group = "open" /\ profile = "visible"
  /\ other = "none" /\ spot = TRUE /\ small = FALSE

LaunchInit == try = NoTry /\ said = Silence /\ cuts = 0

(* Who holds the allowance: a spot machine while it exists, any other while  *)
(* it is not stopped, and for a minute or two after it is gone.              *)
Held == other \in {"running", "shutting-down", "gone"} \/ (other = "stopped" /\ spot)

(* The machines holdersFor lists, and whether one of them will not let go.   *)
Holder == other \in {"running", "shutting-down"} \/ (other = "stopped" /\ spot)
Live == Holder /\ other # "shutting-down"

-----------------------------------------------------------------------------
(* A saved image, or Ubuntu's; without either nothing is launched.           *)
Fails == plan' = NoPlan /\ said' = [code |-> "before", bills |-> "nothing"]

FindsImage ==
  /\ At("image")
  /\ \/ Goes("key") /\ UNCHANGED said
     \/ Fails
  /\ UNCHANGED <<key, group, profile, other, spot, small, try, cuts>>

(* sshkey.Ensure: the pair is kept when the .pem here is its key, or when    *)
(* that cannot be told; else the pair is deleted, the old file kept under    *)
(* another name, and a new pair made and written down.  AWS gives a private  *)
(* key out once.                                                             *)
Matches == key.pair # "none" /\ key.pair = key.pem
EnsuresKey ==
  /\ At("key")
  /\ \/ /\ Goes("group") /\ UNCHANGED <<key, said>>
        /\ try' = [try EXCEPT !.uncompared = ~Matches]
     \/ /\ ~Matches
        /\ key' = [pair |-> "this", pem |-> "this"] /\ Goes("group")
        /\ UNCHANGED <<try, said>>
     \/ /\ ~Matches                        \* a delete, a create or a write fails
        /\ key' \in {key, [key EXCEPT !.pair = "none"], [pair |-> "none", pem |-> "none"],
                     [pair |-> "old", pem |-> "none"]}
        /\ Fails /\ UNCHANGED try
  /\ UNCHANGED <<group, profile, other, spot, small, cuts>>

(* securityGroup: found, or made; then the port is opened, also on one that  *)
(* an earlier run left without its rule.                                     *)
FindsGroup_asItIs ==
  /\ At("group")
  /\ \/ group # "none" /\ Goes("run") /\ UNCHANGED <<group, said>>
     \/ group = "none" /\ group' = "closed" /\ Goes("rule") /\ UNCHANGED said
     \/ Fails /\ UNCHANGED group
  /\ UNCHANGED <<key, profile, other, spot, small, try, cuts>>
FindsGroup ==
  /\ At("group")
  /\ \/ group # "none" /\ Goes("rule") /\ UNCHANGED <<group, said>>
     \/ group = "none" /\ group' = "closed" /\ Goes("rule") /\ UNCHANGED said
     \/ Fails /\ UNCHANGED group
  /\ UNCHANGED <<key, profile, other, spot, small, try, cuts>>

OpensPort ==
  /\ At("rule")
  /\ \/ group' = "open" /\ Goes("run") /\ UNCHANGED said
     \/ group # "open" /\ Fails /\ UNCHANGED group
  /\ UNCHANGED <<key, profile, other, spot, small, try, cuts>>

-----------------------------------------------------------------------------
(* A launch given up, and then its report: who holds the allowance is read   *)
(* once more, and nothing bills unless a machine is seen that does.          *)
GivesUp(code, blind) ==
  /\ plan' = [plan EXCEPT !.at = "report"]
  /\ said' = [Silence EXCEPT !.code = code]
  /\ try' = [try EXCEPT !.blind = blind]

Reports ==
  /\ At("report")
  /\ \E read \in BOOLEAN :
       /\ said' = [said EXCEPT !.bills = IF said.code = "allowance" /\ read /\ Live
                                       THEN "another" ELSE "nothing"]
       /\ try' = [try EXCEPT !.blind = ~read]
  /\ Goes("refused")
  /\ UNCHANGED <<key, group, profile, other, spot, small, cuts>>

Launched == plan' = [plan EXCEPT !.at = "launched"]

(* RunInstances: the box is there.                                           *)
Launches ==
  /\ At("run") /\ profile = "visible" /\ ~Held /\ ~small /\ key.pair # "none"
  /\ Launched
  /\ UNCHANGED <<key, group, profile, other, spot, small, try, said, cuts>>

(* The profile is not visible yet: five seconds, and again, six times.       *)
ProfileUnseen ==
  /\ At("run") /\ profile = "new"
  /\ IF try.n < Tries
     THEN try' = [try EXCEPT !.n = @ + 1] /\ UNCHANGED <<plan, said>>
     ELSE GivesUp("profile", FALSE)
  /\ UNCHANGED <<key, group, profile, other, spot, small, cuts>>

(* The allowance is held.  Waited for, six minutes at most, while no machine *)
(* that will not let go is seen; a wait is not one of the six tries.         *)
NoAllowance_counted ==
  /\ At("run") /\ (Held \/ small)
  /\ \E read \in BOOLEAN :
       IF try.waited < MaxWait /\ try.n < Tries /\ read /\ ~Live
       THEN try' = [try EXCEPT !.waited = @ + 1, !.n = @ + 1] /\ UNCHANGED <<plan, said>>
       ELSE GivesUp("allowance", ~read)
  /\ UNCHANGED <<key, group, profile, other, spot, small, cuts>>
NoAllowance ==
  /\ At("run") /\ (Held \/ small)
  /\ \E read \in BOOLEAN :
       IF try.waited < MaxWait /\ read /\ ~Live
       THEN try' = [try EXCEPT !.waited = @ + 1] /\ UNCHANGED <<plan, said>>
       ELSE GivesUp("allowance", ~read)
  /\ UNCHANGED <<key, group, profile, other, spot, small, cuts>>

(* Anything else AWS says - no capacity, no permission - ends it at once.    *)
RefusedOtherwise ==
  /\ At("run") /\ GivesUp("other", FALSE)
  /\ UNCHANGED <<key, group, profile, other, spot, small, cuts>>

-----------------------------------------------------------------------------
(* AWS: the profile is seen, the other machine goes, its allowance follows;  *)
(* and its owner may stop or delete it.                                      *)
WorldMoves ==
  /\ \/ profile = "new" /\ profile' = "visible" /\ UNCHANGED other
     \/ /\ other' \in CASE other = "running" -> {"stopped", "shutting-down"}
                        [] other = "stopped" -> {"shutting-down"}
                        [] other = "shutting-down" -> {"gone"}
                        [] other = "gone" -> {"none"}
                        [] OTHER -> {}
        /\ UNCHANGED profile
  /\ UNCHANGED <<key, group, spot, small, try, said, cuts>>

(* The laptop goes away in the middle: what AWS was asked for stays.  Between*)
(* making a pair and writing it down, the private key is lost.               *)
CutOff ==
  /\ plan.at # "none" /\ cuts < MaxCuts
  /\ cuts' = cuts + 1 /\ plan' = NoPlan /\ try' = NoTry
  /\ IF At("key") /\ ~Matches
     THEN key' \in {key, [key EXCEPT !.pair = "none"], [pair |-> "none", pem |-> "none"],
                   [pair |-> "old", pem |-> "none"]}
     ELSE UNCHANGED key
  /\ UNCHANGED <<group, profile, other, spot, small, said>>

LaunchNext ==
  \/ FindsImage \/ EnsuresKey \/ FindsGroup \/ OpensPort
  \/ Launches \/ ProfileUnseen \/ NoAllowance \/ RefusedOtherwise \/ Reports

-----------------------------------------------------------------------------
(* A box that is launched can be reached, whatever an earlier run that was   *)
(* cut off left behind: its group lets Tailscale in, and its key is the one  *)
(* here unless the two could not be compared.  launch.go "A group left by an *)
(* earlier run that died ... has no rule"; sshkey.go "Ensure leaves a key    *)
(* pair this laptop can log in with".                                        *)
LaunchedIsReachable ==
  At("launched") => group = "open" /\ (Matches \/ try.uncompared)

(* A launch is given up only for what does not pass by itself: a machine that*)
(* will not let go of the allowance, one that could not be looked for, an    *)
(* allowance that six minutes did not free, a profile unseen six times.  And *)
(* the report says nothing bills only when nothing was seen to.  launch.go   *)
(* "a rebuild straight after a destroy is refused for a reason that fixes    *)
(* itself. Wait it out".                                                     *)
RefusedForAReason ==
  [][ /\ At("run") /\ plan'.at = "report" =>
           /\ said'.code = "profile" => try.n = Tries
           /\ said'.code = "allowance" => Live \/ try'.blind \/ try.waited = MaxWait
      /\ At("report") /\ plan'.at = "refused" =>
           (said'.bills = "another" <=> said.code = "allowance" /\ Live /\ ~try'.blind) ]_<<plan, try, said>>
=============================================================================
