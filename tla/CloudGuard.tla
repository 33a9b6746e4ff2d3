----------------------------- MODULE CloudGuard -----------------------------
(***************************************************************************)
(* The cloud watchdog as a deployment: the function of each region, its two *)
(* rules, their targets and their permissions, the log group, and the one   *)
(* role the whole account shares.  Installing is a row of calls, any of     *)
(* which can be refused or be the last one before the laptop goes away;     *)
(* removing is another, in which every call is tried whatever became of     *)
(* the one before.  `cg init` reads all of it back and installs only when a *)
(* piece has drifted.  (internal/watchdog, internal/commands/watchdog)      *)
(***************************************************************************)
EXTENDS Naturals, FiniteSets, Sequences

CONSTANTS Regions,      \* the regions the account can be used in
          Faults,       \* what can go wrong: "call", "cut_off", "read", "adopt_read", "slow"
          MaxFaults,    \* how many times in all
          MaxEdits      \* changes from outside: by hand, in .env, a new cg

ASSUME RegionsAssumption == Regions # {} /\ IsFiniteSet(Regions) /\ "none" \notin Regions
ASSUME FaultsAssumption == Faults \subseteq {"call", "cut_off", "read", "adopt_read", "slow"}
ASSUME BoundsAssumption == MaxFaults \in Nat /\ MaxEdits \in Nat

VARIABLES fn,       \* region -> its function, or NoFunction
          rules,    \* region -> rule -> "none", "off", "on"
          targets,  \* region -> the rules that point at the function
          permits,  \* region -> the rules the function lets invoke it
          logs,     \* the regions with a log group
          role,     \* the role and what its policy allows
          env,      \* the laptop's .env, and the cg it runs
          cmd,      \* the command under way, and where it is
          told,     \* what the last command said of the region it was about
          faults, edits

guardVars == <<fn, rules, targets, permits, logs, role, env, cmd, told, faults, edits>>
cloud == <<fn, rules, targets, permits, logs, role>>

(* The schedule's name is the host's; the state rule's is that with "-state" *)
(* behind it, so the first one's ARN is a prefix of the second one's.        *)
Rules == {"cg", "cg-state"}
RuleOrder == <<"cg", "cg-state">>

NoFunction == [code |-> 0, ntfy |-> "none", expiry |-> FALSE, ready |-> FALSE]
Functions == [code : 0..2, ntfy : {"none", "url"}, expiry : BOOLEAN, ready : BOOLEAN]
Installed(r) == fn[r] # NoFunction

(* An IAM role is global, and holds one policy: the last one put.           *)
NoRole == [made |-> FALSE, region |-> "none", expiry |-> FALSE]
Role(region, expiry) == [made |-> TRUE, region |-> region, expiry |-> expiry]

Envs == [ntfy : {"absent", "off", "url"}, expiry : BOOLEAN, code : 1..2]

Idle == [kind |-> "none", region |-> "none", pc |-> "none", rule |-> 1]
Kinds == {"init", "remove"}

(* Settings: what the function is to be given.  An .env that does not name   *)
(* an ntfy address, and one that leaves it empty, both give it none.         *)
Ntfy == IF env.ntfy = "url" THEN "url" ELSE "none"
Current(r) == fn[r].code = env.code
Configured(r) == fn[r].ntfy = Ntfy /\ fn[r].expiry = env.expiry
Policy(r) == Role(r, env.expiry)

(* Wrong: the ARN without its closing quote.                                 *)
PermittedByPrefix(r, rule) == \E p \in permits[r] : p = rule \/ rule = "cg"

(* Whether the function's policy names a rule: its ARN with the quote that   *)
(* closes it.                                                                *)
Permitted(r, rule) == rule \in permits[r]

(* Drift: everything the reading round finds that is not as cg would make it *)
Drift(r) ==
  IF ~Installed(r) THEN {"no function"}
  ELSE { d \in {"code", "settings", "function"} :
           \/ d = "code" /\ ~Current(r)
           \/ d = "settings" /\ ~Configured(r)
           \/ d = "function" /\ ~fn[r].ready }
       \cup { rule \in Rules : \/ rules[r][rule] # "on"
                               \/ rule \notin targets[r]
                               \/ ~Permitted(r, rule) }
       \cup (IF role = Policy(r) THEN {} ELSE {"role policy"})
       \cup (IF r \in logs THEN {} ELSE {"no log group"})

(* Layer 3 as `cg watcher` shows it: the schedule's state, and nothing else. *)
Shown(r) == IF rules[r]["cg"] = "on" THEN "armed" ELSE "not armed"

(* What a watchdog needs to end this region's box: none of it is read from   *)
(* what cg believes.                                                         *)
Reached(r) == \A rule \in Rules :
  rules[r][rule] = "on" /\ rule \in targets[r] \cap permits[r]
AsWanted(r) == Reached(r) /\ Current(r) /\ Configured(r) /\ role = Policy(r)
Works(r) == Reached(r) /\ Installed(r) /\ fn[r].ready /\ role.made /\ role.region = r

-----------------------------------------------------------------------------
GuardInit ==
  /\ fn = [r \in Regions |-> NoFunction]
  /\ rules = [r \in Regions |-> [rule \in Rules |-> "none"]]
  /\ targets = [r \in Regions |-> {}]
  /\ permits = [r \in Regions |-> {}]
  /\ logs = {}
  /\ role = NoRole
  /\ env \in { e \in Envs : e.code = 1 /\ e.expiry /\ e.ntfy # "absent" }
  /\ cmd = Idle
  /\ told = "nothing"
  /\ faults = 0 /\ edits = 0

(* One more thing goes wrong.                                               *)
Fails(what) == what \in Faults /\ faults < MaxFaults /\ faults' = faults + 1

At(pc) == cmd.pc = pc
r_ == cmd.region
GoTo(pc) == cmd' = [cmd EXCEPT !.pc = pc]
Ends(said) == cmd' = Idle /\ told' = said
This == RuleOrder[cmd.rule]

Start(kind, r) ==
  /\ cmd = Idle
  /\ cmd' = [kind |-> kind, region |-> r, pc |-> IF kind = "remove" THEN "untarget" ELSE "adopt", rule |-> 1]
  /\ told' = "nothing"
  /\ UNCHANGED <<cloud, env, faults, edits>>

(* Wrong: the address is left where it is.                                   *)
AdoptNothing ==
  /\ At("adopt") /\ GoTo("look")
  /\ UNCHANGED <<cloud, env, told, faults, edits>>

(* Before installing, .env takes the ntfy address over from the function     *)
(* when it does not name one at all.  A function that could not be read has  *)
(* nothing to take over.                                                     *)
AdoptNtfy ==
  /\ At("adopt")
  /\ \/ /\ env' = IF env.ntfy = "absent" /\ fn[r_].ntfy = "url"
                    THEN [env EXCEPT !.ntfy = "url"] ELSE env
        /\ UNCHANGED faults
     \/ env.ntfy = "absent" /\ Fails("adopt_read") /\ UNCHANGED env
  /\ GoTo("look")
  /\ UNCHANGED <<cloud, told, edits>>

(* Ensure: a round of reads, and an install when one of them differs.  A     *)
(* read that failed differs from what is wanted; `cg watchdog install` and   *)
(* Reinstall do the same without the round.                                  *)
Look ==
  /\ At("look")
  /\ \/ Drift(r_) = {} /\ Ends("up to date") /\ UNCHANGED faults
     \/ Drift(r_) # {} /\ GoTo("role") /\ UNCHANGED <<told, faults>>
     \/ Fails("read") /\ GoTo("role") /\ UNCHANGED told
  /\ UNCHANGED <<cloud, env, edits>>

-----------------------------------------------------------------------------
(* Install.                                                                  *)
MakeRole ==
  /\ At("role")
  /\ role' = IF role.made THEN role ELSE [NoRole EXCEPT !.made = TRUE]
  /\ GoTo("policy")
  /\ UNCHANGED <<fn, rules, targets, permits, logs, env, told, faults, edits>>

PutPolicy ==
  /\ At("policy")
  /\ role' = Policy(r_)
  /\ GoTo("logs")
  /\ UNCHANGED <<fn, rules, targets, permits, logs, env, told, faults, edits>>

(* A log group that could not be made is not fatal: the next look finds it   *)
(* missing.                                                                  *)
MakeLogs ==
  /\ At("logs")
  /\ \/ logs' = logs \cup {r_} /\ UNCHANGED faults
     \/ Fails("call") /\ UNCHANGED logs
  /\ GoTo(IF Installed(r_) THEN "code" ELSE "create")
  /\ UNCHANGED <<fn, rules, targets, permits, role, env, told, edits>>

(* Lambda takes one update at a time, and refuses the next until it is done. *)
UpdateCode ==
  /\ At("code")
  /\ \/ Current(r_) /\ GoTo("settings") /\ UNCHANGED <<fn, told>>
     \/ ~Current(r_) /\ fn[r_].ready /\ UNCHANGED told
        /\ fn' = [fn EXCEPT ![r_].code = env.code, ![r_].ready = FALSE]
        /\ GoTo("wait_code")
     \/ ~Current(r_) /\ ~fn[r_].ready /\ Ends("not installed") /\ UNCHANGED fn
  /\ UNCHANGED <<rules, targets, permits, logs, role, env, faults, edits>>

UpdateSettings ==
  /\ At("settings")
  /\ \/ Configured(r_) /\ cmd' = [cmd EXCEPT !.pc = "rule", !.rule = 1] /\ UNCHANGED <<fn, told>>
     \/ ~Configured(r_) /\ fn[r_].ready /\ UNCHANGED told
        /\ fn' = [fn EXCEPT ![r_].ntfy = Ntfy, ![r_].expiry = env.expiry, ![r_].ready = FALSE]
        /\ GoTo("wait_settings")
     \/ ~Configured(r_) /\ ~fn[r_].ready /\ Ends("not installed") /\ UNCHANGED fn
  /\ UNCHANGED <<rules, targets, permits, logs, role, env, faults, edits>>

(* CreateFunction is tried twelve times over, while the role made a moment   *)
(* ago cannot be assumed yet.                                                *)
CreateFunction ==
  /\ At("create")
  /\ fn' = [fn EXCEPT ![r_] = [code |-> env.code, ntfy |-> Ntfy, expiry |-> env.expiry, ready |-> FALSE]]
  /\ GoTo("wait_settings")
  /\ UNCHANGED <<rules, targets, permits, logs, role, env, told, faults, edits>>

(* waitFunction: until the function is active, or two minutes.              *)
WaitFunction ==
  /\ cmd.pc \in {"wait_code", "wait_settings"}
  /\ \/ fn[r_].ready /\ UNCHANGED faults
     \/ ~fn[r_].ready /\ Fails("slow")
  /\ IF At("wait_code") THEN GoTo("settings") ELSE cmd' = [cmd EXCEPT !.pc = "rule", !.rule = 1]
  /\ UNCHANGED <<cloud, env, told, edits>>

(* Wrong: only a rule that is not there is put.                              *)
PutMissingRule ==
  /\ At("rule")
  /\ rules' = [rules EXCEPT ![r_][This] = IF @ = "none" THEN "on" ELSE @]
  /\ GoTo("target")
  /\ UNCHANGED <<fn, targets, permits, logs, role, env, told, faults, edits>>

PutRule ==
  /\ At("rule")
  /\ rules' = [rules EXCEPT ![r_][This] = "on"]
  /\ GoTo("target")
  /\ UNCHANGED <<fn, targets, permits, logs, role, env, told, faults, edits>>

PutTarget ==
  /\ At("target")
  /\ targets' = [targets EXCEPT ![r_] = @ \cup {This}]
  /\ GoTo("permit")
  /\ UNCHANGED <<fn, rules, permits, logs, role, env, told, faults, edits>>

(* The permission is added only when the policy lacks it.  A policy that     *)
(* could not be read has the permission taken out and put back.              *)
NextRule == IF cmd.rule < Len(RuleOrder)
              THEN cmd' = [cmd EXCEPT !.pc = "rule", !.rule = @ + 1] /\ UNCHANGED told
              ELSE Ends("armed")
AddPermission ==
  /\ At("permit")
  /\ \/ /\ permits' = IF Permitted(r_, This) THEN permits ELSE [permits EXCEPT ![r_] = @ \cup {This}]
        /\ NextRule /\ UNCHANGED faults
     \/ /\ Fails("read") /\ permits' = [permits EXCEPT ![r_] = @ \ {This}]
        /\ UNCHANGED <<cmd, told>>
  /\ UNCHANGED <<fn, rules, targets, logs, role, env, edits>>

(* A call that is refused ends an install: nothing is undone.               *)
Refused ==
  /\ cmd.pc \in {"role", "policy", "code", "settings", "create", "rule", "target", "permit"}
  /\ Fails("call") /\ Ends("not installed")
  /\ UNCHANGED <<cloud, env, edits>>

-----------------------------------------------------------------------------
(* Remove.  The schedule goes first, so nothing invokes a half-removed       *)
(* function; each call is made whatever became of the one before it.         *)
DropRoutes ==
  /\ At("untarget")
  /\ \/ targets' = [targets EXCEPT ![r_] = @ \ {This}] /\ UNCHANGED faults
     \/ Fails("call") /\ UNCHANGED targets
  /\ GoTo("unrule")
  /\ UNCHANGED <<fn, rules, permits, logs, role, env, told, edits>>

(* EventBridge keeps a rule that still has a target.                         *)
DeleteRule ==
  /\ At("unrule")
  /\ \/ /\ rules' = IF This \in targets[r_] THEN rules ELSE [rules EXCEPT ![r_][This] = "none"]
        /\ UNCHANGED faults
     \/ Fails("call") /\ UNCHANGED rules
  /\ cmd' = IF cmd.rule < Len(RuleOrder) THEN [cmd EXCEPT !.pc = "untarget", !.rule = @ + 1]
                                         ELSE [cmd EXCEPT !.pc = "unfunction"]
  /\ UNCHANGED <<fn, targets, permits, logs, role, env, told, edits>>

DeleteFunction ==
  /\ At("unfunction")
  /\ \/ /\ fn' = [fn EXCEPT ![r_] = NoFunction] /\ permits' = [permits EXCEPT ![r_] = {}]
        /\ UNCHANGED faults
     \/ Fails("call") /\ UNCHANGED <<fn, permits>>
  /\ GoTo("unlog")
  /\ UNCHANGED <<rules, targets, logs, role, env, told, edits>>

DeleteLogs ==
  /\ At("unlog")
  /\ \/ logs' = logs \ {r_} /\ UNCHANGED faults
     \/ Fails("call") /\ UNCHANGED logs
  /\ GoTo("unrole")
  /\ UNCHANGED <<fn, rules, targets, permits, role, env, told, edits>>

(* Wrong: a region that could not be asked does not use it.                  *)
UsedWhereAsked(answered) == \E r \in answered : Installed(r)

(* roleUsedElsewhere: a region that could not be asked counts as using it,   *)
(* and so does a list of regions that could not be had.                      *)
UsedElsewhere(answered) == \E r \in Regions \ {r_} : r \notin answered \/ Installed(r)
DeleteRole ==
  /\ At("unrole")
  /\ \E answered \in SUBSET (Regions \ {r_}) :
       /\ IF answered = Regions \ {r_} THEN UNCHANGED faults ELSE Fails("read")
       /\ role' = IF UsedElsewhere(answered) THEN role ELSE NoRole
  /\ Ends("removed")
  /\ UNCHANGED <<fn, rules, targets, permits, logs, env, edits>>

DeleteRoleRefused ==
  /\ At("unrole") /\ Fails("call")
  /\ role' \in {role, [role EXCEPT !.region = "none", !.expiry = FALSE]}
  /\ ~UsedElsewhere(Regions \ {r_})
  /\ Ends("removed")
  /\ UNCHANGED <<fn, rules, targets, permits, logs, env, edits>>

-----------------------------------------------------------------------------
(* The laptop stops in the middle of a command.                             *)
CutOff ==
  /\ cmd # Idle /\ Fails("cut_off")
  /\ Ends("nothing")
  /\ UNCHANGED <<cloud, env, edits>>

(* Lambda finishes an update.                                                *)
FunctionReady(r) ==
  /\ Installed(r) /\ ~fn[r].ready
  /\ fn' = [fn EXCEPT ![r].ready = TRUE]
  /\ UNCHANGED <<rules, targets, permits, logs, role, env, cmd, told, faults, edits>>

(* Somebody takes a piece away in the console, between two commands.         *)
ByHand(r) ==
  /\ cmd = Idle /\ edits < MaxEdits /\ edits' = edits + 1
  /\ \E rule \in Rules :
       \/ /\ rules[r][rule] = "on" /\ rules' = [rules EXCEPT ![r][rule] = "off"]
          /\ UNCHANGED <<fn, targets, permits, logs, role>>
       \/ /\ rule \in targets[r] /\ targets' = [targets EXCEPT ![r] = @ \ {rule}]
          /\ UNCHANGED <<fn, rules, permits, logs, role>>
       \/ /\ rule \in permits[r] /\ permits' = [permits EXCEPT ![r] = @ \ {rule}]
          /\ UNCHANGED <<fn, rules, targets, logs, role>>
       \/ /\ r \in logs /\ logs' = logs \ {r}
          /\ UNCHANGED <<fn, rules, targets, permits, role>>
       \/ /\ Installed(r) /\ fn' = [fn EXCEPT ![r] = NoFunction] /\ permits' = [permits EXCEPT ![r] = {}]
          /\ UNCHANGED <<rules, targets, logs, role>>
  /\ told' = "nothing"
  /\ UNCHANGED <<env, cmd, faults>>

(* Later: a new cg, another expiry, another address or none, a laptop whose  *)
(* .env never named one.                                                     *)
Edit ==
  /\ cmd = Idle /\ edits < MaxEdits /\ edits' = edits + 1
  /\ env' \in { e \in Envs : e.code >= env.code }
  /\ told' = "nothing"
  /\ UNCHANGED <<cloud, cmd, faults>>

Step ==
  \/ AdoptNtfy \/ Look
  \/ MakeRole \/ PutPolicy \/ MakeLogs \/ UpdateCode \/ UpdateSettings \/ CreateFunction
  \/ WaitFunction \/ PutRule \/ PutTarget \/ AddPermission \/ Refused
  \/ DropRoutes \/ DeleteRule \/ DeleteFunction \/ DeleteLogs \/ DeleteRole \/ DeleteRoleRefused

GuardNext ==
  \/ Step \/ CutOff \/ Edit
  \/ \E r \in Regions : FunctionReady(r) \/ ByHand(r) \/ \E kind \in Kinds : Start(kind, r)

(* A command that runs goes on running, and Lambda finishes its updates.     *)
GuardSpec == GuardInit /\ [][GuardNext]_guardVars
GuardFairSpec == GuardSpec /\ WF_guardVars(Step) /\ \A r \in Regions : WF_guardVars(FunctionReady(r))

-----------------------------------------------------------------------------
GuardTypeOK ==
  /\ fn \in [Regions -> Functions]
  /\ rules \in [Regions -> [Rules -> {"none", "off", "on"}]]
  /\ targets \in [Regions -> SUBSET Rules] /\ permits \in [Regions -> SUBSET Rules]
  /\ logs \subseteq Regions
  /\ role \in [made : BOOLEAN, region : Regions \cup {"none"}, expiry : BOOLEAN]
  /\ env \in Envs
  /\ cmd.kind \in Kinds \cup {"none"} /\ cmd.region \in Regions \cup {"none"} /\ cmd.rule \in 1..2
  /\ told \in {"nothing", "up to date", "armed", "not installed", "removed"}
  /\ faults \in 0..MaxFaults /\ edits \in 0..MaxEdits

Said(what, r) == cmd.region = r /\ cmd' = Idle /\ told' = what

(* "Up to date" is said of a watchdog that can end a box here: an armed      *)
(* schedule, an armed state rule, each with its own permission, a finished   *)
(* function and a policy for this region.  (Reader.Current, Ensure)          *)
UpToDateIsArmed == [][ \A r \in Regions : Said("up to date", r) => Works(r)' ]_guardVars

(* "Armed" is said of a function that runs this cg's code with the settings  *)
(* of .env, that both rules reach and whose role has this region's policy;   *)
(* only Lambda may still be busy with the last update.  (Install)            *)
ArmedIsArmed == [][ \A r \in Regions : Said("armed", r) => AsWanted(r)' ]_guardVars

(* What a command says of the watchdog it leaves behind is so.               *)
SaidIsSo == UpToDateIsArmed /\ ArmedIsArmed

(* The role is never taken from under a function of another region, asked    *)
(* or not.  (roleUsedElsewhere)                                              *)
RoleOutlivesItsUsers ==
  [][ role.made /\ ~role'.made => \A r \in Regions \ {r_} : ~Installed(r) ]_guardVars

(* No command turns notifications off because this laptop's .env happens not *)
(* to name an address: only leaving it empty does.  (adoptNtfy)              *)
NotificationsKept ==
  [][ \A r \in Regions : Installed(r) /\ Installed(r)' /\ fn[r].ntfy = "url" /\ fn'[r].ntfy = "none"
                           => env.ntfy = "off" ]_guardVars

(* One `cg init` is enough: whatever was cut off, refused, removed by hand   *)
(* or changed before it, when nothing fails in it the region's watchdog      *)
(* works, or is only waiting for Lambda.  (Ensure, Install)                  *)
Settled(r) == Installed(r) => fn[r].ready
InitRepairs ==
  \A r \in Regions :
    (cmd.kind = "init" /\ cmd.region = r /\ cmd.pc = "adopt" /\ Settled(r) /\ faults = MaxFaults)
      ~> (cmd = Idle /\ AsWanted(r))

(* A watchdog is not disarmed by a command about another region.             *)
(* definition.go: "an IAM role is GLOBAL, so a policy pinned to one region   *)
(* was revoked by the watchdog installed last in another".  The code keeps   *)
(* to that for the marks' statement only.                                    *)
OthersStayArmed ==
  [][ \A r \in Regions \ {r_} : cmd # Idle /\ Works(r) => Works(r)' ]_guardVars

(* A watchdog that is shown as armed is armed, once the command is over.     *)
(* watcher.go: "whether each is armed".                                      *)
ShownIsArmed == \A r \in Regions : cmd = Idle /\ Settled(r) /\ Shown(r) = "armed" => Works(r)
=============================================================================
