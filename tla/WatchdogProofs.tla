----------------------------- MODULE WatchdogProofs -----------------------------
(***************************************************************************)
(* The watchdogs.  What `cg init` says of the cloud watchdog it leaves behind*)
(* is so, for any number of regions that share the role, any failures and any*)
(* changes from outside: an install that gets to its end has done every part *)
(* of it.  And neither watchdog ends a box without the reason its code gives,*)
(* and a box that ends with games not in the archive has said so: for any    *)
(* grace and limits, any number of starts and any passes that fail.          *)
(***************************************************************************)
EXTENDS CloudGuard, IdleStop, TLAPS

Installing == {"adopt", "look", "role", "policy", "logs", "code", "wait_code", "create",
               "settings", "wait_settings", "rule", "target", "permit"}
Removing == {"untarget", "unrule", "unfunction", "unlog", "unrole"}

AfterPolicy   == {"logs", "code", "wait_code", "create", "settings", "wait_settings", "rule", "target", "permit"}
AfterCode     == {"settings", "wait_code", "wait_settings", "rule", "target", "permit"}
AfterSettings == {"wait_settings", "rule", "target", "permit"}
InRules       == {"rule", "target", "permit"}

Commands == [kind : Kinds \cup {"none"}, region : Regions \cup {"none"},
             pc : Installing \cup Removing \cup {"none"}, rule : 1..2]

Types ==
  /\ fn \in [Regions -> Functions]
  /\ rules \in [Regions -> [Rules -> {"none", "off", "on"}]]
  /\ targets \in [Regions -> SUBSET Rules] /\ permits \in [Regions -> SUBSET Rules]
  /\ env \in Envs
  /\ cmd \in Commands
  /\ cmd # Idle => cmd.region \in Regions /\ cmd.pc # "none"

\* The rule an install is at, and the one it has done before.
RoutesSoFar ==
  /\ cmd.rule = 2 => rules[r_]["cg"] = "on" /\ "cg" \in targets[r_] /\ "cg" \in permits[r_]
  /\ cmd.pc # "rule" => rules[r_][This] = "on"
  /\ cmd.pc = "permit" => This \in targets[r_]

\* What an install has done stays done until it ends.
DoneSoFar ==
  /\ cmd.pc \in AfterPolicy   => role = Policy(r_)
  /\ cmd.pc \in AfterCode     => Current(r_)
  /\ cmd.pc \in AfterSettings => Configured(r_)
  /\ cmd.pc \in InRules       => RoutesSoFar

GInv == Types /\ DoneSoFar

-----------------------------------------------------------------------------
LEMMA RuleAt ==
  ASSUME cmd.rule \in 1..2
  PROVE  /\ This \in Rules
         /\ This = IF cmd.rule = 1 THEN "cg" ELSE "cg-state"
         /\ Len(RuleOrder) = 2
BY DEF This, RuleOrder, Rules

\* Between two commands nothing is claimed.
LEMMA Quiet ==
  ASSUME Types', cmd'.pc \notin AfterPolicy
  PROVE  GInv'
BY DEF GInv, DoneSoFar, AfterPolicy, AfterCode, AfterSettings, InRules

LEMMA IdleCommand == Idle \in Commands /\ Idle.pc = "none"
BY DEF Idle, Commands

LEMMA GInvInit == GuardInit => GInv
<1>1. SUFFICES ASSUME GuardInit PROVE GInv
  OBVIOUS
<1>2. NoFunction \in Functions
  BY DEF NoFunction, Functions
<1>3. Types
  <2>1. fn \in [Regions -> Functions] /\ env \in Envs
    BY <1>1, <1>2 DEF GuardInit
  <2>2. /\ rules \in [Regions -> [Rules -> {"none", "off", "on"}]]
        /\ targets \in [Regions -> SUBSET Rules] /\ permits \in [Regions -> SUBSET Rules]
    BY <1>1 DEF GuardInit
  <2>3. cmd = Idle /\ cmd \in Commands
    BY <1>1, IdleCommand DEF GuardInit
  <2>4. QED BY <2>1, <2>2, <2>3 DEF Types
<1>4. cmd.pc = "none"
  BY <1>1, IdleCommand DEF GuardInit
<1>5. QED BY <1>3, <1>4 DEF GInv, DoneSoFar, AfterPolicy, AfterCode, AfterSettings, InRules

\* A command under way is about a region.
LEMMA Running ==
  ASSUME Types, cmd.pc # "none"
  PROVE  /\ r_ \in Regions /\ cmd # Idle /\ cmd.rule \in 1..2
         /\ fn[r_] \in Functions
BY IdleCommand DEF Types, r_, Commands

LEMMA Numbers == 1 \in 1..2 /\ 2 \in 1..2 /\ "rule" \in Installing /\ {"untarget", "unfunction"} \subseteq Removing
BY DEF Installing, Removing

\* An install that moves on stays the install it was.
LEMMA Moves ==
  ASSUME Types, cmd.pc # "none", NEW pc \in Installing \cup Removing, NEW rule \in 1..2,
         cmd' = [cmd EXCEPT !.pc = pc, !.rule = rule]
  PROVE  /\ cmd' \in Commands /\ cmd'.region \in Regions /\ cmd'.pc = pc /\ cmd'.rule = rule
         /\ cmd'.pc # "none" /\ r_' = r_
BY IdleCommand DEF Types, r_, Commands, Installing, Removing

LEMMA GoesTo ==
  ASSUME Types, cmd.pc # "none", NEW pc \in Installing \cup Removing, GoTo(pc)
  PROVE  /\ cmd' \in Commands /\ cmd'.region \in Regions /\ cmd'.pc = pc /\ cmd'.rule = cmd.rule
         /\ cmd'.pc # "none" /\ r_' = r_
BY IdleCommand DEF Types, r_, Commands, Installing, Removing, GoTo

\* A command that ends leaves what it did, whatever that was.
LEMMA EndsWell ==
  ASSUME Types, NEW what, Ends(what),
         fn' \in [Regions -> Functions],
         rules' \in [Regions -> [Rules -> {"none", "off", "on"}]],
         targets' \in [Regions -> SUBSET Rules], permits' \in [Regions -> SUBSET Rules],
         env' = env
  PROVE  GInv'
<1>1. cmd' = Idle /\ cmd' \in Commands /\ cmd'.pc = "none"
  BY IdleCommand DEF Ends
<1>2. Types'
  BY <1>1 DEF Types
<1>3. QED BY <1>1, <1>2, Quiet DEF AfterPolicy
-----------------------------------------------------------------------------
(* The steps of an install, one lemma each for those that do a part of it.   *)
LEMMA AdoptStep == GInv /\ AdoptNtfy => GInv'
<1>1. SUFFICES ASSUME GInv, AdoptNtfy PROVE GInv'
  OBVIOUS
<1>2. cmd' \in Commands /\ cmd'.region \in Regions /\ cmd'.pc = "look"
  BY <1>1, GoesTo DEF GInv, AdoptNtfy, At, Installing
<1>3. env' \in Envs
  BY <1>1 DEF GInv, Types, AdoptNtfy, Envs
<1>4. Types'
  BY <1>1, <1>2, <1>3 DEF GInv, Types, AdoptNtfy, cloud
<1>5. QED BY <1>2, <1>4, Quiet DEF AfterPolicy

LEMMA LookStep == GInv /\ Look => GInv'
<1>1. SUFFICES ASSUME GInv, Look PROVE GInv'
  OBVIOUS
<1>2. Types /\ cmd.pc = "look" /\ UNCHANGED <<fn, rules, targets, permits, env>>
  BY <1>1 DEF GInv, Look, At, cloud
<1>3. CASE Ends("up to date")
  BY <1>2, <1>3, EndsWell DEF Types
<1>4. CASE GoTo("role")
  <2>1. cmd' \in Commands /\ cmd'.region \in Regions /\ cmd'.pc = "role"
    BY <1>2, <1>4, GoesTo DEF Installing
  <2>2. Types'
    BY <1>2, <2>1 DEF Types
  <2>3. QED BY <2>1, <2>2, Quiet DEF AfterPolicy
<1>5. QED BY <1>1, <1>3, <1>4 DEF Look

LEMMA MakeRoleStep == GInv /\ MakeRole => GInv'
<1>1. SUFFICES ASSUME GInv, MakeRole PROVE GInv'
  OBVIOUS
<1>2. cmd' \in Commands /\ cmd'.region \in Regions /\ cmd'.pc = "policy"
  BY <1>1, GoesTo DEF GInv, MakeRole, At, Installing
<1>3. Types'
  BY <1>1, <1>2 DEF GInv, Types, MakeRole
<1>4. QED BY <1>2, <1>3, Quiet DEF AfterPolicy

LEMMA PutPolicyStep == GInv /\ PutPolicy => GInv'
<1>1. SUFFICES ASSUME GInv, PutPolicy PROVE GInv'
  OBVIOUS
<1>2. cmd' \in Commands /\ cmd'.region \in Regions /\ cmd'.pc = "logs" /\ r_' = r_
  BY <1>1, GoesTo DEF GInv, PutPolicy, At, Installing
<1>3. Types'
  BY <1>1, <1>2 DEF GInv, Types, PutPolicy
<1>4. role' = Policy(r_)'
  BY <1>1, <1>2 DEF PutPolicy, Policy
<1>5. QED BY <1>2, <1>3, <1>4 DEF GInv, DoneSoFar, AfterPolicy, AfterCode, AfterSettings, InRules

LEMMA MakeLogsStep == GInv /\ MakeLogs => GInv'
<1>1. SUFFICES ASSUME GInv, MakeLogs PROVE GInv'
  OBVIOUS
<1>2. cmd' \in Commands /\ cmd'.region \in Regions /\ cmd'.pc \in {"code", "create"} /\ r_' = r_
  BY <1>1, GoesTo DEF GInv, MakeLogs, At, Installing
<1>3. Types'
  BY <1>1, <1>2 DEF GInv, Types, MakeLogs
<1>4. role' = Policy(r_)'
  BY <1>1, <1>2 DEF GInv, DoneSoFar, AfterPolicy, MakeLogs, At, Policy
<1>5. QED BY <1>2, <1>3, <1>4 DEF GInv, DoneSoFar, AfterPolicy, AfterCode, AfterSettings, InRules

LEMMA UpdateCodeStep == GInv /\ UpdateCode => GInv'
<1>1. SUFFICES ASSUME GInv, UpdateCode PROVE GInv'
  OBVIOUS
<1>2. /\ Types /\ cmd.pc = "code" /\ role = Policy(r_)
      /\ UNCHANGED <<rules, targets, permits, role, env>>
  BY <1>1 DEF GInv, DoneSoFar, AfterPolicy, UpdateCode, At
<1>3. r_ \in Regions /\ fn[r_] \in Functions /\ env.code \in 0..2
  BY <1>2, Running DEF Types, Envs
<1>4. CASE Current(r_) /\ GoTo("settings") /\ UNCHANGED <<fn, told>>
  <2>1. cmd' \in Commands /\ cmd'.region \in Regions /\ cmd'.pc = "settings" /\ r_' = r_
    BY <1>2, <1>4, GoesTo DEF Installing
  <2>2. Types'
    BY <1>2, <1>4, <2>1 DEF Types
  <2>3. role' = Policy(r_)' /\ Current(r_)'
    BY <1>2, <1>4, <2>1 DEF Policy, Current
  <2>4. QED BY <2>1, <2>2, <2>3 DEF GInv, DoneSoFar, AfterPolicy, AfterCode, AfterSettings, InRules
<1>5. CASE /\ fn' = [fn EXCEPT ![r_].code = env.code, ![r_].ready = FALSE]
           /\ GoTo("wait_code")
  <2>1. cmd' \in Commands /\ cmd'.region \in Regions /\ cmd'.pc = "wait_code" /\ r_' = r_
    BY <1>2, <1>5, GoesTo DEF Installing
  <2>2. fn' \in [Regions -> Functions] /\ fn'[r_].code = env.code
    BY <1>2, <1>3, <1>5 DEF Types, Functions
  <2>3. Types'
    BY <1>2, <2>1, <2>2 DEF Types
  <2>4. role' = Policy(r_)' /\ Current(r_)'
    BY <1>2, <2>1, <2>2 DEF Policy, Current
  <2>5. QED BY <2>1, <2>3, <2>4 DEF GInv, DoneSoFar, AfterPolicy, AfterCode, AfterSettings, InRules
<1>6. CASE Ends("not installed") /\ UNCHANGED fn
  BY <1>2, <1>6, EndsWell DEF Types
<1>7. QED BY <1>1, <1>4, <1>5, <1>6 DEF UpdateCode

\* An install that comes to the rules has everything else behind it.
LEMMA ToRules ==
  ASSUME Types, cmd.pc # "none", cmd' = [cmd EXCEPT !.pc = "rule", !.rule = 1],
         Types', role' = Policy(r_)', Current(r_)', Configured(r_)'
  PROVE  GInv'
<1>1. cmd'.pc = "rule" /\ cmd'.rule = 1
  BY Moves, Numbers
<1>2. QED BY <1>1 DEF GInv, DoneSoFar, RoutesSoFar, AfterPolicy, AfterCode, AfterSettings, InRules

LEMMA UpdateSettingsStep == GInv /\ UpdateSettings => GInv'
<1>1. SUFFICES ASSUME GInv, UpdateSettings PROVE GInv'
  OBVIOUS
<1>2. /\ Types /\ cmd.pc = "settings" /\ role = Policy(r_) /\ Current(r_)
      /\ UNCHANGED <<rules, targets, permits, role, env>>
  BY <1>1 DEF GInv, DoneSoFar, AfterPolicy, AfterCode, UpdateSettings, At
<1>3. r_ \in Regions /\ fn[r_] \in Functions /\ env.expiry \in BOOLEAN /\ Ntfy \in {"none", "url"}
  BY <1>2, Running DEF Types, Envs, Ntfy
<1>4. CASE Configured(r_) /\ cmd' = [cmd EXCEPT !.pc = "rule", !.rule = 1] /\ UNCHANGED fn
  <2>1. cmd' \in Commands /\ cmd'.region \in Regions /\ cmd'.pc # "none" /\ r_' = r_
    BY <1>2, <1>4, Moves, Numbers
  <2>2. Types'
    BY <1>2, <1>4, <2>1 DEF Types
  <2>3. role' = Policy(r_)' /\ Current(r_)' /\ Configured(r_)'
    BY <1>2, <1>4, <2>1 DEF Policy, Current, Configured, Ntfy
  <2>4. QED BY <1>2, <1>4, <2>2, <2>3, ToRules
<1>5. CASE /\ fn' = [fn EXCEPT ![r_].ntfy = Ntfy, ![r_].expiry = env.expiry, ![r_].ready = FALSE]
           /\ GoTo("wait_settings")
  <2>1. cmd' \in Commands /\ cmd'.region \in Regions /\ cmd'.pc = "wait_settings" /\ r_' = r_
    BY <1>2, <1>5, GoesTo DEF Installing
  <2>2. fn' \in [Regions -> Functions]
    BY <1>2, <1>3, <1>5 DEF Types, Functions
  <2>3. fn'[r_].ntfy = Ntfy /\ fn'[r_].expiry = env.expiry /\ fn'[r_].code = fn[r_].code
    BY <1>2, <1>3, <1>5 DEF Types, Functions
  <2>4. Types'
    BY <1>2, <2>1, <2>2 DEF Types
  <2>5. role' = Policy(r_)' /\ Current(r_)' /\ Configured(r_)'
    BY <1>2, <2>1, <2>3 DEF Policy, Current, Configured, Ntfy
  <2>6. QED BY <2>1, <2>4, <2>5 DEF GInv, DoneSoFar, AfterPolicy, AfterCode, AfterSettings, InRules
<1>6. CASE Ends("not installed") /\ UNCHANGED fn
  BY <1>2, <1>6, EndsWell DEF Types
<1>7. QED BY <1>1, <1>4, <1>5, <1>6 DEF UpdateSettings

LEMMA CreateFunctionStep == GInv /\ CreateFunction => GInv'
<1>1. SUFFICES ASSUME GInv, CreateFunction PROVE GInv'
  OBVIOUS
<1>2. /\ Types /\ cmd.pc = "create" /\ UNCHANGED <<rules, targets, permits, role, env>>
      /\ fn' = [fn EXCEPT ![r_] = [code |-> env.code, ntfy |-> Ntfy, expiry |-> env.expiry, ready |-> FALSE]]
      /\ GoTo("wait_settings")
  BY <1>1 DEF GInv, CreateFunction, At
<1>3. r_ \in Regions /\ env.code \in 0..2 /\ env.expiry \in BOOLEAN /\ Ntfy \in {"none", "url"}
  BY <1>2, Running DEF Types, Envs, Ntfy
<1>4. cmd' \in Commands /\ cmd'.region \in Regions /\ cmd'.pc = "wait_settings" /\ r_' = r_
  BY <1>2, GoesTo DEF Installing
<1>5. fn' \in [Regions -> Functions]
  BY <1>2, <1>3 DEF Types, Functions
<1>6. fn'[r_].code = env.code /\ fn'[r_].ntfy = Ntfy /\ fn'[r_].expiry = env.expiry
  BY <1>2, <1>3 DEF Types
<1>7. Types'
  BY <1>2, <1>4, <1>5 DEF Types
<1>8. QED
  <2>1. Current(r_)' /\ Configured(r_)'
    BY <1>2, <1>4, <1>6 DEF Current, Configured, Ntfy
  <2>2. role = Policy(r_)
    BY <1>1, <1>2 DEF GInv, DoneSoFar, AfterPolicy
  <2>3. role' = Policy(r_)'
    BY <1>2, <1>4, <2>2 DEF Policy
  <2>4. QED BY <1>4, <1>7, <2>1, <2>3 DEF GInv, DoneSoFar, AfterPolicy, AfterCode, AfterSettings, InRules

LEMMA WaitFunctionStep == GInv /\ WaitFunction => GInv'
<1>1. SUFFICES ASSUME GInv, WaitFunction PROVE GInv'
  OBVIOUS
<1>2. /\ Types /\ cmd.pc \in {"wait_code", "wait_settings"}
      /\ UNCHANGED <<fn, rules, targets, permits, role, env>>
      /\ role = Policy(r_) /\ Current(r_) /\ (cmd.pc = "wait_settings" => Configured(r_))
  BY <1>1 DEF GInv, DoneSoFar, AfterPolicy, AfterCode, AfterSettings, WaitFunction, cloud
<1>3. CASE cmd.pc = "wait_code"
  <2>1. cmd' \in Commands /\ cmd'.region \in Regions /\ cmd'.pc = "settings" /\ r_' = r_
    BY <1>1, <1>2, <1>3, GoesTo DEF WaitFunction, At, Installing
  <2>2. Types'
    BY <1>2, <2>1 DEF Types
  <2>3. role' = Policy(r_)' /\ Current(r_)'
    BY <1>2, <2>1 DEF Policy, Current
  <2>4. QED BY <2>1, <2>2, <2>3 DEF GInv, DoneSoFar, AfterPolicy, AfterCode, AfterSettings, InRules
<1>4. CASE cmd.pc = "wait_settings"
  <2>1. cmd' = [cmd EXCEPT !.pc = "rule", !.rule = 1]
    BY <1>1, <1>4 DEF WaitFunction, At
  <2>2. cmd' \in Commands /\ cmd'.region \in Regions /\ cmd'.pc # "none" /\ r_' = r_
    BY <1>2, <1>4, <2>1, Moves, Numbers
  <2>3. Types'
    BY <1>2, <2>2 DEF Types
  <2>4. role' = Policy(r_)' /\ Current(r_)' /\ Configured(r_)'
    BY <1>2, <1>4, <2>2 DEF Policy, Current, Configured, Ntfy
  <2>5. QED BY <1>2, <2>1, <2>3, <2>4, ToRules
<1>5. QED BY <1>2, <1>3, <1>4

\* At the rules, all that came before them is done.
LEMMA AtRules ==
  ASSUME GInv, cmd.pc \in InRules
  PROVE  /\ Types /\ role = Policy(r_) /\ Current(r_) /\ Configured(r_) /\ RoutesSoFar
         /\ r_ \in Regions /\ cmd.rule \in 1..2 /\ cmd.pc # "none"
         /\ This \in Rules /\ (This = IF cmd.rule = 1 THEN "cg" ELSE "cg-state")
<1>1. cmd.pc # "none" /\ cmd.pc \in AfterPolicy /\ cmd.pc \in AfterCode /\ cmd.pc \in AfterSettings
  BY DEF InRules, AfterPolicy, AfterCode, AfterSettings
<1>2. Types /\ role = Policy(r_) /\ Current(r_) /\ Configured(r_) /\ RoutesSoFar
  BY <1>1 DEF GInv, DoneSoFar
<1>3. r_ \in Regions /\ cmd.rule \in 1..2
  BY <1>1, <1>2, Running
<1>4. QED BY <1>1, <1>2, <1>3, RuleAt

LEMMA PutRuleStep == GInv /\ PutRule => GInv'
<1>1. SUFFICES ASSUME GInv, PutRule PROVE GInv'
  OBVIOUS
<1>2. /\ cmd.pc = "rule" /\ rules' = [rules EXCEPT ![r_][This] = "on"] /\ GoTo("target")
      /\ UNCHANGED <<fn, targets, permits, role, env>>
  BY <1>1 DEF PutRule, At
<1>3. /\ Types /\ role = Policy(r_) /\ Current(r_) /\ Configured(r_) /\ RoutesSoFar
      /\ r_ \in Regions /\ cmd.rule \in 1..2
      /\ This \in Rules /\ (This = IF cmd.rule = 1 THEN "cg" ELSE "cg-state")
  BY <1>1, <1>2, AtRules DEF InRules
<1>4. /\ cmd' \in Commands /\ cmd'.region \in Regions /\ cmd'.pc = "target" /\ cmd'.rule = cmd.rule
      /\ r_' = r_ /\ This' = This
  BY <1>2, <1>3, GoesTo DEF Installing, This
<1>5. rules' \in [Regions -> [Rules -> {"none", "off", "on"}]]
  BY <1>2, <1>3 DEF Types
<1>6. rules'[r_][This] = "on" /\ (rules[r_]["cg"] = "on" => rules'[r_]["cg"] = "on")
  BY <1>2, <1>3 DEF Types, Rules
<1>7. Types'
  BY <1>2, <1>3, <1>4, <1>5 DEF Types
<1>8. role' = Policy(r_)' /\ Current(r_)' /\ Configured(r_)'
  BY <1>2, <1>3, <1>4 DEF Policy, Current, Configured, Ntfy
<1>9. RoutesSoFar'
  BY <1>2, <1>3, <1>4, <1>6 DEF RoutesSoFar
<1>10. QED BY <1>4, <1>7, <1>8, <1>9 DEF GInv, DoneSoFar

LEMMA PutTargetStep == GInv /\ PutTarget => GInv'
<1>1. SUFFICES ASSUME GInv, PutTarget PROVE GInv'
  OBVIOUS
<1>2. /\ cmd.pc = "target" /\ targets' = [targets EXCEPT ![r_] = @ \cup {This}] /\ GoTo("permit")
      /\ UNCHANGED <<fn, rules, permits, role, env>>
  BY <1>1 DEF PutTarget, At
<1>3. /\ Types /\ role = Policy(r_) /\ Current(r_) /\ Configured(r_) /\ RoutesSoFar
      /\ r_ \in Regions /\ cmd.rule \in 1..2
      /\ This \in Rules /\ (This = IF cmd.rule = 1 THEN "cg" ELSE "cg-state")
  BY <1>1, <1>2, AtRules DEF InRules
<1>4. /\ cmd' \in Commands /\ cmd'.region \in Regions /\ cmd'.pc = "permit" /\ cmd'.rule = cmd.rule
      /\ r_' = r_ /\ This' = This
  BY <1>2, <1>3, GoesTo DEF Installing, This
<1>5. targets' \in [Regions -> SUBSET Rules]
  BY <1>2, <1>3 DEF Types
<1>6. This \in targets'[r_] /\ ("cg" \in targets[r_] => "cg" \in targets'[r_])
  BY <1>2, <1>3 DEF Types
<1>7. Types'
  BY <1>2, <1>3, <1>4, <1>5 DEF Types
<1>8. role' = Policy(r_)' /\ Current(r_)' /\ Configured(r_)'
  BY <1>2, <1>3, <1>4 DEF Policy, Current, Configured, Ntfy
<1>9. RoutesSoFar'
  BY <1>2, <1>3, <1>4, <1>6 DEF RoutesSoFar
<1>10. QED BY <1>4, <1>7, <1>8, <1>9 DEF GInv, DoneSoFar

LEMMA AddPermissionStep == GInv /\ AddPermission => GInv'
<1>1. SUFFICES ASSUME GInv, AddPermission PROVE GInv'
  OBVIOUS
<1>2. cmd.pc = "permit" /\ UNCHANGED <<fn, rules, targets, role, env>>
  BY <1>1 DEF AddPermission, At
<1>3. /\ Types /\ role = Policy(r_) /\ Current(r_) /\ Configured(r_) /\ RoutesSoFar
      /\ r_ \in Regions /\ cmd.rule \in 1..2
      /\ This \in Rules /\ (This = IF cmd.rule = 1 THEN "cg" ELSE "cg-state")
  BY <1>1, <1>2, AtRules DEF InRules
<1>4. CASE /\ permits' = IF Permitted(r_, This) THEN permits ELSE [permits EXCEPT ![r_] = @ \cup {This}]
           /\ NextRule
  <2>1. permits' \in [Regions -> SUBSET Rules] /\ This \in permits'[r_]
    BY <1>3, <1>4 DEF Types, Permitted
  <2>2. CASE cmd.rule = 1
    <3>1. cmd' = [cmd EXCEPT !.pc = "rule", !.rule = 2]
      BY SMTT(20), <1>4, <2>2, RuleAt, <1>3 DEF NextRule
    <3>2. /\ cmd' \in Commands /\ cmd'.region \in Regions /\ cmd'.pc = "rule" /\ cmd'.rule = 2 /\ r_' = r_
      BY <1>2, <1>3, <3>1, Moves, Numbers
    <3>3. Types'
      BY <1>2, <1>3, <2>1, <3>2 DEF Types
    <3>4. role' = Policy(r_)' /\ Current(r_)' /\ Configured(r_)'
      BY <1>2, <1>3, <3>2 DEF Policy, Current, Configured, Ntfy
    <3>5. RoutesSoFar'
      BY <1>2, <1>3, <2>1, <2>2, <3>2 DEF RoutesSoFar
    <3>6. QED BY <3>2, <3>3, <3>4, <3>5 DEF GInv, DoneSoFar
  <2>3. CASE cmd.rule = 2
    <3>1. Ends("armed")
      <4>1. Len(RuleOrder) = 2
        BY <1>3, RuleAt
      <4>2. ~(cmd.rule < Len(RuleOrder))
        BY <2>3, <4>1
      <4>3. QED BY <1>4, <4>2 DEF NextRule
    <3>2. QED BY <1>2, <1>3, <2>1, <3>1, EndsWell DEF Types
  <2>4. QED BY <1>3, <2>2, <2>3
<1>5. CASE permits' = [permits EXCEPT ![r_] = @ \ {This}] /\ UNCHANGED <<cmd, told>>
  <2>1. permits' \in [Regions -> SUBSET Rules]
    BY <1>3, <1>5 DEF Types
  <2>2. cmd.rule = 2 => ("cg" \in permits[r_] => "cg" \in permits'[r_])
    BY <1>3, <1>5 DEF Types
  <2>3. Types' /\ r_' = r_ /\ This' = This
    BY <1>2, <1>3, <1>5, <2>1 DEF Types, r_, This
  <2>4. role' = Policy(r_)' /\ Current(r_)' /\ Configured(r_)'
    BY <1>2, <1>3, <2>3 DEF Policy, Current, Configured, Ntfy
  <2>5. RoutesSoFar'
    BY <1>2, <1>3, <1>5, <2>2, <2>3 DEF RoutesSoFar
  <2>6. QED BY <2>3, <2>4, <2>5 DEF GInv, DoneSoFar
<1>6. QED BY <1>1, <1>4, <1>5 DEF AddPermission
-----------------------------------------------------------------------------
(* The other steps of a command: none of them claims anything.               *)
LEMMA RefusedStep == GInv /\ Refused => GInv'
<1>1. SUFFICES ASSUME GInv, Refused PROVE GInv'
  OBVIOUS
<1>2. Types /\ Ends("not installed") /\ UNCHANGED <<fn, rules, targets, permits, env>>
  BY <1>1 DEF GInv, Refused, cloud
<1>3. QED BY <1>2, EndsWell DEF Types

LEMMA CutOffStep == GInv /\ CutOff => GInv'
<1>1. SUFFICES ASSUME GInv, CutOff PROVE GInv'
  OBVIOUS
<1>2. Types /\ Ends("nothing") /\ UNCHANGED <<fn, rules, targets, permits, env>>
  BY <1>1 DEF GInv, CutOff, cloud
<1>3. QED BY <1>2, EndsWell DEF Types

LEMMA DropRoutesStep == GInv /\ DropRoutes => GInv'
<1>1. SUFFICES ASSUME GInv, DropRoutes PROVE GInv'
  OBVIOUS
<1>2. Types /\ cmd.pc = "untarget" /\ GoTo("unrule") /\ UNCHANGED <<fn, rules, permits, env>>
  BY <1>1 DEF GInv, DropRoutes, At
<1>3. cmd' \in Commands /\ cmd'.region \in Regions /\ cmd'.pc = "unrule" /\ r_ \in Regions
  BY <1>2, GoesTo, Running DEF Removing
<1>4. targets' \in [Regions -> SUBSET Rules]
  BY <1>1, <1>2, <1>3 DEF DropRoutes, Types
<1>5. Types'
  BY <1>2, <1>3, <1>4 DEF Types
<1>6. QED BY <1>3, <1>5, Quiet DEF AfterPolicy

LEMMA DeleteRuleStep == GInv /\ DeleteRule => GInv'
<1>1. SUFFICES ASSUME GInv, DeleteRule PROVE GInv'
  OBVIOUS
<1>2. Types /\ cmd.pc = "unrule" /\ UNCHANGED <<fn, targets, permits, env>>
  BY <1>1 DEF GInv, DeleteRule, At
<1>3. r_ \in Regions /\ cmd.rule \in 1..2 /\ This \in Rules /\ Len(RuleOrder) = 2
  BY <1>2, Running, RuleAt
<1>4. cmd' \in Commands /\ cmd'.region \in Regions /\ cmd'.pc \in Removing
  <2>1. CASE cmd.rule = 1
    <3>1. cmd' = [cmd EXCEPT !.pc = "untarget", !.rule = 2]
      BY <1>1, <1>3, <2>1 DEF DeleteRule
    <3>2. QED BY <1>2, <3>1, Moves, Numbers
  <2>2. CASE cmd.rule = 2
    <3>1. cmd' = [cmd EXCEPT !.pc = "unfunction"]
      BY <1>1, <1>3, <2>2 DEF DeleteRule
    <3>2. GoTo("unfunction")
      BY <3>1 DEF GoTo
    <3>3. QED BY <1>2, <3>2, GoesTo DEF Removing
  <2>3. QED BY <1>3, <2>1, <2>2
<1>5. rules' \in [Regions -> [Rules -> {"none", "off", "on"}]]
  <2>1. CASE rules' = rules
    BY <1>2, <2>1 DEF Types
  <2>2. CASE rules' = [rules EXCEPT ![r_][This] = "none"]
    BY <1>2, <1>3, <2>2 DEF Types
  <2>3. QED BY <1>1, <2>1, <2>2 DEF DeleteRule
<1>6. Types'
  BY <1>2, <1>4, <1>5 DEF Types, Removing
<1>7. QED BY <1>4, <1>6, Quiet DEF AfterPolicy, Removing

LEMMA DeleteFunctionStep == GInv /\ DeleteFunction => GInv'
<1>1. SUFFICES ASSUME GInv, DeleteFunction PROVE GInv'
  OBVIOUS
<1>2. Types /\ cmd.pc = "unfunction" /\ GoTo("unlog") /\ UNCHANGED <<rules, targets, env>>
  BY <1>1 DEF GInv, DeleteFunction, At
<1>3. cmd' \in Commands /\ cmd'.region \in Regions /\ cmd'.pc = "unlog" /\ r_ \in Regions
  BY <1>2, GoesTo, Running DEF Removing
<1>4. NoFunction \in Functions
  BY DEF NoFunction, Functions
<1>5. fn' \in [Regions -> Functions] /\ permits' \in [Regions -> SUBSET Rules]
  <2>1. CASE fn' = [fn EXCEPT ![r_] = NoFunction] /\ permits' = [permits EXCEPT ![r_] = {}]
    BY <1>2, <1>3, <1>4, <2>1 DEF Types
  <2>2. CASE UNCHANGED <<fn, permits>>
    BY <1>2, <2>2 DEF Types
  <2>3. QED BY <1>1, <2>1, <2>2 DEF DeleteFunction
<1>6. Types'
  BY <1>2, <1>3, <1>5 DEF Types
<1>7. QED BY <1>3, <1>6, Quiet DEF AfterPolicy

LEMMA DeleteLogsStep == GInv /\ DeleteLogs => GInv'
<1>1. SUFFICES ASSUME GInv, DeleteLogs PROVE GInv'
  OBVIOUS
<1>2. Types /\ cmd.pc = "unlog" /\ GoTo("unrole") /\ UNCHANGED <<fn, rules, targets, permits, env>>
  BY <1>1 DEF GInv, DeleteLogs, At
<1>3. cmd' \in Commands /\ cmd'.region \in Regions /\ cmd'.pc = "unrole"
  BY <1>2, GoesTo DEF Removing
<1>4. Types'
  BY <1>2, <1>3 DEF Types
<1>5. QED BY <1>3, <1>4, Quiet DEF AfterPolicy

LEMMA DeleteRoleStep == GInv /\ (DeleteRole \/ DeleteRoleRefused) => GInv'
<1>1. SUFFICES ASSUME GInv, DeleteRole \/ DeleteRoleRefused PROVE GInv'
  OBVIOUS
<1>2. Types /\ Ends("removed") /\ UNCHANGED <<fn, rules, targets, permits, env>>
  BY <1>1 DEF GInv, DeleteRole, DeleteRoleRefused
<1>3. QED BY <1>2, EndsWell DEF Types
-----------------------------------------------------------------------------
(* What happens beside a command, or between two.                            *)
LEMMA StartStep == ASSUME NEW kind \in Kinds, NEW r \in Regions PROVE GInv /\ Start(kind, r) => GInv'
<1>1. SUFFICES ASSUME GInv, Start(kind, r) PROVE GInv'
  OBVIOUS
<1>2. /\ Types /\ UNCHANGED <<fn, rules, targets, permits, env>>
      /\ cmd' = [kind |-> kind, region |-> r, pc |-> IF kind = "remove" THEN "untarget" ELSE "adopt", rule |-> 1]
  BY <1>1 DEF GInv, Start, cloud
<1>3. cmd' \in Commands /\ cmd'.region \in Regions /\ cmd'.pc \in {"untarget", "adopt"}
  BY <1>2 DEF Commands, Installing, Removing
<1>4. Types'
  BY <1>2, <1>3 DEF Types
<1>5. QED BY <1>3, <1>4, Quiet DEF AfterPolicy

LEMMA EditStep == GInv /\ Edit => GInv'
<1>1. SUFFICES ASSUME GInv, Edit PROVE GInv'
  OBVIOUS
<1>2. Types /\ cmd = Idle /\ cmd' = cmd /\ env' \in Envs /\ UNCHANGED <<fn, rules, targets, permits>>
  BY <1>1 DEF GInv, Edit, cloud
<1>3. Types' /\ cmd'.pc = "none"
  BY <1>2, IdleCommand DEF Types
<1>4. QED BY <1>3, Quiet DEF AfterPolicy

LEMMA ByHandStep == ASSUME NEW r \in Regions PROVE GInv /\ ByHand(r) => GInv'
<1>1. SUFFICES ASSUME GInv, ByHand(r) PROVE GInv'
  OBVIOUS
<1>2. Types /\ cmd = Idle /\ cmd' = cmd /\ env' = env
  BY <1>1 DEF GInv, ByHand
<1>3. NoFunction \in Functions
  BY DEF NoFunction, Functions
<1>4. /\ fn' \in [Regions -> Functions]
      /\ rules' \in [Regions -> [Rules -> {"none", "off", "on"}]]
      /\ targets' \in [Regions -> SUBSET Rules] /\ permits' \in [Regions -> SUBSET Rules]
  <2>1. PICK rule \in Rules :
          \/ rules' = [rules EXCEPT ![r][rule] = "off"] /\ UNCHANGED <<fn, targets, permits>>
          \/ targets' = [targets EXCEPT ![r] = @ \ {rule}] /\ UNCHANGED <<fn, rules, permits>>
          \/ permits' = [permits EXCEPT ![r] = @ \ {rule}] /\ UNCHANGED <<fn, rules, targets>>
          \/ UNCHANGED <<fn, rules, targets, permits>>
          \/ /\ fn' = [fn EXCEPT ![r] = NoFunction] /\ permits' = [permits EXCEPT ![r] = {}]
             /\ UNCHANGED <<rules, targets>>
    BY <1>1 DEF ByHand
  <2>2. CASE rules' = [rules EXCEPT ![r][rule] = "off"] /\ UNCHANGED <<fn, targets, permits>>
    BY <1>2, <2>2 DEF Types
  <2>3. CASE targets' = [targets EXCEPT ![r] = @ \ {rule}] /\ UNCHANGED <<fn, rules, permits>>
    BY <1>2, <2>3 DEF Types
  <2>4. CASE permits' = [permits EXCEPT ![r] = @ \ {rule}] /\ UNCHANGED <<fn, rules, targets>>
    BY <1>2, <2>4 DEF Types
  <2>5. CASE UNCHANGED <<fn, rules, targets, permits>>
    BY <1>2, <2>5 DEF Types
  <2>6. CASE /\ fn' = [fn EXCEPT ![r] = NoFunction] /\ permits' = [permits EXCEPT ![r] = {}]
             /\ UNCHANGED <<rules, targets>>
    BY <1>2, <1>3, <2>6 DEF Types
  <2>7. QED BY <2>1, <2>2, <2>3, <2>4, <2>5, <2>6
<1>5. Types' /\ cmd'.pc = "none"
  BY <1>2, <1>4, IdleCommand DEF Types
<1>6. QED BY <1>5, Quiet DEF AfterPolicy

\* Lambda finishing an update changes nothing of what it was given.
LEMMA FunctionReadyStep == ASSUME NEW r \in Regions PROVE GInv /\ FunctionReady(r) => GInv'
<1>1. SUFFICES ASSUME GInv, FunctionReady(r) PROVE GInv'
  OBVIOUS
<1>2. /\ Types /\ DoneSoFar /\ fn' = [fn EXCEPT ![r].ready = TRUE]
      /\ UNCHANGED <<rules, targets, permits, role, env, cmd>>
  BY <1>1 DEF GInv, FunctionReady
<1>3. fn' \in [Regions -> Functions]
  BY <1>2 DEF Types, Functions
<1>4. Types'
  BY <1>2, <1>3 DEF Types
<1>5. cmd.pc # "none" => r_ \in Regions /\ fn'[r_].code = fn[r_].code
                         /\ fn'[r_].ntfy = fn[r_].ntfy /\ fn'[r_].expiry = fn[r_].expiry
  BY <1>2, Running DEF Types, Functions
<1>6. DoneSoFar'
  <2>1. cmd.pc \in AfterPolicy \cup AfterCode \cup AfterSettings \cup InRules => cmd.pc # "none"
    BY DEF AfterPolicy, AfterCode, AfterSettings, InRules
  <2>2. r_' = r_ /\ This' = This
    BY <1>2 DEF r_, This
  <2>3. cmd.pc # "none" => /\ Current(r_) => Current(r_)'
                           /\ Configured(r_) => Configured(r_)'
    BY <1>2, <1>5, <2>2 DEF Current, Configured, Ntfy
  <2>4. /\ role = Policy(r_) => role' = Policy(r_)'
        /\ RoutesSoFar => RoutesSoFar'
    BY <1>2, <2>2 DEF Policy, RoutesSoFar
  <2>5. QED BY <1>2, <2>1, <2>3, <2>4 DEF DoneSoFar
<1>7. QED BY <1>4, <1>6 DEF GInv

LEMMA Stutters == GInv /\ UNCHANGED guardVars => GInv'
BY DEF GInv, Types, DoneSoFar, RoutesSoFar, guardVars, r_, This, Policy, Current, Configured, Ntfy

LEMMA GInvStep == GInv /\ [GuardNext]_guardVars => GInv'
<1>1. SUFFICES ASSUME GInv, [GuardNext]_guardVars PROVE GInv'
  OBVIOUS
<1>2. CASE Step
  BY <1>1, <1>2, AdoptStep, LookStep, MakeRoleStep, PutPolicyStep, MakeLogsStep, UpdateCodeStep,
     UpdateSettingsStep, CreateFunctionStep, WaitFunctionStep, PutRuleStep, PutTargetStep,
     AddPermissionStep, RefusedStep, DropRoutesStep, DeleteRuleStep, DeleteFunctionStep,
     DeleteLogsStep, DeleteRoleStep DEF Step
<1>3. CASE CutOff \/ Edit
  BY <1>1, <1>3, CutOffStep, EditStep
<1>4. ASSUME NEW r \in Regions, FunctionReady(r) \/ ByHand(r) \/ \E kind \in Kinds : Start(kind, r)
      PROVE  GInv'
  BY <1>1, <1>4, FunctionReadyStep, ByHandStep, StartStep
<1>5. CASE UNCHANGED guardVars
  BY <1>1, <1>5, Stutters
<1>6. QED BY <1>1, <1>2, <1>3, <1>4, <1>5 DEF GuardNext
-----------------------------------------------------------------------------
(* Nothing that the reading round looks at has drifted: the watchdog works.  *)
LEMMA NoDriftWorks ==
  ASSUME Types, NEW r \in Regions, Drift(r) = {}
  PROVE  Works(r)
<1>1. Installed(r)
  BY DEF Drift
<1>2. "function" \in {"code", "settings", "function"}
  OBVIOUS
<1>3. fn[r].ready
  BY <1>1, <1>2 DEF Drift
<1>4. ASSUME NEW rule \in Rules
      PROVE  rules[r][rule] = "on" /\ rule \in targets[r] /\ Permitted(r, rule)
  BY <1>1, <1>4 DEF Drift
<1>5. role = Policy(r)
  <2>1. (IF role = Policy(r) THEN {} ELSE {"role policy"}) = {}
    BY <1>1 DEF Drift
  <2>2. QED BY <2>1
<1>6. role.made /\ role.region = r
  BY <1>5 DEF Policy, Role
<1>7. QED BY <1>1, <1>3, <1>4, <1>6 DEF Works, Reached, Permitted

(* A command about a region that is over after a step was ended by it.       *)
LEMMA NotOver ==
  ASSUME cmd'.region \in Regions
  PROVE  cmd' # Idle
BY RegionsAssumption DEF Idle

LEMMA CommandEnds ==
  ASSUME GInv, GuardNext, NEW r \in Regions, cmd.region = r, cmd' = Idle
  PROVE  \/ Look /\ Drift(r_) = {} /\ told' = "up to date"
         \/ AddPermission /\ NextRule /\ told' = "armed"
         \/ told' \notin {"up to date", "armed"}
<1>1. Types /\ cmd # Idle /\ cmd.pc # "none" /\ r_ = r
  BY RegionsAssumption DEF GInv, Types, Idle, r_
<1>2. ~ \E pc \in Installing \cup Removing : GoTo(pc)
  BY <1>1, GoesTo, NotOver, SMTT(30)
<1>3. ~ \E pc \in Installing \cup Removing, rule \in 1..2 : cmd' = [cmd EXCEPT !.pc = pc, !.rule = rule]
  BY <1>1, Moves, NotOver
<1>4. cmd' # cmd
  BY <1>1
<1>5. /\ ~GoTo("look") /\ ~GoTo("role") /\ ~GoTo("policy") /\ ~GoTo("logs") /\ ~GoTo("code") /\ ~GoTo("create")
      /\ ~GoTo("settings") /\ ~GoTo("wait_code") /\ ~GoTo("wait_settings") /\ ~GoTo("target") /\ ~GoTo("permit")
      /\ ~GoTo("unrule") /\ ~GoTo("unlog") /\ ~GoTo("unrole")
      /\ cmd' # [cmd EXCEPT !.pc = "rule", !.rule = 1]
  BY <1>2, <1>3, Numbers DEF Installing, Removing
<1>6. ~AdoptNtfy /\ ~MakeRole /\ ~PutPolicy /\ ~MakeLogs /\ ~CreateFunction /\ ~WaitFunction /\ ~PutRule /\ ~PutTarget
  BY <1>5 DEF AdoptNtfy, MakeRole, PutPolicy, MakeLogs, CreateFunction, WaitFunction, PutRule, PutTarget
<1>7. ~DropRoutes /\ ~DeleteFunction /\ ~DeleteLogs
  BY <1>5 DEF DropRoutes, DeleteFunction, DeleteLogs
<1>8. ~DeleteRule
  <2>1. SUFFICES ASSUME DeleteRule PROVE FALSE
    OBVIOUS
  <2>2. cmd.rule \in 1..2 /\ Len(RuleOrder) = 2
    BY <1>1, Running, RuleAt
  <2>3. CASE cmd.rule = 1
    <3>1. cmd' = [cmd EXCEPT !.pc = "untarget", !.rule = 2]
      BY <2>1, <2>2, <2>3 DEF DeleteRule
    <3>2. QED BY <1>3, <3>1, Numbers
  <2>4. CASE cmd.rule = 2
    <3>1. cmd' = [cmd EXCEPT !.pc = "unfunction"]
      BY <2>1, <2>2, <2>4 DEF DeleteRule
    <3>2. QED BY <1>2, <3>1, Numbers DEF GoTo
  <2>5. QED BY <2>2, <2>3, <2>4
<1>9. ~Edit /\ \A o \in Regions : ~FunctionReady(o) /\ ~ByHand(o) /\ \A kind \in Kinds : ~Start(kind, o)
  BY <1>1, <1>4 DEF Edit, FunctionReady, ByHand, Start
<1>10. CASE Look
  BY <1>5, <1>10 DEF Look, Ends
<1>11. CASE AddPermission
  <2>1. NextRule
    BY <1>4, <1>11 DEF AddPermission
  <2>2. cmd.rule \in 1..2 /\ Len(RuleOrder) = 2
    BY <1>1, Running, RuleAt
  <2>3. ~(cmd.rule < Len(RuleOrder))
    <3>1. SUFFICES ASSUME cmd.rule = 1 PROVE FALSE
      BY <2>2
    <3>2. cmd' = [cmd EXCEPT !.pc = "rule", !.rule = 2]
      BY <2>1, <2>2, <3>1 DEF NextRule
    <3>3. QED BY <1>3, <3>2, Numbers
  <2>4. told' = "armed"
    BY <2>1, <2>3 DEF NextRule, Ends
  <2>5. QED BY <1>11, <2>1, <2>4
<1>12. CASE UpdateCode \/ UpdateSettings \/ Refused \/ CutOff \/ DeleteRole \/ DeleteRoleRefused
  BY <1>5, <1>12 DEF UpdateCode, UpdateSettings, Refused, CutOff, DeleteRole, DeleteRoleRefused, Ends
<1>13. QED BY <1>6, <1>7, <1>8, <1>9, <1>10, <1>11, <1>12 DEF GuardNext, Step

(* The last permission of an install: both rules reach the function.         *)
LEMMA LastPermission ==
  ASSUME GInv, AddPermission, NextRule, cmd' = Idle, NEW r \in Regions, cmd.region = r
  PROVE  AsWanted(r)'
<1>1. cmd.pc = "permit" /\ UNCHANGED <<fn, rules, targets, role, env>> /\ cmd # Idle /\ r_ = r
  BY RegionsAssumption DEF AddPermission, At, Idle, r_
<1>2. /\ Types /\ role = Policy(r) /\ Current(r) /\ Configured(r) /\ RoutesSoFar
      /\ cmd.rule \in 1..2 /\ This \in Rules /\ (This = IF cmd.rule = 1 THEN "cg" ELSE "cg-state")
  BY <1>1, AtRules DEF InRules
<1>3. cmd.rule = 2
  <2>1. SUFFICES ASSUME cmd.rule = 1 PROVE FALSE
    BY <1>2
  <2>2. cmd' = [cmd EXCEPT !.pc = "rule", !.rule = 2]
    <3>1. Len(RuleOrder) = 2
      BY <1>2, RuleAt
    <3>2. QED BY <2>1, <3>1 DEF NextRule
  <2>3. cmd'.region \in Regions
    BY <1>1, <1>2, <2>2, Moves, Numbers
  <2>4. QED BY <2>3, NotOver
<1>4. This = "cg-state" /\ permits' = IF Permitted(r, This) THEN permits ELSE [permits EXCEPT ![r] = @ \cup {This}]
  BY <1>1, <1>2, <1>3 DEF AddPermission
<1>5. This \in permits'[r] /\ ("cg" \in permits[r] => "cg" \in permits'[r])
  BY <1>2, <1>4 DEF Types, Permitted
<1>6. /\ rules[r]["cg"] = "on" /\ "cg" \in targets[r] /\ "cg" \in permits[r]
      /\ rules[r]["cg-state"] = "on" /\ "cg-state" \in targets[r]
  BY <1>1, <1>2, <1>3, <1>4 DEF RoutesSoFar
<1>7. Reached(r)'
  BY <1>1, <1>4, <1>5, <1>6 DEF Reached, Rules
<1>8. Current(r)' /\ Configured(r)' /\ role' = Policy(r)'
  BY <1>1, <1>2 DEF Current, Configured, Policy, Ntfy
<1>9. QED BY <1>7, <1>8 DEF AsWanted

(* What `cg init` says of the watchdog it leaves behind is so, in every      *)
(* account: "up to date" is said of one that can end a box of this region,   *)
(* "armed" of one that runs this cg's code with .env's settings, behind both *)
(* rules and a policy for this region.  (Ensure, Install)                    *)
THEOREM SaidSo == GuardSpec => SaidIsSo
<1>1. GuardInit => GInv
  BY GInvInit
<1>2. GInv /\ [GuardNext]_guardVars => GInv'
  BY GInvStep
<1>3. GInv /\ [GuardNext]_guardVars => [\A r \in Regions : Said("up to date", r) => Works(r)']_guardVars
  <2>1. SUFFICES ASSUME GInv, GuardNext, NEW r \in Regions, Said("up to date", r) PROVE Works(r)'
    OBVIOUS
  <2>2. cmd.region = r /\ cmd' = Idle /\ told' = "up to date" /\ r_ = r
    BY <2>1 DEF Said, r_
  <2>3. Look /\ Drift(r) = {}
    BY <2>1, <2>2, CommandEnds
  <2>4. Works(r)
    BY <2>1, <2>3, NoDriftWorks DEF GInv
  <2>5. UNCHANGED <<fn, rules, targets, permits, role>>
    BY <2>3 DEF Look, cloud
  <2>6. QED BY <2>4, <2>5 DEF Works, Reached, Installed
<1>4. GInv /\ [GuardNext]_guardVars => [\A r \in Regions : Said("armed", r) => AsWanted(r)']_guardVars
  <2>1. SUFFICES ASSUME GInv, GuardNext, NEW r \in Regions, Said("armed", r) PROVE AsWanted(r)'
    OBVIOUS
  <2>2. cmd.region = r /\ cmd' = Idle /\ told' = "armed"
    BY <2>1 DEF Said
  <2>3. AddPermission /\ NextRule
    BY <2>1, <2>2, CommandEnds
  <2>4. QED BY <2>1, <2>2, <2>3, LastPermission
<1>5. QED BY <1>1, <1>2, <1>3, <1>4, PTL DEF GuardSpec, SaidIsSo, UpToDateIsArmed, ArmedIsArmed
-----------------------------------------------------------------------------
(* The role is never taken from under a function of another region, asked or *)
(* not: only the last step of a removal deletes it, and a region that did    *)
(* not answer counts as using it.  (roleUsedElsewhere)                       *)
THEOREM RoleKept == GuardSpec => RoleOutlivesItsUsers
<1>1. ASSUME GuardNext, role.made, ~role'.made
      PROVE  \A r \in Regions \ {r_} : ~Installed(r)
  <2>1. role' # role
    BY <1>1
  <2>2. ~MakeRole /\ ~PutPolicy
    BY <1>1 DEF MakeRole, PutPolicy, Policy, Role
  <2>3. ~DeleteRoleRefused
    <3>1. SUFFICES ASSUME DeleteRoleRefused PROVE FALSE
      OBVIOUS
    <3>2. role' = [role EXCEPT !.region = "none", !.expiry = FALSE]
      BY <2>1, <3>1 DEF DeleteRoleRefused
    <3>3. role'.made = role.made
      BY <3>2
    <3>4. QED BY <1>1, <3>3
  <2>4. ~AdoptNtfy /\ ~Look /\ ~MakeLogs /\ ~UpdateCode /\ ~UpdateSettings /\ ~CreateFunction
        /\ ~WaitFunction /\ ~PutRule /\ ~PutTarget /\ ~AddPermission /\ ~Refused
    BY <2>1 DEF AdoptNtfy, Look, MakeLogs, UpdateCode, UpdateSettings, CreateFunction, WaitFunction,
       PutRule, PutTarget, AddPermission, Refused, cloud
  <2>5. ~DropRoutes /\ ~DeleteRule /\ ~DeleteFunction /\ ~DeleteLogs /\ ~CutOff /\ ~Edit
    BY <2>1 DEF DropRoutes, DeleteRule, DeleteFunction, DeleteLogs, CutOff, Edit, cloud
  <2>6. \A r \in Regions : ~FunctionReady(r) /\ ~ByHand(r) /\ \A kind \in Kinds : ~Start(kind, r)
    BY <2>1 DEF FunctionReady, ByHand, Start, cloud
  <2>7. DeleteRole
    BY <1>1, <2>2, <2>3, <2>4, <2>5, <2>6 DEF GuardNext, Step
  <2>8. PICK answered \in SUBSET (Regions \ {r_}) : ~UsedElsewhere(answered)
    BY <2>1, <2>7 DEF DeleteRole
  <2>9. QED BY <2>8 DEF UsedElsewhere
<1>2. GuardNext => [role.made /\ ~role'.made => \A r \in Regions \ {r_} : ~Installed(r)]_guardVars
  BY <1>1
<1>3. [GuardNext]_guardVars => [role.made /\ ~role'.made => \A r \in Regions \ {r_} : ~Installed(r)]_guardVars
  BY <1>2
<1>4. QED BY <1>3, PTL DEF GuardSpec, RoleOutlivesItsUsers
-----------------------------------------------------------------------------
(* Past the look at the function, an install knows where its address is: an  *)
(* .env that names none was taken for what it is only when the function has  *)
(* none to lose.                                                             *)
PastAdopting == Installing \ {"adopt"}
AddressSoFar ==
  /\ cmd.pc \in PastAdopting /\ env.ntfy = "absent" => fn[r_].ntfy # "url"
  /\ cmd.pc = "create" => ~Installed(r_)

\* A step that leaves the function and .env alone, and adopts nothing.
LEMMA Carries ==
  ASSUME AddressSoFar, UNCHANGED <<fn, env>>, r_' = r_, cmd.pc \in PastAdopting,
         cmd'.pc = "create" => ~Installed(r_)
  PROVE  AddressSoFar'
BY DEF AddressSoFar, Installed

LEMMA OutsideInstall ==
  ASSUME cmd'.pc \notin PastAdopting
  PROVE  AddressSoFar'
BY DEF AddressSoFar, PastAdopting, Installing

LEMMA OverNow == ASSUME cmd' = Idle PROVE cmd'.pc \notin PastAdopting
BY DEF Idle, PastAdopting, Installing

LEMMA AddressAdopt ==
  ASSUME "adopt_read" \notin Faults, GInv, AdoptNtfy
  PROVE  AddressSoFar'
<1>1. Types /\ cmd.pc = "adopt" /\ GoTo("look") /\ fn' = fn
  BY DEF GInv, AdoptNtfy, At, cloud
<1>2. cmd'.pc = "look" /\ r_' = r_
  BY <1>1, GoesTo DEF Installing
<1>3. env' = IF env.ntfy = "absent" /\ fn[r_].ntfy = "url" THEN [env EXCEPT !.ntfy = "url"] ELSE env
  BY DEF AdoptNtfy, Fails
<1>4. env'.ntfy = "absent" => fn'[r_].ntfy # "url"
  BY <1>1, <1>3 DEF Types, Envs
<1>5. QED BY <1>2, <1>4 DEF AddressSoFar

LEMMA AddressInstalls ==
  ASSUME GInv, AddressSoFar,
         Look \/ MakeRole \/ PutPolicy \/ MakeLogs \/ WaitFunction \/ PutRule \/ PutTarget \/ AddPermission
  PROVE  AddressSoFar'
<1>1. Types /\ UNCHANGED <<fn, env>>
  BY DEF GInv, Look, MakeRole, PutPolicy, MakeLogs, WaitFunction, PutRule, PutTarget, AddPermission, cloud
<1>2. cmd.pc \in PastAdopting /\ cmd.pc # "none"
  BY DEF Look, MakeRole, PutPolicy, MakeLogs, WaitFunction, PutRule, PutTarget, AddPermission, At,
     PastAdopting, Installing
<1>3. cmd.rule \in 1..2 /\ Len(RuleOrder) = 2
  BY <1>1, <1>2, Running, RuleAt
<1>4. CASE cmd' = Idle
  BY <1>4, OverNow, OutsideInstall
<1>5. CASE \E pc \in Installing \ {"create"} : GoTo(pc)
  BY <1>1, <1>2, <1>5, GoesTo, Carries
<1>6. CASE \E rule \in 1..2 : cmd' = [cmd EXCEPT !.pc = "rule", !.rule = rule]
  BY ZenonT(30), <1>1, <1>2, <1>6, Moves, Carries, Numbers
<1>7. CASE GoTo("create") /\ ~Installed(r_)
  BY <1>1, <1>2, <1>7, GoesTo, Carries DEF Installing
<1>8. CASE cmd' = cmd
  BY <1>1, <1>2, <1>8 DEF AddressSoFar, r_, Installed
<1>9. CASE Look
  BY <1>4, <1>5, <1>9 DEF Look, Ends, Installing
<1>10. CASE MakeRole \/ PutPolicy \/ PutRule \/ PutTarget
  BY <1>5, <1>10 DEF MakeRole, PutPolicy, PutRule, PutTarget, Installing
<1>11. CASE MakeLogs
  BY <1>5, <1>7, <1>11 DEF MakeLogs, Installing
<1>12. CASE WaitFunction
  BY <1>5, <1>6, <1>12, Numbers DEF WaitFunction, Installing
<1>13. CASE AddPermission
  <2>1. CASE NextRule /\ cmd.rule = 1
    <3>1. cmd' = [cmd EXCEPT !.pc = "rule", !.rule = 2]
      BY <1>3, <2>1 DEF NextRule
    <3>2. QED BY <1>6, <3>1, Numbers
  <2>2. CASE NextRule /\ cmd.rule = 2
    BY <1>3, <1>4, <2>2 DEF NextRule, Ends
  <2>3. QED BY <1>3, <1>8, <1>13, <2>1, <2>2 DEF AddPermission
<1>14. QED BY <1>9, <1>10, <1>11, <1>12, <1>13

LEMMA AddressUpdates ==
  ASSUME GInv, AddressSoFar, UpdateCode \/ UpdateSettings \/ CreateFunction
  PROVE  /\ AddressSoFar'
         /\ \A r \in Regions : Installed(r) /\ fn[r].ntfy = "url" /\ fn'[r].ntfy = "none" => env.ntfy = "off"
<1>1. Types /\ env' = env
  BY DEF GInv, UpdateCode, UpdateSettings, CreateFunction
<1>2. cmd.pc \in {"code", "settings", "create"} /\ cmd.pc # "none" /\ cmd.pc \in PastAdopting
  BY DEF UpdateCode, UpdateSettings, CreateFunction, At, PastAdopting, Installing
<1>3. r_ \in Regions /\ fn[r_] \in Functions
  BY <1>1, <1>2, Running
<1>4. env.ntfy = "absent" => fn[r_].ntfy # "url" /\ Ntfy = "none"
  BY <1>2 DEF AddressSoFar, Ntfy
<1>5. env.ntfy \in {"absent", "off", "url"}
  BY <1>1 DEF Types, Envs
<1>6. \A r \in Regions \ {r_} : fn'[r] = fn[r]
  BY <1>1, <1>3 DEF UpdateCode, UpdateSettings, CreateFunction, Types
<1>7. fn'[r_].ntfy \in {fn[r_].ntfy, Ntfy}
  <2>1. CASE UpdateCode
    <3>1. fn' \in {fn, [fn EXCEPT ![r_].code = env.code, ![r_].ready = FALSE]}
      BY <2>1 DEF UpdateCode
    <3>2. [fn EXCEPT ![r_].code = env.code, ![r_].ready = FALSE][r_].ntfy = fn[r_].ntfy
      BY <1>1, <1>3 DEF Types, Functions
    <3>3. QED BY <3>1, <3>2
  <2>2. CASE UpdateSettings
    <3>1. fn' \in {fn, [fn EXCEPT ![r_].ntfy = Ntfy, ![r_].expiry = env.expiry, ![r_].ready = FALSE]}
      BY <2>2 DEF UpdateSettings
    <3>2. [fn EXCEPT ![r_].ntfy = Ntfy, ![r_].expiry = env.expiry, ![r_].ready = FALSE][r_].ntfy = Ntfy
      BY <1>1, <1>3 DEF Types, Functions
    <3>3. QED BY <3>1, <3>2
  <2>3. CASE CreateFunction
    BY <1>1, <1>3, <2>3 DEF CreateFunction, Types, Functions
  <2>4. QED BY <2>1, <2>2, <2>3
<1>8. cmd' = Idle \/ (cmd'.pc # "create" /\ r_' = r_)
  <2>1. CASE cmd' = [cmd EXCEPT !.pc = "rule", !.rule = 1]
    BY <1>1, <1>2, <2>1, Moves, Numbers
  <2>2. CASE GoTo("settings") \/ GoTo("wait_code") \/ GoTo("wait_settings")
    BY <1>1, <1>2, <2>2, GoesTo DEF Installing
  <2>3. QED BY <2>1, <2>2 DEF UpdateCode, UpdateSettings, CreateFunction, Ends
<1>9. AddressSoFar'
  <2>1. CASE cmd' = Idle
    BY <2>1, OverNow, OutsideInstall
  <2>2. CASE cmd'.pc # "create" /\ r_' = r_
    BY <1>1, <1>4, <1>7, <2>2 DEF AddressSoFar
  <2>3. QED BY <1>8, <2>1, <2>2
<1>10. ASSUME NEW r \in Regions, Installed(r), fn[r].ntfy = "url", fn'[r].ntfy = "none"
       PROVE  env.ntfy = "off"
  <2>1. r = r_
    BY <1>6, <1>10
  <2>2. env.ntfy # "absent"
    BY <1>4, <1>10, <2>1
  <2>3. Ntfy = "none"
    BY <1>7, <1>10, <2>1
  <2>4. QED BY <1>5, <2>2, <2>3 DEF Ntfy
<1>11. QED BY <1>9, <1>10

LEMMA AddressElsewhere ==
  ASSUME GInv, AddressSoFar,
         \/ Refused \/ CutOff \/ Edit
         \/ DropRoutes \/ DeleteRule \/ DeleteFunction \/ DeleteLogs \/ DeleteRole \/ DeleteRoleRefused
         \/ \E r \in Regions : ByHand(r) \/ \E kind \in Kinds : Start(kind, r)
  PROVE  AddressSoFar'
<1>1. Types
  BY DEF GInv
<1>2. CASE Refused \/ CutOff \/ DeleteRole \/ DeleteRoleRefused
  BY <1>2, OverNow, OutsideInstall DEF Refused, CutOff, DeleteRole, DeleteRoleRefused, Ends
<1>3. CASE Edit \/ \E r \in Regions : ByHand(r)
  BY <1>3, OverNow, OutsideInstall DEF Edit, ByHand
<1>4. CASE \E r \in Regions, kind \in Kinds : Start(kind, r)
  <2>1. cmd'.pc \in {"untarget", "adopt"}
    BY <1>4 DEF Start
  <2>2. QED BY <2>1, OutsideInstall DEF PastAdopting, Installing
<1>5. CASE DropRoutes \/ DeleteFunction \/ DeleteLogs
  <2>1. cmd.pc # "none" /\ \E pc \in Removing : GoTo(pc)
    BY <1>5 DEF DropRoutes, DeleteFunction, DeleteLogs, At, Removing
  <2>2. cmd'.pc \in Removing
    BY <1>1, <2>1, GoesTo
  <2>3. QED BY <2>2, OutsideInstall DEF PastAdopting, Installing, Removing
<1>6. CASE DeleteRule
  <2>1. cmd.pc # "none"
    BY <1>6 DEF DeleteRule, At
  <2>2. cmd.rule \in 1..2 /\ Len(RuleOrder) = 2
    BY <1>1, <2>1, Running, RuleAt
  <2>3. CASE cmd.rule = 1
    <3>1. cmd' = [cmd EXCEPT !.pc = "untarget", !.rule = 2]
      BY <1>6, <2>2, <2>3 DEF DeleteRule
    <3>2. cmd'.pc = "untarget"
      BY <1>1, <2>1, <3>1, Moves, Numbers
    <3>3. QED BY <3>2, OutsideInstall DEF PastAdopting, Installing
  <2>4. CASE cmd.rule = 2
    <3>1. GoTo("unfunction")
      BY <1>6, <2>2, <2>4 DEF DeleteRule, GoTo
    <3>2. cmd'.pc = "unfunction"
      BY <1>1, <2>1, <3>1, GoesTo DEF Removing
    <3>3. QED BY <3>2, OutsideInstall DEF PastAdopting, Installing
  <2>5. QED BY <2>2, <2>3, <2>4
<1>7. QED BY <1>2, <1>3, <1>4, <1>5, <1>6

LEMMA AddressReady ==
  ASSUME GInv, AddressSoFar, NEW r \in Regions, FunctionReady(r)
  PROVE  AddressSoFar' /\ \A o \in Regions : fn'[o].ntfy = fn[o].ntfy
<1>1. Types /\ Installed(r) /\ fn' = [fn EXCEPT ![r].ready = TRUE] /\ UNCHANGED <<env, cmd>>
  BY DEF GInv, FunctionReady
<1>2. \A o \in Regions : fn'[o].ntfy = fn[o].ntfy /\ (~Installed(o) => fn'[o] = fn[o])
  BY <1>1 DEF Types, Functions
<1>3. cmd.pc # "none" => r_ \in Regions
  BY <1>1, Running
<1>4. r_' = r_ /\ (cmd.pc \in PastAdopting => cmd.pc # "none")
  BY <1>1 DEF r_, PastAdopting, Installing
<1>5. QED BY <1>1, <1>2, <1>3, <1>4 DEF AddressSoFar, Installed

LEMMA AddressStep ==
  ASSUME "adopt_read" \notin Faults, GInv, AddressSoFar, [GuardNext]_guardVars
  PROVE  AddressSoFar'
<1>1. CASE Step
  BY <1>1, AddressAdopt, AddressInstalls, AddressUpdates, AddressElsewhere DEF Step
<1>2. CASE CutOff \/ Edit
  BY <1>2, AddressElsewhere
<1>3. CASE \E r \in Regions : FunctionReady(r) \/ ByHand(r) \/ \E kind \in Kinds : Start(kind, r)
  BY <1>3, AddressReady, AddressElsewhere
<1>4. CASE UNCHANGED guardVars
  BY <1>4 DEF AddressSoFar, guardVars, r_, Installed
<1>5. QED BY <1>1, <1>2, <1>3, <1>4 DEF GuardNext

(* Whichever laptop runs it, a command turns notifications off only because  *)
(* its .env asks for that, as long as the function it takes the address over *)
(* from can be read: no order of refusals, cuts and edits comes between.     *)
(* (adoptNtfy, Install)                                                      *)
THEOREM AddressKept == "adopt_read" \notin Faults /\ GuardSpec => NotificationsKept
<1>1. SUFFICES ASSUME "adopt_read" \notin Faults PROVE GuardSpec => NotificationsKept
  OBVIOUS
<1>2. GuardInit => GInv /\ AddressSoFar
  <2>1. GuardInit => cmd.pc = "none"
    BY DEF GuardInit, Idle
  <2>2. QED BY <2>1, GInvInit DEF AddressSoFar, PastAdopting, Installing
<1>3. GInv /\ AddressSoFar /\ [GuardNext]_guardVars => (GInv /\ AddressSoFar)'
  BY <1>1, GInvStep, AddressStep
<1>4. GInv /\ AddressSoFar /\ [GuardNext]_guardVars
        => [\A r \in Regions : Installed(r) /\ Installed(r)' /\ fn[r].ntfy = "url" /\ fn'[r].ntfy = "none"
                                 => env.ntfy = "off"]_guardVars
  <2>1. SUFFICES ASSUME GInv, AddressSoFar, GuardNext, NEW r \in Regions,
                        Installed(r), Installed(r)', fn[r].ntfy = "url", fn'[r].ntfy = "none"
                 PROVE  env.ntfy = "off"
    BY DEF guardVars
  <2>2. fn' # fn
    BY <2>1
  <2>3. CASE UpdateCode \/ UpdateSettings \/ CreateFunction
    BY <2>1, <2>3, AddressUpdates
  <2>4. ~ \E o \in Regions : FunctionReady(o)
    BY <2>1, AddressReady
  <2>5. ~DeleteFunction
    <3>1. SUFFICES ASSUME DeleteFunction PROVE FALSE
      OBVIOUS
    <3>2. fn' = [fn EXCEPT ![r_] = NoFunction]
      BY <2>2, <3>1 DEF DeleteFunction
    <3>3. fn'[r] \in {fn[r], NoFunction}
      BY <2>1, <3>2 DEF GInv, Types
    <3>4. QED BY <2>1, <3>3 DEF Installed
  <2>6. \A o \in Regions : ~ByHand(o)
    <3>1. SUFFICES ASSUME NEW o \in Regions, ByHand(o) PROVE FALSE
      OBVIOUS
    <3>2. fn' = [fn EXCEPT ![o] = NoFunction]
      BY <2>2, <3>1 DEF ByHand
    <3>3. fn'[r] \in {fn[r], NoFunction}
      BY <2>1, <3>2 DEF GInv, Types
    <3>4. QED BY <2>1, <3>3 DEF Installed
  <2>7. ~AdoptNtfy /\ ~Look /\ ~MakeRole /\ ~PutPolicy /\ ~MakeLogs /\ ~WaitFunction /\ ~PutRule /\ ~PutTarget
        /\ ~AddPermission /\ ~Refused
    BY <2>2 DEF AdoptNtfy, Look, MakeRole, PutPolicy, MakeLogs, WaitFunction, PutRule, PutTarget,
       AddPermission, Refused, cloud
  <2>8. ~DropRoutes /\ ~DeleteRule /\ ~DeleteLogs /\ ~DeleteRole /\ ~DeleteRoleRefused /\ ~CutOff /\ ~Edit
    BY <2>2 DEF DropRoutes, DeleteRule, DeleteLogs, DeleteRole, DeleteRoleRefused, CutOff, Edit, cloud
  <2>9. \A o \in Regions, kind \in Kinds : ~Start(kind, o)
    BY <2>2 DEF Start, cloud
  <2>10. QED BY <2>1, <2>3, <2>4, <2>5, <2>6, <2>7, <2>8, <2>9 DEF GuardNext, Step
<1>5. QED BY <1>2, <1>3, <1>4, PTL DEF GuardSpec, NotificationsKept

-----------------------------------------------------------------------------
(* The idle stop, on the host and in the cloud.                              *)
\* Something else than a failed push has said why games may be unsaved.
Excused == "interruption" \in events \/ "interruption" \in said \/ "forced off" \in said

\* What has been said by when.
Excuses ==
  /\ box.cut => Excused
  /\ tags.forced => "forced off" \in said
  /\ box.guest = "off" /\ box.state # "pending" /\ use.unsaved =>
       use.left \/ "not saved" \in said \/ Excused
  /\ Ended => box.guest = "off"

\* A tag of this shutdown is younger than it.
Dated == tags.noted = "this" => box.state \notin {"pending", "running"} /\ tags.since <= box.down

\* No traffic since the box came up is nobody playing since then.
Watching == use.net <= use.quiet \/ box.age <= use.quiet

\* The quiet looks of the watchdog on a box at its first run are periods in
\* which nobody played, but for the look under way.
Counted ==
  pace.starts = 0 =>
    /\ disk.base # "earlier"
    /\ disk.base = "none" => disk.idle = 0
    /\ disk.base = "this" /\ ~disk.used =>
         /\ ~pace.ticked => disk.idle <= use.quiet /\ ~use.playing
         /\ pace.ticked => disk.idle <= use.quiet + 1

IdleInv == TypeOK /\ Excuses /\ Dated /\ Watching /\ Counted

-----------------------------------------------------------------------------
(* The records, and what a step does to one field of them.                   *)
BoxRec == [kind : {"spot", "on-demand"},
           state : {"pending", "running", "stopping", "shutting-down", "stopped", "terminated"},
           guest : {"off", "up", "saving", "ending", "wedged"},
           age : 0..(Grace + IdleWindow), down : 0..StuckAfter, stamped : BOOLEAN, cut : BOOLEAN]
UseRec == [playing : BOOLEAN, quiet : 0..IdleWindow, net : 0..IdleWindow,
           unsaved : BOOLEAN, fresh : BOOLEAN, left : BOOLEAN]
DiskRec == [idle : 0..IdleLimit, base : {"none", "earlier", "this"}, used : BOOLEAN]
TagsRec == [noted : {"none", "earlier", "this"}, since : 0..StuckAfter,
            slow : BOOLEAN, forced : BOOLEAN]
PaceRec == [ticked : BOOLEAN, looked : BOOLEAN, missed : 0..Misses, starts : 0..Starts]
Words == {"not saved", "forced off", "slow", "interruption", "switched off", "gone"}

LEMMA TypeIs ==
  TypeOK <=> /\ box \in BoxRec /\ use \in UseRec /\ disk \in DiskRec /\ tags \in TagsRec
             /\ events \subseteq {"interruption", "gone"} /\ said \subseteq Words
             /\ pace \in PaceRec
BY DEF TypeOK, BoxRec, UseRec, DiskRec, TagsRec, PaceRec, Words

LEMMA LimitsAre ==
  /\ Grace \in Nat /\ IdleLimit \in Nat /\ IdleWindow \in Nat /\ SlowAfter \in Nat /\ StuckAfter \in Nat
  /\ Grace > 0 /\ IdleLimit > 0 /\ IdleWindow > 0 /\ SlowAfter > 0 /\ StuckAfter > 0
  /\ IdleLimit <= IdleWindow /\ Starts \in Nat /\ Misses \in Nat
BY LimitsAssumption

LEMMA OlderIs ==
  ASSUME NEW limit \in Nat, NEW n \in 0..limit
  PROVE  /\ Older(n, limit) \in 0..limit /\ Older(n, limit) >= n /\ Older(n, limit) <= n + 1
         /\ Older(n, limit) = n + 1 \/ (Older(n, limit) = n /\ n = limit)
BY DEF Older

\* The box goes down, and the guest with it unless it hangs.
LEMMA GoesDown ==
  ASSUME NEW b \in BoxRec
  PROVE  /\ Ending(b) \in BoxRec
         /\ Ending(b).guest # "off" /\ Ending(b).guest \in {"ending", "wedged"}
         /\ Ending(b).kind = b.kind /\ Ending(b).state = b.state /\ Ending(b).age = b.age
         /\ Ending(b).down = b.down /\ Ending(b).stamped = b.stamped /\ Ending(b).cut = b.cut
BY DEF Ending, BoxRec

LEMMA DownIs == Down \in {"shutting-down", "stopping"}
BY DEF Down

LEMMA QuietedIs ==
  ASSUME use \in UseRec
  PROVE  /\ Quieted \in UseRec /\ Quieted.playing = FALSE /\ Quieted.quiet = use.quiet
         /\ Quieted.net = use.net /\ Quieted.unsaved = use.unsaved /\ Quieted.fresh = use.fresh
         /\ Quieted.left = use.left
BY DEF Quieted, UseRec

-----------------------------------------------------------------------------
(* AWS and the user.                                                         *)
LEMMA UpStep == ASSUME IdleInv, ComesUp PROVE IdleInv'
<1>1. /\ box \in BoxRec /\ box.state = "pending" /\ UNCHANGED <<use, disk, tags, events, said, pace>>
      /\ box' = [box EXCEPT !.state = "running", !.guest = "up"]
  BY TypeIs DEF IdleInv, ComesUp
<1>2. /\ box' \in BoxRec /\ box'.state = "running" /\ box'.guest = "up" /\ box'.age = box.age
      /\ box'.down = box.down /\ box'.cut = box.cut
  BY <1>1 DEF BoxRec
<1>3. TypeOK'
  BY ZenonT(30), <1>1, <1>2, TypeIs DEF IdleInv, TypeOK, BoxRec
<1>4. Excuses'
  BY <1>1, <1>2 DEF IdleInv, Excuses, Excused, Ended
<1>5. Dated' /\ Watching' /\ Counted'
  BY <1>1, <1>2 DEF IdleInv, Dated, Watching, Counted
<1>6. QED BY <1>3, <1>4, <1>5 DEF IdleInv

LEMMA PlayStep == ASSUME IdleInv, PlayStarts \/ PlayStops PROVE IdleInv'
<1>1. /\ use \in UseRec /\ disk \in DiskRec /\ box \in BoxRec /\ pace \in PaceRec
      /\ UNCHANGED <<box, tags, events, said, pace>> /\ disk' = [disk EXCEPT !.used = TRUE]
  BY TypeIs DEF IdleInv, PlayStarts, PlayStops
<1>2. /\ disk' \in DiskRec /\ disk'.used = TRUE /\ disk'.idle = disk.idle /\ disk'.base = disk.base
  BY <1>1 DEF DiskRec
<1>3. /\ use' \in UseRec
      /\ (use'.quiet = use.quiet /\ use'.net = use.net) \/ (use'.quiet = 0 /\ use'.net = 0)
      /\ box.guest # "off" \/ (use'.unsaved = use.unsaved /\ use'.left = use.left)
  <2>1. CASE PlayStarts
    <3>1. \A u \in UseRec :
            LET v == [u EXCEPT !.playing = TRUE, !.unsaved = TRUE, !.fresh = TRUE]
            IN  v \in UseRec /\ v.quiet = u.quiet /\ v.net = u.net
      BY DEF UseRec
    <3>2. /\ use' = [use EXCEPT !.playing = TRUE, !.unsaved = TRUE, !.fresh = TRUE]
          /\ box.guest # "off"
      BY <2>1 DEF PlayStarts
    <3>3. use \in UseRec /\ [use EXCEPT !.playing = TRUE, !.unsaved = TRUE, !.fresh = TRUE].net = use.net
      BY <1>1, <3>1
    <3>4. use' \in UseRec /\ use'.quiet = use.quiet /\ use'.net = use.net
      BY ONLY <3>1, <3>2, <3>3
    <3>5. QED BY <3>2, <3>4
  <2>2. CASE PlayStops
    <3>1. 0 \in 0..IdleWindow
      BY LimitsAre
    <3>2. QED BY <1>1, <2>2, <3>1 DEF PlayStops, UseRec
  <2>3. QED BY <2>1, <2>2
<1>4. TypeOK'
  <2>1. /\ box' \in BoxRec /\ use' \in UseRec /\ disk' \in DiskRec /\ tags' \in TagsRec /\ pace' \in PaceRec
        /\ events' \subseteq {"interruption", "gone"} /\ said' \subseteq Words
    BY <1>1, <1>2, <1>3, TypeIs DEF IdleInv
  <2>2. QED BY <2>1 DEF TypeOK, BoxRec, UseRec, DiskRec, TagsRec, PaceRec, Words
<1>5. Excuses'
  BY <1>1, <1>3 DEF IdleInv, Excuses, Excused, Ended
<1>6. Dated'
  BY <1>1 DEF IdleInv, Dated
<1>7. Watching'
  <2>1. (use'.quiet = use.quiet /\ use'.net = use.net) \/ (use'.quiet = 0 /\ use'.net = 0)
    BY <1>3
  <2>2. box' = box /\ (use.net <= use.quiet \/ box.age <= use.quiet)
    BY <1>1 DEF IdleInv, Watching
  <2>3. QED BY <2>1, <2>2 DEF Watching
<1>8. Counted'
  BY <1>1, <1>2 DEF IdleInv, Counted
<1>9. QED BY <1>4, <1>5, <1>6, <1>7, <1>8 DEF IdleInv

\* A running box goes down: the user, a reclaim, or the cloud watchdog.
LEMMA EndsStep ==
  ASSUME IdleInv, UserEnds \/ Interrupted \/ WatchdogEnds
  PROVE  IdleInv'
<1>1. /\ use \in UseRec /\ box \in BoxRec /\ pace \in PaceRec /\ disk \in DiskRec /\ tags \in TagsRec
      /\ box.state = "running" /\ use' = Quieted /\ UNCHANGED <<disk, tags>>
      /\ events \subseteq {"interruption", "gone"} /\ said \subseteq Words
  BY TypeIs DEF IdleInv, UserEnds, Interrupted, WatchdogEnds, Judged
<1>2. /\ box' \in BoxRec /\ box'.state \in {"shutting-down", "stopping"} /\ box'.guest # "off"
      /\ box'.age = box.age
      /\ box'.cut = box.cut \/ "interruption" \in events'
  <2>1. CASE UserEnds \/ WatchdogEnds
    <3>1. box' = [Ending(box) EXCEPT !.state = Down, !.stamped = TRUE]
      BY <2>1 DEF UserEnds, WatchdogEnds
    <3>2. \A b \in BoxRec, s \in {"shutting-down", "stopping"} :
            /\ [b EXCEPT !.state = s, !.stamped = TRUE] \in BoxRec
            /\ [b EXCEPT !.state = s, !.stamped = TRUE].state = s
            /\ [b EXCEPT !.state = s, !.stamped = TRUE].guest = b.guest
            /\ [b EXCEPT !.state = s, !.stamped = TRUE].age = b.age
            /\ [b EXCEPT !.state = s, !.stamped = TRUE].cut = b.cut
      BY DEF BoxRec
    <3>3. /\ Ending(box) \in BoxRec /\ Down \in {"shutting-down", "stopping"}
          /\ Ending(box).guest # "off" /\ Ending(box).age = box.age /\ Ending(box).cut = box.cut
      BY <1>1, GoesDown, DownIs
    <3>4. QED BY ONLY <3>1, <3>2, <3>3
  <2>2. CASE Interrupted
    <3>1. /\ box' = [Ending(box) EXCEPT !.state = "shutting-down", !.cut = TRUE]
          /\ "interruption" \in events'
      BY <2>2 DEF Interrupted
    <3>2. \A b \in BoxRec :
            /\ [b EXCEPT !.state = "shutting-down", !.cut = TRUE] \in BoxRec
            /\ [b EXCEPT !.state = "shutting-down", !.cut = TRUE].state = "shutting-down"
            /\ [b EXCEPT !.state = "shutting-down", !.cut = TRUE].guest = b.guest
            /\ [b EXCEPT !.state = "shutting-down", !.cut = TRUE].age = b.age
      BY DEF BoxRec
    <3>3. QED BY ZenonT(30), <1>1, <3>1, <3>2, GoesDown
  <2>3. QED BY <2>1, <2>2
<1>3. /\ pace' \in PaceRec /\ pace'.starts = pace.starts /\ pace'.ticked = pace.ticked
  BY <1>1 DEF UserEnds, Interrupted, WatchdogEnds, Looked, PaceRec
<1>4. /\ events \subseteq events' /\ said \subseteq said'
      /\ events' \subseteq {"interruption", "gone"} /\ said' \subseteq Words
  BY <1>1 DEF UserEnds, Interrupted, WatchdogEnds, Words
<1>5. /\ use' \in UseRec /\ use'.quiet = use.quiet /\ use'.net = use.net /\ use'.playing = FALSE
  BY <1>1, QuietedIs
<1>6. TypeOK'
  <2>1. box' \in BoxRec /\ use' \in UseRec /\ disk' \in DiskRec /\ tags' \in TagsRec /\ pace' \in PaceRec
    BY <1>1, <1>2, <1>3, <1>5
  <2>2. QED BY <2>1, <1>4 DEF TypeOK, BoxRec, UseRec, DiskRec, TagsRec, PaceRec, Words
<1>7. Excuses'
  BY <1>1, <1>2, <1>4 DEF IdleInv, Excuses, Excused, Ended
<1>8. Dated'
  BY <1>1 DEF IdleInv, Dated
<1>9. Watching'
  BY <1>2, <1>5 DEF IdleInv, Watching
<1>10. Counted'
  BY <1>1, <1>3, <1>5 DEF IdleInv, Counted
<1>11. QED BY <1>6, <1>7, <1>8, <1>9, <1>10 DEF IdleInv

LEMMA WedgeStep == ASSUME IdleInv, Wedges PROVE IdleInv'
<1>1. /\ use \in UseRec /\ box \in BoxRec /\ box.guest # "off"
      /\ box' = [box EXCEPT !.guest = "wedged"] /\ use' = Quieted
      /\ UNCHANGED <<disk, tags, events, said, pace>>
  BY TypeIs DEF IdleInv, Wedges
<1>2. /\ box' \in BoxRec /\ box'.state = box.state /\ box'.guest = "wedged" /\ box'.age = box.age
      /\ box'.down = box.down /\ box'.cut = box.cut
  BY <1>1 DEF BoxRec
<1>3. /\ use' \in UseRec /\ use'.quiet = use.quiet /\ use'.net = use.net /\ use'.playing = FALSE
  BY <1>1, QuietedIs
<1>4. TypeOK'
  BY <1>1, <1>2, <1>3 DEF IdleInv, TypeOK, BoxRec, UseRec
<1>5. Excuses'
  BY <1>1, <1>2 DEF IdleInv, Excuses, Excused, Ended
<1>6. Dated' /\ Watching' /\ Counted'
  BY <1>1, <1>2, <1>3 DEF IdleInv, Dated, Watching, Counted
<1>7. QED BY <1>4, <1>5, <1>6 DEF IdleInv

LEMMA SeenStep == ASSUME IdleInv, SeenGoingDown PROVE IdleInv'
<1>1. /\ box \in BoxRec /\ box.state = "running" /\ box' = [box EXCEPT !.state = Down]
      /\ UNCHANGED <<use, disk, tags, events, said, pace>>
  BY TypeIs DEF IdleInv, SeenGoingDown
<1>2. /\ box' \in BoxRec /\ box'.state \in {"shutting-down", "stopping"} /\ box'.guest = box.guest
      /\ box'.age = box.age /\ box'.cut = box.cut
  BY <1>1, DownIs DEF BoxRec
<1>3. TypeOK'
  BY ZenonT(30), <1>1, <1>2 DEF IdleInv, TypeOK, BoxRec
<1>4. Excuses'
  BY <1>1, <1>2 DEF IdleInv, Excuses, Excused, Ended
<1>5. Dated' /\ Watching' /\ Counted'
  BY <1>1, <1>2 DEF IdleInv, Dated, Watching, Counted
<1>6. QED BY <1>3, <1>4, <1>5 DEF IdleInv

\* A box that has gone down, or is cut, is over: this is where games are lost.
LEMMA GoneStep == ASSUME IdleInv, AwsEnds PROVE IdleInv'
<1>1. /\ box \in BoxRec /\ use \in UseRec /\ GoingDown /\ (box.guest = "off" \/ box.cut) /\ use' = Quieted
      /\ box' = [box EXCEPT !.state = IF box.kind = "spot" THEN "terminated" ELSE "stopped",
                            !.guest = "off"]
      /\ events' = events \cup {"gone"} /\ UNCHANGED <<disk, tags, said, pace>>
  BY TypeIs DEF IdleInv, AwsEnds
<1>2. /\ box' \in BoxRec /\ box'.state \in {"terminated", "stopped"} /\ box'.guest = "off"
      /\ box'.age = box.age /\ box'.down = box.down /\ box'.cut = box.cut
  BY <1>1 DEF BoxRec
<1>3. /\ use' \in UseRec /\ use'.quiet = use.quiet /\ use'.net = use.net /\ use'.playing = FALSE
      /\ use'.unsaved = use.unsaved /\ use'.left = use.left
  BY <1>1, QuietedIs
<1>4. TypeOK'
  BY <1>1, <1>2, <1>3 DEF IdleInv, TypeOK, BoxRec, UseRec
<1>5. Excuses'
  <2>1. use.unsaved => use.left \/ "not saved" \in said \/ Excused
    BY <1>1 DEF IdleInv, Excuses, GoingDown
  <2>2. QED BY <1>1, <1>2, <1>3, <2>1 DEF IdleInv, Excuses, Excused, Ended
<1>6. Dated' /\ Watching' /\ Counted'
  BY <1>1, <1>2, <1>3 DEF IdleInv, Dated, Watching, Counted
<1>7. QED BY <1>4, <1>5, <1>6 DEF IdleInv

\* Started again, it is a run of its own: nothing of the last one counts.
LEMMA AgainStep == ASSUME IdleInv, StartedAgain PROVE IdleInv'
<1>1. /\ box \in BoxRec /\ use \in UseRec /\ disk \in DiskRec /\ tags \in TagsRec /\ pace \in PaceRec
      /\ box.state = "stopped" /\ pace.starts < Starts /\ events' = {} /\ said' = {}
  BY TypeIs DEF IdleInv, StartedAgain
<1>2. /\ box' \in BoxRec /\ box'.state = "pending" /\ box'.age = 0 /\ box'.cut = FALSE
  <2>1. 0 \in 0..(Grace + IdleWindow) /\ 0 \in 0..StuckAfter
    BY LimitsAre
  <2>2. QED BY <1>1, <2>1 DEF BoxRec, StartedAgain
<1>3. use' \in UseRec /\ use'.quiet = 0
  BY <1>1, LimitsAre DEF UseRec, StartedAgain
<1>4. disk' \in DiskRec
  BY <1>1 DEF DiskRec, StartedAgain
<1>5. tags' \in TagsRec /\ tags'.noted # "this" /\ tags'.forced = FALSE
  BY <1>1 DEF TagsRec, StartedAgain
<1>6. pace' \in PaceRec /\ pace'.starts # 0
  <2>1. pace.starts \in 0..Starts /\ pace.starts + 1 \in 0..Starts /\ pace.starts + 1 # 0
    BY <1>1, LimitsAre DEF PaceRec
  <2>2. QED BY <1>1, <2>1 DEF PaceRec, StartedAgain
<1>7. TypeOK'
  BY <1>1, <1>2, <1>3, <1>4, <1>5, <1>6 DEF TypeOK, BoxRec, UseRec, DiskRec, TagsRec, PaceRec
<1>8. Excuses'
  BY <1>2, <1>5 DEF Excuses, Ended
<1>9. Dated' /\ Watching' /\ Counted'
  BY <1>2, <1>3, <1>5, <1>6 DEF Dated, Watching, Counted
<1>10. QED BY <1>7, <1>8, <1>9 DEF IdleInv

-----------------------------------------------------------------------------
(* The watchdog on the box, and the save of the games as it goes down.       *)
\* A look counts on only when it saw no traffic.
LEMMA LookCounts ==
  ASSUME IdleInv, HostLooks
  PROVE  /\ disk' \in DiskRec /\ disk'.base = "this" /\ disk'.used = FALSE
         /\ pace.starts = 0 => disk'.idle <= use.quiet + 1
<1>1. /\ disk \in DiskRec /\ use \in UseRec /\ pace.ticked = FALSE
  BY TypeIs DEF IdleInv, HostLooks, PaceRec
<1>2. PICK busy \in Busy : disk' = [idle |-> IdleAfter(busy), base |-> "this", used |-> FALSE]
  BY DEF HostLooks
<1>3. disk.idle \in 0..IdleLimit /\ IdleLimit \in Nat /\ 0 \in 0..IdleLimit /\ use.quiet \in Nat
  BY <1>1, LimitsAre DEF DiskRec, UseRec
<1>4. IdleAfter(busy) \in 0..IdleLimit /\ (IdleAfter(busy) <= disk.idle + 1) /\ (busy => IdleAfter(busy) = 0)
  <2>1. CASE busy
    <3>1. IdleAfter(busy) = 0
      BY <2>1 DEF IdleAfter
    <3>2. QED BY ONLY <1>3, <3>1
  <2>2. CASE ~busy
    <3>1. IdleAfter(busy) = Older(disk.idle, IdleLimit)
      BY <2>2 DEF IdleAfter
    <3>2. QED BY <1>3, <2>2, <3>1, OlderIs
  <2>3. QED BY <2>1, <2>2
<1>5. disk' \in DiskRec /\ disk'.idle = IdleAfter(busy) /\ disk'.base = "this" /\ disk'.used = FALSE
  BY <1>2, <1>4 DEF DiskRec
<1>6. ASSUME pace.starts = 0 PROVE IdleAfter(busy) <= use.quiet + 1
  <2>1. CASE busy
    <3>1. IdleAfter(busy) = 0
      BY <1>4, <2>1
    <3>2. QED BY ONLY <1>3, <3>1
  <2>2. CASE ~busy
    <3>1. disk.base \in {"none", "this"}
      BY <1>1, <1>6 DEF IdleInv, Counted, DiskRec
    <3>2. disk.idle <= use.quiet
      <4>1. CASE disk.base = "none"
        <5>1. disk.idle = 0
          BY <1>6, <4>1 DEF IdleInv, Counted
        <5>2. QED BY ONLY <1>3, <5>1
      <4>2. CASE disk.base = "this"
        <5>1. busy = disk.used
          BY <4>2 DEF Busy
        <5>2. QED BY <1>1, <1>6, <2>2, <4>2, <5>1 DEF IdleInv, Counted
      <4>3. QED BY <3>1, <4>1, <4>2
    <3>3. IdleAfter(busy) <= disk.idle + 1
      BY <1>4
    <3>4. IdleAfter(busy) \in Nat
      BY <1>3, <1>4
    <3>5. QED BY ONLY <1>3, <3>2, <3>3, <3>4
  <2>3. QED BY <2>1, <2>2
<1>7. QED BY <1>5, <1>6

LEMMA HostLookStep == ASSUME IdleInv, HostLooks PROVE IdleInv'
<1>1. /\ box \in BoxRec /\ use \in UseRec /\ pace \in PaceRec /\ box.guest = "up"
      /\ UNCHANGED <<tags, events, said>>
      /\ use' = [use EXCEPT !.fresh = use.playing] /\ pace' = [pace EXCEPT !.ticked = TRUE]
  BY TypeIs DEF IdleInv, HostLooks
<1>2. PICK g \in {"saving", "up"} : box' = [box EXCEPT !.guest = g]
  BY DEF HostLooks
<1>3. /\ box' \in BoxRec /\ box'.state = box.state /\ box'.guest # "off" /\ box'.age = box.age
      /\ box'.down = box.down /\ box'.cut = box.cut
  BY <1>1, <1>2 DEF BoxRec
<1>4. use' \in UseRec /\ use'.quiet = use.quiet /\ use'.net = use.net
  BY <1>1 DEF UseRec
<1>5. pace' \in PaceRec /\ pace'.ticked = TRUE /\ pace'.starts = pace.starts
  BY <1>1 DEF PaceRec
<1>6. TypeOK'
  <2>1. /\ disk' \in DiskRec /\ tags' \in TagsRec
        /\ events' \subseteq {"interruption", "gone"} /\ said' \subseteq Words
    BY <1>1, LookCounts, TypeIs DEF IdleInv
  <2>2. QED BY <1>3, <1>4, <1>5, <2>1 DEF TypeOK, BoxRec, UseRec, DiskRec, TagsRec, PaceRec, Words
<1>7. Excuses'
  BY <1>1, <1>3 DEF IdleInv, Excuses, Excused, Ended
<1>8. Dated' /\ Watching'
  BY <1>1, <1>3, <1>4 DEF IdleInv, Dated, Watching
<1>9. Counted'
  BY <1>4, <1>5, LookCounts DEF Counted
<1>10. QED BY <1>6, <1>7, <1>8, <1>9 DEF IdleInv

\* What a push leaves, and what is told of it.
LEMMA PushLeaves ==
  ASSUME NEW u \in UseRec, NEW push \in Push, NEW since \in BOOLEAN
  PROVE  /\ AfterPush(u, push, since) \in UseRec
         /\ AfterPush(u, push, since).quiet = u.quiet /\ AfterPush(u, push, since).net = u.net
         /\ AfterPush(u, push, since).playing = u.playing
         /\ said \subseteq Told(push) /\ Told(push) \subseteq said \cup {"not saved"}
         /\ ~since => \/ ~AfterPush(u, push, since).unsaved
                      \/ AfterPush(u, push, since).left \/ "not saved" \in Told(push)
<1> DEFINE x == IF push = "worked" THEN since ELSE u.unsaved
           l == push = "partly" /\ u.unsaved
<1>1. u.unsaved \in BOOLEAN
  BY DEF UseRec
<1>2. x \in BOOLEAN /\ l \in BOOLEAN
  BY <1>1
<1>3. AfterPush(u, push, since) = [u EXCEPT !.unsaved = x, !.left = l]
  BY DEF AfterPush
<1>4. ~since => ~x \/ l \/ push = "failed"
  BY DEF Push
<1> HIDE DEF x, l
<1>5. /\ AfterPush(u, push, since) \in UseRec
      /\ AfterPush(u, push, since).quiet = u.quiet /\ AfterPush(u, push, since).net = u.net
      /\ AfterPush(u, push, since).playing = u.playing
      /\ AfterPush(u, push, since).unsaved = x /\ AfterPush(u, push, since).left = l
  BY <1>2, <1>3 DEF UseRec
<1>6. /\ said \subseteq Told(push) /\ Told(push) \subseteq said \cup {"not saved"}
      /\ push = "failed" => "not saved" \in Told(push)
  BY DEF Told
<1>7. QED BY <1>4, <1>5, <1>6

\* A push ends, and a push that failed is said.
LEMMA PushStep == ASSUME IdleInv, HostShutsDown \/ ShutdownPush PROVE IdleInv'
<1>1. /\ box \in BoxRec /\ use \in UseRec /\ said \subseteq Words /\ box.guest # "off"
      /\ UNCHANGED <<disk, tags, events, pace>>
  BY TypeIs DEF IdleInv, HostShutsDown, ShutdownPush
<1>2. /\ box' \in BoxRec /\ box'.state = box.state /\ box'.age = box.age /\ box'.down = box.down
      /\ box'.cut = box.cut
  <2>1. CASE HostShutsDown
    BY <1>1, <2>1, GoesDown DEF HostShutsDown
  <2>2. CASE ShutdownPush
    BY <1>1, <2>2 DEF ShutdownPush, BoxRec
  <2>3. QED BY <2>1, <2>2
<1>3. PICK push \in Push, u \in {Quieted, use}, since \in BOOLEAN :
        /\ use' = AfterPush(u, push, since) /\ said' = Told(push)
        /\ box'.guest # "off" \/ ~since
  <2>1. use.fresh \in BOOLEAN
    BY <1>1 DEF UseRec
  <2>2. CASE HostShutsDown
    <3>1. box'.guest # "off"
      BY <1>1, <2>2, GoesDown DEF HostShutsDown
    <3>2. \E push \in Push : use' = AfterPush(Quieted, push, use.fresh) /\ said' = Told(push)
      BY <2>2 DEF HostShutsDown
    <3>3. QED BY <2>1, <3>1, <3>2
  <2>3. CASE ShutdownPush
    <3>1. \E push \in Push : use' = AfterPush(use, push, FALSE) /\ said' = Told(push)
      BY <2>3 DEF ShutdownPush
    <3>2. QED BY <3>1
  <2>4. QED BY <2>2, <2>3
<1>4. /\ u \in UseRec /\ u.quiet = use.quiet /\ u.net = use.net /\ (u.playing => use.playing)
  BY <1>1, QuietedIs
<1>5. /\ use' \in UseRec /\ use'.quiet = use.quiet /\ use'.net = use.net
      /\ use'.playing => use.playing
      /\ said \subseteq said' /\ said' \subseteq Words
      /\ box'.guest # "off" \/ ~use'.unsaved \/ use'.left \/ "not saved" \in said'
  <2>1. "not saved" \in Words
    BY DEF Words
  <2> DEFINE v == AfterPush(u, push, since)
  <2>2. /\ v \in UseRec /\ v.quiet = u.quiet /\ v.net = u.net /\ v.playing = u.playing
        /\ said \subseteq Told(push) /\ Told(push) \subseteq said \cup {"not saved"}
        /\ ~since => ~v.unsaved \/ v.left \/ "not saved" \in Told(push)
    BY <1>4, PushLeaves
  <2>3. use' = v /\ said' = Told(push) /\ (box'.guest # "off" \/ ~since)
    BY <1>3
  <2> HIDE DEF v
  <2>4. QED BY ONLY <1>1, <1>4, <2>1, <2>2, <2>3
<1>6. TypeOK'
  <2>1. /\ disk' \in DiskRec /\ tags' \in TagsRec /\ pace' \in PaceRec
        /\ events' \subseteq {"interruption", "gone"}
    BY <1>1, TypeIs DEF IdleInv
  <2>2. QED BY <1>2, <1>5, <2>1 DEF TypeOK, BoxRec, UseRec, DiskRec, TagsRec, PaceRec, Words
<1>7. Excuses'
  BY <1>1, <1>2, <1>5 DEF IdleInv, Excuses, Excused, Ended
<1>8. Dated' /\ Watching'
  BY <1>1, <1>2, <1>5 DEF IdleInv, Dated, Watching
<1>9. Counted'
  BY <1>1, <1>5 DEF IdleInv, Counted
<1>10. QED BY <1>6, <1>7, <1>8, <1>9 DEF IdleInv

-----------------------------------------------------------------------------
(* The cloud watchdog.                                                       *)
LEMMA PacesOn ==
  ASSUME pace \in PaceRec
  PROVE  /\ Looked => pace' \in PaceRec /\ pace'.starts = pace.starts /\ pace'.ticked = pace.ticked
         /\ PassFails => pace' \in PaceRec /\ pace'.starts = pace.starts /\ pace'.ticked = pace.ticked
<1>1. Looked => pace' \in PaceRec /\ pace'.starts = pace.starts /\ pace'.ticked = pace.ticked
  BY DEF Looked, PaceRec
<1>2. ASSUME PassFails PROVE pace' \in PaceRec /\ pace'.starts = pace.starts /\ pace'.ticked = pace.ticked
  <2>1. pace.missed + 1 \in 0..Misses
    BY <1>2, LimitsAre DEF PassFails, PaceRec
  <2>2. QED BY <1>2, <2>1 DEF PassFails, PaceRec
<1>3. QED BY <1>1, <1>2

\* A pass that ends nothing.
LEMMA LeavesStep ==
  ASSUME IdleInv, WatchdogLeavesIt \/ FirstSeenGoingDown \/ LetsItFinish \/ PassFails
  PROVE  IdleInv'
<1>1. /\ pace \in PaceRec /\ tags \in TagsRec /\ box \in BoxRec /\ said \subseteq Words
      /\ UNCHANGED <<box, use, disk, events>>
  BY TypeIs DEF IdleInv, WatchdogLeavesIt, FirstSeenGoingDown, LetsItFinish, PassFails
<1>2. pace' \in PaceRec /\ pace'.starts = pace.starts /\ pace'.ticked = pace.ticked
  BY <1>1, PacesOn DEF WatchdogLeavesIt, FirstSeenGoingDown, LetsItFinish
<1>3. said \subseteq said' /\ said' \subseteq Words
  <2>1. CASE LetsItFinish
    <3>1. said' = said \cup {"slow"} \/ said' = said
      BY <2>1 DEF LetsItFinish
    <3>2. QED BY <1>1, <3>1 DEF Words
  <2>2. CASE ~LetsItFinish
    BY <1>1, <2>2 DEF WatchdogLeavesIt, FirstSeenGoingDown, PassFails
  <2>3. QED BY <2>1, <2>2
<1>4. /\ tags' \in TagsRec /\ tags'.forced = tags.forced
      /\ tags'.noted = "this" => \/ tags.noted = "this" /\ tags'.since = tags.since
                                 \/ tags'.since = 0 /\ GoingDown
  <2>1. CASE FirstSeenGoingDown
    <3>1. 0 \in 0..StuckAfter
      BY LimitsAre
    <3>2. QED BY <1>1, <2>1, <3>1 DEF FirstSeenGoingDown, TagsRec
  <2>2. CASE LetsItFinish
    <3>1. tags' = [tags EXCEPT !.slow = TRUE] \/ tags' = tags
      BY <2>2 DEF LetsItFinish
    <3>2. QED BY <1>1, <3>1 DEF TagsRec
  <2>3. CASE WatchdogLeavesIt \/ PassFails
    BY <1>1, <2>3 DEF WatchdogLeavesIt, PassFails
  <2>4. QED BY <2>1, <2>2, <2>3
<1>5. TypeOK'
  <2>1. /\ box' \in BoxRec /\ use' \in UseRec /\ disk' \in DiskRec /\ events' \subseteq {"interruption", "gone"}
    BY <1>1, TypeIs DEF IdleInv
  <2>2. QED BY <1>2, <1>3, <1>4, <2>1 DEF TypeOK, BoxRec, UseRec, DiskRec, TagsRec, PaceRec, Words
<1>6. Excuses'
  BY <1>1, <1>3, <1>4 DEF IdleInv, Excuses, Excused, Ended
<1>7. Dated'
  <2>1. box.down \in Nat /\ 0 <= box.down
    BY <1>1, LimitsAre DEF BoxRec
  <2>2. GoingDown => box.state \notin {"pending", "running"}
    BY DEF GoingDown
  <2>3. QED BY <1>1, <1>4, <2>1, <2>2 DEF IdleInv, Dated
<1>8. Watching' /\ Counted'
  BY <1>1, <1>2 DEF IdleInv, Watching, Counted
<1>9. QED BY <1>5, <1>6, <1>7, <1>8 DEF IdleInv

LEMMA ForceStep == ASSUME IdleInv, Forces PROVE IdleInv'
<1>1. /\ pace \in PaceRec /\ tags \in TagsRec /\ box \in BoxRec /\ said \subseteq Words
      /\ UNCHANGED <<use, disk, events>> /\ box' = [box EXCEPT !.cut = TRUE]
  BY TypeIs DEF IdleInv, Forces
<1>2. pace' \in PaceRec /\ pace'.starts = pace.starts /\ pace'.ticked = pace.ticked
  BY <1>1, PacesOn DEF Forces
<1>3. /\ box' \in BoxRec /\ box'.state = box.state /\ box'.guest = box.guest /\ box'.age = box.age
      /\ box'.down = box.down
  BY <1>1 DEF BoxRec
<1>4. /\ tags' \in TagsRec /\ tags'.noted = tags.noted /\ tags'.since = tags.since
      /\ said \subseteq said' /\ said' \subseteq Words /\ "forced off" \in said'
  <2>1. CASE tags.forced
    BY <1>1, <2>1 DEF Forces, IdleInv, Excuses
  <2>2. CASE ~tags.forced
    <3>1. said' = said \cup {"forced off"} /\ tags' = [tags EXCEPT !.forced = TRUE]
      BY <2>2 DEF Forces
    <3>2. QED BY <1>1, <3>1 DEF TagsRec, Words
  <2>3. QED BY <2>1, <2>2
<1>5. TypeOK'
  <2>1. use' \in UseRec /\ disk' \in DiskRec /\ events' \subseteq {"interruption", "gone"}
    BY <1>1, TypeIs DEF IdleInv
  <2>2. QED BY <1>2, <1>3, <1>4, <2>1 DEF TypeOK, BoxRec, UseRec, DiskRec, TagsRec, PaceRec, Words
<1>6. Excuses'
  BY <1>1, <1>3, <1>4 DEF IdleInv, Excuses, Excused, Ended
<1>7. Dated' /\ Watching' /\ Counted'
  BY <1>1, <1>2, <1>3, <1>4 DEF IdleInv, Dated, Watching, Counted
<1>8. QED BY <1>5, <1>6, <1>7 DEF IdleInv

LEMMA EventStep == ASSUME IdleInv, SaysEvent PROVE IdleInv'
<1>1. PICK e \in events : events' = events \ {e} /\ said' = said \cup {e} /\ UNCHANGED <<box, use, disk, tags, pace>>
  BY DEF SaysEvent
<1>2. TypeOK'
  <2>1. /\ box' \in BoxRec /\ use' \in UseRec /\ disk' \in DiskRec /\ tags' \in TagsRec /\ pace' \in PaceRec
        /\ e \in {"interruption", "gone"} /\ events \subseteq {"interruption", "gone"} /\ said \subseteq Words
    BY <1>1, TypeIs DEF IdleInv
  <2>2. events' \subseteq {"interruption", "gone"} /\ said' \subseteq Words
    BY <1>1, <2>1 DEF Words
  <2>3. QED BY <2>1, <2>2 DEF TypeOK, BoxRec, UseRec, DiskRec, TagsRec, PaceRec, Words
<1>3. Excuses'
  BY <1>1 DEF IdleInv, Excuses, Excused, Ended
<1>4. Dated' /\ Watching' /\ Counted'
  BY <1>1 DEF IdleInv, Dated, Watching, Counted
<1>5. QED BY <1>2, <1>3, <1>4 DEF IdleInv

-----------------------------------------------------------------------------
(* A period goes by.                                                         *)
LEMMA TickStep == ASSUME IdleInv, Tick PROVE IdleInv'
<1> DEFINE q == Older(use.quiet, IdleWindow)
           n == Older(use.net, IdleWindow)
           a == Older(box.age, Grace + IdleWindow)
           d == Older(box.down, StuckAfter)
           s == Older(tags.since, StuckAfter)
<1>0. /\ box \in BoxRec /\ use \in UseRec /\ disk \in DiskRec /\ tags \in TagsRec /\ pace \in PaceRec
      /\ UNCHANGED <<events, said>>
  BY TypeIs DEF IdleInv, Tick
<1>1. /\ use.quiet \in 0..IdleWindow /\ use.net \in 0..IdleWindow /\ box.age \in 0..(Grace + IdleWindow)
      /\ box.down \in 0..StuckAfter /\ tags.since \in 0..StuckAfter /\ disk.idle \in 0..IdleLimit
      /\ Grace \in Nat /\ IdleWindow \in Nat /\ StuckAfter \in Nat /\ IdleLimit \in Nat
      /\ IdleLimit <= IdleWindow /\ Grace > 0 /\ Grace + IdleWindow \in Nat
      /\ 0 \in 0..IdleWindow /\ 0 \in 0..StuckAfter
      /\ use.playing \in BOOLEAN /\ disk.used \in BOOLEAN
  BY <1>0, LimitsAre DEF BoxRec, UseRec, DiskRec, TagsRec
<1>2. /\ q \in 0..IdleWindow /\ (q = use.quiet + 1 \/ (q = use.quiet /\ q = IdleWindow))
      /\ n \in 0..IdleWindow /\ (n = use.net + 1 \/ (n = use.net /\ n = IdleWindow))
      /\ a \in 0..(Grace + IdleWindow) /\ a <= box.age + 1 
      /\ d \in 0..StuckAfter /\ (d = box.down + 1 \/ (d = box.down /\ d = StuckAfter))
      /\ s \in 0..StuckAfter /\ s <= tags.since + 1
  BY <1>1, OlderIs
<1> HIDE DEF q, n, a, d, s
<1>3. /\ use' \in UseRec /\ use'.playing = use.playing /\ use'.unsaved = use.unsaved
      /\ use'.left = use.left
      /\ use'.quiet = (IF use.playing THEN 0 ELSE q) /\ use'.net \in {0, n}
      /\ use.playing => use'.net = 0
  BY <1>0, <1>1, <1>2 DEF Tick, UseRec, q, n
<1>4. /\ disk' \in DiskRec /\ disk'.idle = disk.idle /\ disk'.base = disk.base
      /\ disk'.used = (disk.used \/ use.playing)
  BY <1>0, <1>1 DEF Tick, DiskRec
<1>5. /\ box' \in BoxRec /\ box'.state = box.state /\ box'.guest = box.guest /\ box'.cut = box.cut
      /\ box'.age = a /\ box'.down = (IF GoingDown THEN d ELSE 0)
  BY <1>0, <1>1, <1>2 DEF Tick, BoxRec, a, d
<1>6. /\ tags' \in TagsRec /\ tags'.noted = tags.noted /\ tags'.forced = tags.forced
      /\ tags.noted = "this" => tags'.since = s
  BY <1>0, <1>1, <1>2 DEF Tick, TagsRec, s
<1>7. pace' \in PaceRec /\ pace'.ticked = FALSE /\ pace'.starts = pace.starts
  BY <1>0 DEF Tick, PaceRec
<1>8. TypeOK'
  <2>1. events' \subseteq {"interruption", "gone"} /\ said' \subseteq Words
    BY <1>0, TypeIs DEF IdleInv
  <2>2. QED BY <1>3, <1>4, <1>5, <1>6, <1>7, <2>1 DEF TypeOK, BoxRec, UseRec, DiskRec, TagsRec, PaceRec, Words
<1>9. Excuses'
  BY <1>0, <1>3, <1>5, <1>6 DEF IdleInv, Excuses, Excused, Ended
<1>10. Dated'
  <2>1. SUFFICES ASSUME tags.noted = "this" PROVE box.state \notin {"pending", "running"} /\ s <= box'.down
    BY <1>5, <1>6 DEF Dated
  <2>2. box.state \notin {"pending", "running"} /\ tags.since <= box.down /\ On
    BY <2>1 DEF IdleInv, Dated, Tick
  <2>3. box'.down = d
    BY <1>5, <2>2 DEF On, GoingDown
  <2>4. s <= d
    BY ONLY <1>1, <1>2, <2>2
  <2>5. QED BY <2>2, <2>3, <2>4
<1>11. Watching'
  <2>1. use.net <= use.quiet \/ box.age <= use.quiet
    BY DEF IdleInv, Watching
  <2>2. use'.net <= use'.quiet \/ a <= use'.quiet
    <3>1. CASE use.playing
      <4>1. use'.net = 0 /\ use'.quiet = 0
        BY <1>3, <3>1
      <4>2. QED BY <4>1
    <3>2. CASE ~use.playing
      <4>1. use'.quiet = q /\ use'.net \in {0, n}
        BY <1>3, <3>2
      <4>2. QED BY ONLY <1>1, <1>2, <2>1, <4>1
    <3>3. QED BY <3>1, <3>2
  <2>3. QED BY <1>5, <2>2 DEF Watching
<1>12. Counted'
  <2>1. SUFFICES ASSUME pace.starts = 0
                 PROVE  /\ disk.base # "earlier"
                        /\ disk.base = "none" => disk.idle = 0
                        /\ disk.base = "this" /\ ~disk'.used => disk.idle <= use'.quiet /\ ~use'.playing
    BY <1>4, <1>7 DEF Counted
  <2>2. /\ disk.base # "earlier"
        /\ disk.base = "none" => disk.idle = 0
    BY <2>1 DEF IdleInv, Counted
  <2>3. ASSUME disk.base = "this", ~disk'.used PROVE disk.idle <= use'.quiet /\ ~use'.playing
    <3>1. ~disk.used /\ ~use.playing /\ ~use'.playing
      BY <1>1, <1>3, <1>4, <2>3
    <3>2. use'.quiet = q
      BY <1>3, <3>1
    <3>3. disk.idle <= use.quiet + 1
      <4>1. pace.ticked \in BOOLEAN
        BY <1>0 DEF PaceRec
      <4>2. disk.idle <= use.quiet \/ disk.idle <= use.quiet + 1
        BY <2>1, <2>3, <3>1, <4>1 DEF IdleInv, Counted
      <4>3. QED BY ONLY <1>1, <4>2
    <3>4. disk.idle <= q
      BY ONLY <1>1, <1>2, <3>3
    <3>5. QED BY <3>1, <3>2, <3>4
  <2>4. QED BY <2>2, <2>3
<1>13. QED BY <1>8, <1>9, <1>10, <1>11, <1>12 DEF IdleInv

-----------------------------------------------------------------------------
LEMMA IdleNext ==
  ASSUME IdleInv, [Next]_vars
  PROVE  IdleInv'
<1>1. CASE UNCHANGED vars
  <2>1. /\ box' = box /\ use' = use /\ disk' = disk /\ tags' = tags /\ events' = events
        /\ said' = said /\ pace' = pace
    BY <1>1 DEF vars
  <2>2. TypeOK'
    <3>1. /\ box' \in BoxRec /\ use' \in UseRec /\ disk' \in DiskRec /\ tags' \in TagsRec /\ pace' \in PaceRec
          /\ events' \subseteq {"interruption", "gone"} /\ said' \subseteq Words
      BY <2>1, TypeIs DEF IdleInv
    <3>2. QED BY <3>1 DEF TypeOK, BoxRec, UseRec, DiskRec, TagsRec, PaceRec, Words
  <2>3. Excuses'
    BY <2>1, Zenon DEF IdleInv, Excuses, Excused, Ended
  <2>4. Dated' /\ Watching' /\ Counted'
    BY <2>1 DEF IdleInv, Dated, Watching, Counted
  <2>5. QED BY <2>2, <2>3, <2>4 DEF IdleInv
<1>2. CASE ComesUp \/ PlayStarts \/ PlayStops \/ Wedges \/ SeenGoingDown \/ AwsEnds \/ StartedAgain
  BY <1>2, UpStep, PlayStep, WedgeStep, SeenStep, GoneStep, AgainStep
<1>3. CASE UserEnds \/ Interrupted \/ WatchdogEnds
  BY <1>3, EndsStep
<1>4. CASE HostLooks \/ HostShutsDown \/ ShutdownPush
  BY <1>4, HostLookStep, PushStep
<1>5. CASE WatchdogLeavesIt \/ FirstSeenGoingDown \/ LetsItFinish \/ Forces \/ PassFails
  BY <1>5, LeavesStep, ForceStep
<1>6. CASE SaysEvent \/ Tick
  BY <1>6, EventStep, TickStep
<1>7. QED BY <1>1, <1>2, <1>3, <1>4, <1>5, <1>6 DEF Next, Pass

LEMMA IdleInit == Init => IdleInv
<1> SUFFICES ASSUME Init PROVE IdleInv
  OBVIOUS
<1>1. PICK kind \in {"spot", "on-demand"} :
        box = [kind |-> kind, state |-> "pending", guest |-> "off", age |-> 0, down |-> 0,
               stamped |-> FALSE, cut |-> FALSE]
  BY DEF Init
<1>2. 0 \in 0..IdleWindow /\ IdleWindow \in 0..IdleWindow /\ 0 \in 0..IdleLimit /\ 0 \in 0..StuckAfter
      /\ 0 \in 0..(Grace + IdleWindow) /\ 0 \in 0..Misses /\ 0 \in 0..Starts
  BY LimitsAre
<1>3. TypeOK
  BY <1>1, <1>2 DEF Init, TypeOK, NoTags
<1>4. /\ ~box.cut /\ box.state = "pending" /\ box.age = 0 /\ use.quiet = 0
      /\ ~tags.forced /\ tags.noted = "none" /\ disk.base = "none" /\ disk.idle = 0
  BY <1>1 DEF Init, NoTags
<1>5. Excuses /\ Dated
  BY <1>4 DEF Excuses, Ended, Dated
<1>6. Watching
  BY <1>4 DEF Watching
<1>7. Counted
  BY <1>4 DEF Counted
<1>8. QED BY <1>3, <1>5, <1>6, <1>7 DEF IdleInv

LEMMA IdleInductive == Spec => []IdleInv
BY IdleInit, IdleNext, PTL DEF Spec

\* What both watchdogs count, write and tag has its type in every state.
THEOREM IdleTyped == Spec => []TypeOK
<1>1. IdleInv => TypeOK
  BY DEF IdleInv
<1>2. QED BY <1>1, IdleInductive, PTL

\* A box that ends with games not in the archive has said so, whatever stopped
\* it: a push that failed is said by the box, a stop that was cut by the
\* watchdog that cut it or by AWS's own notice.  Only what a push left behind
\* that ended as one that works is not said.
THEOREM NothingLostInSilence == Spec => []UnsavedIsSaid
<1>1. IdleInv => UnsavedIsSaid
  BY DEF IdleInv, Excuses, Excused, Ended, UnsavedIsSaid, LossIsSaid
<1>2. QED BY <1>1, IdleInductive, PTL

-----------------------------------------------------------------------------
(* The reasons.                                                              *)
\* No traffic for the whole window, and watched for all of it.
LEMMA EndsUnused == ASSUME IdleInv, WatchdogEnds PROVE use.quiet >= IdleWindow
<1>1. /\ box.age >= Grace + IdleWindow /\ use.net >= IdleWindow
      /\ use.net <= use.quiet \/ box.age <= use.quiet
  BY DEF WatchdogEnds, Judged, Watched, IdleInv, Watching
<1>2. /\ use.quiet \in 0..IdleWindow /\ use.net \in 0..IdleWindow /\ box.age \in 0..(Grace + IdleWindow)
      /\ Grace \in Nat /\ IdleWindow \in Nat /\ Grace > 0
  BY TypeIs, LimitsAre DEF IdleInv, BoxRec, UseRec
<1>3. QED BY ONLY <1>1, <1>2

LEMMA SavesUnused ==
  ASSUME IdleInv, HostLooks, box'.guest = "saving"
  PROVE  pace.starts > 0 \/ QuietForTheHost
<1>1. disk'.idle >= IdleLimit
  <2>1. box \in BoxRec /\ box.guest = "up" /\ box' = [box EXCEPT !.guest = IF disk'.idle >= IdleLimit THEN "saving" ELSE "up"]
    BY TypeIs DEF IdleInv, HostLooks
  <2>2. QED BY <2>1 DEF BoxRec
<1>2. /\ pace.starts = 0 => disk'.idle <= use.quiet + 1
      /\ disk'.idle \in 0..IdleLimit
  BY LookCounts DEF DiskRec
<1>3. pace.starts \in 0..Starts /\ use.quiet \in 0..IdleWindow /\ IdleLimit \in Nat /\ IdleWindow \in Nat /\ Starts \in Nat
  BY TypeIs, LimitsAre DEF IdleInv, PaceRec, UseRec
<1>4. pace.starts > 0 \/ use.quiet >= IdleLimit - 1
  BY ONLY <1>1, <1>2, <1>3
<1>5. QED BY <1>4 DEF QuietForTheHost

\* Only a look of the watchdog on the box begins the save.
LEMMA OnlyLooksSave ==
  ASSUME IdleInv, [Next]_vars, box.guest = "up", box'.guest = "saving"
  PROVE  HostLooks
<1>0. box \in BoxRec
  BY TypeIs DEF IdleInv
<1>1. CASE UNCHANGED vars
  BY <1>1 DEF vars
<1>2. CASE ComesUp \/ Wedges \/ SeenGoingDown \/ AwsEnds \/ StartedAgain \/ Tick \/ Forces
  BY <1>0, <1>2 DEF ComesUp, Wedges, SeenGoingDown, AwsEnds, StartedAgain, Tick, Forces, BoxRec
<1>3. CASE UserEnds \/ Interrupted \/ WatchdogEnds
  <2>1. \A b \in BoxRec, s \in {"shutting-down", "stopping"} :
          /\ [b EXCEPT !.state = s, !.stamped = TRUE].guest = b.guest
          /\ [b EXCEPT !.state = "shutting-down", !.cut = TRUE].guest = b.guest
    BY DEF BoxRec
  <2>2. \/ box' = [Ending(box) EXCEPT !.state = Down, !.stamped = TRUE]
        \/ box' = [Ending(box) EXCEPT !.state = "shutting-down", !.cut = TRUE]
    BY <1>3 DEF UserEnds, Interrupted, WatchdogEnds
  <2>3. Ending(box) \in BoxRec /\ Ending(box).guest \in {"ending", "wedged"} /\ Down \in {"shutting-down", "stopping"}
    BY <1>0, GoesDown, DownIs
  <2>4. box'.guest = Ending(box).guest
    BY ONLY ZenonT(30), <2>1, <2>2, <2>3
  <2>5. QED BY <2>3, <2>4
<1>4. CASE HostShutsDown \/ ShutdownPush
  BY <1>4 DEF HostShutsDown, ShutdownPush
<1>5. CASE PlayStarts \/ PlayStops \/ WatchdogLeavesIt \/ FirstSeenGoingDown \/ LetsItFinish \/ PassFails \/ SaysEvent
  BY <1>5 DEF PlayStarts, PlayStops, WatchdogLeavesIt, FirstSeenGoingDown, LetsItFinish, PassFails, SaysEvent
<1>6. QED BY <1>1, <1>2, <1>3, <1>4, <1>5 DEF Next, Pass

\* What it measures is this shutdown, by AWS's date or by its own tag of it.
LEMMA ForcesStuck == ASSUME IdleInv, Forces PROVE box.down >= StuckAfter
<1>1. PICK took \in Since : took >= StuckAfter
  BY DEF Forces
<1>2. /\ box.down \in Nat /\ tags.since \in Nat /\ StuckAfter \in Nat
  BY TypeIs, LimitsAre DEF IdleInv, BoxRec, TagsRec
<1>3. CASE box.stamped
  BY <1>1, <1>3 DEF Since
<1>4. CASE ~box.stamped
  <2>1. took = tags.since /\ tags.noted = "this"
    BY <1>1, <1>4 DEF Since, TagTime
  <2>2. tags.since <= box.down
    BY <2>1 DEF IdleInv, Dated
  <2>3. QED BY ONLY <1>1, <1>2, <2>1, <2>2
<1>5. QED BY <1>3, <1>4

\* Neither watchdog ends or cuts a box but for the reason the code gives: for
\* any limits, and whatever the one before it left on the disk and in the tags.
THEOREM EndedOnlyForAReason == Spec => EndedForAReason
<1>1. ASSUME IdleInv, [Next]_vars
      PROVE  /\ [WatchdogEnds => use.quiet >= IdleWindow]_vars
             /\ [(box.guest = "up" /\ box'.guest = "saving") => pace.starts > 0 \/ QuietForTheHost]_vars
             /\ [Forces => box.down >= StuckAfter]_vars
  BY <1>1, EndsUnused, SavesUnused, OnlyLooksSave, ForcesStuck
<1>2. Spec => WatchdogSparesPlayers
  BY <1>1, IdleInductive, PTL DEF Spec, WatchdogSparesPlayers
<1>3. Spec => HostSparesFirstPlayers
  BY <1>1, IdleInductive, PTL DEF Spec, HostSparesFirstPlayers
<1>4. Spec => ForcedOnlyWhenStuck
  BY <1>1, IdleInductive, PTL DEF Spec, ForcedOnlyWhenStuck
<1>5. QED BY <1>2, <1>3, <1>4 DEF EndedForAReason
===============================================================================
