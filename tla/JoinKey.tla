-------------------------------- MODULE JoinKey --------------------------------
(***************************************************************************)
(* The Tailscale key a machine joins the tailnet with.  The laptop keeps one *)
(* in .env and, with an API token, asks Tailscale about it, makes another    *)
(* and deletes the old one; a build is refused while its key cannot be shown *)
(* to work, since a machine that never joins bills for nothing.  `cg init`   *)
(* (its preflight) and `cg host setup` do this beside each other.            *)
(* (internal/tskey, internal/commands/check, creds/set.go, hostcmd/setup.go) *)
(***************************************************************************)
EXTENDS Integers, FiniteSets

CONSTANTS MaxKeys     \* bound: the keys there ever are

ASSUME JoinKeyAssumption == MaxKeys \in Nat \ {0, 1}

VARIABLES life,       \* each key as Tailscale has it
          once,       \* the keys that join one machine
          token,      \* the API token: "none" or "good"; it may at any time not be taken
          stored,     \* the key in .env, or NoKey
          runs,       \* what each command has got to
          boots,      \* the machines that come up with a key
          spoilt      \* keys revoked by a person, given twice, or replaced under a machine

keyVars == <<life, once, token, stored, runs, boots, spoilt>>

NoKey == 0
AllKeys == 1..MaxKeys
Runs == {"init", "host"}
NotRunning == [at |-> "idle", key |-> NoKey, new |-> NoKey, shown |-> FALSE]
Works(k) == life[k] \in {"live", "last hour"}

KeyInit ==
  /\ token \in {"none", "good"} /\ stored \in {NoKey, 1}
  /\ life = [k \in AllKeys |-> IF k <= 2 THEN "live" ELSE "unmade"]   \* they die of themselves
  /\ once = {1}      \* 2 is a key of a person's own, reusable
  /\ runs = [r \in Runs |-> NotRunning]
  /\ boots = {} /\ spoilt = {}
NoKeys ==
  /\ token = "none" /\ stored = NoKey /\ life = [k \in AllKeys |-> "unmade"] /\ once = {}
  /\ runs = [r \in Runs |-> NotRunning] /\ boots = {} /\ spoilt = {}

(* Probe: what Tailscale has of the key, an hour's margin taken off, or      *)
(* "unknown": no token, no answer, or the token refused.                     *)
State(k) == CASE life[k] = "live" -> "ok" [] life[k] = "deleted" -> "gone" [] OTHER -> "expired"
Probe(k) == {"unknown"} \cup IF token = "good" /\ k # NoKey THEN {State(k)} ELSE {}
Dead == {"expired", "gone"}

RunAt(r, step) == runs[r].at = step
RunGoes(r, what) == runs' = [runs EXCEPT ![r] = what]
Stops(r) == RunGoes(r, NotRunning)
UsedAs(r, k, shown) == [at |-> IF r = "init" THEN "proves" ELSE "starts", key |-> k, new |-> NoKey, shown |-> shown]
NoneElse == UNCHANGED <<once, token, boots, spoilt>>

(* needToken: without a token no build is begun; a machine of yours is.      *)
Begins(r) ==
  /\ RunAt(r, "idle") /\ ~(r = "init" /\ token = "none")
  /\ RunGoes(r, [NotRunning EXCEPT !.at = "ensures", !.key = stored])
  /\ NoneElse /\ UNCHANGED <<life, stored>>

(* EnsureAuthKey: the stored key when it is good, or when that is unknown.   *)
Verdicts_deadWhenUnknown(k) ==
  { IF answer = "unknown" THEN "expired" ELSE answer : answer \in Probe(k) }
Verdicts(k) == Probe(k)
Ensures(r) ==
  /\ RunAt(r, "ensures")
  /\ LET k == runs[r].key IN
       \/ /\ k # NoKey
          /\ \E v \in Verdicts(k) \cap {"ok", "unknown"} : RunGoes(r, UsedAs(r, k, v = "ok"))
       \/ /\ k = NoKey \/ Verdicts(k) \cap Dead # {}
          /\ RunGoes(r, [runs[r] EXCEPT !.at = "mints"])
  /\ NoneElse /\ UNCHANGED <<life, stored>>

(* Mint: another key, for one machine; refused, or no token.                 *)
Unmade == { k \in AllKeys : life[k] = "unmade" }
Mints(r) ==
  /\ RunAt(r, "mints")
  /\ \/ RunGoes(r, [runs[r] EXCEPT !.at = "asks again"]) /\ UNCHANGED <<life, once>>
     \/ /\ token = "good"
        /\ \E n \in Unmade :
             /\ \A k \in Unmade : n <= k
             /\ life' = [life EXCEPT ![n] = "live"] /\ once' = once \cup {n}
             /\ RunGoes(r, [runs[r] EXCEPT !.at = "deletes", !.new = n])
  /\ UNCHANGED <<token, stored, boots, spoilt>>

(* The old key goes only when there is another; whether it went is not known. *)
CountedOn(k) == \E m \in boots : m.key = k
InHand(k) == \E r \in Runs : k \in {runs[r].key, runs[r].new}
Deletes(r) ==
  /\ RunAt(r, "deletes")
  /\ LET k == runs[r].key IN
       \/ UNCHANGED <<life, spoilt>>
       \/ /\ k # NoKey /\ life' = [life EXCEPT ![k] = "deleted"]
          /\ spoilt' = IF CountedOn(k) \/ \E s \in Runs \ {r} : runs[s].key = k
                       THEN spoilt \cup {k} ELSE spoilt
  /\ RunGoes(r, [runs[r] EXCEPT !.at = "saves"])
  /\ UNCHANGED <<once, token, stored, boots>>

Saves(r) ==
  /\ RunAt(r, "saves")
  /\ \/ stored' = runs[r].new /\ RunGoes(r, UsedAs(r, runs[r].new, TRUE))
     \/ RunGoes(r, [runs[r] EXCEPT !.at = "asks again"]) /\ UNCHANGED stored   \* .env cannot be written
  /\ NoneElse /\ UNCHANGED life

(* settings, SetAuthKey: with no key or a dead one, a person is asked for      *)
(* theirs; one that the preflight cannot tell is kept for the last question.  *)
AsksAgain(r) ==
  /\ RunAt(r, "asks again")
  /\ LET k == runs[r].key IN
       \/ Stops(r) /\ UNCHANGED stored
       \/ /\ r = "init" /\ k # NoKey /\ Probe(k) \cap {"ok", "unknown"} # {}
          /\ RunGoes(r, UsedAs(r, k, FALSE)) /\ UNCHANGED stored
       \/ /\ k = NoKey \/ r = "host" \/ Probe(k) \cap Dead # {}
          /\ \E v \in Probe(2) : (r = "host" => v \notin Dead) /\ RunGoes(r, UsedAs(r, 2, v = "ok"))
          /\ stored' = 2 \/ (r = "init" /\ UNCHANGED stored)
  /\ NoneElse /\ UNCHANGED life

(* authKeyPreflight: only a key that is shown to work.                       *)
Shows_unlessDead(k) == Probe(k) \ Dead # {}
Shows(k) == "ok" \in Probe(k)
Proves(r) ==
  /\ RunAt(r, "proves")
  /\ \/ Shows(runs[r].key) /\ RunGoes(r, [runs[r] EXCEPT !.at = "starts", !.shown = State(runs[r].key) = "ok"])
     \/ Stops(r)
  /\ NoneElse /\ UNCHANGED <<life, stored>>

(* cg creds: a token or a key that a person pastes is kept once it is checked;*)
(* a key that nothing can be said of, too.                                   *)
SetsToken ==
  /\ token # "good" /\ token' = "good"
  /\ UNCHANGED <<life, once, stored, runs, boots, spoilt>>
SetsKey ==
  /\ Probe(2) \ Dead # {} /\ stored' = 2
  /\ NoneElse /\ UNCHANGED <<life, runs>>

(* The machine gets its key, in user-data or in the script that is copied.   *)
HandsOver(r) ==
  /\ RunAt(r, "starts") /\ \A m \in boots : m.by # r
  /\ LET k == runs[r].key IN
       /\ boots' = boots \cup {[by |-> r, key |-> k, shown |-> runs[r].shown]}
       /\ spoilt' = IF k \in once /\ CountedOn(k) THEN spoilt \cup {k} ELSE spoilt
  /\ Stops(r)
  /\ UNCHANGED <<life, once, token, stored>>

(* tailscale up.                                                             *)
ComesUp(m) ==
  /\ boots' = boots \ {m}
  /\ life' = IF Works(m.key) /\ m.key \in once THEN [life EXCEPT ![m.key] = "dead"]
             ELSE life                   \* joined, or bills and never joins
  /\ spoilt' = { k \in spoilt : InHand(k) \/ k \in {n.key : n \in boots'} }
                 \cup IF life' # life /\ InHand(m.key) THEN {m.key} ELSE {}
  /\ UNCHANGED <<once, token, stored, runs>>

(* Time: a command and its machine take less than the hour a key was shown to *)
(* have.                                                                     *)
Passes(k) ==
  /\ Works(k)
  /\ life[k] = "last hour" =>
       /\ \A m \in boots : ~(m.key = k /\ m.shown)
       /\ \A r \in Runs : runs[r].new # k /\ ~(RunAt(r, "starts") /\ runs[r].key = k /\ runs[r].shown)
  /\ life' = [life EXCEPT ![k] = IF @ = "live" THEN "last hour" ELSE "dead"]
  /\ NoneElse /\ UNCHANGED <<stored, runs>>

Revoked(k) ==
  /\ Works(k)
  /\ life' = [life EXCEPT ![k] = "dead"]
  /\ spoilt' = IF CountedOn(k) \/ InHand(k) THEN spoilt \cup {k} ELSE spoilt
  /\ UNCHANGED <<once, token, stored, runs, boots>>

KeyCutOff(r) == ~RunAt(r, "idle") /\ Stops(r) /\ NoneElse /\ UNCHANGED <<life, stored>>

KeyStep(r) == Begins(r) \/ Ensures(r) \/ Mints(r) \/ Deletes(r) \/ Saves(r) \/ AsksAgain(r)
              \/ Proves(r) \/ HandsOver(r) \/ KeyCutOff(r)
KeyNext ==
  \/ SetsToken \/ SetsKey
  \/ \E r \in Runs : KeyStep(r)
  \/ \E m \in boots : ComesUp(m)
  \/ \E k \in AllKeys : Passes(k) \/ Revoked(k)

-----------------------------------------------------------------------------
(***************************************************************************)
(* A key that works is not thrown away, whatever Tailscale does not answer    *)
(* and wherever a command is cut off; and a machine that `cg init` launches   *)
(* joins the tailnet, as does one of yours whose key could be checked.        *)
(* (Exempt: `spoilt`, a key a person revoked, one given to two machines that  *)
(* come up at once, or one another command replaced in its last hour.)        *)
(***************************************************************************)
JoinsWithAKey ==
  [][/\ \A k \in AllKeys : life[k] = "live" => life'[k] # "deleted"
     /\ \A m \in boots \ boots' : m.by = "init" \/ m.shown => Works(m.key) \/ m.key \in spoilt]_keyVars
=============================================================================
