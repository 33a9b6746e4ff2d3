-------------------------------- MODULE BoxPlan --------------------------------
(***************************************************************************)
(* The plan of an AWS box's build, and the two programs that check it for  *)
(* loops before they rely on it: the laptop before a box is paid for       *)
(* (internal/provision/stages.go), cg-build before it runs a stage.        *)
(* BuildSupervisor assumes a plan without loops; here TLC checks that the  *)
(* repository's plan is one, that what both programs accept is what that   *)
(* assumption says, and what makes the last stage's reboot safe.           *)
(***************************************************************************)
EXTENDS Integers, Sequences, FiniteSets, SequencesExt

Stage(name, needs, lock, retries, reboot) ==
  [name |-> name, needs |-> needs, lock |-> lock, retries |-> retries, reboot |-> reboot]

BoxesPlan ==
  << Stage("base",         {},                              "apt",  2, FALSE),
     Stage("scratch",      {},                              "none", 1, FALSE),
     Stage("watchdog",     {},                              "none", 1, FALSE),
     Stage("library",      {"scratch"},                     "none", 2, FALSE),
     Stage("nvidia",       {"base"},                        "apt",  2, FALSE),
     Stage("steam",        {"nvidia"},                      "apt",  2, FALSE),
     Stage("steam-client", {"base"},                        "none", 0, FALSE),
     Stage("steam-setup",  {"steam"},                       "none", 1, FALSE),
     Stage("steam-update", {"steam-setup", "steam-client"}, "none", 0, FALSE),
     Stage("desktop",      {"base"},                        "apt",  2, FALSE),
     Stage("xorg",         {"nvidia"},                      "none", 1, FALSE),
     Stage("autologin",    {"desktop", "xorg"},             "none", 1, FALSE),
     Stage("firefox",      {"base"},                        "apt",  2, FALSE),
     Stage("audio",        {"base"},                        "apt",  2, FALSE),
     Stage("sunshine",     {"base"},                        "apt",  2, FALSE),
     Stage("finish",       {"scratch", "watchdog", "library", "steam-update",
                            "autologin", "firefox", "audio", "sunshine"},
                                                            "none", 1, TRUE) >>

\* The stages whose module runs the package installer.
Installers == {"base", "nvidia", "steam", "desktop", "firefox", "sunshine"}

NamesOf(plan) == { plan[i].name : i \in 1..Len(plan) }

(* ValidatePlan's loop: pass after pass over the plan, each of which counts *)
(* on what it has itself found able to start, until one finds nothing.      *)
OnePass(plan, done) ==
  LET upto[i \in 0..Len(plan)] ==
        IF i = 0 THEN done
        ELSE LET d == upto[i - 1] IN IF plan[i].needs \subseteq d THEN d \cup {plan[i].name} ELSE d
  IN upto[Len(plan)]
LaptopSweep(plan) ==
  LET after[k \in 0..Len(plan)] ==
        IF k = 0 THEN {}
        ELSE LET d == after[k - 1] IN IF d = NamesOf(plan) THEN d ELSE OnePass(plan, d)
  IN after[Len(plan)]

(* load_plan's: each round counts on what the rounds before it found.       *)
BoxSweep(plan) ==
  LET after[k \in 0..Len(plan)] ==
        IF k = 0 THEN {}
        ELSE LET d == after[k - 1] IN d \cup { s.name : s \in { t \in Range(plan) : t.needs \subseteq d } }
  IN after[Len(plan)]

ValidatePlan(plan) ==
  /\ Cardinality(NamesOf(plan)) = Len(plan)
  /\ \A s \in Range(plan) : s.needs \subseteq NamesOf(plan)
  /\ \A s \in Range(plan) : s.name \in Installers => s.lock = "apt"
  /\ LaptopSweep(plan) = NamesOf(plan)

-----------------------------------------------------------------------------
\* The definition BuildSupervisor assumes: no set of stages but all of them is
\* closed under "all it needs are in".
LoopFree(plan) ==
  \A S \in SUBSET NamesOf(plan) :
     (\A s \in Range(plan) : s.needs \subseteq S => s.name \in S) => S = NamesOf(plan)

\* What a stage waits for, directly or not: it is not in the largest set that
\* is closed under needs and leaves it out.
WaitsFor(plan, n, m) ==
  \A S \in SUBSET NamesOf(plan) :
     n \in S /\ (\A s \in Range(plan) : s.name \in S => s.needs \subseteq S) => m \in S

\* The plan the box is given is valid and has no loop.
ASSUME PlanIsValid == ValidatePlan(BoxesPlan) /\ LoopFree(BoxesPlan)

\* Only the last stage reboots, and it waits for every other one: nothing of the
\* plan can run beside the stage that reboots (cg-build:383 does not see to it).
ASSUME RebootComesLast ==
  /\ \A i \in 1..Len(BoxesPlan) : BoxesPlan[i].reboot <=> i = Len(BoxesPlan)
  /\ \A m \in NamesOf(BoxesPlan) : WaitsFor(BoxesPlan, "finish", m)

\* Laptop and box accept the same plans, and those are the ones without a loop:
\* every plan of three stages, in every order, with any needs.
ThreeStages ==
  { << Stage("a", x, "none", 0, FALSE), Stage("b", y, "none", 0, FALSE), Stage("c", z, "none", 0, FALSE) >> :
      x, y, z \in SUBSET {"a", "b", "c"} }
ASSUME SweepsFindLoops ==
  \A plan \in ThreeStages :
    /\ LaptopSweep(plan) = BoxSweep(plan)
    /\ (LaptopSweep(plan) = NamesOf(plan)) <=> LoopFree(plan)
=============================================================================
