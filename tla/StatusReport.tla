----------------------------- MODULE StatusReport -----------------------------
(***************************************************************************)
(* `cg status`: its reads run together and each writes its own facts, but     *)
(* three wait for another one.  Whether the machine is ready is asked of it    *)
(* over the tailnet, by name, and once seen it is remembered by the machine's  *)
(* id in the cache that every cg status of this computer uses.  Meanwhile     *)
(* machines finish, stop, end and are replaced.                              *)
(* (internal/commands/status/{facts,local,extras,json,render}.go)            *)
(***************************************************************************)
EXTENDS Naturals, FiniteSets

CONSTANTS Boxes,      \* instance ids
          Viewers     \* cg status commands, of a person and of the app

ASSUME StatusAssumption == IsFiniteSet(Boxes) /\ IsFiniteSet(Viewers)

VARIABLES phase,      \* each machine: "none", "up", "stopped", "leaving" or "gone"
          finished,   \* ... those that have finished setting themselves up
          request,    \* ... whose spot request is active
          marks,      \* ready-<id> files in the cache
          view,       \* what each cg status has read
          mistaken,   \* machines another one answered for
          doomed      \* machines some cg status said can never start again

statusVars == <<phase, finished, request, marks, view, mistaken, doomed>>

NoBox == "none"
Idle == [at |-> "idle", box |-> NoBox, answer |-> ""]
ViewOf(b, step, answer) == [at |-> step, box |-> b, answer |-> answer]

StatusInit ==
  /\ phase = [b \in Boxes |-> "none"] /\ finished = {} /\ request = {}
  /\ marks = {}
  /\ view = [v \in Viewers |-> Idle] /\ mistaken = {} /\ doomed = {}

-----------------------------------------------------------------------------
(* The machines: one that is not shutting down at a time.                     *)
Machines == { b \in Boxes : phase[b] \in {"up", "stopped"} }
PhaseBecomes(b, p) == phase' = [phase EXCEPT ![b] = p]
MachineComes(b) ==
  /\ Machines = {} /\ phase[b] = "none" /\ PhaseBecomes(b, "up") /\ request' = request \cup {b}
  /\ UNCHANGED finished
MachineFinishes(b) ==
  /\ phase[b] = "up" /\ b \notin finished /\ finished' = finished \cup {b}
  /\ UNCHANGED <<phase, request>>
MachineStops(b) == phase[b] = "up" /\ PhaseBecomes(b, "stopped") /\ UNCHANGED <<finished, request>>
MachineStarts(b) == phase[b] = "stopped" /\ b \in request /\ PhaseBecomes(b, "up") /\ UNCHANGED <<finished, request>>
RequestCloses(b) == phase[b] = "stopped" /\ b \in request /\ request' = request \ {b} /\ UNCHANGED <<phase, finished>>
MachineEnds(b) == phase[b] \in {"up", "stopped"} /\ PhaseBecomes(b, "leaving") /\ UNCHANGED <<finished, request>>
MachineIsGone(b) ==
  /\ phase[b] = "leaving" /\ PhaseBecomes(b, "gone") /\ UNCHANGED <<finished, request>>
MachineStep(b) ==
  /\ MachineComes(b) \/ MachineFinishes(b) \/ MachineStops(b) \/ MachineStarts(b)
       \/ RequestCloses(b) \/ MachineEnds(b) \/ MachineIsGone(b)
  /\ UNCHANGED <<marks, view, mistaken, doomed>>

-----------------------------------------------------------------------------
ViewAt(v, step) == view[v].at = step
Sees(v, what) == view' = [view EXCEPT ![v] = what]
NoNews == UNCHANGED <<phase, finished, request>>

(* Gather: of the facts read at the same time, the machine is waited for by    *)
(* two: whether one that runs is ready, and whether a spot machine that is     *)
(* stopped is stranded.  No machine, or an unreadable one, ends it.           *)
ReadsBox(v) ==
  /\ ViewAt(v, "idle")
  /\ \E b \in Machines : Sees(v, ViewOf(b, IF phase[b] = "up" THEN "running" ELSE "stopped", ""))
  /\ NoNews /\ UNCHANGED <<marks, mistaken, doomed>>

(* Without its request, or when that could not be read, it is stranded; only   *)
(* the first is kept here.                                                   *)
ReadsRequest(v) ==
  /\ ViewAt(v, "stopped")
  /\ Sees(v, Idle)
  /\ doomed' \in {doomed, IF view[v].box \in request THEN doomed ELSE doomed \cup {view[v].box}}
  /\ NoNews /\ UNCHANGED <<marks, mistaken>>

(* localFacts: the machine that has the name on the tailnet, one that runs or  *)
(* is shutting down, or none.                                                *)
Online == { b \in Boxes : phase[b] \in {"up", "leaving"} }

(* ready: the mark, when the game disk is measured too, spares the ssh; else   *)
(* the machine of that name says it; not on the tailnet is not ready, and no   *)
(* answer (a machine gone since its name was read, too) is unknown.            *)
AsksReady(v) ==
  /\ ViewAt(v, "running")
  /\ LET b == view[v].box
         answers(a) == Sees(v, ViewOf(b, "marks", a))
     IN \/ b \in marks /\ answers("yes") /\ UNCHANGED mistaken
        \/ answers("no") /\ UNCHANGED mistaken
        \/ answers("") /\ UNCHANGED mistaken
        \/ \E node \in Online :
           /\ answers(IF node \in finished THEN "yes" ELSE "no")
           /\ mistaken' = IF node = b THEN mistaken ELSE mistaken \cup {b}
  /\ NoNews /\ UNCHANGED <<marks, doomed>>

(* A yes is marked for the machine that was seen; the mark may not be written. *)
Marks_always(v) ==
  /\ ViewAt(v, "marks")
  /\ marks' = marks \cup {view[v].box}
  /\ Sees(v, ViewOf(view[v].box, "looks", view[v].answer))
  /\ NoNews /\ UNCHANGED <<mistaken, doomed>>
Marks(v) ==
  /\ ViewAt(v, "marks")
  /\ marks' \in {marks, IF view[v].answer = "yes" THEN marks \cup {view[v].box} ELSE marks}
  /\ Sees(v, ViewOf(view[v].box, "looks", view[v].answer))
  /\ NoNews /\ UNCHANGED <<mistaken, doomed>>

(* Ready once seen stays ready, whatever this ssh said.                       *)
SaysReady(v) == ViewAt(v, "looks") /\ (view[v].box \in marks \/ view[v].answer = "yes")
Shows(v) ==
  /\ ViewAt(v, "looks") /\ Sees(v, Idle)
  /\ NoNews /\ UNCHANGED <<marks, mistaken, doomed>>

Status(v) == ReadsBox(v) \/ ReadsRequest(v) \/ AsksReady(v) \/ Marks(v) \/ Shows(v)

StatusNext == (\E b \in Boxes : MachineStep(b)) \/ (\E v \in Viewers : Status(v))

-----------------------------------------------------------------------------
(***************************************************************************)
(* A machine is said to be ready only after it has set itself up, though the   *)
(* name is answered by one machine after the other and what one cg status      *)
(* saw is believed by all; a machine said to be stranded never runs again.     *)
(* (Exempt: `mistaken`, a machine shutting down that answered for the next;     *)
(* nothing compares the two.)                                                 *)
(***************************************************************************)
StatusIsTrue ==
  /\ \A v \in Viewers : SaysReady(v) => view[v].box \in finished \cup mistaken
  /\ \A b \in doomed : phase[b] # "up"
=============================================================================
