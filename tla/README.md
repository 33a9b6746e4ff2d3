# Verification of cloud-gaming (`cg`)

`cg` rents a gaming box on AWS (or sets up a machine of yours), follows its build,
keeps its games in an S3 archive, stops a box nobody plays on, says what it costs,
and takes everything down again. These TLA+ modules model the parts of it whose
steps interleave, get cut off, or go unanswered. TLC checks them on small instances;
TLAPS proves for every size what matters most of each: the build supervisor for any
plan, following it, the game archive for any games and what the laptop and the
watchdog do to it, renting a box and its life, both watchdogs, what leaving AWS leaves
behind, the app, prices, the bill, what `cg cost` says, and `cg status`.

File names are those of the repository: Go under `internal/` and `cmd/`, the box's
scripts under `host/` and `lib/`, the Lambda under `lambda/`, the app under `app/`.

## The system

| Component | State it keeps | Operations | Talks to |
|---|---|---|---|
| Build supervisor, `host/cg-build` | `state.json`, `events.jsonl`, the result file; in memory: its copy of the record, locks, running attempts | start, start a stage, finish it, block, conclude, reboot; `retry` | the stage scripts (one thread each), systemd, whoever types `cg-build retry` |
| Stage scripts, `lib/bootstrap.d` | the log, the ready marker, the result file | the user-data script on a box; the whole build on a machine of yours | the supervisor |
| Follower, `internal/build/follow.go` | how far it has read, whether it saw a failure, how long it has waited | poll: record, log, marker, result | the box over ssh |
| Game archive, `host/cg-library` | on the box: games, markers, a lock; in S3: files, links, manifest, index | pull, push | S3, Steam, the laptop's `forget` |
| Laptop's archive commands, `internal/library` | the archive expiry in `.env` and the deployed function | forget, move, clean, reset, keep-for | S3, while a box may push |
| Idle stop, `host/idle-watchdog.sh`, `cg-shutdown-push.sh` | counters on disk | a look every minute; the push of a shutdown | the archive, systemd |
| Cloud watchdog, `lambda/cloud_watchdog.py` | tags on instances, marks in SSM | a pass every few minutes, hourly checks, state-change events | EC2, S3, SSM, SNS |
| The watchdog's deployment, `internal/watchdog` | function, rules, permissions and logs per region; one role for all | install, compare, repair, remove | Lambda, EventBridge, IAM |
| Choosing a region, `commands/sweep`, `machines`, `quota`, `regions` | the remembered table | measure, ask, request, enable | every region of AWS |
| Bringing up, `internal/provision`, `initcmd` | `.env`, bucket, role, group, key pair, instance, disk | choose games, size the disk, launch or take up, wait | AWS, the supervisor |
| Tailscale keys, `internal/tskey`, `commands/check` | the token and key in `.env` | probe, mint, delete, hand over | Tailscale |
| Taking down, `internal/destroy`, `teardown`, `awscmd` | the same, removed | push, stop, terminate, clean, disconnect | AWS, the archive, Tailscale |
| Streaming, `internal/session` | a session lock | open, play, end; disk add beside it | Moonlight, the box |
| Costs and prices, `internal/pricing`, `cost*` | a price file per region | load, bill, estimate | AWS's price list and Cost Explorer |
| Status, `commands/status` | ready marks in the cache | a dozen reads at once | AWS, the box |
| App, `app/` | running commands, what the window shows | run `cg`, show its answers | `cg --json` |

What is hard in it:

* **Several actors on one file, archive or account.** The supervisor and `cg-build
  retry` both write `state.json`; a push at shutdown, a push by hand, a pull, the
  watchdog and the laptop all work on one archive; regions share one role; two
  commands share one price file and one key.
* **Being cut off.** A supervisor is restarted by systemd, a box crashes, is
  reclaimed as a spot instance, or reboots by itself; a push is killed by the
  shutdown's timeout; the laptop goes away between two calls of a command.
* **Answers that do not come.** Every question to a box or to AWS can fail, and
  "could not ask" is not "nothing there".
* **Order.** What is recorded before what is done, what is deleted before what is
  known to be saved, what is said before what is true.
* **Waiting.** A build must come to rest, an unused box must end, an unused game go.

`PROJECT.json` lists every component with what is left out of it, and under
`hazards` each place in the code where one of these bites, with the property that
is about it.

## Modules

Every group of modules ends in one *root*, whose `.cfg` of the same name TLC runs.

| Module | Models | Built on |
|---|---|---|
| `BuildPlan` | what `state.json` promises a reader: a plan of work (abstract) | - |
| `BuildSupervisor` | `host/cg-build` and its service; implements `BuildPlan` | - |
| `BoxPlan` | the sixteen stages of a box and the two sweeps that accept a plan | - |
| `MCBuildSupervisor` (root) | two small plans for TLC | `BuildSupervisor`, `BoxPlan` |
| `BuildSupervisorProofs` | theorems | `BuildSupervisor`, `BoxPlan`, `FoldProofs` |
| `Follower` | `internal/build/follow.go`, the laptop's half | - |
| `FollowedBox`, `FollowedHost` | what it follows: a box and `cg init`; a machine of yours and `cg host setup` | `Follower` |
| `Followed` (root) | the one or the other | both, as instances |
| `GameArchive` | `host/cg-library`, its services, the laptop's forget | - |
| `MCGameArchive` (root), `GameArchiveProofs` | two games on one drive; theorems | `GameArchive` |
| `IdleStop` (root) | how a box nobody uses comes to an end | - |
| `SharedArchive` | buckets, marks and the box that keeps them alive | - |
| `ArchiveExpiry`, `LaptopLibrary` | the watchdog's hourly checks; `cg library` | `SharedArchive` |
| `ArchiveLife` (root) | the three on one archive | both |
| `Account` | machines, `.env`, nodes, policy, guards, image, disk, and what AWS does | - |
| `BringUp`, `TakeDown`, `InUse` | `cg init`; `cg destroy`, `cg stop`; `cg open`, `cg disk add` | each on the one before |
| `BoxLife` (root), `BoxLifeProofs` | the life of a machine; theorems | `InUse` |
| `AppJobs` (root) | the desktop app's two processes and the runs of `cg` | - |
| `CloudGuard` (root) | installing, comparing and removing the cloud watchdog, in two regions | - |
| `WatchdogProofs` | theorems about both watchdogs | `CloudGuard`, `IdleStop` |
| `Leftovers` (root) | `cg destroy --all` and `cg aws disconnect` over the whole account | - |
| `LaptopProofs` | theorems about what the laptop's programs do: to the archive, to the account, at once | `ArchiveLife`, `Leftovers`, `AppJobs` |
| `RegionScan` | `cg sweep`, `machines`, `quota`, `regions` | - |
| `GamePlan` | which games, which disk, what the box restores | - |
| `Launch` | key pair, group, image, RunInstances and its refusals | `GamePlan` |
| `JoinKey` | the Tailscale key from the token to the machine that joins | - |
| `Renting` (root) | one of the four at a time | `RegionScan`, `Launch`, `JoinKey` |
| `InitProofs` | theorems about what `cg init` sees through: the renting, and the build it follows | `Renting`, `Followed`, `FoldProofs` |
| `Prices` | the price cache and the commands that renew it | - |
| `Bill` | the month as billed, and its four uses | - |
| `CostReport` | the reads of `cg cost` and what is made of them | - |
| `StatusReport` | the reads of `cg status` and its marks | - |
| `Money` (root), `MoneyProofs` | one of the four at a time; theorems about all four | all four |
| `FoldProofs` | lemmas about the sums and folds the models add up with | - |

### BuildSupervisor

`disk` is `state.json`, `mem` the supervisor's copy, and every handler of the loop
is one action that changes `mem` and queues in `todo` the effects the code performs
next, in the code's order: save the record, append a verdict, write the result file,
launch the thread. `Perform` carries out the next one. A crash (of the process,
`CutOff`; of the box, `BootBox`) can come between any two, and the next `Startup`
recovers from what is on disk. The loop's own order is kept by `pc` and `at`:
results first (`drain`), then the pass that blocks, then the pass that starts, each
in plan order. `cg-build retry` is three steps of another process (read, write,
restart), since the code takes no lock around them. Attempts of a stage end cleanly
or not as they like; the back-off after a failure is the set `cooling`, left at any
later moment.

`BoxPlan` is the plan that `provision/stages.go` builds and the loops of
`ValidatePlan` and `load_plan`, as functions of the pass. TLC evaluates its three
assumptions with every run of `MCBuildSupervisor`: the plan is valid, its last stage
is the only one that reboots and needs every other, and both sweeps accept exactly
the plans without a loop, over all plans of three stages (`LoopsAreFound` proves it
of any).

### Follower, FollowedBox, FollowedHost

`Follower` has one action per question of a poll and per kind of answer; the machine
moves between them. `FollowedBox` reduces the supervisor to the record it writes
(notes, a failed check, a failure, the two verdicts; when each may be said is what
`BuildSupervisor` checks), with the user-data script before it. What cg-build writes
to the record and to the old log at once (a stage's markers and failed checks, a
retry, its failures at the end, the reboot, the end) is one step, `Mirrored`, and
`copies` remembers which line says which event again; `asked_at` is how long the log
was when the record was last found empty or missing. Both are histories that no
guard reads. `FollowedHost` is the detached script with its exit trap. `supervised`
says which of the two is followed. The 40-minute wait of 240 polls is `MaxPolls`,
the once-a-minute look at the result `StateEvery`.

### GameArchive

`disk` and `s3` hold a copy of each game: how much of its files is there, whose
saves, whether its links are there, and what its manifest says; `index` is
`index.json`. The restore (`pull`) and the two pushes (`push["stop"]`, typed on the
laptop or run before a stop; `push["unit"]`, of the shutdown unit) step as the
script does. A sync is two steps, so that a cut-off leaves the copy half way. Steam
installs, updates, repairs, removes and plays games in between; the laptop forgets
one; the machine is stopped by us or by AWS, reset (the drive stays,
`12-scratch.sh` formats only an empty one) or taken. `saves` stands for all a
session changes. `skipped` and `withheld` are what the script prints at its end and
then forgets: the properties use them to say which games a boot or a push has given
up on.

### IdleStop

One box: its EC2 state and guest, who plays, and when traffic was last seen; the
counters of the watchdog on it, which outlive a stop; the tags of the one in the
cloud. `Tick` lets a period go by, in which each looks at most once. A pass of the
cloud watchdog is one action, since it acts on one reading of one box; its
disjuncts are the ways of `run`, `decide` and `going_down` through it. Ages are
counted up to the largest limit they are compared with. A push works, fails, or
saves only some of the games; the last exits 0 like the first, so nothing is said.
`use.left` remembers it, and `UnsavedIsSaid` does not speak of what it left.

### SharedArchive, ArchiveExpiry, LaptopLibrary

Two buckets with an index and each game's folders and files, the marks
(`archive-last-seen`, `kept/...`) and the box. The hourly check of the watchdog is
a process: it asks whether a box exists, reads the mark, looks a last time, reads
the index, deletes, writes the index and drops the marks, one step each. A command
of the laptop reads the indexes, then copies, deletes and writes from what it read.
`crossed` remembers that two of the programs were at work at once: nothing in the
code locks the index, and `NothingLost` does not speak of what such a crossing did.

### Account, BringUp, TakeDown, InUse

`cmd` is the one command that runs and what it holds from earlier steps; every
action is a stretch of the command between two calls that others can come between.
AWS stops, reclaims or ends a machine, a spot request starts it again, the machine
switches itself off, all at any moment; a bounded number of calls is refused and of
commands cut off. A push - of a command, or of a machine going down, which then loses
its drive - saves all games, or it does not: it fails (`--force` goes on), or it exits
0 with some or all of them left, which needs no failed call when the role may not
write. `NothingLostUnasked` excuses a mirror that fails at the shutdown itself
(`MirrorFails`): what it leaves is gone, also after a push that failed.

### CloudGuard, Leftovers

`CloudGuard` keeps, for each region, the function (its code, settings and whether
Lambda is still busy with it), the two rules with their targets and permissions, and
the logs; and the one role with its policy. `cg init` is the calls of `Ensure` and
`Install` in order, the removal those of `Remove`. The regions take turns, one
command at a time, since it is one laptop. Between commands somebody may remove a
piece or change `.env`.

`Leftovers` keeps the kinds of things cg leaves in an account per region, and the
plan each command made from what it could list. Every delete can be refused; a read
can fail so that it is said, or in one of the ways the code takes for "none there":
a list of regions that fails makes `Scan` look at the home region alone
(boxcmd/new.go:126-136), which `destroy --all` does not notice. What a command prints is
not how it ends: "everything deleted" comes before the archive, the role and the
watchdog go, and whatever was refused (destroyall.go:284).

### RegionScan, GamePlan, Launch, JoinKey

`RegionScan` measures all regions at once, measures again alone those that looked
too far, and asks the near ones; a region is a row of the table whatever was
answered. `GamePlan` follows the choice of games through the index, the sizes, the
drive and the answer, which may not reach `.env` (choose.go:62), to the disk that is
added, and then through what the box restores: it measures each formatted disk for
itself, keeps its reserve free, and skips what does not fit. `Launch` goes on from
there, over what an earlier launch left half made. `JoinKey` has two commands that
ensure a key for a machine each, step by step: the key in `.env` is probed, a new
one minted, the old one deleted, the new one saved, shown to work, and given to a
machine that comes up with it later.

### Prices, Bill, CostReport, StatusReport

`Prices` is the cache with its two files and the steps of a load, two at once.
`Bill` reads every possible month of two days and makes of it the table, the data of
`--json`, the sums and the report. A price file that somebody named
(`CG_PRICES_FILE`) answers key by key for what it holds, with no question to AWS.
`CostReport` takes the reads of `Gather` one after the other while the account
changes; a fact is the set of what is known, empty when it could not be read.
`StatusReport` has two `cg status` that read what three answers depend on, beside
machines that follow one another under one name.

## Runs

One run per root or question; every property has a change of the code, under `mutants` in
`PROJECT.json`, that makes it fail.

| Run | Shows |
|---|---|
| `supervisor` | Two crashes of the box and a retry after the end. `RecordIsTrue`: at every moment the record and the verdicts say what is, a cut-off costs no stage and no retry, nothing startable is left behind. `RetryAnswered`: a retried build is tried again and answered. `FollowsThePlan`: the record implements `BuildPlan`. `DesktopComesUp`: the reboot that starts the desktop happens. |
| `supervisor_any_retry` | `cg-build retry` at any moment, also of a named stage, a crash of either kind, a refused reboot: `LockExclusive`, `NeedsFirst`, and `ComesToRest` |
| `followed` | A build followed, left and followed again. `ShownOnceInOrder`: every event and line once, in order, the log before the record; what is in both is shown as both only from the one poll that the supervisor started in. `SaidWithinAMinute`: what is over is said in time. `VerdictIsTrue`: "stopped" and "complete" are said of builds that are. |
| `archive` | `PartialNeverOverWhole`: a partial copy never replaces a whole one, but for a skipped game. `ArchiveIsSound`: a manifest comes after its files, no push loses a game from the index. `StoppedIsSaved`: a box `cg stop` stopped is saved, but for what the push withheld. |
| `idle_stop` | `EndedForAReason`: neither watchdog ends a box in use, nor cuts one that is not stuck. `UnsavedIsSaid`: games lost at a shutdown are said to be, unless the push that left them exited 0. `NotLeftOn`: a box is not left on and unused for ever. |
| `archive_life` | `NothingTooSoon`: nothing is deleted before its days without a box. `NothingLost`: no game goes but by a command about it or by expiry. `UnusedGoes`: what nobody uses goes in the end. |
| `box_life` | `OneBox`: never two machines. `NothingLostUnasked`: games are lost only where somebody gave them up or the mirror of the shutdown did not work, never for want of the right to write. `NothingLetGo`: `.env` does not forget a machine that is there, the guards outlive the box, and what is planned to go is looked for until it is. |
| `app_jobs` | `AloneMeansAlone`: a run that changes something has none beside it but what may be. `WindowSettles`: every request is answered and what the window shows is what is. |
| `cloud_guard` | `SaidIsSo`: "up to date" and "armed" are said of a watchdog that is. `RoleOutlivesItsUsers`, `NotificationsKept`. `InitRepairs`: from any state one `cg init` without a failure leaves a working watchdog. |
| `leftovers` | `DoneIsTrue`: an end with 0 and "nothing of cg is left billing" are true, and "everything deleted", which is printed too early, is taken back by the end when it is not. `GuardedUntilGone`: nothing is taken from under a machine of this region. `AgainFinishes`: a disconnect that failed can be given again and ends. |
| `renting` | `EveryRegionAccounted`: a region is neither hidden nor excluded for want of a measurement. `GamesAsChosen`: what was chosen is restored where there is room by the box's own count, the disk is the one promised, and every game is not taken on a guess. `LaunchedIsReachable`, `RefusedForAReason`: over what an earlier launch left. `JoinsWithAKey`: no working key is thrown away, and a machine that is launched joins. |
| `money` | `PricesAreWhole`: no report from half a price table, unless a named file is one. `MonthAddsUp`: the parts of the bill. `WholeOrUnknown`: a total counts everything once or is not given. `StatusIsTrue`: ready and stranded are said of machines that are. |

**Bounds.** Every bound is a constant of a `.cfg`, with its name.

*Supervisor.* Five stages with the shape of `provision.Plan()`: two share the
installer's lock, one needs another, one needs nothing, and the last needs the rest
and reboots; one is retried once. Three could run together and `max_parallel` is 2,
so the limit bites. Two crashes are enough to cut off a recovery; one retry is
enough to race it. The run with a retry at any moment uses three of the stages.

*Follower.* Five polls are one more than the minute and its failed-seen shortcut
take, two runs are enough to start again, three events and three lines (the ends and
the reboot come on top) for a batch with a failure in it and one without, and for a
poll that finds no record and then reads what the supervisor has said meanwhile.

*Archive.* The two games take 800 and 400 of a drive of 1100: either fits and both
do not. One boot after the first, one push and one session are enough to restore,
play, push, be cut off and push again. A push fails only for the smaller game
(`Unlucky`); Steam and the laptop are quiet beside a pull or a push (`Together`).

*Idle stop.* Windows of three periods and a grace of one, so that a session, a quiet
spell, a restart and a second one fit; one restart and one missed pass.

*Archive's life.* Two games, two buckets and three hours: a game may be kept by its
own mark or by the box's. One command, one launch, one failure: what two commands do
together is in the statements below.

*Box life.* Two machines are enough for one too many; three commands for one that
fails, one that goes on from there and one that sees what was left.

*App.* Two commands, one failing run, six runs at one time, of which four are the
window's own reads: a read can be parked, woken and parked again.

*Watchdog and leftovers.* The region in use and another; one fault and one change
from outside, so a fault always meets the change. Leaving AWS starts from any three
kinds of things and two failures, one for the command and one for its clean-up.

*Renting.* Two regions, one near and one far; three games of up to three units with
no drive or one of 4, of which a file system takes 1 and 1 is kept free, and disk
steps of 2: none, some or all fit, and rounding matters. Three keys: the one there
was, its successor, and one more. The four parts share no step, so a behaviour is of
one of them.

*Money.* A table is renewed when it is a step old, so three steps let one be renewed
twice. A month has two days, the last of them partial, each with up to two usages of
three kinds in two regions, at any charge. One change and one failed read while a
report is made; two machines and two viewers for one that is taken for the other.

**Deadlock** is checked in `cloud_guard` and `leftovers`, whose commands can always be
given again. Elsewhere the system may stop: a build that is over, a box that has used
up its starts, a launch that was refused.

**Fairness.** *Supervisor*: its loop runs (weak fairness of all its steps together, as
it is one thread); every attempt ends, since the code kills it at its timeout; every
pause ends; a retry that has read the record goes on. Nothing is assumed of crashes,
refused reboots or people. *Idle stop, archive's life*: EventBridge calls the
watchdog again and again, time goes by, and AWS ends what it was told to; nothing is
assumed of the box, which may hang. *App*: its two processes go on, and a run of
`cg` goes on and ends. *Watchdog, leftovers*: a command that was begun goes on, and
Lambda ends its update; `InitRepairs` and `AgainFinishes` speak of commands in which
nothing more fails.

## What is proved

`BuildSupervisorProofs` proves, for every plan that `load_plan` accepts, any number
of crashes and retries, and retries at any moment:

* `TypeCorrect`: the types.
* `LocksExclude`, `NeedsComeFirst`: `LockExclusive` and `NeedsFirst` of the runs.
* `ParallelBounded`: no more than `max_parallel` stages run; `DoneIsEarned`: what is
  recorded done has exited cleanly.

None of the last four is inductive as it stands. What makes them so is one
invariant, proved part by part (the lemmas `Ind...`, put together in `Inductive`):
what is queued in `todo` fits `mem` (a stage to be spawned is recorded running and
has no attempt); a live attempt is of a stage that `mem` says is running; a running
stage holds its lock and no two running stages share one; a running stage's needs
are done in `mem`; and done in `mem`, on disk, or in the retry command's copy of the
record implies that the script has exited cleanly. Each part has one step per
action of `Next`. The assumptions are `PlanAssumption` (what `load_plan` gives every
plan) and `NoLoops`, named in `BuildSupervisor`.

Two more, and that the supervisor implements `BuildPlan`, hold for what `supervisor`
runs (`Patient`: `cg-build retry` given bare, to a supervisor that has stopped) and for
a plan whose reboot comes last (`RebootLast`; `PlanIsSound` of `BoxPlan` is that the
box's plan is one):

* `RecordTrusted`: `RecordIsTrue`, that what the record, the events and the result
  file say is so; `RetriesAnswered`: `RetryAnswered`.
* `SupervisorFollowsPlan`: `FollowsThePlan`, the refinement. Each save of `state.json`
  is a step of the plan or none, and no other action changes what the plan sees.

They rest on `RecInv`. A handler changes the supervisor's copy first and saves later,
and a crash can come between any two effects: so it says what `todo` can look like
(`Shapes`), that disk and copy agree but for the one save that is due, which is a
step of the plan (`Saved`), that each alone says nothing untrue (`Trusted`), and what
is said and still to be said of the end (`Completes`, `Counted`). A retry is followed
through its three steps by `Places` and `Asked`.

`LoopsAreFound` says of any plan what `NoLoops` assumes of the one at work: the sweep of
`ValidatePlan` and that of `load_plan` find the same stages, and find all of them
exactly if the plan has no loop. What a round finds is at least what can start after
the ones before it, and nothing that cannot (`Round`; of a pass of the laptop,
`PassIsRound`). A round that finds nothing new is the last, so as many rounds as there
are stages are enough, and both sweeps end at the least set that is closed under
starting (`RoundsReach`, `WillRun`).

`GameArchiveProofs` proves, for any games and sizes and any number of boots, pushes,
cut-offs and failures:

* `EntriesKept`: no push loses the index entry of a game.
* `ManifestsLast`: a manifest comes after the files it describes.
* `ArchiveSound`: the two together, `ArchiveIsSound` of the run.
* `StopSaves`: `StoppedIsSaved`, under `Recorded`: besides, the index and the links
  of a game can be written. `SavedInv` follows a push game by game (`Carries`): what
  it is done with is in the archive as it is on the drive, or was given up with a
  word; and nothing changes a box that `cg stop` has asked to stop.
* `PartialsStayHere`: `PartialNeverOverWhole`, under `Noticing`: besides, manifests
  that are there can be read, and a sync that fails leaves the game visibly short.
  `WholeInv` carries a partial game from the failed sync, through the boot, to the push:
  if the archive has it whole, the restore chose it from the index, and it is still to
  be fetched, or has failed (no marker, and no push), or was skipped for want of room.

All assume `Calm`, as the run `archive` does: no push is forced, neither Steam nor a
forget works beside a push, and the index can be read. Each is needed: a push that
cannot read the index writes one with a single game, a forced push skips the size
guard (a game of size 0 is then listed with 0 bytes), and files that change under a
push no longer match the manifest that follows them. The invariant (`IInv`, proved
as `Invariant`) says that the lock belongs to the one push at work, in a box that is
restored and with no forget asking; that what a push or a forget has read of the
index is what the index still says; that the game at work passed the size guard; and
that once its folders are there they are what the drive holds. Every action has a
lemma for the types and one for the rest; those of a push go through `OfThePush`, so
that each shows only what is new in its record.

`WatchdogProofs` proves `SaidSo`: `SaidIsSo` of `cloud_guard`, for any number of regions
that share the role, any failures, cut-offs and changes from outside. "Up to date"
follows from the reading round alone (`NoDriftWorks`: where nothing has drifted the
watchdog works). "Armed" does not: it is said after a dozen calls, and what makes it
so is the invariant `GInv`, that what an install has done stays done until it ends:
after the policy the role is this region's, after the code the function runs it,
after the settings it has them, and at the second rule the first is on, with its
target and its permission. `CommandEnds` shows that nothing else a step may be ends a
command with either word.

`RoleKept` is `RoleOutlivesItsUsers`, from the one step that deletes the role: a
region that did not answer counts as using it. `AddressKept` is `NotificationsKept`,
as long as a read of the installed settings does not fail (`"adopt_read"`, see
below): past the look at the function, an `.env` without an address means that the
function had none to lose (`AddressSoFar`).

Of the idle stop it proves, for any grace and limits, any number of starts and any
passes that fail:

* `NothingLostInSilence`: `UnsavedIsSaid`; `IdleTyped`: the types.
* `EndedOnlyForAReason`: `EndedForAReason`, with the host's part as the run has it: for a
  box that has not been started again.

`IdleInv` relates what the watchdogs count to what happened: the idle count on disk
is at most the quiet since the box came up plus the look under way (`Counted`), a
date in the tags that belongs to this shutdown is younger than it (`Dated`), traffic
is not quieter than its player (`Watching`), and a box that was cut, or went off
with games unsaved, has had its word said (`Excuses`).

`BoxLifeProofs` proves, for any number of machines, commands, failed calls and
cut-offs, beginning with what earlier commands can have left: nothing, an image, or
one machine with its guards and its role (`AccountInit`):

* `OnlyOneBox`: `OneBox`; `LifeTyped`: the types.
* `NothingIsLetGo`: `NothingLetGo`, that `.env` keeps the id of a machine that is
  there, its guards stay, and a destroy that says it is done has ended them all.
* `NoGamesLost`: `NothingLostUnasked`, with any number of pushes and mirrors that fail.

`LInv` is what holds between two calls of any command: the machine that bills is one
(`One`), one that is ended has no spot request that brings it back (`NoReturn`),
the games of one that is there can be written or were given up (`Written`), and what
the command that runs has made sure of so far, step by step (`Course`): before the
launch it has looked again, before the clean-up nothing is left or it is noted that
something went wrong.

Of leaving AWS, `LaptopProofs` proves, for any regions, anything of cg's in the account
at first, and any deletes that are refused and reads that fail:

* `DoneHere`: an end with 0 where none of the region's machines, games, disks, images
  and snapshots is left (`DoneLeavesNothingHere`, the part of `DoneIsTrue` that needs no
  hypothesis). `DoneEverywhere`: none of the disks, images and snapshots of any region
  (`DoneLeavesNoDisk`), as long as a list of regions that fails is not taken for one
  (`"silent_regions"`).
* `EndsAreTrue`: `DoneIsTrue`, unless a read takes what bills for nothing
  (`"silent_billing"`) or a request elsewhere cannot be cancelled
  (`"cancel_elsewhere"`): both are in the table below, and refute it.
* `GuardStays`: `GuardedUntilGone`; `LeftTyped`: the types.

`EndInv` says what destroy --all has made sure of at each of its steps (`Course`) and that a
running command has said nothing; `LeftInv` adds that no spot request stands
without its machine, which is what the second look of a disconnect relies on.

Of the saved games beside the watchdog that deletes what is unused (`ArchiveLife`), it
proves, for any games, days, boxes, failures and commands:

* `NeverTooSoon`: `NothingTooSoon`, as long as the games are not kept for ever for a
  while and then for days again (`StaysOff`), which two commands of keep-for can do and
  which refutes it (see below); `OneCommandNotTooSoon`: without that hypothesis for one
  command, as the run has it. `MarkInv` compares clocks: the mark, or the last launch,
  is no older than the lull since the last box, an hour, and one more for each check
  that was missed (`Counts`); a check that goes on began this hour, without a box
  (`Began`); and past the window the mark was that old, past the trail no launch is
  within the days (`Past`).
* `NothingIsLost`: `NothingLost`. `LossInv` says, as long as no two programs have been
  at the archive at once, that what the check or the command has read of an index is
  still what it says (`CheckRead`, `ForgetRead`), and what a move has made sure of
  before it deletes (`MoveRead`): the copy is what the game was, and is in the index.

`InitProofs` is about `followed` and `renting`. Of a build that is followed, for any
record and log, any polls and any questions that get no answer, on a box and on a
machine of yours:

* `ShownInOrder`: `ShownOnceInOrder`. A step of the machine only adds to the log and
  the record (`MachineMoves`), and the follower's two cursors count what it has shown.
  A poll asks for the log only where nothing is in the record, so nothing is in both
  then, and what comes to be in both is later in the log (`CopiesSay`).
* `SaidInTime`: `SaidWithinAMinute`. The polls of a build that is over in which nothing
  was said are those that do not ask for the result (`Lately`), and one poll in
  `StateEvery` asks.
* `VerdictTrue`: `VerdictIsTrue`, with the exceptions it names: what the record and the
  result file say of the build (`BoxSays`, `HostSays`) and what the follower has read of
  them (`Reads`, `Knows`).

Of the renting, for any regions, games, sizes, tries, waits and keys, from `RentingInv`:

* `EveryRegionIn`: `EveryRegionAccounted`. The scan has left out only regions that
  did not answer, or whose second measurement is over the budget (`ScanSays`); a
  region is in one of the three parts of the table, and the counts add up
  (`TableIs`).
* `ChosenAsSaid`: `GamesAsChosen`, from its three parts. `NeverGuesses` follows from
  the one step that chooses. `PromiseKept`: a promise that was written down stays
  the disk for the games that are chosen, until it is made (`Promise`). `ChosenFit`:
  a restore with its index and its disks brings back all that was planned, where a
  file system leaves the room (`RestoredAsPlanned`). Placing the games is a fold,
  the largest first; at each of its steps what is on the drive and what is left of
  it make the drive's room (`PlacedFits`), nothing changes what was sized
  (`FitInv`), and what fits all together is skipped by no restore (`FillsAll`,
  `FitRestores`).
* `ReachableBox`: `LaunchedIsReachable`, `RefusedRightly`: `RefusedForAReason`. Past
  the key the pair matches or could not be compared, past the rule the group is
  open, and `try` counts what was really tried (`LaunchInv`).
* `JoinsTrue`: `JoinsWithAKey`. `KeysInv` says that a key just minted is nobody
  else's yet; that a command deletes only a key that Tailscale said is dead; and
  that a key shown to work, or new, works still or is spoilt, while a command or a
  machine has it. A command's step changes its own record only, so most of them are
  one lemma (`RunMovesKept`: what the record may become, `CanBe`), and what happens
  to a key another (`WorkKept`).

`LaptopProofs` also proves `RunsAlone`: `AloneMeansAlone`, for any commands in any order,
whether or not cg's contract could be read. `JobsInv` says where the number of a run
is (with the run it was given to, and nowhere twice), that what the window is still
to hear of it is so and comes in order, and that the main process has every live run
in its list, under what was asked of it. Runs are numbered, and what is asked for at once
is asked when there is room for it (`Room`): a bound of the model, not of the app.

`MoneyProofs` proves `PricesWhole`: `PricesAreWhole` of the run, for any number of
loads at once, cut off or failing in any way. The invariant: every file holds a whole
table or none, a load that has a table to judge or to keep has a whole one, and a
load that is done without one had none to ask for, was refused by AWS, or read a
named file. It also
proves `StatusTrue`: `StatusIsTrue`, for any number of machines and of commands that
look at them, from `StatusInv`: a mark or an answer is of a machine that finished, or
was taken for another (`mistaken`), and what was once seen without its spot request
never gets one again. Of the bill and the report:

* `MonthAlwaysAddsUp`: `MonthAddsUp`, for any regions, ways to be charged, charges, days
  and usages of a day. The invariant is only that the month is one that AWS can send
  (`MonthInv`); the work is in the arithmetic. The table by kind with what it hides, the
  usages of `--json`, and the report by day are three orders in which the same charges
  are added; each is shown to be the sum of one function over its own domain, by
  regrouping (`SumByKind`) and exchange (`SumsExchange`).
* `CostWholeOrUnknown`: `WholeOrUnknown`, for any number of changes of the account and
  of failed reads between the reads of `cg cost`. A total is given only when every read
  it is made of was answered, so it is enough to say what an answered read holds:
  nothing that never was (`FindsWhatWas`), all in its care that was there throughout
  (`FindsWhatStays`), and that the two kinds of disk which no single read owns are seen
  by one of the reads in the order they are made (`RootIsSeen`, `LegacyIsSeen`,
  `InOrder`). Of other regions, `FarTrue`: when the list of regions and the place of
  each bucket were read, what is not said to be unreadable was read.

Both, `ChosenFit` and `LoopsAreFound` rest on `FoldProofs`: what the folds and sums
of the community modules compute. A fold is expanded to the recursive function that
defines it; there is one on every finite set (`FoldsExist`) and only one
(`FoldsUnique`, `FoldsAgree`), by an induction over the subsets of the set whose
steps are sets and not operators (`BySubsets`, from the well-foundedness of the
proper subset), which the provers can do where the library's induction theorems,
which take an operator, cannot be used. From there: a sum is what its parts add up
to, does not depend on the order, and is bounded by its number of terms times the
largest (`SumDisjoint`, `SumsExchange`, `SumAtMost`, and others). In the same way it
has induction up to a number (`ByNumbers`) and the functions that are defined from
one number to the next (`RunsStay`).

TLC finds each of these invariants true on the instance of its run. The hypotheses on
`Faults` under which a theorem is stated are what its run has too, and each is needed:
with the fault, TLC refutes the property, as the table below says.

Only model-checked:

* Liveness under fairness, which is out of the prover's reach: every property that says
  what comes to happen.
* That the sixteen stages of `BoxPlan` are a valid plan whose last stage waits for all
  others: a fact of one plan, which TLC evaluates.

## Statements the code does not keep

Each is a definition of its module, or a property of a run under other constants.
TLC refutes it; the run leaves the case out as said here. None is checked by a run of
its own: to see one refuted, name it in the run's `.cfg` (what the table says of
constants apart, with the constants that are there).

| Statement | What the code does |
|---|---|
| `BuildSupervisor.VerdictSaid`: a verdict is said | it is marked said in the record first (cg-build:447-450); cut off in between, it never is |
| `RetryAnswered` with `RetryBusy`, or with a stage named after a complete build | the supervisor saves its own copy over the retry's (cg-build:523-531); a complete build is left alone at every start (341) |
| `DesktopComesUp` with `"process"` in `Faults` | nothing remembers the reboot that is due when the supervisor alone is killed (cg-build:414) |
| `Follower.StoppedIsOver`: "stopped" means stopped, also after `cg-build retry` (docs/architecture.md:191-192) | a new follower reads the old failure first (follow.go:418) |
| `VerdictIsTrue` without `older = "none"` | the script of an earlier setup goes on beside the new one and writes its result (setup.go:183) |
| `GameArchive.PartialNeverPushed` | a game skipped for want of room, partly there, is pushed over its whole copy |
| `GameArchive.StopRefused`: `cg stop` is refused when the push failed (docs/game-library.md:47) | the push exits 0 when only some games failed (cg-library:697), and the box is stopped |
| `GameArchive.MarkedIsRestored` (docs/troubleshooting.md:1383) | a sync that failed with 98 % there counts as one that worked (cg-library:413) |
| `GameArchive.LinksKept` with `"links_read"` (docs/troubleshooting.md:1388) | links that cannot be read are none, and the next push records none (cg-library:381, 437) |
| `StoppedIsSaved` with `"index_put"` or `"links_put"` | a game whose index entry or links cannot be written counts as pushed all the same (cg-library:671-676), and the box is stopped |
| `PartialNeverOverWhole` with `"manifest_read"` or `"pull_nearly"` | a manifest that cannot be read is a game that is not there (cg-library:389), and 98 % of a game is all of it (413): the next push takes what is on the drive for the game |
| `GameArchive.RoomKept` with the larger game unlucky | an absent game gives back room it never took (cg-library:391) |
| `IdleStop.HostSparesPlayers`: "consecutive idle minutes" (idle-watchdog.sh:12) | the count outlives a stop, and a box started again may be given up on at its first looks |
| `IdleStop.AnyLossIsSaid`: "the last chance anything on the box has to say that games were lost" (cg-shutdown-push.sh:4) | a push in which some games failed exits 0 (cg-library:671-697), and neither the shutdown (cg-shutdown-push.sh:38) nor the watchdog on the box (idle-watchdog.sh:117) then says anything |
| `NothingTooSoon` with `Commands = 2` | with keep-for 0 and back, an old mark makes the next check delete at once (cloud_watchdog.py:899) |
| `ArchiveLife.MovedWhole`: a move has copied everything before it deletes | the manifest and the links are copied with the error dropped (mutate.go:307-311) |
| `BoxLife.DoneMeansGone` | a disk attached and not marked to go with its machine is in no plan (destroy.go:82-97) and bills |
| `BoxLife.ReusedIsStarted` | a machine that is still stopping is chosen, not started, and waited for (init.go:171) |
| `WindowSettles` with `CgAnswers = FALSE`: "slow and correct rather than fast and wrong" | without a contract every run is alone, and the reads that were turned away park each other (index.js:78, app.js:4869) |
| `CloudGuard.OthersStayArmed`: "a policy pinned to one region was revoked by the watchdog installed last in another" (definition.go) | the statement for the logs and the instances is still pinned, only the marks' is not |
| `CloudGuard.ShownIsArmed`: `cg watcher` says armed of what is | it reads the schedule's state alone |
| `NotificationsKept` with `"adopt_read"` | a read of the installed settings that fails reads as no address, and the install writes that |
| `Leftovers.DisconnectKeepsGuard`: "none of it goes until the box is confirmed gone" (destroyall.go) | a disconnect goes on after a machine of this region did not go, and takes the watchdog with the role it still finds (RoleLeft) |
| `Leftovers.AnythingLeftIsSaid`: "anything of cg's still there - billing or not - is said" (disconnect.go:137) | the look reads the inventory, which lists neither the box's role nor a group, a key pair or a spot request; it then says "nor anything else of cg's" (164) |
| `Leftovers.DoneLeavesNoDisk`: "a region AWS would not answer for is said, never read as empty" (storage.go:3-4) | when the regions cannot be listed, the home region is taken for all of them, silently (boxcmd/new.go:128-135) |
| `GamePlan.NeverAllUnasked`: a chooser that broke "keeps whatever .env already said rather than reaching for "all"" (choose.go:43-46) | the error of writing the answer is dropped (choose.go:62); with `.env` silent the launch takes all (init.go:257-260) |
| `GamePlan.ChosenIsRestored`: games are placed where they fit, and "restore follows it" (docs/game-library.md:12-16) | the disk is sized by what the games take and the reserve, the restore counts what is free once it is formatted (cg-library:334-341) |
| `GamePlan.AddedIsRestored`: of types of which some have no drive, "Restore puts each game where it was told" (docs/architecture.md:104, 113) | the restore dies when `/scratch` is not a mount point (cg-library:271) |
| `CostReport.FailedReadIsSaid`: "A read that failed is said, never "nothing of cg's"" (commands/cost/elsewhere.go:17) | a failed list of regions (run.go:162-168), a bucket's region (library/elsewhere.go:64-67) and a bucket's listing are not said, the buckets only when nothing else was found (elsewhere.go:83-99) |
| `CostReport.UnreadIsNeverZero`: "an unreadable fact is "?" or null, never zero" (commands/cost/estimate.go:3-4) | a bucket that could not be listed is "saved games 0.0 GB" (library/elsewhere.go:106-111, commands/cost/elsewhere.go:31-46) |
| `DoneIsTrue` with `"silent_billing"` or `"cancel_elsewhere"` | a region, a bucket or a machine elsewhere that could not be read counts as none; a spot request elsewhere whose cancel is refused is not looked at again |

Smaller ones, seen while modelling and left out of a property by a name of its own:

* *Follower* (`ShownOnceInOrder`, `copies`): a poll that finds no record, and reads the log
  when the supervisor has meanwhile begun, shows lines that the record says again
  at the next poll (cg-build:291-299).
* *Prices* (`PricesAreWhole` lets a price be unknown when AWS refused and no table
  was read): a writer cut off between truncating `.new` and writing it leaves an
  empty cache, and a price once known is unknown, against "a stale price beats none".
  A table read old and then renewed by another command is taken for fresh.
  A file named by `CG_PRICES_FILE` that lacks a key leaves that price unknown, and AWS
  is not asked (pricing.go:228-245; `TestAPricesFileAnswersOffline` expects it).
* *Cost* (`WholeOrUnknown`): a disk of the old kind on a machine that is shutting down
  is counted by nobody (`Counts`). `destroy --all` and `cg cost` both take a failed list
  of regions for the home region alone.
* *Status* (`StatusIsTrue`, `mistaken`): the mark can be written for a new machine
  when the old one still answers to the name (commands/status/local.go:70).
  "Can never start again" is said when the spot request could not be read.
* *JSON*: `null` stands for "none" and for "unreadable" in `instance` of `cg status`
  and `budget_usd` of `cg cost`, though "An unreadable fact is null".
* *Keys* (`JoinsWithAKey`, `spoilt`): minted keys join one machine (tskey.go:113)
  where setup.go:144-147 speaks of "the AWS boxes' reusable, non-ephemeral key"; a
  key in its last hour is deleted though a machine launched a minute ago still has to
  join with it; when `.env` cannot be written after the delete (tailscale.go:67) it
  keeps the deleted key.
* *Regions*: a quota that cannot be read is taken as none ("their absence is
  "unreadable", not a zero", sweep.go); whether a region fits asks for four vCPUs,
  whatever the type.
* *Sizes*: a corrupt index reads as an empty archive, and nothing is sized; without a
  terminal the answer is "all" though nobody chose.

## Assumptions

* *One command of `cg` at a time*, except where a second one is modelled: the
  supervisor and its retry, a push on the box and the laptop's archive commands, two
  loads of one price table, two commands that ensure a key, a session and a disk
  add, two `cg status`, and whatever the app runs together.
* *No clocks.* A wait ends when what is waited for is there, or when its bound is
  used up; ages are counted in hours, periods or polls up to the largest limit they
  are compared with.
* *AWS keeps its word*: a call that is answered has done what it says. What it may do
  by itself is stop, reclaim or end a machine, and refuse a call.
* *A crash of the supervisor's process alone* is in `supervisor_any_retry` only; in
  `supervisor` it is the box that crashes.
* `asked` (of `Account`), `asked_at`, `copies`, `crossed`, `mistaken`, `spoilt`,
  `skipped` and `withheld`, the `left` of `IdleStop.use`, and `asks` and `written` of
  `GamePlan.plan` are not state of the code. They remember that something happened
  which the property beside them exempts, and are never read by a guard.

Some definitions are there for a reader and in no run: the type invariants of the
larger modules (each was checked once; the theorems above prove most of them), and
the statements of the table above, to be named in a `.cfg` by whoever changes the
code they are about.

## What is left

The laptop's commands on one archive beside each other, with the index written under
them (`ArchiveLife` with two commands at once; `NothingLost` leaves out what such a
crossing did); and the account archive of `cg-library`.

## Not modelled

* The packages a stage installs, and what the shell of `lib/bootstrap.d` does with
  them: a stage ends cleanly or does not.
* `cg-build run-stage` and what is typed on the box by hand, except `retry`;
  `events.jsonl` losing its last lines to a power cut.
* Of `cg-library`: the account archive, `--verify`, `forget` typed on the box.
* Image snapshots of the time before they were tagged.
* Of the Lambda: the report of the budget and of disks without a machine, which say
  things and change nothing; of its installer the dry run (`Prove`, `Report`).
* The choice of a subnet and a zone inside a region; the last waits of `cg init`
  (`finish.go`), each of which asks one question until it is answered.
* Pairing, Moonlight, Sunshine and the tools of the laptop; `cg deps`, `cg notify`,
  `cg remote` and the lines of `cg check` other than Tailscale's.
* Everything printed: text, tables, colours, the shape of `--json` except where a
  value stands for two things; what the app draws.
