# SocksIt: models and proofs

SocksIt is a Windows service that tunnels chosen applications through a SOCKS5
proxy. It runs sing-box as a child process, generates its configuration from
`socksit.yaml`, can take that file from a signed feed, answers a tray and a panel
over a named pipe, and updates itself. This directory holds TLA+ models of the
parts whose correctness depends on the order of events, the TLC runs that check
them, and TLAPS proofs of the results that hold for every value of the constants.
`PROJECT.json` lists runs, theorems, hazards, and which source lines each
definition stands for.

## The system

| Component | Code | State it keeps | Operations | Talks to |
|---|---|---|---|---|
| Engine supervisor | `internal/engine/supervisor.go`, `job_windows.go` | process, pid, published state, fast-failure count, backoff delay, job object | `Run`, the kill-on-cancel goroutine, `watchReady` per start | child process; started and cancelled by the main loop |
| Main loop | `internal/service/runtime.go` | `enabled`, `restartCh` (one slot), current supervisor | `superviseLoop`, `effectiveConfig`, `SetConfig`, `SetCredentials`, `Toggle`, `Reload`, `Status` | config file, credentials file, supervisor, watcher, pipe handlers |
| Config watcher | `internal/config/watcher.go` | debounce timer | `Watch` | calls `signalRestart` |
| Credential store | `internal/secret/store.go` | `creds.dpapi` | `SaveTo`, `LoadFrom` | main loop, `SetCredentials` |
| Managed feed | `internal/service/configsource_windows.go` | last status; otherwise only the config file | `superviseConfigSource`, `fetchConfig`, merge, migration sidecar | config server, config file, panel (`ConfigFetch`) |
| Control pipe | `internal/ipc/server.go` | published listener and access list | `Rebind`, `Serve`, `Close`, dispatch | `superviseControlPipe`, panel, tray, CLI |
| Egress health | `internal/service/egress_windows.go` | pin, verdict, last adapter acted on | probe, judge, re-pin | main loop |
| Update check | `internal/service/update*_windows.go`, `internal/updates` | `update-state.json`, last result | `runUpdateCheck`, `superviseUpdates`, `autoApply` | update server |
| Update apply | `internal/service/updateapply_windows.go` | executables on disk | swap with backup, restart helper, MSI | service control manager |
| Config server | `internal/configserver` | key, profiles, sidecars; sessions, failure counts | save, delete, rotate, serve; login, lock-out, roles | feed clients, browsers, LDAP |
| Config schema | `internal/config` | none | defaults, validation, effective lists, demotion | everyone |
| Engine config generator | `internal/singbox` | none | rules and DNS from a config | main loop |
| Log file | `internal/logfile` | open file, size | write, rotate, tail | service |
| Tray keeper, tray, panel | `internal/service/traykeeper_windows.go`, `ui/` | singleton mutex, last status | launch, poll, toggle, edit | pipe |
| Lifecycle, installer, CLI, helpers | `internal/service/{svc,install,setup}.go`, `cmd/`, others | none of their own | Windows calls in sequence | service control manager |

**What is hard.** Nothing in the service is a single-threaded program: the main
loop, the supervisor's goroutines, one handler per pipe connection, the watcher's
timer, the feed's timer and the pipe supervisor share two files, a one-slot
channel and a few atomics. The files are written by truncate-and-write, without a
lock, by several of them and by another process (the panel, when the pipe does not
answer). Children and listeners end at any moment or refuse to. Networks answer
late, partly or with something older than the last answer.

**What makes each part correct.**

* Supervisor: no child outlives `Run` or the service; no child starts after a
  cancel; failures back off and trip a breaker; a ready child is reported.
* Main loop: it ends on what files and flag ask for; it starts an engine only on a
  usable config; a shutdown returns.
* Feed: the root of trust moves only with the user; only vouched-for bodies are
  applied; the user's own lists and decisions survive; the client ends on what is
  served; a detached client is clean and stays detached.
* Pipe: always reachable; `Serve` survives each `Rebind`; the access list is the
  recorded one and ends on the user at the console.
* Egress: a verdict comes to be true of the engine that runs; a dead pin is left
  once; restarts do not feed on each other.
* Engine configuration: every connection and every lookup goes where the settings
  say; no engine gives out an address of a range that is not its own.
* Updates: applies end with an executable that works and a service that runs it;
  a release is not tried again and again; a check is not put off for good.
* Config server: body and signature match, an answer without an error means it was
  done, an operator's save leaves the migration alone; lock-outs count every failure.
* Configuration: reading settles, what loads goes on loading, what the server
  accepts the client takes, the user's own stays the user's own.
* Log file: the order of the entries survives failed rotations.
* Tray: never two that hold the mutex, one where one is wanted, none where none is.

## The modules

| Module | Models | Extended or instantiated by |
|---|---|---|
| `EngineHandle` | what a loop that starts, cancels and awaits an engine relies on | instantiated by `EngineSupervisor` |
| `EngineSupervisor` | the supervisor, its goroutines, the child, the job | `MCEngine`, `EngineSupervisor_proofs` |
| `EgressWatch` | the pin of the proxy dial, the watch's probe and verdict, restarts | `MCEngine`, `MCConfigServer`, `EgressWatch_proofs` |
| `EngineRules` | the generated route and DNS rules, gateways of other tunnels, the table of fake addresses | `MCEngineRules` (extended by `MCEngine`), `EngineSide_proofs` |
| `TrayKeeper` | the service's keeper, the trays, their mutex | `MCEngine`, `EngineSide_proofs` |
| `Reconciler` | what a loop that follows a changing demand promises | instantiated by `ServiceLoop` |
| `ServiceLoop` | main loop, request handlers, watcher, writers of the two files | `MCServiceLoop`, `ServiceLoop_proofs` |
| `ManagedFeed` | feed client, panel's edits and key decisions, the loop's normalizing write, server | `MCManagedFeed`, `ManagedFeed_proofs` |
| `ConfigRules` | what a file means, and every program that rewrites it | `MCConfigRules` (extended by `MCConfigServer`), `ConfigRules_proofs` |
| `FeedServer` | the config server's files under saves, deletions, key changes, faults, restarts | `MCConfigServer`, `ConfigServer_proofs` |
| `AdminAuth` | signing in to the config server | `MCConfigServer`, `ConfigServer_proofs` |
| `ControlPipe` | pipe server and the goroutine that re-binds it | `MCUpkeep`, `Upkeep_proofs` |
| `UpdateSwap` | the executable's replacement and the restart helper | `MCUpkeep`, `Upkeep_proofs` |
| `UpdateSchedule` | when checks and automatic applies are made | `MCUpkeep`, `Upkeep_proofs` |
| `LogRotator` | the log and its backups | `MCUpkeep`, `Upkeep_proofs` |

`MCEngine`, `MCUpkeep` and `MCConfigServer` put small instances side by side: in a
behaviour one part moves and the others stay at an initial state, so the states add
up and do not multiply. Where parts do interact, the interaction is inside one
module: the restart signal between loop, watch and engine in `EgressWatch`, file,
flag and engine in `ServiceLoop`, panel, loop, fetches and server in `ManagedFeed`,
keeper, tray, update and uninstallation in `TrayKeeper`. What crosses a module's
edge is a choice on the other side that allows at least as much: the engine of
`ServiceLoop` stops or does not, the apply of `UpdateSchedule` ends in any way
`UpdateSwap` can, a body of `FeedServer` is any body.

The theorems about their `Types` and `PipeFollows` are about the compositions; every
other theorem is about one part.

Operators whose comment begins with "mutant" are deliberate bugs. They are not part
of any specification: each replaces the definition after it, and a named property
must then fail. They show that the property depends on the code it is about.

### EngineSupervisor

One call of `Run`. An action is a stretch of code between two points where
something else can interfere: the check of the context with the store of
`StateStarting`, `cmd.Start`, the store into `proc`, the assignment to the job with
the start of `watchReady`, `cmd.Wait`, the judgement of the exit, the backoff. The
killer goroutine is two actions (`terminate` the job, then kill the published
process). A watcher is a member of `polling`, `dialed` or `marking`, because its
test of the state and its store are separate. The child may come up and may exit;
the service process may be killed, which closes the job.

Durations are choices: each exit is healthy or fast, each timer may fire at any
time. `MaxSpawns` bounds the starts (the child started last does not exit by
itself, and further starts fail), and `allowed` records how many starts the state
at the cancel leaves room for.

`EngineHandle` is the abstract specification: one child at a time; after a cancel only
the start already decided on; when `Run` has returned no child is left and none comes;
when the service is killed the job takes the child it holds along. `EngineSupervisor`
implements it with `handle` read off `pc` and `cancelled`, `alive <- Alive`,
`held <- inJob` and `late` = a start that the cancel came too late for
(`cancelled /\ pc = "spawn"`). A service killed between a start and its assignment to the
job leaves a child behind, which `Lose` allows.

### ServiceLoop

`superviseLoop` as `top` (read of the flag), `load` (read of the file), `demote`
(the normalizing write, in two steps, which may fail between them), `creds`,
`build`, `run`, `stopping` (awaiting the engine), `hold`, `returned`. A request
handler is a writer that truncates a file, ends or fails the write, and then
signals - three separate steps, interleaved with the loop's reads.
`Torn` is the content of a truncated or half-written file. The watcher turns
changes into a notice, its timer turns the notice into a signal, and errors lose
it. `restartCh` is one Boolean: a send into a full channel is dropped.

Contents are model values; what the loop can tell of them is given by sets (which
parse, which need normalizing and become what, which have an address, which
credentials they agree with). Nothing requires `Torn` to be unparsable: the proofs
cover an empty file that parses to defaults too; in the runs it does not parse.

`unannounced` names the files changed without any signal or notice to come: a lost
notice, a failed start of the watcher, a failed write of the credentials. The
properties set those changes apart, because the code does; they hold for all others.

`Reconciler` is the abstract specification: a look is owed after every change of
the demand, and the debt is paid only by a look that ends on the demand as it then
is. `ServiceLoop` implements it with `desired <- Desired` (what files and flag ask
for), `seen <- seen` and `owed` = something is on its way, or the loop is looking,
or something went unannounced.

### ManagedFeed

A fetch of either kind (`Timer`, `Panel`) reads the config, gets a body, gets a
signature, gets the migration sidecar, merges and writes; nothing but the file
connects it with the others. `overlap` records that the file changed since the
fetch read it. The panel loads the file, edits (`Save`, `AcceptKey`,
`DeclineKey`) and commits what it loaded. The main loop reads a config that left
managed mode and writes it back cleaned. The server publishes a body, rotates its
key (which signs everything again) and announces a migration; body and signature
are fetched in two requests and may belong to different states of it.

A config keeps the fields these writers tell apart: url, whether the feed is signed,
merge mode, trusted, pending and declined key, the user's lists, the feed's lists,
and whether the feed locks a toggle. A signature is the key it was made with.
`refused` is the key the user declined last under the feed he has; `muddled` says that a
config older than the decline was written since, or that he declined again with nothing
pending: either loses the record of the decline (`DeclineSticks`), and `NotNagged` sets it
apart. Left out: scalar fields (see `ConfigRules`), the update settings a migration also
carries, deletion of a profile (a missing profile is an outage), torn reads (the
defaults taken for a torn file have no url, so nothing is fetched in that round).

### ControlPipe

`Rebind` is split where the mutex is released: the listener is taken out of sight,
closed (or found stuck after `closeGrace`), a new one is made and published, or
the old one is kept or restored. `Serve` looks at the published listener, accepts on
it, and after a failure compares it with the published one. `Close` is called by
`Serve`'s goroutine and by `Run` on its way out. The pipe library is external: a
listener cannot be made while another is open, a close ends the listener or hangs
and leaves it serving, and an `Accept` may fail on an open listener (`flaked`; `Serve`
then returns for good, which is a hazard the properties set apart). A later close of a stuck listener can succeed, because the
library's goroutine takes the second close signal. Requests on a connection are left
out; they do not touch the listener.

### EgressWatch

The loop generates a configuration (the pin is the adapter the routing table names,
or none), runs it, and restarts on the one-slot signal. The watch dials the proxy
through the pin, then through the others one by one, and judges: every dial is a step,
and the network, the engine and the pin may change between any two. `actedOn` is the
adapter it last restarted away from. `spent` counts restarts since the last change
from outside. A wake at any moment stands for both the ticker and the network monitor.

### EngineRules

Pure part: `Generate`'s rules in order, and the engine as the first rule that
matches. `RoutesAsAsked` and `AnswersAsAsked` are the reference definitions, stated
from the settings and not from the rules, and `NamesAsListed` says the same of names. A name is a sequence of labels and a label
a sequence of pieces, so that `notkimi.com` ends like `kimi.com` as text and not as a
name. Moving part: `invalidateFakeIPCache` around builds that are refused, fail to be
written or are cut short, and an engine that fills its table. The gateways come from
the stores of the VPN clients as far as they can be read.

### TrayKeeper

`superviseTray` (look at the mutex with its handle, close it, launch or refuse), each
tray (start, take the mutex or be turned away, add the icon or hang without one,
watchdog, leave) and the machine around them: log-off, a shell that is up before it
takes icons, a torn settings file (read as the default), an update put in place,
service start and stop, uninstallation. Any call on the mutex may fail: a tray goes on
without it (`Refused`, a member of `denied`), a keeper takes it that there is no tray.

### ConfigRules

A file is a record of the fields that are treated differently: address, switches
(present, absent), apps, names, ranges, fake-ip range, feed state. `Defaulted` is
`applyDefaults` with its migrations, `Loads` the checks, `Fetched` the merge with
its keeping of local facts. Every command line editor, the panel's save, the
loop's demotion and an edit by hand is an action. `mine` records what the user
listed. One step reads and writes: races between them are `ManagedFeed`'s.

### FeedServer and AdminAuth

An operation holds the mutex from its first write (`Begin`) to its last; `todo` is
what it has yet to write. Any write may fail, leaving the file truncated, and the
server may crash between two. An operator's save looks up the migration in a
critical section of its own (`Prepare`), so that another operation can come in
between. After a new key everything is signed again in any order of the profiles, each
migration after its body; what it cannot read (`unread`: any part of the list of profiles,
a body and with it the migration, a migration) it passes over. `spoiled` marks what a fault
or an unread part left not fitting.

`AdminAuth`: a local sign-in is one step; a directory sign-in checks the lock-out, binds
without the mutex, and counts afterwards. First setup is check, write, sign in, three
steps, and a setup can be overtaken by another one. `tries` counts wrong answers an
address got in since it last was let in or waited.

### UpdateSwap, UpdateSchedule, LogRotator

`UpdateSwap`: an apply and its helper as the sequence of file calls, service control
calls and waits, each of which may fail (`MaxFaults`), with the power failing between
any two. The helper opens the service first and ends if it cannot. `scm` is what the
service control manager reports: a process that is starting takes no stop, a new build
that does not come up ends or hangs there, a wait may be over before the process is up
or down, and the process then comes up or ends at any later step. `Settled` is what an
apply should leave behind. `overlap` and `severed` set apart applies that run into each
other and a swap or a roll back that is cut in the middle, which the code does not claim
to survive. `adrift` sets apart, and only for where the service runs from, a process that
a helper left to itself: it could not open the service, or moved the executable from
under a process that had not stopped. What is at its place works even then.

`UpdateSchedule`: the loop's wake, check, record and try, the panel's check with its
own read and write of the record, and a clock that can be set back. `unsure` marks an
automatic try whose record was lost.

`LogRotator`: remove, rename and reopen with each of them failing, entries of one
size. A restart finds the file as it is.

## Runs

| Run | Config | Shows |
|---|---|---|
| `engine` | `MCEngine.cfg` | supervisor: it implements `EngineHandle` (one child at a time, no start after a cancel but the one decided on, no child behind a returned `Run`, none the job held behind a killed service), no phantom restart, backoff follows the streak, readiness is reported, a cancel returns when something can be killed. Watch: the verdict becomes true, a dead pin is left. Rules: routes and answers are those of the settings, addresses those of the range. Tray: never two that hold the mutex, one where wanted, none where not |
| `supervisor_cancel` | `MCEngineCancel.cfg` | **violation**: a cancel between the check of the context and the publication of the process leaves `Run` waiting |
| `loop` | `MCServiceLoop.cfg` | no announced change is lost, engines only on usable configs, the loop implements `Reconciler`, it settles once the files do, a shutdown returns with an engine that never stops |
| `loop_fault` | `MCServiceFault.cfg` | **violation**: after a crash loop `Status` reports `disabled`, not the fault |
| `feed` | `MCManagedFeed.cfg` | trust moves with the user only; nothing unvouched is applied; a declined key is not proposed again, but for the two ways its record is lost; undisturbed fetches keep what is the user's; the client ends on what is served; a detached config is cleaned |
| `feed_detach` | `MCFeedDetach.cfg` | **violation**: a fetch in flight undoes a detach |
| `feed_decline` | `MCFeedDecline.cfg` | **violation**: a fetch in flight undoes a decline, and the key is proposed again |
| `upkeep` | `MCUpkeep.cfg` | pipe: `Serve` survives, the recorded access list is true, something listens, the list follows the user. Updates: applies end with an executable that works and a service that runs it, unless a helper left its process to itself; tries are spaced, checks are in time. Log: order kept, nothing missing without failures |
| `pipe_race` | `MCPipeRace.cfg` | **violation**: a user who changes while the service starts is never granted |
| `server` | `MCConfigServer.cfg` | store: what is served is vouched for, an answer without error is true (of a change of keys: for what it could read). Sign-in: wrong answers are bounded. Configuration: reading settles, loading is kept, accepted feeds are taken, local facts and the user's own apps stay. Watch, on a larger instance than `engine`'s: at most three restarts follow a change |
| `operator_save` | `MCOperatorSave.cfg` | **violation**: an operator's save that waits for the mutex undoes an administrator's change of the migration |
| `own_names` | `MCOwnNames.cfg` | **violation**: names of a feed end in the user's own list |

The violations are disagreements of the code with its own comments and docs, quoted
under "findings" in `PROJECT.json`. A passing run keeps the weaker claim that
the code does satisfy (`CancelReturnsWhenKillable`, `KeepsLocal`, `NotNagged`,
`PipeFollowsUser`, `OwnApps`).

Four more disagreements have no run of their own; the passing properties set them apart:

* `ui/tray/tray.go:87` says that `acquireSingleton` "returns true if this is the only tray"
  and `traykeeper_windows.go:26` that the keeper "ensures exactly one tray runs". A tray that is
  refused the mutex goes on without it (tray.go:102-104, `Refused`), and a keeper that is
  refused takes it that there is no tray (107-108, `KeeperLooks`): two icons. `KeepsOneTray`
  is about the trays that have the mutex; that they leave, about all.
* `store.go:78-79` says that `GenerateKey` "re-signs every profile". What `resignAllLocked`
  cannot read it passes over (426-438, `Resign`), and answers ok. `AnswerIsTrue` is about the
  parts that could be read, and `ServedIsVouched` counts the others as spoiled.
* `updateapply_windows.go:132-133` says of `RunUpdateRestart` that it "verifies it reaches
  Running, and rolls back from oldPath on failure". It does neither when it cannot open the
  service (136-144), and rolls back under a process whose start it did not see through
  (150-167). `EndsSound` holds of what is on disk; where the service runs from is set apart
  (`adrift`).
* `schema.go:638-639` says that leftovers are undone where old releases wrote them, "never a deliberate setup". A file
  that follows README.md:193-203 for a FakeIP router equals what 0.2.6 and 0.2.7 wrote, and
  `applyDefaults` (649-651, `Migrated`) puts both keys back whenever it is read.

### Bounds

* Supervisor: breaker at three failures, delays 1 to 3 (so the doubling is capped),
  four starts. A streak, a healthy run inside it, a watcher left over from an
  earlier child and a start racing a cancel need at most four.
* Watch: two adapters and three changes from outside (`MaxChanges`) for what eventually
  happens. The claims are about what follows the last change, and their hard case needs a
  verdict under way, an edit and a change of the route. `NoRestartLoop` has three adapters
  in `MCConfigServer.cfg`, where three restarts after a change do occur: with two
  adapters two are the most, and the proof shows that more adapters add none.
* Rules: both modes, three lists of apps, three of names, a proxy by name and by
  address; lookups of a listed name, one below it, one that only ends like it, a
  gateway and the proxy: one value for each way in which two rules can disagree.
* Tray: two processes, one from the keeper and one by hand, one of each build, or one with
  the mutex and one without. One user is on the console at a time: users who switch
  without logging off are left out but for what their mutex does, which is to fail a call.
* Loop: four contents (usable, in need of normalizing, usable without an address
  and at odds with the credentials, torn), one set of credentials and none, one
  request at a time. Nothing is counted, so the number of requests is unbounded;
  several writers at once, one overwriting while the other signals, are covered by
  the proofs, which hold for any number of them.
* Feed: two keys, two bodies (one locks a toggle), two urls, three forms the user
  can submit (detach, attach without a key, unsigned and replacing), both fetches,
  one user action (`MaxEdits`) and one change at the server (`MaxServes`); initial
  states have each kind of migration pending. Sequences of decisions are covered
  by the proofs of the safety properties.
* Pipe: one user who comes and goes (so three seats in sequence: nobody, the user,
  nobody again), three listeners, which is how many can be referred to at a time
  (published, being replaced, being accepted on). Listeners are reused; nothing is
  counted.
* Swap: one applier at a time in the run, whose earlier helper may still be at
  work; two failing calls, one more than `EndsSound` has to survive. A second apply after a
  helper that could not open the service is within the run.
* Schedule: two intervals, one below and one equal to the grace between automatic tries,
  and a clock that reaches past both; one release.
* Log: three backups of two entries, and enough entries to fill all and drop some.
* Store: two profiles, of which one has a migration that is refused late, two keys,
  one operator beside the administrator. Sign-in: two failures lock out, two sign-ins at once.
* Configuration: an app, a subnet that is also listed as an app, two hosts, one switch,
  four files put in place by hand, four profiles. Values of one kind are treated alike.

Symmetry is used in `MCConfigServer.cfg` (keys, passwords, tokens, calls), which
checks no liveness. Deadlock checking is off everywhere: `Run` returns, the service
stops, a client without a feed has nothing to do, and a bounded log is full.

### Fairness

* Supervisor: goroutines are scheduled (`WF` of `Run`, the killer, every watcher).
  No child has to come up or exit, nobody has to cancel.
* Watch: the loop and the watch are goroutines with timers, and a dial has a timeout.
* Tray: keeper and trays go on, `shellSettle` passes. Strong fairness of a launch, of taking
  the mutex and of adding the icon says that what is tried every few seconds is not
  refused, or its process killed just before, for ever. Nobody has to log on, off, or
  change a setting.
* Loop: the loop, the watcher's timer (`time.AfterFunc`) and a request once begun
  make progress. No engine has to stop; `engineStopTimeout` is the loop's own step.
* Feed: the timer is reset at the end of each round (`superviseConfigSource`), each
  request has a timeout, so a fetch ends; the main loop acts on changes, which is what
  `ServiceLoop` shows while proxying is enabled. The panel's fetch and the user are
  not obliged to do anything. `Converges` assumes the server stays reachable
  in the end and says so in its formula.
* Pipe: `Serve` and the pipe supervisor are scheduled; an `Accept` on a closed
  listener returns; no client has to connect. Strong fairness of a successful close
  and a successful bind says that an operation tried again and again every five
  seconds does not fail for ever.

## Proofs

`tlapm` checks every theorem to its leaves. Assumptions are the named `ASSUME`s of the
modules: contents and demands do not collide, the normalized content needs no
normalizing, delays are ordered, and so on. TLC evaluates them on every run.

* `EngineSupervisor_proofs`: types, `NoOrphanAfterReturn`, `JobDiesWithService`,
  `NoPhantomRestart`, `StatusWhileAlive`, `BackoffTracksStreak` and the refinement of
  `EngineHandle`, for any breaker limit, delays and number of starts. None of the
  properties is inductive. `IInv` adds where a child can be
  alive at all (`ChildOnlyInside`), that a start ahead of a cancelled `Run` is the
  one allowed for (`StartsAllowed`), that from the announcement of a start to the
  end of its child only watchers store a state (`StartAnnounced`), what `Run`
  has counted (`Counts`), and what the delay is between two backoffs as well as in one
  (`DelayFollows`). tlapm knows nothing of powers, so that they double
  is assumed (`PowersOfTwo`), a fact of arithmetic and not a condition on the options, which
  TLC evaluates up to the run's breaker limit. For the refinement every step is a step
  of the handle or a stutter; `HeldInTime` adds that a child is not held by the job before
  its assignment. Also `CancelReturnsWhenKillable` and `ReadyIsReported` (see below).
* `ServiceLoop_proofs`: types, `NoLostReload`, `EngineOnlyOnUsable` and the
  refinement of `Reconciler`, for any contents, credentials and number of writers.
  The argument for `NoLostReload`: everything the loop has read is current or
  something is on its way. `FlagRead` says it of the flag between its read and the
  end of the look, `SnapCurrent` of the file (a writer in the middle of its write
  counts as on its way, because it will signal), and `EngineAttended` that the
  loop holds no engine while it looks. A signal consumed before a look starts is
  safe because the flag and the file are read after it.
  The refinement maps each step to a change, a look overtaken, a fresh look, a
  settled debt or a stutter.
* `ManagedFeed_proofs`: types, `TrustedByUser`, `OnlyVouched`, `NotNagged` and
  `KeepsLocal`, for any keys, bodies, forms and migrations and any number of edits and
  changes at the server. The hard part is that configs live in many hands: on disk,
  read by a fetch, loaded by the panel, about to be normalized. `IInv` says of each of
  them (`Sound`) that its key was approved, that its bodies were served under an
  approved key and that it does not propose the key it records as declined; of a fetch
  past its signature that its body is vouched for; of a fetch nothing overlapped that
  it read what is on disk. `NotNagged` rests on the config on disk recording the decline
  (`Kept`) as long as nothing older is written over it (`StepKept`). The histories these
  refer to only grow (`SoundGrows`), so a config that is old is sound still. Also
  `DetachCleans` (see below).
* `EgressWatch_proofs`, for any adapters and any number of changes: the types, and
  `NoRestartLoop`. A restart moves `actedOn` to the pin that was looked at. The pins that
  can still be looked at form a path: the one acted on, the one a verdict is under way
  about, the one that is bound, the one the next configuration binds. `EgressInv` bounds
  the restarts made and what is left of that path (`spent + ToCome`) by three; a change
  from outside begins a new path and sets `spent` to zero.
* `EngineSide_proofs`, for any ranges and outcomes of builds and any set of processes:
  * `TableInRange`. `TableInv`: unless the table could not be removed, its addresses are of
    the range in `config.json`, and a running engine was built from that file.
  * `RulesAsAsked`, for any settings, programs, lookups and stores, under one hypothesis
    (`NamesAreRead`): the text of an entry, or its ending, matches just the names the entry
    covers. That is a fact about sequences of labels and their concatenation, which needs an
    induction over them; on the run's names TLC checks it as a part of the property
    (`NamesAsListed`). What is proved is the order and the conditions of the rules:
    lists of rules decide one after the other (`InTurn`), so that route and answer are the
    case distinctions `OutboundIs` and `AnswerIs`, and those agree with the settings.
  * `OneTray`, the safety part of `KeepsOneTray`, of the trays that have the mutex, which
    with the types is inductive, and `ClearsTrays`, its last part, of all of them (see below).
  * The `Types` of `MCEngine`: a step of one side leaves the variables of the others
    alone, so the sides' invariants hold together (`SidesStep`).
* `ConfigServer_proofs`:
  * `FewTries`, for any limit, addresses, passwords and number of calls. `AuthInv`: an
    address that is not locked out has tried no more than is counted against it; one that is
    has room in the limit for each directory sign-in that waits (`Waiting`), because no other
    begins while it is locked out.
  * `ServedIsVouched` and `AnswerIsTrue`, for any profiles, contents, keys, operators and
    submissions. Neither is inductive, as both are about the end of an operation. `StoreInv`
    speaks of what each file will hold after the writes still to come (`After`): every part
    no fault spoiled will fit (`Fine`), where a part that could not be read is spoiled, the
    writes leave what the operation promises (`Does`), no file is written twice, bodies come before and go after their migrations, and
    the key in memory is the one on file. A write that succeeds changes nothing of what
    the files will hold (`AfterStep`), a removal that fails only its own file
    (`AfterSkip`), and an operation that is cut short spoils every part it had yet to write. That the writes of `Resign` are
    one for each part rests on the enumerations of a finite set being surjective.
  * The `Types` of `MCConfigServer`.
* `ConfigRules_proofs`, for any entries, ranges, switches and number of edits: `OwnApps`,
  `FeedIsTaken`, `KeepsLoading`, `LocalFactsStay` and `ReadsSettle`. `RulesInv` has the
  types, that the file's apps are the user's, and that what is published was accepted; the
  rest are lemmas about the reading of a file: it makes a file of its type, settles after one
  round, and what it accepts survives a demotion, an edit and a fetch.
* `Upkeep_proofs`:
  * `KeepsSchedule`, for any intervals, number of releases and horizon. `ScheduleInv`: every
    time recorded, on disk or in a hand, is that of a check that was made, and unless a
    record was lost it names the newest release tried and when.
  * `EndsSound`, for any number of appliers. `SwapInv` describes disk and service for every
    phase of an apply (`ApplyAt`) and of a helper (`HelpAt`), as long as applies did not
    overlap and nothing cut a swap or a roll back; at most one of them is then at work. The
    backup is a build that works, though not always the old one: after a helper that could
    not open the service the next apply moves the new build aside. Where a process may be
    that takes no stop is told by which build it is of (`FailedIsNew`, `Aside`).
  * `LogKeepsOrder`, for any number and size of backups. `LogInv`: entries are in order within
    and across the files, and while nothing failed the files are full rows of consecutive
    entries, the newest perhaps not full.
  * `ServeSurvives`, `BindingIsTrue` and `StaysReachable`, for any users and listeners.
    `PipeInv` says which listener may be open in each phase of `Rebind`, that it can be put
    back with the list it serves, and that a listener closed under `Serve` is not the
    published one. Also `PipeFollowsUser` (see below), and the `Types` of `MCUpkeep`.

What the provers need of the constants is small and is what the code has: that markers such
as "no file" or "torn" are not values (`ServerAssumption`, `RulesAssumption`,
`SwapAssumption`, `TableAssumption`), that a configuration has one of the two modes and one
of the two ranges (`TableAssumption`), that profiles and sign-ins are finitely many
(`ServerAssumption`, `AuthAssumption`).

**Liveness.** What must come to happen is proved where the argument passes through a
bounded number of places. tlapm does not reason about `ENABLED`, so each of these theorems
has a hypothesis, always of one form: where the guard of a goroutine, written out in the
proofs module (`LoopGoes`, `Goes`, `PipeGoes`, `TrayGoes`), holds, its action is `ENABLED`.
That is a statement about single states and has nothing to do with their order; TLC finds
it true in every reachable state of the runs' instances, when it is given to it as an
invariant. For `PipeGoes` it says of the constants that there is a listener no variable
refers to. Fairness of a set of goroutines is stated by one operator
for each (`WriterFair`, `WatcherFair`, `TrayFair`), so that a proof can take one of them.

* `ShutdownEnds` (`ShutdownReturns`): each place of the loop leads to one nearer to the
  return, and it waits only for an engine it has cancelled (`Awaited`).
* `LoopSettles` (`Settles`), for any number of writers, where the run has one. While the
  files stay, a signal sends the loop to its top and from there to a look that stays
  right. So if it never settles no signal comes, it stays in a select, and no
  request or notice is left, as each would end in a signal; and then, by
  `NoLostReload`, it has acted on what is asked for.
* `CancelEnds` (`CancelReturnsWhenKillable`) and `ReadyGetsReported` (`ReadyIsReported`),
  for any number of starts and of watchers left over from earlier ones.
* `DetachGetsClean` (`DetachCleans`), for any number of writes that overtake the loop's.
* `PipeFollows` (`PipeFollowsUser`). While one user stays and is not served, rounds of
  `Rebind` go on without end and from the second on are for him. In infinitely many of
  them the old listener closes, and then nothing is open (`OnlyOpen`, a part of the
  invariant `Course`); strong fairness of the bind then gives one that is for him, and no
  later round takes it back.
* `TraysEnd` (`ClearsTrays`): each tray, with the mutex or without, sees for itself that it
  is not wanted and leaves.

**Only model-checked.** `Converges`, `VerdictSettles`, `LeavesDeadPin` and the middle part
of `KeepsOneTray` (`ShowsTray`): their arguments count down how many edits and changes of
the server, adapters to try or outdated trays are left, an induction no installed prover
can instantiate. That the text of names matches what it stands for (`NamesAsListed`).
That the guards written out for the liveness theorems are those of `ENABLED`.

## Not modelled, and the plan

Out of scope: encryption (DPAPI, Ed25519) beyond who signed what, HTTP and TLS, the
syntax of single fields, most Windows service and installer calls, drawing,
command line parsing, log wording, the download of the engine (fetch, verify, rename),
diagnostics, the engine itself beyond the order of its rules.

Left out of modelled parts: requests and framing on the pipe, users who switch on the
console without logging off, the network monitor's debounce (its notices come at any
moment), the audit log, the server's roles beyond its two kinds of callers,
the verification and version strings of an update's manifest, `Stats` and the log tail.

The plan:

1. `EgressWatch` as an implementation of a simpler loop (look, leave once, rest).
2. Version order of releases as a pure operator with its reference definition.
3. A composition of `ServiceLoop` with one `EngineHandle` for each engine it starts, in
   place of its own account of an engine, to say how many children there can be at once
   when a cancelled engine is given up after `engineStopTimeout`.
4. The staging of the engine's files at installation, if a crash between two of its
   steps turns out to matter.
