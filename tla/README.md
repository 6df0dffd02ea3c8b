# A verification project for cosmonaut-installer

`cosmonaut-installer` installs a bootc (composefs) image on a disk. A GUI or a
CLI, unprivileged, sends an `InstallSpec` over D-Bus to a root daemon; the
daemon runs the engine, which partitions, formats, encrypts, mounts and
deploys, and reports steps, progress and log lines back as signals.

This directory holds TLA+ models of that program, TLC configurations that check
them on small instances, and TLAPS proofs of their main theorems. Source paths
below are relative to the repository; line numbers of every definition are in
`PROJECT.json` under `map`.

To check a run: `tlc -config MCEngine.cfg MCEngine`, and so on for each `.cfg`
(section 4; `MCDaemon.cfg` and `MCDaemonProbeRace.cfg` are for `Daemon`,
`MCSession.cfg` is for `Session`, `MCWifiPage.cfg` and `MCWifiRetry.cfg` for
`WifiPage`, the others for the MC module their name begins with). To
check the proofs: `tlapm EngineProofs.tla`, and likewise `DaemonProofs`,
`SessionProofs`, `PartitionProofs`, `GapProofs`, `LayoutProofs`, `WizardProofs` and
`WifiProofs`.

## 1. Inventory

| Part | Source | State it keeps | Operations | Model |
|---|---|---|---|---|
| Engine pipeline | `crates/cosmonaut-engine/src/{lib,format,luks,mkfs,mount,bootc,hostname,bls,finalize}.rs` | none between calls in memory; on the machine: mounts below `/run/cosmonaut/target`, the mapper `cosmonaut-root`, the disk | `install()` with nine steps, cancellation checks between them, preflight, teardown | `Engine` |
| Partition plans | `crates/cosmonaut-engine/src/partition.rs`, `validate_spec` in `lib.rs` | the partition table | `erase_disk`, `free_space`, `custom` | `Partition` (detail), `Engine` (effect) |
| Disk probe | `crates/cosmonaut-engine/src/probe.rs` | none | parse lsblk/sfdisk, compute gaps | `Partition` (gaps, lookups) |
| Subprocess runner | `crates/cosmonaut-engine/src/runner.rs` | two reader tasks per child | run, forward lines, kill on drop | in `Engine` (holder) and `Daemon` (readers) |
| Daemon service | `crates/cosmonaut-installer-daemon/src/service.rs` | `Mutex<Inner>`: state, current step, cancel token, idle channel | `InstallJson`, `Cancel`, `ProbeDisks`, wifi and TPM2 queries | `Daemon`; what clients rely on: `Service` |
| Daemon main | `crates/cosmonaut-installer-daemon/src/main.rs` | watch receiver, debounce timer, signals | bus activation, `idle_exit` | `Daemon` |
| OS probe | `crates/cosmonaut-installer-daemon/src/probe.rs` | temporary read-only mounts | probe with a 5 s timeout per partition | in `Daemon` |
| GUI application: wizard | `crates/cosmonaut-installer/src/app.rs`, `spec.rs`, `disks.rs`, `images_json.rs`, views in `pages/` | an Elm-style `App`: page, lists, selections by position | navigation, loaders, selections, the spec they add up to | `Wizard` |
| GUI application: install session | `app.rs` from `StartInstall` on, `pages/{progress,done}.rs` | in-flight flag, cancel channel, countdown | start, cancel, retry, reboot, quit | `Session` |
| GUI daemon client | `crates/cosmonaut-installer/src/daemon.rs` | a driver, a cancel forwarder and signal forwarders per install | `spawn_install`, `spawn_reboot` | `Session` |
| GUI custom layout | `crates/cosmonaut-installer/src/pages/layout.rs` | roles per partition, chosen gap, typed size | edit, validate, draw, build the action list | `Layout`, composed with `Partition` |
| GUI wifi page | `crates/cosmonaut-installer/src/pages/wifi.rs` | networks shown, dialogs, pending connections | connect, disconnect, forget, retry, secret agent | `WifiPage` |
| NetworkManager crate | `vendor/cosmic-settings-network-manager-subscription` | a worker and watcher per connection | serve requests, reload | in `WifiPage`, as far as the page depends on it |
| CLI | `crates/cosmonaut-installer-cli/src/main.rs` | one session | `probe`, `install`, `cancel` | in `Session`: its call is another client's |
| Branding, widgets | `branding.rs`, `widgets/` | none | drawing, JSON with defaults | not modelled |
| Daemon wifi | `crates/cosmonaut-installer-daemon/src/wifi.rs` | none | read network state | not modelled |
| D-Bus, polkit, systemd files | `data/` | | configuration; activation is in `Daemon` | not modelled |
| Tests | `crates/*/tests`, `tests/e2e` | | read as documentation | not modelled |

How the parts interact:

* Client to daemon: the D-Bus methods `InstallJson` (which answers when the
  install has ended), `Cancel`, `ProbeDisks`; back, the signals `StepChanged`,
  `Progress`, `LogLine`, `Completed`. Method replies and signals travel
  independently of each other in the client's tasks.
* Service to engine: `InstallJson` spawns the engine as a task, hands it a
  `CancellationToken` and drains a bounded event channel (256) until every
  sender is gone, then joins the task.
* Service to `main`: every transition of `Inner.state` is sent into a `watch`
  channel; `idle_exit` waits on it and leaves after 30 s of idleness.
* Engine to tools: each step runs external commands through `runner.rs`, whose
  reader tasks clone the event sender. Dropping the future of a running command
  kills the child (`kill_on_drop`) without waiting for it.
* Attempt to attempt: the next `install()` finds what the last one left on the
  machine, which is a mount tree and an open mapper if the daemon died.

What is hard about it, and what makes each part correct:

* Engine: cancellation is polled, at eight places and inside two `select!`s. A
  killed `bootc install` may outlive its cancellation. Preflight must undo the
  leavings of any attempt with any other specification. Correct means: an
  attempt never touches a disk something else still claims, a cancelled attempt
  stops, `Ok(())` is a system that boots and unlocks with the keys asked for,
  the percentage is monotonic, every attempt returns and a retry succeeds.
* Service: three critical sections per install with awaits between them, a
  handler and an engine task per call, concurrent `Cancel` and probe handlers.
  Correct means: one engine at a time, a token that is always the running
  install's, a current step that is never a previous install's, no transition
  lost by the idle loop, every accepted call answered, an idle daemon gone.
* Partition: destructive commands interleaved with checks of a request made
  against an older table; partition numbers are reused. Correct means: nothing
  the plan does not name is destroyed, new partitions are disjoint and where
  they were asked for, and the set handed on is of distinct partitions of the
  sizes the engine requires.
* Session: for each install the GUI spawns tasks that run concurrently with the
  update loop and with those of the install before it, over a service that other
  clients use and that can die. Correct means: every session ends, once, with
  its own outcome; the GUI stays on the progress page while its install works;
  a click on Cancel reaches the install it is for; a reboot follows a success.
* Wizard: three loaders deliver whenever they are ready, lists replace lists
  under a selection by position, and pages can be skipped and gone back to.
  Correct means: what is sent is complete, its plan was made for its disk, and
  the disk is the one the user chose.
* Layout: three handlers edit the same roles, sizes are computed in wrapping
  arithmetic, and the plan is carried out on the disk as it is later. Correct
  means: what the page calls valid is carried out and looks as drawn; what is to
  be left alone is, even when the disk has changed.
* Wifi page: requests are answered out of step with what the user does, answers
  replace dialogs, states are withheld under a popup. Correct means: a network
  shown as connecting is being connected to, or the user is being asked about
  it; no network is connected to twice; the list comes to show what is.

`PROJECT.json` lists each such hazard at its line with the properties that
would catch it.

## 2. Plan

All of it is done; the order is that of the modules' weight in the system.

1. `InstallTask`, `Engine`, `EngineProofs`: the pipeline.
2. `Daemon`, `DaemonProofs`: the service, the idle loop, probes.
3. `Partition`, `PartitionProofs`, `GapProofs`: plans on small disks, against
   what a plan may touch and what it hands on; the gaps of a disk.
4. `Service`: the service as its clients see it, and (in `DaemonProofs`) that
   the daemon is one.
5. `Session`, `SessionProofs`: the GUI's install sessions as clients of `Service`.
6. `Wizard`, `WizardProofs`; `Layout`, composed with `Partition`, `LayoutProofs`.
7. `WifiPage`, `WifiProofs`.

How the modules meet:

```
 Wizard --sent--> Session --INSTANCE--> Service <--implements-- Daemon
 Layout --EXTENDS---> Partition              each call's engine |
                         (effect of a plan)                     v implements
                                Engine --implements--> InstallTask
 WifiPage (on its own: the wizard only asks whether there is a connection)
```

## 3. The modules

### InstallTask
The contract between engine and service: a task works, it commits to its
finalize step only while it is not cancelled, and once committed it can only
succeed or die with its process.

### Engine
`install()` at the granularity of its await points: `pc` is the command (or
select) the engine waits in, and one action is the completion of that command
together with everything the code does up to the next await: the
`check_cancel!()` that follows, `emit_step` with its baseline percentage, the
return and its error variant.

| Code | Model |
|---|---|
| `install`: validate, pipeline, teardown | `Start`, `Leave`, `TeardownUnmount`, `TeardownClose` |
| `run_pipeline`: preflight | `PreflightUnmount`, `PreflightClose` |
| `run_pipeline`: steps, `check_cancel!` | one action per await, `CheckCancel`, `Enter`, `Continue` |
| `CancellationToken` | `cancel`, set by `Cancel` at any moment |
| `mount::unmount_all` (`-R`, then `-Rl`) | `UnmountAll`: refused while the holder has files open, then lazily detached |
| `luks::close` | `CloseMapper` |
| `bootc::run`, biased `select!`, kill on drop | `BlobLine`, `CopyDone`, `Deploy`, `CancelCopy`, `CancelDeploy`, `HolderExits` |
| `bls::inject_luks_uuid` | `EntriesDir`, `Inject`, `Bls` |
| a command that exits non-zero | `CommandFails`, `PartitionFailsLate`, with what the failed command may leave |
| the process dying | `Crash` |

Disk and machine are reduced to what later steps and attempts depend on: is
something mounted, open, detached or held; is the wanted gap free; which LUKS
header (identified by the attempt that wrote it) and key slots exist; how far
the root file system got; which boot entries exist and which UUIDs they name.
A partition plan is one of six kinds, by what it does to these.

The tools are external, and modelled by how the code uses them: a command
succeeds with its effect or fails. Two assumptions about them matter. A device
that is mounted, held by an open mapper or kept by a detached tree cannot be
repartitioned (`InUse`). A killed process dies eventually. A third is about
teardown, where the code ignores errors (mount.rs:62-70, luks.rs:61-65): `umount`
and `luksClose` fail only because of a holder, or of what it keeps open. If they
could fail for nothing, the code would not notice, and `NothingLeftMounted` would
not hold.

Abstractions to know about: `forward_with_progress` computes its percentage in
`f64` and truncates, the model divides integers (both are monotone in the line
count and end at 75); an entries directory on the ESP that exists without any
`.conf` file counts as absent; log lines are left out.

### Daemon
The handlers of `service.rs`, one action per critical section or await, over
the fields of `Inner`; the engine task of each call, which announces `NSteps`
steps through a channel of capacity `ChanCap`, can fail until it commits, and
may panic; `idle_exit`'s loop with the watch channel's version bit (`unseen`);
signals, exit and bus activation; `ProbeDisks` with its detached threads.

| Code | Model |
|---|---|
| `install_json` 85-93 | `RejectJson`, `RejectOverlap` |
| 88-99, first critical section | `Accept` |
| 101-118, second, spawn | `Spawn` |
| 120-141, drain | `Drain` |
| 143-146, join, `?` | `Join` |
| 148-162, last critical section | `Settle` |
| 164-173, `Completed`, reply | `Complete` |
| `cancel` | `Cancel` |
| `probe_disks`, `probe_disks_with_os` | `ProbeCheck`, `DetectStarts`, `DetectEnds`, `DetectTimesOut`, `ProbeAnswers` |
| `idle_exit` | `Look`, `Wake`, `SleepElapses` |
| `main` | `Activate`, `Terminate`, `Exit` |

### Partition
One call of `partition::run()`, from `validate_spec` to the `PartitionSet`. A
table is a function from partition numbers to partitions with a place, a type,
a mount and a mark that they hold somebody's data; a device path is a number, or
0 for a path that is not below the disk's. `pc` is the stage: each action is one
probe with the checks made on it and the sfdisk or wipefs call that follows.

| Code | Model |
|---|---|
| `validate_spec`, the plan's shape | `Validate`, `Start` |
| `compute_gaps`, `push_gap` | `RawGaps`, `Gaps` |
| `erase_disk` | `Erase`, `StampErased` |
| `free_space`: checks, append, look-up by start | `FreePlanOk`, `RefuseFree`, `AppendFree`, `ResolveFree` |
| `custom` 1, deletes | `DeletesOk`, `RefuseDeletes`, `DeletePartitions` |
| `custom` 2, creates | `CreateOk`, `RefuseCreates`, `AppendCustom`, `ResolveCreated` |
| `custom` 3, the loop over reused partitions | `SkipAction`, `RefuseUse`, `UseAsRoot`, `UseAsEsp`, `Finish` |
| a command that exits non-zero | `CommandRefuses`, `CommandFails` with what it may leave |

Sizes are in small units that keep the relations between sector, alignment, ESP
and minimal root size; sums and differences wrap at `Width` as u64 does in a
release build. A script line is rounded down to whole sectors, a partition is
found again only by its exact start.

The tools are external. `sfdisk --append` refuses lines that overlap each other
or a partition or leave the usable range, and any script while a partition of
the disk is mounted; `--delete` and `--part-type` do not look at mounts; new
partitions get numbers that are free, in any order; `wipefs` on the disk
refuses when a partition is mounted. Nothing else changes the disk or mounts a
partition during the call. "Mounted" is what lsblk says of the partition itself:
a file system on a mapper above it is not seen, in the code as in the model.

### Service
What a client relies on, in 10 actions: at most one install is served; it can be
cancelled until it commits, and a cancelled one does not commit; it announces
steps in order; it is answered after it has ended and after the service is free
again; a panicked one is answered but never leaves the service; a death answers
every open call with an error. `Daemon` implements it (`ImplementsService`), with
`Promise` as the mapping: `serving` is the token's call, `stage` is read off the
engine task and `Inner`, `answer` off the handlers. `Session` uses it by INSTANCE
in place of the daemon.

### Session
From `StartInstall` to the reboot. `App`'s fields are the variables of `gui`; every
task that `spawn_install` creates has a program counter per session, every
channel a queue.

| Code | Model |
|---|---|
| `start_install`; `StartInstall`, `RetryInstall` | `StartInstall`; `FirstInstall`, `RetryInstall` |
| `CancelInstall`, `cancellable_now` | `CancelInstall`, `CancelActive` |
| `update` on a `DaemonEvent` | `Update`, with `End` (`Completed`, `ConnectionError`) and `Show` (`StepChanged`) |
| `RebootTick`, `RebootNow`, `spawn_reboot`, `Quit` | actions of the same names, `Reboot` |
| `spawn_install`: connect, subscribe | `ConnectFails`, `Connects` |
| the `InstallJson` call and its reply | `Call`, `Answered` |
| the cancel forwarder | `CancelFires`, `CancelArrives` |
| the signal forwarders, and their abort | `ForwardStep`, `Closes` |
| the service, its death, other clients | `Announces`, `Works`, `Dies`, `OtherClient` |

`LogLine` and `Progress` are left out: each has a stream and a task like
`StepChanged`'s, and nothing else depends on them. `clicked` remembers whether
Cancel was clicked before or after the service had accepted the call; a click
before it can be lost, which is why `CancelReaches` is stated of later ones.

### Wizard
`init` to `StartInstall`. Images and disks are positions in lists that arrive, and
are replaced, at any time. A layout is reduced to its snapshot and whether it is
valid: `Layout` has the rest.

| Code | Model |
|---|---|
| `CatalogLoaded`, `DisksLoaded`, `DisksFailed`, `WifiOnlineProbed` | actions of the same names, enabled on every page |
| `ImageSelected` ... `PassphraseChanged` | actions of the same names, under the condition with which the page's view offers them |
| `next_page`, `back_page`, `on_page_entered` | `NextPage`, `BackPage`, `OnPageEntered`, in `GoNext`, `GoBack`, `WifiSkip` |
| the Continue buttons | `ImageContinue`, `DiskContinue`, `LayoutContinue`, `EncryptionContinue` |
| `build_plan`, `build_install_spec` | `PlanComplete`, `BuildPlan`, `SpecComplete`, `BuildInstallSpec` |
| `StartInstall` | `StartInstall` |

Five variables are history. `chosen` is the path the user clicked, `moved` says
whether a list has since had something else in its position, `rescanned` whether one
arrived after the disk page, `carried` whether the disk or the list has changed since
free space was selected, `skipped` whether the welcome page was left while the
catalog was loading. `InstallReady` goes through what `build_install_spec` needs, one
conjunct each, and names for each the ways in which it can be missing on the confirm
page all the same. None of the exceptions covers a choice that was simply not made;
the two for the image are a finding (section 6).

### Layout
The layout page, composed with the engine: `Layout` extends `Partition` with the
page's variables and works on the same disk. `plan` is empty (`NoPlan`) until it is
what the page submits.

| Code | Model |
|---|---|
| `reset_for` | `ResetFor` (`DefaultRoles`, `DefaultGap`), on `PageInit` and `Enter` |
| the role, gap and size selections | `RoleSelected`, `GapSelected`, `RootSizeChanged` |
| `requested_root_bytes`, `root_start` | `Capacity`, `RequestedRoot`, `RootStart`; the difference wraps at `Width` |
| `validate` | `Valid` |
| `to_actions` | `ToActions`, over any order of the rows that is the disk's (`InDiskOrder`) |
| `planned_segments` | `PlannedSegments` |
| Continue, and so on to the daemon | `Submit` |
| somebody else repartitions the disk | `DiskChanges` |
| the engine | `EngineStep`, which is `Partition`'s `Next` |

### WifiPage
The page and the worker it talks to. A state is what the page shows of it: the
access points, those with a saved profile, the active one.

| Code | Model |
|---|---|
| `start_listening`: the request loop | `Serve`, `Drop`, with the `Effect` each request has on NetworkManager |
| its errors: `NetworkManager::new` fails (lib.rs:160), no profile can be read (337, 598), `update()` is unwrapped (989), a state is read as empty (`unwrap_or_default`) | `WorkerEnds`, `Drop`, `WorkerPanics`, `Read` |
| `watch_connections_changed`, and its end (lib.rs:72) | `WatcherReloads`, `WatcherEnds` |
| the reload after a signal | `Reload` |
| `Event::Init`, `Event::RequestResponse` | `Connected`, `Response` |
| `update_state`, `close_popup_and_apply_updates` | `UpdateState`, `ClosePopup` |
| the secret agent's messages | `RequestSecret`, `SecretCancelled`, `SecretFailed` |
| `Connect`, `PasswordRequest`, `ViewMore`, `ViewLess`, `Disconnect`, `ForgetRequest`, `Forget`, `WiFiEnable`, `ConnectWithPassword`, `CancelDialog` | actions of the same names, under the condition with which the view offers them |

NetworkManager is external: access points come and go, an activation succeeds or
fails, and may leave a saved profile when it fails; it may fail before what was active
has been deactivated. `alive` holds what is left of the subscription: worker, watcher
and the task that joins them (wifi.rs:841-858), which the panic of `connect_wifi` ends
with all that has not been forwarded. Without a worker a request is lost.
`ConnectWithPassword` sends from a task of its own: `spawned`, `Authenticate`.
`orphans` is history: the networks in `connecting` whose attempt nobody follows any
more, because it was given up, dropped or lost. A subscription that cannot reach the
bus when it starts sends nothing at all; that is the page before `Connected`.

### MCEngine, MCPartition, MCLayout, MCWizard
The instances for TLC. They add the definitions a .cfg cannot hold, such as the disks
and plans of `MCPartition` and `MCLayout` and the devices of `MCWizard`. The other
modules are checked as they are.

### EngineProofs, DaemonProofs, SessionProofs, PartitionProofs, GapProofs, LayoutProofs, WizardProofs, WifiProofs
The proofs (section 5).

## 4. What the runs check

| Run | Question | Result | Distinct states |
|---|---|---|---|
| `engine` | Two attempts, every plan and encryption, one failing command and one death anywhere: does each attempt own its disk, leave nothing mounted, mean `Ok` by `Ok`, stop when cancelled, keep `InstallTask`'s promise and return, and does an undisturbed retry succeed? | holds | 426,423 |
| `engine_legacy_shared` | Does `Ok` mean bootable with an older bootc and a shared ESP? | violated | |
| `daemon` | Two calls with `Cancel`, a probe, a panic, a signal and idle exits: one engine, the right token, no lost wake-up, the engines' promise; is the daemon a `Service`, is every call answered, does the daemon leave? | holds | 798,144 |
| `daemon_probe_race` | Do probes and installs exclude each other? | violated | |
| `partition` | Every shape of plan on every disk of the instance, one failing command: what is left alone, what is the result good for, are the gaps exact? | holds | 135,656 |
| `partition_stale` | Does a plan that names a partition which is gone change nothing? | violated | |
| `layout` | Every edit of the page, a disk that changes behind it, one failing command: is what is valid carried out, as it was drawn, and the rest left alone? | holds | 235,831 |
| `session` | A session and its retry, another client, a dying daemon, in every order of tasks and clicks: does each session end once with its own result, does Cancel arrive, when is the machine rebooted? | holds | 691,882 |
| `wizard` | Every way through the pages while lists arrive: is what Install sends complete, of one disk, and of the one chosen? | holds | 3,329,709 |
| `wizard_chosen_disk` | Is the disk that is erased always the one chosen? | violated | |
| `wifi` | Two networks, the worker, the secret agent, D-Bus errors that drop a request or end the worker, the watcher or their task: is every pending network accounted for and tried once, does the list converge? | holds | 1,539,508 |
| `wifi_retry` | Can a connection that failed be retried? | violated | |

Each violated property is what a comment or document of the repository says,
quoted under `findings`; the counterexample is a behaviour of the code.

Bounds, and why they are enough:

* `MaxAttempts = 2`: one attempt and one that meets its leavings. What a third
  could meet is what the second may leave, which is no more than the first may.
* `MaxFaults = 1`, `MaxCrashes = 1`: one failing command and one death, at every
  point of every attempt. The proofs need no bound.
* `MaxBlobLines = 3` with two layers: more lines than layers.
* `BootcDirs = {"ours"}` in `engine`: the fall-back directory with a shared ESP is
  the finding of `engine_legacy_shared`; `OkMeansBootable` proves that it is safe
  where the plan formats the ESP.
* `daemon`: two calls, one refused by the other, or one after it, also by a new
  process. A third (one running, one refused, one waiting to be next) is beyond TLC's
  reach together with panics, signals and liveness; the safety properties are proved for
  any number. `NSteps = 2`: a step before the commit and the commit. `ChanCap = 1`: a
  channel that fills up. `MaxSignals`, `MaxParts`, `MayPanic`: each event once is what
  can interleave with one install. A panicked engine leaves `Inner` running for ever;
  its daemon stays, which `IdleDaemonExits` excepts.
* `MCTables`: blank, an ESP first, last and absent, holes of every residue of the
  alignment, a mounted partition, numbers out of disk order, nested spans, a full
  table. Four numbers and two partitions leave room for two creations, three
  for one. `MCPlans`
  has every kind of root and ESP action with and without a deletion before
  them, starts inside and outside the gaps, aligned to a sector, to the
  alignment and to neither, sizes one step below, at and above the minimum, and
  one that wraps.
* `SetIsSound` is stated of plans whose partitions exist, `partition_stale` is about the
  others.
* `layout`: the tables of `MCLayout` are blank, with one ESP, with holes smaller
  than the ESP, of its size and larger (the wrap-around), with numbers out of disk
  order, with a mounted partition, with two ESPs and with one free slot; typed sizes are zero, below,
  at and above the holes'; one change of the disk gives any of the tables.
* `session`: a session and its retry (`MaxSessions = 2`) are what can meet in the
  channels; one other client; three events, so that a click is followed by another
  client's install and a death in between, or two signals by a death.
  `Countdown = 2` is the last tick and one before it. `NSteps = 2` with
  `PointOfNoReturn = 2` has a step before the one that takes the Cancel button
  away; the proofs are for any of these.
* `wizard`: lists of up to three disks, of which one is reported with and without
  room, give every relation between a position and the next list's length and
  contents. Two images show none, one and several. One rescan besides the first
  probe lets two probes be in flight together.
* `wifi`: a protected network and an open one whose SSID is empty (the one the
  secret agent's requests are attributed to). With one request and one answer in
  the queues an attempt can be under way in either, with a second one asked for.
  `MaxChanges = 1` is one of: a change of NetworkManager's own, a message of the secret
  agent's, a D-Bus error, a password overtaken by another request. Two of these and
  longer queues are beyond TLC's reach; `ConnectingAccounted` and `OneAttempt` are
  proved for any number. `ViewConverges` needs the bound: a watcher that reads an
  error every time shows an empty list.

Fairness. `Engine`: weak fairness of `EngineStep`, since every command
terminates and tokio polls a ready task, and of `HolderExits`, since a killed
process dies. No fairness for `Cancel`, failures, deaths or blob lines.
`Daemon`: weak fairness of the main loop, of each handler, of orphaned children
exiting, and of an engine's end unless it is blocked on a full channel: then the
handler has to drain it first. The timer elapses eventually. No fairness
of activation, of clients' calls or of `Cancel`. `Session`: as long as a task can
run, an event waits for `update`, a timer is due or the service owes an answer,
one of them happens: tokio polls ready tasks, iced delivers messages, and that the
service answers is `EveryCallAnswered` of `daemon` together with
`EveryAttemptReturns` of `engine`. One condition for all of them is enough; nothing
is assumed of the cancel and signal forwarders, nor of the user, who may leave a
session that has ended for ever. `WifiPage`: the watcher reloads every three
seconds as long as it lives, `update` takes every message; nothing of the worker,
which may end or panic, of the user, of NetworkManager, of D-Bus signals or of the
secret agent. `ViewConverges` is stated of behaviours in which the watcher lives.

Deadlock checking is off where the bounded model really stops: its attempts or
calls are used up.

## 5. What is proved

`EngineProofs`, for every value of the constants, which are only assumed to be
of the right kind (`EncsAssumption`, `PlansAssumption`, `BootcDirsAssumption`,
`LayersAssumption`, `BoundsAssumption`); in particular for any number of
attempts, faults, deaths, layers and blob lines.

| Theorem | States |
|---|---|
| `TypeCorrect` | `TypeOK`, with the percentage within 0..100 |
| `OwnsDisk` | `PipelineOwnsDisk` |
| `NothingMounted` | `NothingLeftMounted` |
| `OkMeansBootable` | `SuccessBoots`, if bootc's entry is in the directory `bls.rs` edits (`OwnEsp`) |
| `CancelStops` | `CancelStopsPipeline` |
| `PercentMonotonic` | `ProgressMonotonic` |
| `ImplementsTask` | `KeepsPromise`: `Engine` implements `InstallTask` |
| `RetriesStayOnTrack` | the safety half of `RetrySucceeds`: an attempt that starts when no killed bootc is left stays on the way to `Ok` (`OnTrack`) until the user cancels, a command fails or the daemon dies |

None of these is inductive by itself. `OwnInv` ties what is mounted, open and
held to the program counter (`MountsAt`, `DevicesAt`, `Holding`), and to the
outcome during finalize and teardown (`OutcomeAt`, `NoResultYet`): that a
partition step succeeded is what excludes a holder from then on, and a
successful finalize is what the teardown has nothing left to do after.
`BootInv` follows the boot entry from the format step on: a formatted ESP has no
entry (`CleanEsp`), key slots are those of the point the enrolment has reached
(`KeysAt`), bootc's entry is fresh until `bls` (`EntryAt`), and what has been
reached is kept until the call returns (`Bootable`). `PercentInv` bounds the
percentage by the baseline of the next step. `OnTrack` says that the plan's gap is there until the
partition step, and that the disk is free by then: with `OwnInv`, because a
preflight that meets no holder leaves nothing mounted, detached or open. Each invariant was checked by TLC
before it was proved.

`DaemonProofs`, from the assumptions of `Daemon` on its constants alone, for any
number of calls, steps, signals, probes and any channel capacity:

| Theorem | States |
|---|---|
| `ServiceTypeCorrect` | `TypeOK`, with no channel above its capacity |
| `EnginesExclude` | `OneEngine` |
| `TokenCorrect` | `TokenIsRunners` |
| `CurrentStepCorrect` | `CurrentStepIsRunners` (defined with the proofs; on the small instance it follows from `ImplementsService`) |
| `WakeupsArrive` | `NoLostWakeup` |
| `EnginesAreTasks` | `EnginesKeepPromise`: each engine is an `InstallTask` |
| `DaemonIsService` | `ImplementsService`: `Daemon` implements `Service` |

The inductive invariant is `SharedInv`: three properties of `Inner`
(`TokenIsRunners`, `CurrentStepIsRunners`, `NoLostWakeup`) and three facts they rest
on. `InnerAgrees` says that state, token and the idle
channel's value always change together. `GoneIsFresh` says that between two
processes there is no token and no call in flight. `EngineIsDrained` says that
an engine works only while its process is up and its handler drains its channel;
without it a handler could settle, and another call be accepted, while the first
engine still works, and `OneEngine` would not follow. `EnginesKeepPromise` relies on the same
`InstallTask` that `ImplementsTask` proves of `Engine`: the two modules meet in
that contract.

The refinement of `Service` needs `CallsAgree` beside `SharedInv`: how far a call's handler is tells how far its
engine can be, how many steps have been announced, and that nobody has cancelled it
before it was accepted. Each action then maps to one step of the
service or to none: `Accept` is `Accept`, `Settle` is `Finish`, `Complete` is
`Reply`, `Exit` and `Terminate` are `Die`, and so on.

`PartitionProofs`, for every set of disks and requests, every unit that keeps the
relations of `UnitsAssumption`, and any number of failing commands:

| Theorem | States |
|---|---|
| `PlanTypeCorrect` | `TypeOK`; `Ok` comes with both devices set |
| `OthersStay` | `OthersLeftAlone` |
| `MountedStay` | `MountedKept` |
| `SetsAreSound` | `SetIsSound` |
| `PlansAreRealized` | a custom plan that succeeds leaves what it asked for, and nothing else (`AsAsked`) |
| `FreeSpaceIsFilled` | a free-space plan that succeeds has added its root, and an ESP where there was none, and nothing else (`Filled`); the devices are those (`FilledHanded`) |

The inductive invariant of the first three is `PlanInv`: `Staged` (a stage belongs to its mode, and
a plan that is followed was validated), `Resolved` (which device is set how far
into the loop, so that "exactly one root, exactly one ESP" of `validate_spec`
becomes "both are set" at the end), and `Untouched` (the table is the original
up to the first command, which is why the mount check of the deletes, made on
that probe, protects what was mounted at the beginning; the reuses check their
own probe). `OthersLeftAlone` and `MountedKept` are then preserved by each action,
by way of two lemmas: a step that only adds (`GrowthKeeps`), a step that reuses
(`ReuseKeeps`).

`SetsAreSound` holds for every disk whose partitions begin and end on sectors. The
code never asks sfdisk which partitions it has just made: it probes again and takes
those that start where it meant them to. `FoundIsCreated` says why that is right: a
line is rounded to sectors, so what starts at the place asked for can only be the
line if that place was a sector's; sfdisk lets no line overlap a partition or another
line; and two partitions that are not empty and start at one place overlap.
`SectorsEnough` says that the rounding keeps a root as large as was checked. The
inductive invariant `SetInv` has one part for each stage: what will be found
(`FreeFound`, `CreatesFound`), the devices up to the loop's index (`UsedSoFar`), with
the created ones not among the reused (`ReusedStay`: what is reused was there before
the append, since a plan names each partition once), and that `format_esp` is still
TRUE when there is no ESP to keep (`Formatting`).

`PlansAreRealized` is about plans that name existing partitions and give their root a
size (`Concrete`; all plans of the layout page do): at the end every partition that is
not deleted is where it was (`InPlace`), and each line that was asked for is there
once, under a number that is not one of those. `RealInv` carries this from the append
to the end, with the devices that each action hands on (`NewFound`, `AllHanded`).

`FreeSpaceIsFilled` says the same of the free-space mode, without a condition on the
plan: what the disk had is as it was, the root is the requested range less a new ESP,
and an ESP that is kept is the first of the disk's. `free_space` computes the root's
size from `start + size` in u64; `WrapBack` shows that a sum which wraps is wrapped back
by the subtraction, so the size is right in every case, and one that does not fit is
sfdisk's to refuse. `FillInv` carries this over the append (`FillAppended`) and the
second probe (`FillReturned`).

`GapProofs`, for any disk, alignment and usable range:

| Theorem | States |
|---|---|
| `GapsAreExact` | `GapsExact`: the probe's gaps are exactly the maximal aligned ranges of free space |

It assumes what `TablesAssumption` and `NumbersAssumption` say: a table has finitely
many partitions, none of them empty, and they end within the usable range; they may
overlap or nest, as on MBR disks. `Contained` is the inductive invariant. The argument is about holes: a pair of
numbers between which nothing lies, and which something (or the end of the range)
bounds on both sides. `CursorIsHighest` says that the cursor is the highest end seen so far, so
a raw gap is a hole (`RawGapIsHole`); around any free range there is such a raw gap, by the
first span behind it (`FirstSpanExists`, `HoleAround`); between aligned numbers there
is a whole alignment (`AlignedApart`), so that shrinking a hole to aligned bounds loses no
free unit (`GapIsMaximal`, `MaximalIsGap`). The existence of a highest and of a first
element is by well-founded descent on bounded sets of integers (`LowestExists`).

`LayoutProofs`, for any disks, edits, typed sizes, changes of the disk and numbering by
sfdisk:

| Theorem | States |
|---|---|
| `LeftAloneStays` | `LeftAlone` |
| `PreviewIsTrue` | `PreviewTrue` |
| `ValidLayoutsAreCarriedOut` | `ValidIsCarriedOut` |

Besides the engine's assumptions there is one of substance in `PageAssumption`: 1 GiB
is a whole number of sectors. `PageInv` says that once the page has submitted its
layout, the plan is `to_actions` of what the page shows, and that this is valid.
`PlanReads` and `PlanSays` put that list of actions into the
terms the engine uses: the rows come first, each once, with the action of its role, then
what the gap is to hold. With `OthersLeftAlone` that gives `LeftAlone`, on any disk.
With `RealInv` it gives `PreviewTrue` on the disk that was shown: the rows that stay are
where they were drawn, the root and the ESP are the rows with those roles or the
lines of the gap (`RowsHanded`, `GapHanded`), and what a valid layout asks
for is in whole sectors (`AskedExactly`: a gap is aligned, and nothing
wraps, by `RootInGap`). For `ValidIsCarriedOut` no action that refuses may be
enabled: the plan is validated (`SubmittedIsValidated`, from `OneRoot`: no sequence of
selections leaves two roots); the page's gap, free on the disk as it was, is within one
gap of the disk after the deletes (`ClearIsInGap`), so every range check passes
(`CreatesPass`); the lines fit (`CreatesFit`); what was created is found, and what is
reused is there, not mounted and large enough (`EngineCarries`). The page does not count
the table's slots, so two free ones are a hypothesis (`MCLayout` has a table with one:
without the hypothesis TLC finds a valid layout that sfdisk refuses). That the engine
then ends is not part of it.

`SessionProofs`, for any number of sessions, other clients, steps, events and any
countdown:

| Theorem | States |
|---|---|
| `SessionTypeCorrect` | `TypeOK` |
| `SessionsEndOnce` | `EndsOnce` |
| `ResultsAreOwn` | `ResultIsOwn` |
| `InstallsAreWatched` | `NeverLeavesInstall` |
| `RebootsAreSafe` | `RebootsWhenDone` |
| `CancelsReach` | `CancelReaches` |

The inductive invariant is `SessionInv`. `ServiceInv` relates the service's stage to
its answers (one pending call, the one that is served). `Unstarted` and `Asked` tie
a session's driver to the service: it makes its call once, and waits for as long as
the service owes an answer. `AllOnce` is `EndsOnce`; `EndsTrue` says that the one event that
ends a session says what that session's call was answered, and `InOrder` that no
session later than the one the service is busy with has succeeded; `DonePage` ties
success, timer and page together. `CancelReady` says that `cancel_tx` is the present
session's, and that its forwarder waits as long as it has not been used.

`WizardProofs`, for any devices, lists, catalogs and rescans:

| Theorem | States |
|---|---|
| `WizardTypeCorrect` | `TypeOK` |
| `LayoutFollowsDisk` | `LayoutIsOfDisk` (defined with the proofs): the layout is of the selected disk as last probed |
| `InstallIsReady` | `InstallReady` |
| `PlansMatchDisks` | `PlanIsForDisk` |
| `ChoiceIsSent` | `SentIsChosen` |

The inductive invariant adds to `TypeOK` and `LayoutIsOfDisk` what the Continue
buttons have let through on the way to each page (`Reached`), that a valid layout is
of a disk (`ValidHasDisk`), that what the user chose is what the position names
until a list moves it (`ChoiceKept`), that an image was chosen once the image page lies
behind, unless it was skipped (`ImageReached`), and that the gap of free space is there
until a list or another disk comes (`GapKept`). `Ready` draws `InstallReady` from these.

`WifiProofs`, for any networks and queues:

| Theorem | States |
|---|---|
| `WifiTypeCorrect` | `TypeOK` |
| `ConnectingIsAccounted` | `ConnectingAccounted` |
| `OneAttemptOnly` | `OneAttempt` |

The inductive invariant is `Typed` (a stronger `TypeOK`), `Named` (every attempt in
the queues is of a network), `ConnectingAccounted` and `Singles`: a network has at
most one attempt, with the task that is to send it or in one of the two queues, and
while it has one it is in `connecting` and no dialog asks for its password. Lemmas about
the queues say what appending a request, taking an answer (`Grows`, `Shrinks`) and
cutting off what a panic loses do to the attempts in them.

Only model-checked:

* liveness (`EveryAttemptReturns`, `RetrySucceeds`, `EveryCallAnswered`,
  `IdleDaemonExits`, `SessionEnds`, `ViewConverges`), which is out of the prover's
  reach (`RetriesStayOnTrack` is what can be proved of `RetrySucceeds`). Every other
  property of the passing runs is a theorem.

## 6. What the code does that the properties do not deny

Where the code disagrees with one of its own comments or documents it is a finding in
`PROJECT.json`. Five are the counterexamples of the `violated` runs:

* An older bootc on a shared ESP: the entry that boots gets no karg (`engine_legacy_shared`).
* A probe goes on mounting under an install (`daemon_probe_race`).
* `custom` deletes before it has looked up the rest of the plan, and a path of a
  partition that is gone can name one the plan has just created (`partition_stale`;
  two findings). partition.rs:16-18, partition.rs:212 and service.rs:77-79 promise
  otherwise.
* A list that arrives late puts another disk in the chosen one's place (`wizard_chosen_disk`).
* A failed connection whose dialog is cancelled cannot be retried (`wifi_retry`).

Four are in the exceptions of properties that hold, or are what a property shows
against a document:

* The idle timer and a new install's notification can be ready together, and the
  timer may win: the daemon exits under an install it has just accepted, where
  main.rs:69-71 says "the rx fires again and we reset". What holds is
  `NoLostWakeup`: the notification is on its way.
* README.md:182 says that the GUI "never hits Done" when the daemon dies. It does:
  the pending call is answered with an error, which becomes `Completed` (`SessionEnds`).
* The image page is skipped while the catalog is loading, and when it is empty or could
  not be read (app.rs:758), where app.rs:752, images_json.rs:8-9 and README.md:171 say
  "exactly one leaf"; Install then does nothing (`InstallReady`).
* layout.rs:127 speaks of a "single-ESP invariant", but the page keeps every ESP it finds,
  and the engine refuses a plan with two (`ValidIsCarriedOut`).

README.md:162 is out of date without touching a property: it calls the bootc step
"non-cancellable once in flight", but the code kills the running command.

No comment or document of the repository promises otherwise for these, or they lie in
what is left out:

* On an ESP shared with other systems `bls.rs` edits every entry of the directory,
  theirs included, and a failure leaves some edited (bls.rs:50).
* A free-space plan cannot be retried once its own first attempt has filled the gap;
  `RetrySucceeds` is stated for plans whose gap is still free.
* The disk page offers free space from 8 GiB on, the engine needs 512 MiB more when
  it creates the ESP and refuses (partition.rs:157).
* Neither the page nor the engine counts the free slots of the partition table. An
  append that finds none is refused by sfdisk, after `custom` has made its deletes.
* Free space stays selected when another disk without any is selected; Install then
  does nothing (`InstallReady` names the case).
* A click on Cancel before the service has accepted the call is lost, or cancels
  another client's install.
* A D-Bus error in the wifi worker can end it, or panic and end the watcher with it; the
  page lives on, its list no longer changes, and what is clicked is lost. Networks that
  were being connected to show "Connecting..." for ever (`ConnectingAccounted`). An
  open Forget dialog is closed by a failure of the secret agent (wifi.rs:454).
* Two concurrent probes use the same mount directory for a partition
  (daemon's probe.rs:119); a retry starts a second chain of slide ticks (app.rs:439);
  the CLI prints whichever install's `Completed` it sees (CLI main.rs:147; its exit
  status is from the reply); `push_log` slices at a byte offset that may lie inside a
  character (app.rs:818). None of these is modelled.

## 7. Not modelled, and why

* Drawing, branding and wording keep no protocol state. JSON parsing (lsblk, sfdisk,
  the catalog, the spec) and file names are data the properties do not tell apart.
* OS detection and the daemon's wifi queries are I/O without state; that a probe
  mounts partitions, and for how long, is in `Daemon`.
* Of the GUI application the log buffer and its actions, the percentage, the slides
  and the development hook: nothing else reads them.
* Of the wifi page the devices, what is typed, and the life of the secret agents; of
  the vendored crate all but the worker and the watcher.
* The subprocess runner's line forwarding: a command is one action, its pipes are in
  `Engine` and `Daemon` where they delay something.
* Configuration files and tests.
