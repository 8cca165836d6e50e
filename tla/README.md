# Verification of Pdai Panel's core

TLA+ models of the panel's concurrent and crash-prone parts, the TLC runs that
check them on small instances, and proofs, checked by TLAPS, of what holds for
every instance. All source paths are relative to the repository root.

    tlc -config CronJob.cfg MCCronJob           # a run
    tlapm CronJobProofs.tla                     # the proofs about it

The module and the configuration of every run are in the table of section 4 and
in `PROJECT.json`.

## 1. Inventory

The panel is one Go process: a Gin server, a SQLite database (GORM), one Caddy
child and about fourteen plugins compiled in. Handlers run in one goroutine per
request; plugins start goroutines and timers of their own. Nothing but the
database, the Caddyfile, Caddy and supervised processes survives the panel.

| Component | Code | State | Operations |
|---|---|---|---|
| Caddy manager | `internal/caddy/manager.go` | Caddyfile, Caddy process, `reloadTimer`, `reloadWaiters` | `RequestReload`, `Reload`, `WriteCaddyfile`, `Start`, `Stop`, `EnsureCaddyfile` |
| Host service | `internal/service/host.go` | host rows and their domains, upstreams, routes | `Create`, `Update`, `Delete`, `Toggle`, `CloneHost`, `ImportAll`, `ApplyConfig` |
| Caddy page, boot | `internal/handler/caddy.go`, `main.go` | none of their own | save, reload, start, stop, restart; boot sequence |
| Plugin manager | `internal/plugin/manager.go` | `plugin_states`, `disabled` guard, running tasks, load order | `InitAll`, `StartAll`, `Enable`, `Disable`, `SetSidebarVisible` |
| Event bus, queue | `internal/plugin/eventbus.go`, `internal/queue` | handler lists, bounded channel | publish, subscribe; enqueue, shut down |
| Supervisor | `plugins/supervisor` | item rows, `running` map, processes | start, stop, restart, update, delete; restart loop |
| Cron jobs | `plugins/cronjob` | task rows, scheduler entries, `running` guard | schedule, run, retry, stop |
| Deploy | `plugins/deploy` | project and build rows, ports, previews | build, blue/green switch, roll back, preview life cycle |
| Monitoring | `plugins/monitoring` | samples, alert states | collect, evaluate alerts |
| Updater | `internal/updater` | staged release | prepare, apply |
| Authentication | `internal/auth`, `internal/handler/auth.go` | attempt counters, users | log in, first set-up |
| Others | backup, database, appstore, docker, firewall, ai, file manager, php, mcpserver, notify | rows and external services | commands on request |
| Frontend | `web` | none | client of the API |

How they interact. A change of a host commits rows, then `ApplyConfig` renders
all enabled hosts, lets `caddy validate` check the text, replaces the Caddyfile
and calls `RequestReload`, which blocks until a debounced `caddy reload` has
been run for all callers. The Caddy page writes the same file and drives the
same manager without going through the rows. The plugin manager calls `Init`,
`Start` and `Stop` of every plugin under its own lock while requests pass its
guard without it; `Stop` of the supervisor and of the cron jobs races their own
goroutines. `SIGTERM` runs no plugin's `Stop`.

What is hard, and what makes each component correct:

* **Reload coalescing** (timers, callbacks): every caller is answered, once,
  and by a reload that read what the caller wrote; reloads are merged.
* **Configuration pipeline** (interleaving, partial failure, crash): rows, file
  and Caddy agree when an apply succeeds; a failing apply changes nothing;
  Caddy never runs a configuration `caddy validate` refuses.
* **Plugin life cycle** (partial failure, crash, ordering): dependencies of an
  enabled plugin are enabled; no disabled plugin is served; row, guard and
  tasks agree; dependencies start first.
* **Supervisor** (restart delay, crash, stale rows): one process per item, one
  that can be found and stopped; stopped items stay stopped; cancelled runs end.
* **Cron jobs** (retries across stop and start): a task never runs twice at
  once, an updated task has one schedule, nothing runs after a stop.
* **Host rows** (check then act, no transaction): a domain belongs to one host;
  an update is all or nothing.
* **Builds and previews** (long tasks against newer requests): no build is lost
  or doubled, at most N run, a newer generation wins, ports are not shared.
* **Monitoring, updater, queue, authentication**: one collector, one firing per
  alert, one download, no task accepted after shutdown, one first user.

The hazards, each at its line, are in `PROJECT.json`.

## 2. Plan, and where it stands

| Part | Modules | Checked | Proved |
|---|---|---|---|
| Path of a change of a host | `SharedReload`, `ReloadCoalescer`, `HostConfig` | yes | all but liveness |
| Plugin life cycle | `PluginManager` | yes | yes |
| Supervisor | `Supervisor` | yes | all but liveness |
| Cron jobs | `CronJob` | yes | yes |
| Host rows, domain claims | `HostRows` | yes | yes |
| Build queue, poller | `BuildPromise`, `BuildQueue` | yes | safety part of the refinement |
| Deploys of a project | `Deploys` | yes | yes |
| Previews of a pull request | `Preview` | yes | yes |
| Monitoring, alerts, self-heal | `Monitoring` | yes | yes |
| Updater | `Updater` | yes | yes |

The order was that of importance: first what every change of a host goes through
and what all plugins depend on, then the plugins that run processes, then those
that replace one version by another. What is left, in this order: an abstract
item (stopped, running, restarting) that `Supervisor` implements, with the proof
that it does; a model of the approval of previews of forks and of the base
ports.

Every module that is proved about takes its parameters as `CONSTANTS` with named
assumptions and declares no `RECURSIVE` operator.

## 3. Modules

**`SharedReload`** is what `RequestReload` promises: a call waits until a reload
attempt ends, all outstanding calls get its result, each call returns.

**`ReloadCoalescer`** is `RequestReload` (`manager.go:131-169`). Each critical
section of `reloadMu` is one action (`Request`, `Drain`); the timer is the
variable `timer` ("nil", "armed", then how far the callback got), the slice of
channels is `waiters`, the channels' contents `inbox`. `Timer.Stop` succeeds
exactly while the timer is armed. The reload runs between `StartReload` and
`EndReload`, outside the lock. `begun` and `late` are history: whose request a
reload began after, and who joined in the middle of one.

**`HostConfig`** composes the pipeline around an instance of `ReloadCoalescer`
(`RC`). A configuration is the set of hosts it renders; a host may be one that
`caddy validate` refuses, or one that validates and fails to load. Each
goroutine has a program counter `pc`; `Render`, `ReadOld`, `WriteConfig`,
`CheckRunning`, `RequestReload`, `Answered`, `Rollback`, `StartForApply` and
`Finish` are the stretches of `ApplyConfig` between two accesses to shared state.
`ChangeHost` is the committed change before it. The callback reads the
file (`CallbackReads`) and loads what it read into Caddy (`CallbackLoads`) in
two steps, as `Reload` takes no lock; the page's own `Reload` likewise.
`PanelCrash` may leave a `caddy reload` in flight, which still reaches Caddy;
`CommandFails` and `CallbackFails` are failing commands. The Caddy binary may
be `missing`, as `main.go` only logs a failed `EnsureBinary`: `WriteCaddyfile`
then skips `caddy validate` and replaces the file all the same, and a later
start or the page's upgrade may install it (`InstallBinary`). `writer` is
history: whether the binary was there when the file was last written. Left out:
failing database and disk accesses, the test that `oldContent` is not empty (the
file exists from the boot on), and the text of a host block.

**`PluginManager`** has one record per plugin in the table (`rows`), in the
guard (`disabled`) and among the running tasks (`running`). The boot goes
through `phase`: sorting, seeding the rows one by one, `Init`, `Start`; the load
order is built by appending a plugin whose dependencies are placed, best
priority first. `Enable` and `Disable` hold `mu`, so the one in progress is
`op`, with its position; each step may fail as its error path says.
`SetSidebarVisible` takes no lock. The database may be a fresh one or one that
a release with fewer plugins has seeded. `implicit` and `wedged` are history:
rows the sidebar created, plugins a failed call left halfway. Left out: routers,
manifests, data directories, failing reads of `plugin_states`.

**`Supervisor`** is one supervised item. `row` is its row, `alive` the processes
that exist, `running` the entry of the map, `run[r]` a `runningProcess` with the
position of its goroutine, `op[g]` the request a goroutine serves with what it
has read of the row. A request step is one critical section, one database access
or one signal; `Leave`, `Tally` and `ComeBack` are the deferred function of
`runProcess`, whose two critical sections have the restart delay in between.
`Save` writes back a whole row read earlier, and inserts it with the columns'
defaults if it was deleted, which is what GORM does. `Crash` loses runs and
requests; processes have groups of their own and survive. `told` and `apart` are
history (a stop has succeeded and no start begun since), and so is `mishaps`:
`startInDelay` and `stopInDelay` (a start or stop looked at the map in a restart
delay), `lost` (a crash or deletion left a process no row names). Left out:
creation (one item exists from the start), logs, `max_restarts` 0 (unlimited),
reuse of process ids, and a status other than "running", the only one the code
compares with.

**`CronJob`** is one task: its row, the entries the scheduler of the current
life has for it (`sched`), the id the map `entries` holds (`entry`), the guard
`running`, the requests `op` and the executions `exec`. `addToScheduler` and
`removeFromScheduler` are the two critical sections of `mu`; a request is cut
there and at its database accesses. The core API changes the row itself and
publishes `cronjob.reload`, whose handler is `ReloadEvent` and `FindTask`. An
execution runs through `ReadTask`, `Enter` or `Skip`, attempts with a delay in
between, and `Leave`; a retry takes its context from whatever life the plugin is
in when the delay is over. `Start` is three steps, since it replaces the
scheduler, then the guard, then reads the enabled tasks. Statements fail as the
code lets them: `SaveFails`, `DropFails` (the entry is gone and the row is not),
`FindFails`, the query whose error `Start` ignores, an expression the runner
refuses. A task is created enabled whatever is asked, as GORM puts the column's
default in the place of a false. History: `overlap` (two changes, or a change
and a start, at once, in the current life: a restart that nothing overlaps
repairs the schedule), `amiss` (a failure keeps an enabled task out of the
schedule) and `straddled` (a start replaced the guard of an execution under way).

**`HostRows`** is the four tables a host has rows in: `domain`, `extra` (the
additional domains), `ups` (upstreams, known by the request that wrote them) and
`route`. `Create` and `ImportAll` are transactions. `Update` is not: its claim
goes through the owners of the wanted domains one statement at a time
(`UpdateRead`, `UpdateDropHost`, `UpdatePromote`, `UpdateDropExtras`), then
checks, wipes, saves and names, with an error after any statement; the errors of
the single deletions of the wipe are ignored one by one. An update with fewer
upstreams leaves a route without a new one (`shortened`). `Toggle` saves what it
has read. An import brings any number of hosts. Rows of one kind of one host are
deleted in one step, and the reads with which a claim begins are one.
The foreign keys are enforced on the connection that ran the pragma and on no
other one of the pool, so whether a deletion cascades is a choice. History:
`apart` (hosts a failed or overlapping request touched), `raced`, `unchecked`
(a clone, the core API's rename or an import of hosts of which one's additional
domain is another's primary: they look less closely than the page's requests),
`orphaned` (a host was deleted and its domains' rows were not).

**`BuildPromise`** is what `Build` promises: an accepted or coalesced request is
followed by a run that begins later, and a project is never built twice at once.
**`BuildQueue`** is `Build`, `buildLoop` and the git poller. A critical section
of `buildMu` is one step; a run is cut at the pull, which fixes the commit, at
the record of that commit, which comes before the deploy and may fail, and at
the deploy. `PollLook` and `PollBuild` are the two halves of `pollOne`. `due`,
`served` and `missed` are history (an answered request no run followed yet; the
commit deployed last; a commit recorded as deployed whose deploy then failed).

**`Deploys`** is one project from `runBuildOnce` to the end of a deployment, in
docker and in bare mode, next to a request that starts, stops, rolls back or
deletes it. A process has a name, main or staging, at the service manager.
`file[n]` is the port its unit file says, `live[n]` the port its process listens
on, and the two part company when a promotion renames the file of a running unit. A
run is `RunRead`, the deployment's record, the build, then a first deploy or
staging, probing, switching the host and promoting; each step that may fail does
so as its error path says, and `Crash` cuts a run short. A process that is
started may be active and listen on nothing (`Deaf`): a zero-downtime deploy
probes the port and stops there, every other start ignores the verdict of the
health check. `mishaps` is history: a request overlapped a run, a rollback raced
one, an error was only logged, a crash, a promotion, a host whose id is in no
row (`stray`: `CreateHost` fails after its commit, or the id is not written), an
ignored error of a deletion (`leftProcess`, `leftHost`, `leftRows`). `MaxFaults`
bounds the kinds of failures that nobody notices. Left out: a process that exits
by itself after its start, and projects without a start command.

**`Preview`** is the preview of one pull request. A webhook counts the
generation up and starts a job that first cancels and drains the one in the
registry; the job builds, starts the container of the free slot, creates or
switches the host and writes the row under the condition of its generation. A
deletion takes the row away under the per-PR mutex, whose map entry it removes:
`epoch` counts the removals, and a request locks the mutex of the epoch it
looked in. A stretch that locks and unlocks within one step, as the one that
counts the generation up for a deletion does, is `LockBriefly`. A job ends
without a last status at its 15 minutes' deadline or a database error
(`RunQuits`, `Abandon`), `CreateHost` may fail after its commit and `DeleteHost`
when it is to be undone (`RunDown`, `RunClaim`), a container's removal may fail
unnoticed (`StopAndRemove`), and `Crash` is the panel's death. History:
`overran` (a job outlived the 30 seconds it is waited for), `split` (a request
entered a mutex of the PR while another one was held), `partial` (a deletion
removed one of host, containers and row and not the others), `cut` (generations
whose last status was never written), `strays` (hosts no row took, or that were
not removed) and `lingers` (containers that were not removed). A request whose
first statement fails changes nothing and is left out.

**`Monitoring`** follows a sample to a repair. `loop[l]` is a collector; when it
comes round to its select it waits on the channel the field `stopCh` holds then
(`ear`). The alerter judges one rule at a time under its mutex, fires after
`Duration` violations and not within `Cooldown`, and the event starts a
goroutine of `handleAlert` that reads the time of the last repair, diagnoses,
repairs and writes the time. `acted` is history (the last repair).

**`Updater`** is `Prepare` (download, extraction, record), `RestartWithHelper`
with its script (wait, back up, move, launch) and the exit of the panel, which
runs by itself or as the unit `setting.go` installs. `overlapped` is history:
two requests prepared, or restarted, at once.

Conditions such as `~overlap`, `Calm`, `InSight` or `mishaps = {}` in a property
are not assumptions about what happens: the model takes those steps, and the
history variable says that the promise is not made beyond them. Each is a race
or a failure the code has no provision for, listed as a hazard at its line; the
theorems show that nothing else breaks the promise.

The MC modules hold what a `.cfg` cannot. `MCSupervisor`, `MCCronJob`,
`MCHostRows` and `MCPluginManager` have symmetries, functions and constraints;
`MCSupervisorRequests` lets each behaviour draw its requests from one of two
menus. `MCCoalescing`, `MCPlugins` and `MCRollouts` put two or three components
that share no state under one specification: the variable `part` says which of
them moves, and those that do not move stay in one initial state, so that the
state space is the sum of the parts'. The `*Proofs` modules extend their
component's module, and those of the components that share a specification its
MC module: `CoalescingProofs` (`MCCoalescing`), `PluginsProofs` (`MCPlugins`),
`RolloutsProofs` and `PreviewProofs` (`MCRollouts`). There the other components
are instances (`Builds`, `Items`, `Monitor`, `PR`, `Updates`), and a theorem
`Composition` carries what is proved of them over to the specification of the run.

Operators introduced by "A bug:" or "Mutant:" in a comment are plausible
mistakes used to confirm that the properties notice them; no specification uses
one.

## 4. Runs

| Run | Module, config | Question |
|---|---|---|
| `coalescing` | `MCCoalescing`, `Coalescing.cfg` | Is a request made during an operation served by a later one: no caller of `RequestReload` lost, answers fresh unless late, one reload per request (`ImplementsSharedReload`); no build lost or doubled (`ImplementsBuildPromise`), and what was pushed last deployed in the end, unless its deploy failed after it was recorded (`CatchesUp`)? Does a cancelled run of a supervised item end (`CancelledRunEnds`)? |
| `host_config` | `HostConfig`, `HostConfig.cfg` | Are only validated configurations loaded, and installed once the binary is there, and does an apply nothing overlaps synchronise rows, file and Caddy, or restore the file? |
| `plugins` | `MCPlugins`, `Plugins.cfg` | Do rows, guard and tasks of plugins agree, dependencies come first, across failures and crashes; can every collector loop be stopped, and do repairs keep apart? |
| `supervisor` | `MCSupervisorRequests`, `Supervisor.cfg` | Is there one process, one that can be found, none after a stop, and no restart of a marked run? |
| `cron_job` | `MCCronJob`, `CronJob.cfg` | One execution at a time, a schedule that follows the row, no dangling id, no guard for ever? |
| `host_rows` | `MCHostRows`, `HostRows.cfg` | Does a domain belong to one host, can it always be claimed, is a host whole? |
| `rollouts` | `MCRollouts`, `Rollouts.cfg` | Does a new version replace an old one without interruption and without leaving anything behind: of a project, of a preview, of the panel? |
| `host_config_rollback` | `HostConfig`, `HostConfigRollback.cfg` | violation, see 5 |
| `supervisor_stop` | `MCSupervisor`, `SupervisorStop.cfg` | violation, see 5 |
| `deploy_stop` | `Deploys`, `DeploysStop.cfg` | violation, see 5 |
| `update_helper` | `Updater`, `UpdaterHelper.cfg` | violation, see 5 |
| `preview_eviction` | `Preview`, `PreviewEviction.cfg` | violation, see 5 |

The bounds, and why they are enough:

* Coalescer: three callers, so that one is served, one joins during the reload
  and one arms the next timer. Build queue: two projects and one slot, hence one
  loop, so that a request for the other project is refused; two pushes and two
  requests, so that a run is overtaken by a commit and by a request; one failed
  run, one crash.
* `host_config`: two request goroutines (one of them also at the Caddy page)
  next to the boot goroutine and the timer callback; three hosts, one good, one
  that fails to load, one that fails to validate; one crash, death of Caddy or
  failed command. Overlap is a matter of pairs of requests, and one failure is
  enough to leave any state a single failure can leave. The violation run needs
  neither editor nor failure.
* Plugin manager: three plugins; dependency graphs with a dependency that the
  priorities contradict, its reverse, and a cycle; three failures or crashes,
  as many as it takes to fail one plugin's `Disable` and another's `Enable` and
  crash. Monitoring: one rule that fires at the second sample, a cooldown of
  one tick, a heal window of two, two starts, two repairs, two ticks: a repair
  meets one that is too recent and one that is not.
* Supervisor: two requests at a time, two runs, two process ids, one restart,
  one failure or crash. A behaviour is followed up to its first mishap
  (`NoMishap`); beyond it the invariants promise nothing. Clients, runs and ids
  are symmetric. Liveness (in `coalescing`) is checked without symmetry or
  constraint, with one client, one run, all six requests and an update that
  switches restarts off; the violation run has two runs and three ids, those of
  the first launch, of the restart and one that is stale.
* Cron job: two requests, two executions, two entries, two attempts, two lives
  of the plugin: the least with which executions of two lives, or two updates,
  meet. Host rows: two requests at a time, three in all, on three hosts and two
  domains (602,045 states), so that a claim takes a domain from one host while
  another one is changed, and a third request meets what the two have left.
* Rollouts: three builds and two requests, so that a project is deployed,
  redeployed, rolled back and redeployed under a number used before; two
  clients and three jobs on a preview, the newest of which overtakes two, one
  deletion, two hosts; one failure that goes unnoticed in each, the least that
  leaves something behind; two preparations and two helpers over three versions,
  one crash. Together 2,763,000 states, about three minutes. `deploy_stop` has a
  request more, `preview_eviction` a client more and no unnoticed failure, as
  that is what its counterexample takes.

The theorems of section 6 lift these bounds for every safety property of the
passing runs. The counters that bound a run (`MaxJobs`, `MaxBuilds`, `MaxTime`
and the like) are constants with any natural number as value.

Fairness is assumed in three places only. In `ReloadCoalescer` (and
`SharedReload`): the Go runtime fires timers and schedules their callbacks, and
`caddy reload` exits; the code gives it no timeout. In `BuildQueue`: each loop goes on, as
everything a run waits for has a timeout, and the poller's ticker looks at every
project and asks for its build. In `Supervisor`'s
`Fairness`: the goroutine of a run is scheduled and a SIGKILL of the group is obeyed. Requests, pushes,
failures and crashes are never assumed to happen.

Deadlock checking is off in `coalescing`, `cron_job`, `host_rows`, `rollouts`,
`deploy_stop`, `update_helper` and `preview_eviction`: there the counters bound how often the
environment asks for something, and once they are used up and everything has
been answered the system rests. It is on in the other five.

## 5. What the violation runs found

* `host_config_rollback`, `host.go:653`: "last known-good" is whatever the file
  held when this apply read it, which may be what a concurrent apply wrote and
  Caddy refused.
* `supervisor_stop`, `supervisor/service.go:344`: in the restart delay the run is
  in no map and the row has no pid; a stop does nothing, answers "process
  stopped", and the command is started again. A start in the same window gives
  two processes, which `InSight` excludes from the other properties.
* `deploy_stop`, `deploy/process.go:98`: `PromoteStaging` renames the unit file
  of a process that systemd goes on knowing under the staging name. A later
  `StopProject` stops the main unit, which runs nothing, and records "stopped"
  while the project answers.
* `update_helper`, `updater/manager.go:235`: the helper is a child of the panel.
  Under the unit that the panel installs it is in the unit's control group, and
  systemd kills it together with the panel before it has swapped the binary.
* `preview_eviction`, `deploy/preview.go:107`: a deletion takes the mutex out of
  the map before it unlocks it. A webhook that waits on it and one that has made
  a new mutex then write the row and swap the registry's job side by side. If
  the older generation swaps last, it cancels the job of the newer one and quits
  as stale: the newest push is built by nobody.

The models show further races that have no run of their own, because a condition
in a property names them; `PROJECT.json` lists them among the hazards. A call that joins
the waiters while the callback's reload runs is answered by a reload that read
the file before (`manager.go:146`, `late`); no lock is held from listing the
hosts to writing the file (`host.go:605`); `FirstOrCreate` leaves `Enabled` to
its column default, true (`plugin/manager.go:383`, `implicit`); two requests
both pass the check of a domain (`host.go:1085`, `raced`); a restart of the cron
plugin forgets executions under way (`cronjob/service.go:72`, `straddled`); a
deletion of a preview that fails at a container has already deleted the host, on
which every retry then fails (`deploy/preview.go:1199`, `partial`).

So do the failures the code goes on after. Without a Caddy binary the Caddyfile
is replaced unvalidated (`caddy/manager.go:79`, `writer`), though Caddy never
loads an invalid one. A commit is recorded as deployed before its deploy, and
when that fails the poller leaves it (`deploy/service.go:761`, `missed`).
Deleting a task takes its schedule entry before its row (`cronjob/service.go:339`)
and its start ignores a failed query (`:75`): either leaves an enabled task that
never runs (`amiss`). An update with fewer upstreams keeps a route to a deleted one
(`host.go:518`, `shortened`). `CreateHost` may fail after its commit
(`host.go:261`), which leaves a project or a preview a host it cannot name (`stray`,
`strays`). A first deploy, a start and a rollback ignore the health check and
send the traffic to a port nobody listens on (`deploy/service.go:853`, `Deaf`). A
preview whose build meets its deadline, or a failing status write, stays
"building" (`deploy/preview.go:597`, `cut`) until the expiry removes it.

Each of these conditions is narrow: the property still holds of everything else
the behaviour has, and but for `CatchesUp`, which is liveness, a theorem says so
for any number of requests, failures and crashes.

## 6. Proofs

All proofs are for any value of the constants that satisfies the named
assumptions of the component's module, which TLC evaluates in the runs.

* `CoalescingProofs`, the coalescer. `IInv` adds to the properties who the
  waiters are: outside a reload none of them has been begun for or is late,
  during one each of them is (`WaitersAccounted`); the histories speak only of
  callers inside a call; an answered caller is no longer a waiter.
  `NoWaiterIsLost`, `AnswersAreFresh`, `RequestsAreMerged` and `TypeCorrect`
  follow, and `Refinement`: initial states and steps map to those of
  `SharedReload` under `SharedStatus`.
* `CoalescingProofs`, the build queue. A flag is set for the projects that have
  a loop (`OneLoopPerFlag`); then a pending flag has a loop that will look at it
  (`RequestsAreNotLost`), the semaphore's slots are those of the loops that run
  (`SlotsComeBack`), and `BuildsRefinement` is the safety part of
  `BuildPromise`.
* `HostConfigProofs`. `ConfigIsValid` speaks of the file as long as it was written
  with the binary there, and of Caddy always: a Caddy that runs has its binary
  (`CaddyHasBinary`) and loads nothing that does not validate. `UndisturbedApply` and
  `UndisturbedFailure` need where an undisturbed apply stands at each program
  counter (`UndisturbedProgress`): the rendering still renders the table, the
  file is what was written, the callback's read is the current file, and an
  answer means that Caddy runs it; together with facts about the coalescer in
  use (`CoalescerInUse`), which rule out that an undisturbed caller is late.
* `PluginsProofs`, the manager. The load order is topological and the loops
  process it from its head (`OrderIsTopological`, `LoopPosition`,
  `BootProgress`), which gives `BootInOrder`; what the operation under `mu` may
  rely on at each position (`EnableProgress`, `DisableProgress`) gives
  `EnabledWithDeps` and `DisabledIsGuarded`; `OthersConsistent` is `Consistent`
  for all but the plugin being changed, and gives `RecordsAgree`.
* `PluginsProofs`, monitoring. A loop at its select listens on the channel the
  field holds or on one that is closed (`Stoppable`), which is inductive with the
  types: `Start` closes the channel it replaces. Of repairs, the time on record
  is that of the last one, and a repair that has passed its check saw one long
  over (`ChecksHold`); the code reads and writes that time without a check in
  between, so that the distance is kept to the repair seen by the check and to
  no later one, which is what `HealsKeepApart` says.
* `SupervisorProofs`. `StopPreventsRestart`: no step of any actor brings a run
  that is marked and past its launch back to a launch. `NeverTwoProcesses` and
  `ProcessIsFound` rest on an account of where a process can be: the map's entry
  is a run that has started and not left (`MapIsRuns`); while there is one, the
  processes are its own (`OwnProcess`); while there is none, the only process is
  one inherited from an earlier life of the panel, which the row and every
  request that has read the row name (`InheritedProcess`). `StopLeavesNoProcess`
  adds that no stop counts while a start is under way (`StartsApart`) and what a
  stop at each position has achieved: all runs marked, then the map empty, then
  no process (`StopFacts`); it also uses that a run that is unmarked and not in
  the map is in a restart delay.
* `CronJobProofs`. `ExecutionsDoNotOverlap` needs that the guard is taken while
  an execution is under way, unless a start has straddled one (`GuardIsTaken`).
  `ScheduleIsTheRows` needs what a change that nothing overlaps has done to row,
  scheduler and map at each of its positions (`OpProgress`), the same of a start
  (`StartProgress`), and that the two do not meet (`Alternates`): whichever
  statement fails, no entry is left for a task that is off or gone, and an
  enabled task without one is `amiss`.
* `HostRowsProofs`. `DomainsCanBeClaimed` and `DomainsAreUnique` rest on what a
  claim leaves (`Claimed`) and what holds while it goes through the owners: each
  one that is left is known to it (`OwnersAreKnown`), and the domain an owner is
  to be promoted to is still its own and wanted by nobody (`HeirsAreFree`). What
  a toggle has read is still true unless something raced it (`ReadIsFresh`), and
  with the cascade there are no rows of hosts that are gone (`NoOrphanRows`).
  `HostsAreWhole` rests on whose upstreams a host has at each statement of
  `Update` (`UpstreamsOfUpdate`, `WholeUnlessRewritten`).
* `RolloutsProofs`, deploys. One invariant about numbers (`Numbers`: the
  deployments that can be rolled back to, against the row's and the run's build
  number) and one about processes (`Layout`: which name listens on which port at
  each position of a run or request, and that what serves is the row's port or
  a program under the main name that listens on nothing) give `NumbersAreNotReused`, and
  `TrafficIsServed`, `DeploysHaveNoDowntime` and `DeletionIsComplete`.
* `RolloutsProofs`, the updater. `PanelStaysWhole` follows from an account of
  which releases are on disk as a whole (`UpdateInOrder`): as long as one request
  prepares and one helper works, the prepared release is whole
  (`PreparedIsWhole`), a request under way writes into a newer one than that
  (`PrepareIsNewer`) and also than the one a helper is going to move into place
  (`HelpersVersion`).
* `PreviewProofs`. All four properties rest on one argument about who may work.
  Every request to build has a job of its own (`AskedOnce`); those whose request
  has written the row are in the order of their generations, only the oldest is
  live, every other one waits for the one before it, and the registry and a
  deletion that owns the row know the youngest (`Queue`). So a job begins only
  when none is live (`OneRunAtATime`), and a deletion that has drained its job
  and still owns the row removes host, containers and row with nothing in play
  (`Holds`). Only what is older than the row is ever cancelled (`Cancelled`),
  so somebody works for a row that says so, unless its last generation was cut
  short (`Attended`), which gives `NobodyWaitsForever`. What a live job has made
  of slot and host at each of its positions (`RunAt`), against the row under the
  condition of its generation, gives `PreviewsAreServed` and, with the account
  of hosts no row took (`Unnamed`), `DeletedPreviewsAreGone`. The ids and epochs
  stay within the number of jobs by counting the requests that have written the
  row (`Numbered`). That the order holds needs the mutex to be one: with two
  deletions allowed, TLC refuted a first version in which `split` did not count
  the mutex that `Bump` and `Verify` hold within one step; now it does.

Every component's types are proved too, where they are not a theorem of their
own as part of the invariant.

Only model-checked: liveness, which is outside the prover (the liveness part of
`ImplementsSharedReload`, the fairness half of `ImplementsBuildPromise`,
`CatchesUp`, `CancelledRunEnds`). Every invariant and every action property of
the passing runs is a theorem.

## 7. Not modelled, and why

* Handlers that pass a request on, the tables of tools and of the core API, the
  frontend, rendering of a host block, schema migration, logging: layout, text
  or pure I/O, without state of their own.
* Docker, firewall, database, app store, file manager, PHP, backup, MCP server
  and notification plugins, and the AI plugin but for self-heal: each request
  is one command or API call, and what it leaves is the external program's state.
* The task queue has no user. Authentication is two statements per request; the
  check for the first user (`auth.go:73`) counts and creates in two statements, so
  that two set-ups at once can make two administrators: plain in the source, and
  nothing else hangs on it.
* The deploy and backup plugins are compiled but not registered by `main.go`;
  deploys are modelled nevertheless, since they carry most of the panel's logic.
* Failures left out because the step they end changes nothing another one sees:
  a request's first read, a build's log, a preview request whose first statement
  fails. Left out although they leave something: failing database and disk
  accesses inside `ApplyConfig` (a full disk, a locked database); the errors of
  the deletions of `ImportAll`, which its transaction goes on after; and a deployed process that exits by itself
  later, which no code of the panel notices.
* Inside the modelled parts: projects without a start command; base ports of previews (`preview.go:551`) and the
  approval of forks; extra processes of a project; groups, tags, certificates
  and export of hosts; log rows; creation of supervisor items, an unlimited
  `max_restarts` and the reuse of process ids.
