# Formal verification of xray-agent

TLA+ modules that model xray-agent (Go, `src/`), TLC configurations that check
them on small instances, and TLAPS proofs of the main properties for every
instance. `PROJECT.json` maps every definition to the lines it models.

## 1. The system

xray-agent runs beside Xray on a node. It pulls a desired state from a control
panel over HTTPS, applies it to the running Xray over gRPC, and reports back.
One process, seven goroutines (`Agent.Start`, agent.go:50-58):

| part | state it keeps | operations | talks to |
|---|---|---|---|
| state loop, `syncState` | `syncMu` | fetch, compare, diff, apply, commit | panel, Xray, store |
| `state.Store` | last version, clients by email, routes by tag | `IsUnchanged`, `Update`, snapshots | both syncing goroutines, stats loop |
| `xray.Manager` | none | diff; remove/add users; remove/add routes | Xray's HandlerService and RoutingService |
| stats loop, `stats.Collector` | last sample per lower-case email | read counters (perhaps zeroing them), deltas, push | Xray's StatsService, store, panel |
| command loop | the command under way | `RESTART_CORE`, `RESTART_AGENT`, `UPDATE_CORE`, `UPDATE_AGENT`, acknowledge | panel, systemd, installers, `syncState` |
| core update check | none | read installed version, ask GitHub, set reported version | control client |
| heartbeat loop | none | read reported version, post it | panel |
| `control.Client` | reported core version | HTTP requests | panel |
| `xraycore`, `selfupdate` | files | download, verify, replace binaries | GitHub, file system, systemd |
| online loop, metrics loop | last network sample | read and post | Xray, host, panel |
| setup, update-config, CLI | configuration file, unit, binary | write files, run systemctl | administrator |

State outside the process: Xray's users, rules and counters live in the Xray
process and vanish with it; the panel's state and its queue of commands; the two
binaries on disk; the transient systemd timers that restart the agent.

What is hard here:

- *two goroutines sync* (state loop; command loop after a restart of Xray),
  sharing a mutex, a store and Xray's runtime;
- *nothing is transactional*: a sync is a series of calls, each may fail with or
  without effect, the store is written only at the end;
- *three processes die independently*: Xray (restarted by its unit), the agent
  (restarted by its unit, which restarts Xray first, or by hand, which does not)
  and the timers, which survive the agent;
- *at-least-once commands*: a lost acknowledgement repeats a command;
- *counters that start over, are zeroed by reading, or belong to users that come
  and go* while the stats loop is between two calls;
- *a version written by two goroutines and read by two*;
- *two processes install Xray-core*, the agent and an administrator's command,
  into the same places and without a lock, and `update-config` restarts, that is
  kills, the agent that may be installing;
- *files written in place*: configuration, binary and unit of the agent are
  truncated before they are filled;
- *lists that become maps*: the panel's lists may repeat a key, and Xray tries
  its rules in an order the maps do not have;
- *two samples and a clock read apart*, from interfaces that come and go.

`PROJECT.json` "hazards" lists these at their lines with the properties that
watch them.

What makes the parts correct: an undisturbed sync leaves Xray with exactly the
panel's state; the store never records what was not applied; syncs do not go
backwards; a successful answer to a command means what it says; usage is never
reported twice; every command is answered; the panel's state wins in the end;
an installed agent comes up with a complete core whatever was interrupted before;
settings given by hand add up; a reported rate is one the host carried.

## 2. Modules

| module | models | checked by (TLC), proved in (TLAPS) |
|---|---|---|
| `StateSync` | `syncState` with both callers, `state.Store`, `xray.Manager`, core restarts, crashes of Xray and of the agent | `MCStateSync`, `StateSync_proofs` |
| `SyncPromise` | the abstract specification `StateSync` implements: a serial reconciler | `MCStateSync` (`KeepsPromise`), `StateSync_refines` |
| `ReconcileLists` | the same reconciliation on lists: `NormalizeRouteRules`, `diffClients`, `diffRoutes`, `IsUnchanged`, `Update`, the order of the rules | `MCReconcileLists`, `ReconcileLists_proofs` |
| `UsageStats` | `runStatsLoop`, `stats.Collector.QueryUserBytes`, `normalizeStatsDeltas` | `MCUsageStats`, `UsageStats_proofs` |
| `Commands` | command loop, outcomes of the installers, scheduled restarts, update check, heartbeat | `MCCommands`, `Commands_proofs` |
| `Provision` | start of the agent, `ensureCore`, `xraycore.InstallOrUpdate` step by step, `setup`, `update-config`, `core` | `MCProvision`, `Provision_proofs` |
| `HostMetrics` | `runMetricsLoop`, `metrics.Collector` | `MCHostMetrics`, `HostMetrics_proofs` |

`StateSync`, `Commands` and `Provision` meet in the agent's process: `Commands`
takes the forced sync for one step that succeeds or fails, `StateSync` opens it
and takes the rest of the command loop for one command; `Commands` takes an
installation for one step with its outcomes, `Provision` opens it. `ReconcileLists`
takes from `StateSync` that syncs are serial.

### StateSync

A state is a function from emails to clients and from tags to routes (emails
unique, routes normalised). `users[proto][email]` is the account an inbound of
Xray holds, `rules[tag]` the rule. `job[p]` is the `syncState` call goroutine `p`
is in: the fetched state `ds`, the state `base` it takes the runtime to hold, and
the entries left to remove and to add. The actions follow the code:

- `Lock`; `GetStateUnchanged | GetStateChanged | GetStateFails`; `Commit`
  (agent.go:89-139, store.go:45-60);
- `RemoveUser` for every removal, then `PreRemoveUser` and `AddUser` for every
  addition, then `RemoveRoute`, `PreRemoveRoute`, `AddRoute` (manager.go:39-186).
  Each is one RPC; it succeeds, is refused by Xray, or is lost, with or without
  effect. The pre-removal of a user ignores its error, that of a route tolerates
  "not found" only. Removals in the order of a Go map, additions in list order:
  the model allows every order;
- `FetchCommand`, `RestartCore`, `RestartCoreFails`, `Ack` and the retry loop in
  `Return` (command_loop.go:277-355);
- `XrayCrash`, `PanelEdit` and `AgentRestart`: the agent's unit restarts Xray
  first (`ExecStartPre`); with `ManualStarts` the agent may also be started by
  hand, which leaves Xray as it is.

Xray is external: when asked to remove an entry it does not hold it may refuse
or answer OK, and the model allows both. The context of a forced
sync runs out while it waits for the mutex or for the panel: that is a failing
`GetState`. `desired.rev`, `store.rev`, `epoch`, `exact` and `spent` are history
and bounds; no guard of the agent reads them.

### SyncPromise

What a sync promises, without saying how. The runtime is a function on *slots* (an
account of an inbound, a rule). `Begin` takes the panel's state as a whole and a
base, recorded or empty; `Touch` empties or fills one slot in which the two
differ, and may fail; `Record` keeps the state, and if nothing interfered
(`clean`) Xray holds it and nothing else; `GiveUp`, `Reset` (Xray) and `Restart`
(agent) end it. At the end of `StateSync`, `Promise` instantiates it: the sync
under way is that of the holder of `syncMu` once it has fetched (`Syncing`), the
slots are `users` and `rules`, `clean` is `exact`. `KeepsPromise` says that every
behaviour of `StateSync` is one of `SyncPromise`: both goroutines together, with
every lost call, crash and restart, look like one serial reconciler. Locking,
fetching an unchanged state, the command's steps and pre-removals of absent
entries are stuttering steps.

### ReconcileLists

`StateSync` takes the panel's state for two functions; here it is two lists, as
sent. A Go map is the set of its entries, no two with the same key: a loop that
writes a map keeps the last entry of a key (`LastIndex`). What a loop keeps of a
list is the set of the places it keeps, so that the order of the list is not lost:
`NormalizeRouteRules` is a set of places, the additions a sync has left are places,
and the next one to be made is the `First`. `IsUnchanged` compares
lengths of lists with sizes of maps and then entry by entry, and `Missing` is the
loop over the list that collects additions, repeated entries included. `rules` is
a list: `AddRoute` removes the rule of the tag (`NoRule`; there is at most one) and
appends. Since syncs are serial, one is
modelled; its calls are single steps that may be lost with or without effect,
Xray may restart between them, a forced sync starts from the empty store. A pair
of pre-removal and addition is one step here; `StateSync` has them apart. `before`,
the rules Xray had when the sync began, and `steady`, Xray has not restarted since,
are history: `NewRulesBehind` compares the rules with the ones before.

### UsageStats

One action per counter read (`QuerySingle`, `QueryFails`), then `Diff` per email
(in map order), `DropAbsent` in `DiffDone`, `PostStats` or `PostStatsFails`. A
failed call may have had its effect. `traffic`, `reported` and `lost` are history:
what went through Xray, what the panel added up, what is in neither. A first sample
writes off what lies below it and has not been accounted for (`WrittenOff`), never
less than nothing: usage billed once more on a return is an excess that
`DeltaConserves` sees. `measured` is history too, the emails of the last tick of this
process that took its deltas; a tick that finds no client does nothing
(agent.go:151) and leaves the samples alone. The store's
clients change at any moment (`StoreUpdate`), Xray and the agent restart at any
moment; a restart of the agent by its unit is a restart of Xray followed by one
of the agent. `reset` is `StatsResetEachPush`, chosen at the start and fixed.
`Lower` is `strings.ToLower`; the emails of a node are assumed to differ in more
than case, since otherwise they share a sample (agent.go:406). In reset mode the
read zeroes the counter, so a failing query or push loses what was read (it
counts as `lost`); `ResetConserves` says that nothing else is lost.

### Commands

`pc` follows `executeNextCommand` through its helpers; each external call is a
step that may fail. `coreBin`/`coreRun` and `agentBin`/`agentRun` are versions of
binary and process. The installers are one step with their outcomes:
`selfupdate` replaces the binary by a rename as its last step, `xraycore` may
also fail after the rename. Timers are systemd's, so they survive the agent. A
command stays with the panel until an answer is recorded. The update check and
the heartbeat are two steps each, so that stale versions can be written. `checking`
says whether `core_check_sec` is not negative, chosen at the start and fixed:
otherwise `runCoreUpdateLoop` returns at once (agent.go:286-288) and there are no
checks. Versions
are in normal form; `normalizeTargetVersion` yields None for a missing one.

### Provision

`core` is Xray-core on disk (releases of the binary and of the data files;
configuration and unit present or not), `files` the agent's configuration, binary
and unit. `inst[p]` is the `InstallOrUpdate` of process `p`, the agent or the
administrator's command: look at the installed version, fetch the release,
download, verify, replace binary and data, configuration, test, unit, enable
(xraycore.go:112-182). Its files are written to a temporary name and renamed, so
each is replaced in one step; the three files of `setup` and `update-config` are
written in place (setup.go), so `OpenFile` truncates (`Cut`) and `WriteFile`
fills. Every step may fail, each process may die between any two steps, and the
restart in `update-config` ends the agent's installation wherever it is. A
configuration is a function from settings to values, `Applied` is
`applyOptionalFields`, and flags not given are `None`. `clean` and `asked` are
history: no installation broke off after the binary or overlapped with one of
another release, and the settings commands have written.

Left open: whether `systemctl try-restart` in `ExecStartPre` fails where Xray has
no unit (so the start may or may not succeed there); which binary a running agent
was started from (so a write to the installed one may or may not be refused as
busy). Two agents at a time, one by hand and one by systemd, are not modelled.

### HostMetrics

`ReadCounters` (net.IOCounters), then `FirstSample` or `Sample` (`time.Now`,
`netThroughput`, collector.go:59-111), then `PostMetrics`; the host carries bytes,
time passes and interfaces start over in between. The collector asks for the sum
over all interfaces (`IOCountersWithContext(ctx, false)`), so `total` is that sum, and an
interface that starts over takes any part of it away. One direction is modelled, both
are computed alike, and a rate is the pair of its delta and its elapsed time. The
clock is Go's monotonic one. `carried`, `skew` and `sum` are history.

## 3. Runs

Bounds are constants named `Max...`, used in guards of the environment and of
failures, with one exception: `MaxTimers` guards `Schedule`, a step of the agent,
which waits while that many restarts are pending; their timers end the process that
waits. The proofs hold for every `MaxTimers`.

| run | shows | states |
|---|---|---|
| `sync` | `CleanSyncExact`, `StoreApplicable`, `StoreMonotonic`, `OnlyDeltas`, `CommitLanded`, `RestartRestores` | 3.3 M |
| `sync_live` | `IInv`, `KeepsPromise` (refinement), `ConvergesUndisturbed`, `CommandAnswered` | 271 k |
| `usage` | `NeverOverReport`, `ResetConserves`, `DeltaConserves`, `NoUsageAcrossAbsence` | 2.5 M |
| `commands` | `UpdatedAgentRuns`, `UpdatedCoreInstalled`, `RestartedCoreRuns`, `EveryCommandAnswered`, `HeartbeatConverges` | 736 k |
| `lists` | `ListApplied`, `NewRulesBehind`, `ResentQuiet` | 1.1 M |
| `provision` | `CoreSetComplete`, `SettingsKept`, `ComesUp` | 1.0 M |
| `metrics` | `NeverOverstated`, `SamplesAdjoin`, `RateBounded` | 4.0 M |

Each also checks its module's `TypeOK` (in `sync_live` as part of `IInv`).

*Why the bounds are enough.* A client can be added, moved to another inbound,
changed, dropped and be unsupported, with a second client whose sync it breaks:
two clients, three protocols, two secrets, three edits. A route can be unbuildable.
One failed call, one crash, one agent restart and one command, in any order, give
every pair of disturbances; `sync_live`, smaller in clients and secrets, has two
failed calls, so that a retried forced sync can fail again. For usage, two
units on four counters with three changes of the client list let two users join,
one of them leave, miss a tick that the other one takes part in, and come back. Two commands of any type give every pair, and each
may be delivered more than once; two failures let one command fail on what another
one left behind. One restart of the agent is pending at a time (`MaxTimers`): the
unplanned death can come at any moment, as a second timer would. In `lists` a behaviour
is fed with client lists, with route lists or with a few states that have both:
the two lists share nothing but the order in which they are applied. Two clients
and three routes give every repetition, move and reordering of a pair with a third
rule in between, and two faults a failed sync followed by a restart of Xray. In
`provision` three commands of the administrator and two faults let a command be
interrupted, another one be tried on what it left and a third repair it, while the
agent installs; `metrics` has time for four samples at different instants, on a
host that has carried something before the agent starts. Symmetry is used in `sync`
and `lists`, over clients, secrets, protocols and tags that no definition tells
apart, and in no run with a liveness property.

`ConvergesUndisturbed` has `<>[]exact` as its premise, which is met: behaviours
with lost calls and with a command that restarts Xray end exact when a later sync
started from what the runtime held. `provision` has `CHECK_DEADLOCK FALSE`: once
the commands are used up the node may come to rest, with the agent running or
waiting for a unit that is not there.

*Fairness.* A loop that has started is a ticker loop that only ends with the process,
so each goroutine's steps are weakly fair. The update check is the one that may not
start: with a negative `core_check_sec` `CheckReads` is never enabled and its
fairness promises nothing. `HeartbeatConverges` then says only that the panel ends
up showing the version the agent has, not the installed one. Taking the mutex is strongly fair: a
`sync.Mutex` switches to hand-over after a waiter has waited for 1 ms, so the
command loop gets it although the state loop keeps locking it. The panel, users,
crashes and failures get no fairness; failures are finite in number.
An acknowledgement is strongly fair: it is cut off whenever a timer restarts the
agent first (`agentRestartDelay` is 2 s, the HTTP client waits up to 12 s), and
the assumption is that the panel is not slow on every one of the repeated
deliveries. With a panel that always is, RESTART_AGENT would be executed for ever.
In `Provision` the agent and the administrator's command are weakly fair: a process
that can go on does, and systemd starts the agent again after every exit
(`Restart=always`). That such a start succeeds is assumed only where Xray has a
unit. The commands themselves, faults and deaths get no fairness.

### Where the code and its documentation part

Five runs expect a violation; each is a finding in `PROJECT.json`.

| run | what happens |
|---|---|
| `resent_routes` | Xray restarts by itself; the same state sent again is "unchanged" and nothing is restored |
| `wedge` | a sync fails half-way, the panel reverts: the user removed meanwhile is not restored |
| `forced_sync_leak` | a sync between Xray's restart and the forced sync leaves a user nobody removes |
| `duplicate_client` | a client list that repeats an email is never "unchanged": every tick removes and adds the user again |
| `core_half_installed` | an installation that ends after the binary was replaced is not taken up again: `ensureCore` only looks for a version |

The first three are why convergence is stated for behaviours that end undisturbed.

Further limits, seen in the model and not stated as runs of their own: an agent
started by hand after the panel dropped a user leaves the user in Xray; the
"already current" of UPDATE_AGENT compares the running version, so another
binary on disk stays, and if its restart is pending the agent that has just answered
"already current" is replaced by that other version; an UPDATE_CORE that is repeated
after it failed behind the new binary finds the release installed and succeeds without
restarting Xray, which runs the old binary until something else restarts it; after
such a failure a node with a negative `core_check_sec` keeps reporting the old
version, until the agent restarts or an UPDATE_CORE succeeds; a truncated configuration can be repaired neither by `setup`
nor by `update-config`, both of which load it first; a mere reordering of routes
is no difference to `diffRoutes` and never applied; a client listed under two protocols keeps the
account of the first one when both are dropped.

## 4. Proofs

Every safety property a passing run checks is also proved, by TLAPS, for every
value of the constants: any number of clients, routes, users, commands, settings,
releases, any length of list, and any bound. Each `*_proofs` module proves
`Inductive`, `Spec => []IInv`, from `Init => IInv` and `IInv /\ [Next]_vars => IInv'`,
and derives the module's properties from it. The `IInv` of `StateSync` is also an
invariant of the run `sync_live`; the others were model-checked under the bounds of
their runs before they were proved.

| module | theorem | property |
|---|---|---|
| `StateSync_proofs` | `TypeCorrect`, `CleanSync`, `Monotonic`, `Applied`, `Deltas`, `NoLostUpdate`, `RestoresAll` | `TypeOK`, `CleanSyncExact`, `StoreMonotonic`, `StoreApplicable`, `OnlyDeltas`, `CommitLanded`, `RestartRestores` |
| `StateSync_refines` | `Implements` | `KeepsPromise` |
| `ReconcileLists_proofs` | `TypeCorrect`, `ListHolds`, `NewRulesLast`, `ResentIsQuiet` | `TypeOK`, `ListApplied`, `NewRulesBehind`, `ResentQuiet` |
| `UsageStats_proofs` | `TypeCorrect`, `NothingVanishes`, `DeltasAdjoin`, `ReturnUnbilled`, `NoOverbilling` | `TypeOK`, `ResetConserves`, `DeltaConserves`, `NoUsageAcrossAbsence`, `NeverOverReport` |
| `Commands_proofs` | `TypeCorrect`, `AgentUpdateTrue`, `CoreUpdateTrue`, `CoreRestartTrue` | `TypeOK`, `UpdatedAgentRuns`, `UpdatedCoreInstalled`, `RestartedCoreRuns` |
| `Provision_proofs` | `TypeCorrect`, `SettingsSurvive`, `CoreComplete` | `TypeOK`, `SettingsKept`, `CoreSetComplete` |
| `HostMetrics_proofs` | `TypeCorrect`, `NothingInvented`, `SamplesTile`, `NoPhantomRate` | `TypeOK`, `NeverOverstated`, `SamplesAdjoin`, `RateBounded` |

*Assumptions.* Marks (`None`, `Cut`, `Whole`) are not values of the sets they are
put beside; bounds are naturals; supported protocols and buildable rules are
subsets; at least one attempt of the forced sync; the version a node starts with
exists; emails differ in more than case (`LowerAssumption`, see section 5).
`GoalAssumption` says that "no sync under way" is no state of `SyncPromise`. All are
evaluated by TLC in the runs. Three theorems of `ReconcileLists_proofs` have the
hypothesis `Unrepeated`, no list of the panel names a client twice, which the
answers of run `lists` satisfy; run `duplicate_client` shows that `ResentQuiet` is
false without it. `TypeCorrect` there needs no hypothesis.

### What the inductive invariants add, and why

*StateSync.* `CleanSyncExact` speaks of moments without a sync, and a sync is a long
series of calls. `IInv` adds that only the holder of the mutex syncs (`Locked`), that
its work lists stay within the differences of its two states and nothing is added
before everything is removed (`Planned`), that an undisturbed runtime is, entry by
entry, the old one, absent or the new one as the lists say (`Tracked`), and that
fetched states are no older than the stored one (`Ordered`, which needs the fetch to
be inside the critical section and gives `StoreMonotonic`). `CommitLanded` must
hold after disturbances too: `Landed` says of every entry the sync is done with,
and of that entry alone, that it is as it should be while Xray does not restart;
this is where it matters that a failed call ends the sync instead of being skipped.
`Checked` says that whatever a sync has no more to add was found supported or
buildable, which gives `StoreApplicable`; `FromEmpty` that a forced sync starts from the empty
state, so that for it "what differs" is everything, which turns `CommitLanded` into
`RestartRestores`. `OnlyDeltas` follows from `Planned`, one call at a time.

*Refinement.* `Implements` proves `Spec => KeepsPromise` with the mapping at the end
of `StateSync`. The lemmas about slots (`SlottedEqual`, `SetUserSlot`, `SetRuleSlot`)
translate a change of one account or rule into a change of one slot; then each
action is mapped: `GetStateChanged` to `Begin` (`FetchBegins`), every RPC to `Touch`,
`GiveUp` or a stutter (`UserSteps`, `RouteSteps`), `Commit` to `Record`
(`CommitRecords`, which needs `Tracked` to show that a clean record is the whole
runtime), crashes and restarts to `Reset` and `Restart`; everything else leaves the
mapped state alone. `Locked` is what makes "the sync under way" well defined.

*ReconcileLists.* `Plan`: what a sync has left is part of what its diff found, and
removals come first. `Tracked`: Xray has what of the list is not yet to be added and
what is still to be removed. `Remembered`: after a sync the store has the last
lists. `Behind` is `NewRulesBehind` in the middle of a sync: take the rules before the
sync followed by the panel's list; Xray has, in this order, exactly the old ones whose
tag was neither removed nor added so far and the entries added so far, and what was
added comes before what is to come. It needs no undisturbed runtime, so failed syncs
are covered: `InOrderRemove` and `InOrderAppend` say what a removal and an addition do
to such an order, whatever it is. That Xray has no two rules of a tag is part of `TypeOK`. The
lemma `UnchangedIff` is the heart of `ResentIsQuiet`: with equal lengths and no
repetitions, "every entry of the list is in the map" is equality, by counting
(`SameSize`).

*UsageStats.* A tick reads one counter at a time, so the properties are in pieces in
the middle of it. `Bounded` adds to what is reported what the batch and the counter
would still add, in both readings of the batch (values read, usages), and is
preserved by a counter that starts over because `usageCounterDelta` then counts from
zero. `Adjoining` says that the values read and the counters stay above what was
reported, is about to be or was lost, and that a sample is made up of exactly that: so
a first sample writes off what is missing and never has to take anything back.
`Current` says whose samples are kept and who may have a usage, which gives
`NoUsageAcrossAbsence`. `TickShape` says where the batch is zero. With zeroing reads,
`ResetConserves` is an equation that is inductive by itself, and as nothing lost is
negative it gives `NeverOverReport`.

*Commands.* The answer is recorded steps after the work was done, and other
commands, timers, deaths and checks come in between. `Unanswered` says that the
command under way is still pending at the panel and so keeps its content; `Staged`
what each stage has brought about; `Truthful` that a SUCCEEDED answer on its way is
true and stays true.

*Provision.* `Waiting` ties an installation to the caller that waits for it,
`Writing` says what is about to be written into a truncated configuration,
`Authentic` that an archive past its check is the requested one, `HalfWay` what an
installation has put in place so far, also when the other process installs over it,
and `Complete` extends `CoreSetComplete` to the time before the binary is replaced.

*HostMetrics.* `Covered` and `Adjoining` are the two properties with the reading that
was taken and not yet stamped; `Carriable` bounds by the line rate what was carried
since the last reading, from the time it was read, which is `skew` before its stamp.

### Only model-checked

Liveness, which is out of the prover's reach: `ConvergesUndisturbed` and
`CommandAnswered` (`StateSync`), `EveryCommandAnswered` and `HeartbeatConverges`
(`Commands`), `ComesUp` (`Provision`). The five violations of section 3 are
counterexamples and need no proof.

## 5. Not modelled

- emails of one node that differ in case only: they share a sample of the stats
  loop (agent.go:406); `Lower` is assumed to be injective;
- online users, CPU, memory and system statistics: read and post, no state and no
  decisions;
- defaults and YAML of the configuration, logging, CLI flags, the shell scripts,
  the release workflow;
- the inner steps of `selfupdate`: it works in one process and in a temporary
  directory up to the rename, so its callers see one step with its outcomes;
- two agents running at once (one by hand beside the service);
- what a user or a rule contains: accounts are secrets, rules are buildable or not;
- the contents of requests, JSON and protobuf encoding, TLS and authentication;
- time: intervals, timeouts and delays appear as the orders and failures they
  can produce.

## 6. Plan

1. *done*: `StateSync` with its proofs of type correctness, exactness and
   monotonicity; `UsageStats`; `Commands`.
2. *done*: `SyncPromise` and the refinement; `ReconcileLists`; `Provision`;
   `HostMetrics`.
3. *done*: proofs of every safety property of every module and of the refinement.
4. Left: what section 5 leaves out and could be stated, first of all the shared
   sample of emails that differ in case only, and the two-step pair of pre-removal
   and addition in `ReconcileLists`, which `StateSync` has.
