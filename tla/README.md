# Tracenium agent: TLA+ verification project

The Tracenium agent is a Node.js service that collects facts about a device
(inventory, compliance, certificates, ...), keeps them in a durable queue in
SQLite and sends them over one gRPC stream to a control plane, which in turn
sends it jobs and policies. A privileged companion, PrivSvc, owns the network
connection; the agent talks to it over local IPC. The agent's TypeScript is
under `src/src/`; paths below are relative to the repository except where they
start with `src/`, which is how `PROJECT.json` names them.

The process is single-threaded. What makes it hard is everything that happens
between two turns of its event loop: timers, IPC answers, pushes of the bridge,
ACKs that belong to an earlier stream, awaits in the middle of a handler, and a
process that may die anywhere while three SQLite files stay behind.

## 1. Inventory

| Component | Source | State it keeps | Operations | Speaks to |
|---|---|---|---|---|
| Outbox | `src/src/queue/sqlite-outbox.ts` | table `outbox_events` (status, attempts, next attempt, lock, payload hash) | enqueue, leaseReady, markSent / Failed / Rejected, recoverStaleInflight, cleanup, quarantine of a corrupt file | called by scheduler and jobs (enqueue), sender loop (lease), ACK handler (marks); calls `onChanged` listeners |
| Sender loop, write chain, ACKs | `transport/grpc-stream.ts`, `transport/grpc-client.ts` | connected, started, drain scheduled, retry timer, rotation hold, write chain | drainOnce, armRetryTimer, stream.write, grpc.ack, rotateCert, stop | outbox, PrivSvc IPC |
| CDP confirmed delivery | `plugins/cdp/index.ts`, `domain/cdp-baseline-repo.ts`, `domain/cdp-delivery.ts` | baseline, `delivery_acked`, `delivery_last_seq`, staged packages | collect, diff, package, stage, promote | scheduler and jobs (scan, stage), ACK handler (promote) |
| Reconnect and supervision | `transport/grpc-stream.ts`, `grpc-client.ts`, `core/service.ts`, the bridge of PrivSvc | `reconnecting`, `stopped`, attempts, timers, watchdog, cached client, push slot, stop handle | startGrpcStream, stop, scheduleReconnect, armWatchdog, connectivity supervisor | PrivSvc, process exit |
| Jobs | `transport/grpc-stream.ts`, `plugins/pmp/state.ts`, `plugins/sdp/state.ts` | `runningJobIds` (one per stream), four in-memory locks, `pmp-state.json` | runJob, patch_install, patch_remediate, software_install, agent_update, device_reboot, the answer of each | PrivSvc operations, the operating system's restart, control plane |
| Scheduler | `core/scheduler.ts`, `core/pipeline-plan.ts` | running flags, run start times, timers | start, stop, reload, runInventory / Compliance / Cdp ..., checkStuckWorker | plugins, outbox, send gates |
| Send gates | `core/*-send-gate.ts` | last hash and time stamps in `agent_state` | decide, commit | scheduler, outbox |
| Policy | `core/policy-store.ts`, `core/policy-runtime.ts` | the active policy, its version, a file | apply, load, notify | scheduler |
| Update | `update/update-task.ts`, `update-state.ts`, `update-service.ts`, `updater-runner.ts` | `update-state.json`; installers of the platform outside the process | runUpdateTask (timer, job), reconcilePendingUpdate, installer guard | scheduler, jobs, MSI / pkg / PrivSvc and dpkg |
| Remote sessions | `plugins/rcp/session-manager.ts`, `peer-session.ts`, `screen-session.ts`, `consent-prompt.ts` | map of sessions, ICE ufrags, consents, start times; peers with timers and channels; count of live screens | onOffer, onIce, onClose, onError, the prompt's answer, channel open and close, teardown | operator's browser through the control plane, the person at the device, PrivSvc's capture helper |
| Patching, software distribution | `plugins/pmp/`, `plugins/sdp/` | `pmp-state.json`, in-memory locks | scan, install, remediate, verify | jobs, PrivSvc |
| Enrolment, renewal, inventory, tray, vCenter, ... | see `PROJECT.json` | files | | |

`PROJECT.json` lists every component with its status, and under `hazards` the
places where it can go wrong in a way a test would hardly reach. In short:

* **Outbox**: a row that no query finds any more; two live rows with one
  payload; an attempts budget that some path forgets to charge; late ACKs.
* **Delivery**: a wake-up that is dropped while the link is down or held; an
  event that stays in flight after its ACK was lost; a retry taken for success.
* **CDP**: a baseline that claims what the control plane never got, or forgets
  what it has, because scans are partial, ACKs late and outbox ids reused.
* **Reconnect**: events of an old stream reaching the new one; a path that
  leaves the reconnecting flag up; a renewal racing a reconnect; a bridge that
  still pushes to the socket of a dead process.
* **Scheduler**: a run declared stuck that later ends and touches the state of
  its successor; a first run that hangs before any timer is armed; a pipeline
  switched on by a policy that nobody then runs.
* **Jobs**: checks made before an await and used after it; one job on two
  streams; an answer lost after the work was done; a process that dies in the
  middle of an install whose state file goes on saying "in progress"; a state
  file that cannot be written; a lock nobody gives up.
* **Update**: a state file left behind by an attempt that died; installers that
  overlap, queue or outlive the agent that launched them; a release withdrawn
  between the check and the install.
* **Remote sessions**: offers sent again while the person is being asked; peers
  that outlive their entry in the map; a helper shared by sessions that end in
  several ways each, stopped by a call that is made once and may be lost.

Correctness, per component: an accepted event is eventually delivered or given
up for a recorded reason, and never counted as delivered without the control
plane's word (outbox, delivery); the CDP baseline is exactly what the control
plane has, once nothing is on its way (CDP); one run of a pipeline that is not
overdue, one live stream, and always another attempt (scheduler, reconnect);
operations that exclude each other never overlap, every job is answered that no
lock of a broken install keeps out, and an install told as done is done (jobs);
the device comes to run the latest release and does not go back by accident
(update); no screen without the person's yes, no helper taken from a session that
is shown, and none left behind by sessions that end as they should (remote
sessions).

## 2. Plan

Written, in this order:

1. `DurableQueue` (abstract) and `Outbox` (implements it), with proofs.
2. `Delivery`, which composes `Outbox` with sender loop, bridge and ACKs, with
   proofs, among them that what is proved of `Outbox` holds inside it.
3. `CdpDelivery`, the protocol between scan, outbox and baseline, with proofs.
4. `Scheduler`: startup, ticks, policies, running flags, with proofs.
5. `Reconnect`: generations, client, PrivSvc's bridge and the socket between,
   with proofs.
6. `Jobs`: the jobs that change the device, with proofs.
7. `RemoteSession`: offers, consent, peers and the capture helper, with proofs.
8. `Update`: the agent replacing itself on three platforms, with proofs.

Each module stands alone except `Delivery`, which instantiates `Outbox`, and
`Outbox`, which implements `DurableQueue`. Where two of them meet, one has the
other's effect as an action of its environment: `Jobs` launches an installer and
lets it restart both services, `Update` has jobs that arrive with a package,
`Delivery` has streams that come and go as `Reconnect` lets them.

Open, in the order of their worth. To model: the send gates with the ACK of what
they suppressed, the renewal loop on `Reconnect`, the collecting jobs with the
snapshot's cooldown. Every safety property a passing run checks is proved; what
remains for proofs is an abstract specification of the stream that `Reconnect`
would implement and `Delivery` rely on.

## 3. Modules and how they correspond to the code

### DurableQueue, Outbox, MCOutbox, OutboxProofs

`Outbox` has one function per column of `outbox_events`, indexed by row id.
Each method is one action: a SQLite transaction on a synchronous driver cannot
be interleaved. `Enqueue` is a no-op (no action) when a live row has the same
payload, as in the code. `Finish` is `markSent` and `markRejected`;
`FailAttempt` is the update `markFailed` and `recoverStaleInflight` share.
`Cleanup` deletes terminal rows, `Quarantine` is `openWithSelfHealing` renaming
a corrupt file aside. Clocks are Booleans: `due` is set by the action
`BackoffExpires`, and the rows an age cut-off selects are chosen freely.
`leases` is a history variable. Every mark is enabled for every id: ACKs come
late, twice, or for rows long deleted.

`DurableQueue` says what a caller relies on, without rows, locks or back-off: an
event waits, is handed out at most MAX_ATTEMPTS times while it waits, settles
exactly once, may then be forgotten and never comes back. `Outbox` refines it by
`stageOf`.

### Delivery, DeliveryProofs

An instance of `Outbox` with the sender loop of the current stream, the client's
write chain, the wire, the control plane and its ACKs. `DrainOnce` is
`drainOnce` including its `finally`; `DrainDeferred` its early return with
`armRetryTimer`; `StartStream` includes the stale recovery `startGrpcStream`
makes; `WriteFacts` and `RejectTooLarge` are the two ends of `stream.write`;
`AckPush` is the `grpc.ack` handler; `StreamGone` is everything that stops a
stream, after which the control plane may or may not have processed what was on
the wire. The write chain and the wire are sets: no property here is about order.
A stream is down, connecting, ready, or *silent* (`isConnected` is false after a
silence although nothing was closed).

Left out: `Cleanup` and `Quarantine` (checked in `Outbox`; they would only make
ids reusable here), the branches of `drainOnce` for unknown types and empty
payloads (only `FACTS_SNAPSHOT` is ever enqueued), control messages.

### CdpDelivery, MCCdp, CdpProofs

What a certificate looks like on the device is a member of `Contents` (or
`Absent`). A delta is a partial function from certificates to contents: what the
message claims about each certificate it mentions. `Collect`, `Diff`, `Enqueue`
are the three stretches of a scan between which the process awaits. A scan is
*complete*, *named* (it names unreadable stores, whose certificates are carried
over), or *capped* (cut by the item cap, or it cannot name what it missed).
`StageCdpDelivery` and `PromoteCdpDelivery` are the two repository functions.
The outbox is reduced to its live events. A *world*, chosen in `Init`, says which
certificates and kinds of scan there are, how many scans overlap, how many events
are sent, and what the environment may do: `reorder` (events overtake each
other), `giveup`, `torn` (the process dies between enqueue and stage, which write
different databases), `expire` (packages older than a week), `quarantine` (outbox
ids begin again), `legacy` (a baseline left by a version that did not confirm).
One run thus checks several combinations, each of which is small. The digests of
the side blocks travel in the same package and are left out, as are the
collectors.

### Scheduler, MCScheduler, SchedulerProofs

A policy gives each pipeline a mode, off, *armed* (module without its plugin) or
*effective*, and an interval. `Start` and `StartPipelines` are the two halves of
`start`, which awaits a first inventory in between. The startup sequence is one
coroutine: `step` says what it awaits, and `"turn"` that it goes on in the same
stretch of the event loop, so that no other action comes before its next turn.
`Reconciled` and `Rearm` are the reconciler's decisions, `RunPipelines` the
prologue all five `run...` methods share, `Finally` their common end. A run is
*young* until 30 minutes after its start and a *zombie* afterwards; the code knows
neither, it has a flag and a time per pipeline. `hang`, chosen from `Hangs` in
`Init`, says what overdue runs do, return or not, and `HangsAtBoot` whether that
may happen to the run `start` awaits. `scanned` is a history variable. A timer
does not ask for the machine's uptime: the policy may set an interval from 300 s
on (`policy-runtime.ts:1417`), and `Tick` fires at any time. Only the startup
sequence waits, and the reconciler leaves its pipelines to it;
`PatchWaitsForUptime` is about these two.

Left out: what the runs collect and send, jitter and the early first inventory
tick, DEX, `reload` (nothing calls it) and `stop` (the process exits after it).

### Reconnect, ReconnectProofs

A *generation* is one call of `startGrpcStream`: its listeners and its timers
around a *client* of `createGrpcClient`. The agent is one record and each
handler an operator on it, since `stop`, `scheduleReconnect`, `close` and `emit`
run in one turn; an action applies one handler. `Emit` is an `error` or `end`
event: every listener runs, and without any it is lost. `Receive` is a message
from PrivSvc, `ReconnectTimerFires` the back-off's end, `HeartbeatFails`,
`WatchdogFires` and `ConnectTimesOut` the three ways the agent notices by
itself. `outbox` and `inbox` are the two directions of the socket; messages
carry no identity, as in the code, where pushes go to the client in the slot and
`grpc.connect` always has the same id. `bridge.heard` says whether the bridge's
push sink is the socket of this process. Client and generation objects are used
again once nothing refers to them. The bridge is that of Linux and macOS;
Windows answers before it is ready and keeps a registry of sinks.

Left out: the delays (a timer may fire at any time, but see fairness),
`shutdownRequested` (the process ends in the same step), control messages, the
connect-ready timeout (only Windows reaches it), and the supervisor's clocks:
its exit is a `ProcessDies`.

### Jobs, MCJobs, JobsProofs

An *execution* is a job on the stream that brought it: `"now"` for the current
stream, `"old"` for all before it, since each stream has a `runningJobIds` of its
own. `pc` is where the execution awaits: the change baseline, the call to
PrivSvc, the scan after an install (`"post"`), the download of an update
(`"fetch"`). `flags` holds the four locks by the kind that takes them, `pmp` is
`pmp-state.json` reduced to its status, the job it belongs to, whether its last
error is `agent_restarted`, and the remembered answer. `PatchRefused`,
`PatchReplayed` and `PatchStarts` are the stretch of `patch_install` up to its
first await, `Calls` and `Busy` the next one, `PatchAnswered` and `PatchEnds` the
rest; `tryStartRemediate` and `tryStartInstall` are operators of their own.
`updatePmpState` may throw wherever it is called: `PatchCannotStart` is the write
between the raised lock and the `try`, `PatchUnrecorded` and `CatchWrites` those
after the call and in the `catch`, and `unwritten` remembers which kind failed.
`RebootAccepted` and `RebootArms` are `device_reboot` before and after its await.
What PrivSvc does for a caller that died or gave up goes on as an *orphan*;
`effect` is the installs whose patches are on the device; what remediations and
software did is left out, because their "success" promises less (no detection
rule, a detection skipped before a restart, `sdp/index.ts:813`; a setting that is
compliant only after a restart, `remediation.ts:625`). `AgentCrashes` loses the memory
of the agent, `InstallerRuns` and `DeviceRestarts` that of PrivSvc too, and the
operations with it. Refusals that answer "retry" change nothing and are left to
the control plane's sending again.

Left out: the scheduler's own update check (it is in `Update`), the software
package that is the agent itself and answers before it installs, `patch_verify`
and the jobs that only collect, and a `pmp-state.json` that can be read no more.

### RemoteSession, MCRemote, RemoteProofs

`sessions` is the manager's map, `granted` its `consentGranted`, `started` and
`overdue` what `sessionStartedAt` says; `peer` has every `PeerSession` that is
not disposed of, also those the map has lost. `onOffer` has one await that others
get in between, the person's answer, so it is cut there: `Retransmit`,
`RestartRefused`, `OfferRefused`, `Asks` and `Accepts` are what an offer may lead
to at once, `Approved` and `Declined` what follows a prompt; `Build` is the part
`Accepts` and `Approved` share, from the hard cap to `acceptOffer`, which may
fail. `OnTeardown` is the callback the manager gives each peer and `Without` a
peer's `dispose`; the two differ on purpose. A channel's work ends in two steps,
as in the code: `stopCapture` counts the session off in one turn, the manager
hears of it in the next. A screen session counts from its channel on (`"on"`), and
the helper runs from the first capture (`Captures`, `"shown"`). `EndPrivSession`
lowers the count and, at zero, calls `screen.end`, which is then on its way
(`ending`) and arrives (`EndArrives`) or does not (`EndLost`); the agent may die
(`AgentDies`), and its death stops no helper. The calls of the agent go through
one lane, one after the other, so a `screen.end` is never overtaken by a capture
called after it. The browser is environment: it sends an offer until it
is answered, restarts ICE with another ufrag, closes. While the link is not
`calm` any message may be lost, delayed or repeated. A *world* gives each session
its capability and number of offers, the manager its room
(`MAX_CONCURRENT_LOCAL_PEERS`) and whether consent is required, and says whether
the agent may die and a `screen.end` be lost.

Left out: ICE candidates and the buffer for early ones, TURN credentials, the
consent of taking control inside a session, recording, and what travels on the
channels. The helper and its count matter on Windows, which is what is modelled; a
helper that fails by itself or is started again for another desktop, a restart of
PrivSvc, and a pipe that breaks with a call in PrivSvc's hands are left out.

### Update, UpdateProofs

`run[c]` is where the caller's `runUpdateTask` awaits: the battery, the metadata,
the download, PrivSvc (Linux). `st` is `update-state.json`: `fresh` stands for
"younger than ten minutes", lowered by `TenMinutesPass`. `Enters` is the prologue
(`reconcilePendingUpdate`, the stale attempt, the privileged operation),
`Deferred` and `KillsStalled` the battery and the macOS installer guard,
`Overrides` the fast path of a job that carries the package, `Chooses` and
`NothingToDo` the decision on the metadata. Installers live outside the process:
`queue` and `working` are Windows' one-shot task (which a later one replaces),
PackageKit's queue, or dpkg behind its lock (`Queued`). `Replaces` ends every run,
since the new agent starts. `AgentDies` and `Throws` may come at any await.

Left out: where the bytes come from and how they are checked (a hash that does
not match is a `Throws`), `min_supported_breach`, metadata without a valid version
or without a binary for the platform (`update-service.ts:433`: nothing is done),
and the check interval, which never holds (section 5).

## 4. Runs

| Run | Bounds | Shows |
|---|---|---|
| `outbox` | 3 payloads, 3 ids, 2 attempts, lease limit 2 | type, `NoStrandedRow`, `NoDuplicateLive`, `BoundedLeases`, `LeaseInOrder`, refinement of `DurableQueue` |
| `delivery` | 2 payloads, one too large, 2 ids, 2 attempts, lease limit 1; fairness | `NothingLostSilently`, `NoLostWakeup`, `StableLinkDrains`, `RecoveredByReconnects` |
| `cdp` | four worlds: 2 certificates, 2 overlapping scans and 2 events with `reorder` and `torn`; 1 certificate, 3 events, every fault; 1 certificate, 2 overlapping scans and 2 events, every fault but `legacy` and `quarantine`; 2 certificates, 3 events, one scan at a time, no fault | `NothingAssumedDelivered`, `BaselineIsServers`, `BaselineOnlyAdvances`, `PromotedByOwnAck` |
| `cdp_overlap` | 2 certificates, 2 contents, 3 events, 2 scans at a time | **violated**: `BaselineIsServers` |
| `scheduler` | 3 pipelines, 2 intervals for one, 2 runs overlapping, overdue runs that return and that do not, timers before and after the uptime wait; fairness | type, `PlanInForce`, `NoScanForgotten`, `AtMostOneYoung`, `PatchWaitsForUptime`, `NeverShutOff`, `StartupEnds` |
| `scheduler_zombie` | 2 pipelines, overdue runs return | **violated**: `ZombieEndIsNoOp` |
| `reconnect` | 2 clients, 3 generations, breaker at 3, 2 messages each way; fairness | type, `ListenersHear`, `NoOrphans`, `OneAttempt`, `ReconnectingIsScheduled`, `NeverAbandoned`, `LinkReturns` |
| `reconnect_renewal` | 2 clients, 2 generations | **violated**: `OneGeneration` |
| `jobs` | 2 jobs, 6 pairs of kinds, 2 streams each, writes of the state file that fail; fairness | type, `CrossLocks`, `LocksHaveOwners`, `ProgressIsReal`, `DoneTookEffect`, `NotInstalledAgain`, `EveryJobSettles` |
| `jobs_reboot` | a patch and a restart | **violated**: `RebootSpares` |
| `remote` | 2 sessions, 2 peers, room for one session or both, 2 offers, 2 prompts for one offer, 5 worlds, in two of which the agent may die and `screen.end`s be lost; fairness | `ConsentFirst`, `HelperFollowsScreens`, `OfferSettles` |
| `update` | 3 platforms, 2 releases, 1 job, 2 installers waiting, two runs; fairness | `NoAccidentalDowngrade`, `UpdateArrives` |

Why the bounds are enough. A lease limit of 2 below 3 rows makes leases partial,
and 3 payloads let all rows be live at once; 2 attempts give a first and a last
one; 3 ids give a payload enqueued again after its row ended. In `Delivery` two
rows with a lease limit of 1 make a drain leave work behind, and one oversized
payload exercises the rejection. In `CdpDelivery` one other content is enough to
distinguish what a baseline claims from what was received, two events to overtake
each other, three to have an order that a third can disturb. In `Scheduler`
pipelines differ only in the startup sequence (none, in it, last in it with the
uptime wait), so three represent the five; `MaxYoung` is 2 to let a second run
overlap. In `Reconnect` the breaker at 3 leaves room for a reset before it trips;
two clients are the current one and one that still waits for an answer; a renewal
is asked only while no reconnect is pending, which bounds the timers at two. In
`Jobs` no rule relates more than two jobs, and the six pairs are those whose kinds
share a lock, a guard or a restart; a job on a third stream would meet the second
as the second meets the first. In `RemoteSession` one other session is enough for
room, helper and teardown to be shared, and a second offer and prompt for the
orders in which they come back; the agent dies and loses calls where two screens
share the helper and where one screen's prompts come back twice. In `Update` two
releases are a newer and an older one, two callers are all there are, and one job
beside the timer makes two runs at a time. The theorems of section 6 have none of
these bounds. No state constraint is used. `CHECK_DEADLOCK FALSE` is set because
every model may end: ids, events, offers or jobs run out at the bound, or nothing
is left to do.

Fairness. `Delivery!Fairness`: Node runs timers and queued callbacks; a failed
stream always schedules a reconnect; PrivSvc eventually connects; while a stream
lasts the control plane answers each message, though it may answer "retry" until
the attempts are gone. Nothing is assumed about producers, disconnects, restarts,
rotations starting, silences or heartbeats, so both properties state what they
need of the link as a premise. `Reconnect!Fairness`: timers, queued messages and
PrivSvc's reads; `LinkReturns` is about the time after the link has become `calm`,
which includes that PrivSvc answers within the shortest back-off (2 s) and within
the call's timeout (60 s). `Scheduler!Fairness`: timers fire, the machine stays
up, a run ends or grows overdue; an overdue run owes nothing, and neither do
policies. `Jobs!FairSpec`: the control plane sends a job again until it is
answered (strong fairness, since a job may find a lock in its way again and
again), an execution goes on, as every call to PrivSvc has a limit of time, a lost
stream is opened again, an armed restart and a launched installer come.
`RemoteSession!FairSpec`: the browser repeats its offer while it waits, and a
prompt ends by its own timer (`SESSION_CONSENT_TIMEOUT_S`); once calm no answer is
lost, and none fails to be made again (`session-manager.ts:217` only logs that);
the sessions' timers, hours away, owe nothing, nor does PrivSvc.
`Update!FairSpec`: the check is periodic, a run goes on, ten minutes pass, an
installer begins and ends. In these three, faults cease at some point
(`BecomesCalm`), and the properties are about the time after it.

## 5. Findings

* `cdp_overlap`: a scan is diffed against the confirmed baseline while an earlier
  one is on its way; after both ACKs baseline and control plane can differ.
* `scheduler_zombie`: when a run declared stuck does return, its `finally` lowers
  the flag of the run that replaced it, and a third one starts beside that.
* `reconnect_renewal`: a renewal restarts the stream while the reconnect timer
  armed by the bridge's teardown is pending; when it fires, a second generation
  listens to the same stream and every job is handled twice, until that stream
  fails.
* `jobs_reboot`: `device_reboot` passes its guard before it awaits the change
  baseline, and arms the restart after; an install that starts in between is cut.

Limits the passing runs exclude by a constant or a premise, and what TLC answers
without it:

* `RecoveredByReconnects` without its premise of restarted streams: comments
  (`grpc-stream.ts:3031`, `grpc-client.ts:747`) say that events in flight are
  recovered by a time-to-live, but the recovery runs only when a stream or the
  process starts, so on a stream that stays up such an event waits for ever.
* Worlds with `capped`, `BaselineIsServers`: a capped scan suppresses removals
  but installs itself as the baseline, so a removal is never reported.
* `LinkReturns` when PrivSvc answers later than the back-off: a late answer to
  the previous `grpc.connect` has the id of the next one, counts as READY and
  resets the back-off, while the late `grpc.disconnected` of the previous
  `grpc.close` ends the new stream; this may go on for ever.
* `Online => bridge.heard`, in no run: after a crash of the agent the bridge
  stays up with the dead process's socket as its push sink, and
  `startConnection` returns before it replaces the sink. The agent is online and
  hears nothing until that stream fails.
* Worlds with `quarantine`, `PromotedByOwnAck` and `NothingAssumedDelivered`:
  packages are found by outbox id, and a fresh outbox hands the ids out again, so
  a late ACK of the old file, also one of an event that is no scan's, may promote
  the package of an event that never arrived.
* Worlds with `legacy`, `NothingAssumedDelivered`: the first full scan of an
  upgraded agent carries an unread store over from a baseline that nobody
  confirmed, and confirms it.
* `HangsAtBoot = TRUE`, `NeverShutOff`: stuck runs are found by the next tick,
  but ticks are armed after the first inventory, which `start` awaits without a
  cap.
* `NotInstalledAgain` is about the one success that is remembered: with two
  answers lost, the first job is run again (and finds nothing to install).
* `UpdateArrives` without its premise: after a forced downgrade the file still
  says that the latest version was installed, and the idempotency guard
  (`update-task.ts:407`) skips every later check.
* `NoAccidentalDowngrade` on macOS: of two installers that queue, the second may
  carry the older release.
* `LocksHaveOwners` and `EveryJobSettles` without their exception: in
  `patch_install` the lock is raised (`grpc-stream.ts:1118`) before the state file
  is written and before the `try` that gives it up. If that write fails the job is
  answered as failed and the lock stays up: installs, remediations, updates and
  restarts of the device are refused, most of them with "retry", until the agent
  restarts.
* `ProgressIsReal` without its exception: if the write that ends an install fails
  too, `pmp-state.json` says `in_progress` until the next install or restart.
* `HelperFollowsScreens` without `stray`: `screen.end` is called once and its
  failure only logged (`screen-session.ts:1653-1665`), a dead agent calls none, and
  the helper does not expire, nor does PrivSvc stop it when the pipe closes. It
  runs, on the secure desktop perhaps, until the end of a later screen session.
* `PatchWaitsForUptime` for timers: an interval below ten minutes scans for patches
  before the machine has been up that long.

Read in the code while modelling, and visible in no property:

* the MSI has `AllowDowngrades="no"`, so the "controlled downgrades" of
  `grpc-stream.ts:1893` end in a failed installer on Windows (`InstallFails`);
* an exception on the fast path of an update is outside the `try`, so
  `updateInProgress` stays up until the ten minutes are over (`Throws`);
* `lastCheckedAtUtc` is never written, so `shouldCheckNow` always agrees;
* an agent_update skipped with `update_already_in_progress` is answered as a
  success;
* `collectFactsSnapshot` returns early within its cooldown also when it carries a
  job's result;
* remote sessions: an offer that is repeated while its prompt is open builds two
  peers, and the first is left with its timer and without an owner; a session
  closed while its prompt is open is built all the same, and room is not looked
  for again after a prompt; the hard cap and a failed
  connection forget the session but never dispose of its peer; `consentGranted`
  outlives a failed `acceptOffer` and a refused restart. `RemoteSession` has all
  of these, and its three properties hold nevertheless.

## 6. Proofs

`OutboxProofs` proves, for every set of payloads, every number of ids, every
MAX_ATTEMPTS and lease limit of at least 1 (the assumptions of `Outbox`):

* `TypeCorrect`, `NothingStranded`, `LivePayloadsDistinct`, `LeasesBounded`;
* `LeasesInOrder`, an action property;
* `OutboxImplementsDurableQueue`, the refinement.

The inductive invariant is `IInv` = `TypeOK`, `NoStrandedRow`,
`NoDuplicateLive` and three parts no run needs on its own: `FreshIds` (ids not
yet given out have no row, so an insert overwrites nothing), `OnlyInFlightLocked`
(only rows in flight have a lock, so the next row starts unlocked and a lease
skips no ready row) and `LeasesPaidFor` (a row has been leased at most as often
as it has attempts, plus one while it is in flight). `NoDuplicateLive` and
`BoundedLeases` are not inductive without them: a lease is free, and is paid for
only by the failure or recovery that ends it. Each action has a lemma that it
preserves `IInv`, and one that it maps to a step of `DurableQueue`;
`LeasesInOrder` rests on a lemma about cardinalities (an older ready row is among
the candidates if a younger one is).

`DeliveryProofs` proves, for the same constants (and any set of oversized
payloads):

* `TypeCorrect`, `DeliveryIsHonest`, `SenderIsAwake`;
* `DeliveryUsesOutbox`: every step is a step of `Outbox` or leaves its rows alone;
* `DeliveryKeepsTheQueue`: hence the refinement of `DurableQueue`,
  `BoundedLeases`, `LeaseInOrder`, `NoStrandedRow` and `NoDuplicateLive`, which
  `OutboxProofs` proves of the outbox alone, hold under the sender loop.

Three layers, each inductive relative to the ones before. `Rows` is `TypeOK` with
`Budget` (a live row has an attempt left) and `FreshIds`. `Honest` adds to
`NothingLostSilently` that an ACK on its way is true (`AcksTrue`): a row may become
SENT by an ACK of a stream long gone, and what that ACK says was so when it was
sent and, as nothing is taken back, still is. `Awake` adds to `NoLostWakeup` that
only the sender of a stream that is not down has started. The last theorem cites
the theorems of an instance of `OutboxProofs`.

`CdpProofs` proves, for every set of certificates and contents, in every world:

* `TypeCorrect`, `DeliveriesAreConfirmed`;
* `BaselineAdvances` and `AcksPromoteTheirOwn`, action properties;
* `BaselineMirrorsServer`, which is `BaselineIsServers` where scans do not overlap;
  where they do it is violated (`cdp_overlap`).

Four layers. `Typed` is `TypeOK` with what the counters have handed out
(`Counters`). `OwnIds` says that an id is that of one event while the outbox is the
same file, so the package an ACK installs is the acknowledged event's. `Grounded`
says what stands behind a baseline: the one in force was received; the one of a
package or of a staged row was received, or is backed by the claims of the event
that carries it, until that event is applied. A diff is backed because its
baseline is received, which is why `NothingAssumedDelivered` needs the whole
chain from scan to ACK. `Single` says that there is one scan, package or event at a
time (`Alone`), and that the staged package is what the control plane will have
when it applies the event (`Mirrored`); with two scans on their way the second
diff is taken against a baseline the first is about to replace.

`ReconnectProofs` proves, for every non-empty set of clients and of generations,
every limit of the breaker and length of the queues:

* `TypeCorrect`, `ListenersAreHeard`, `NobodyIsOrphaned`, `AttemptsAreSingle`,
  `ReconnectsAreScheduled`, `SomebodyNotices`.

A step is a chain of handlers, so the invariants are stated of the agent's record:
`Shaped` holds between two parts of a handler, `Sound` after a handler, `Settled`
after a step, and each handler has a lemma of what it changes. Five of the six
follow from `TypeOK` and `Settled`. `OneAttempt` does not: a renewal stops only the
generation of the handle, and if another one were live there would be two. It is
not, because a generation that the handle does not know was started after a loss,
on a bridge that is heard (`BridgeHears`), so the teardown the renewal causes is in
the queue before its answer (`RenewedLater`) and ends that generation first.

`SchedulerProofs` proves, for every set of pipelines and intervals, every bound
on overlapping runs and whatever overdue runs do:

* `TypeCorrect`, `PlanAlwaysInForce`, `FirstScansAsked`, `YoungRunsAlone`;
* `PatchScanWaits`, an action property about every step but a timer's.

`IInv` there adds `PatchPending` to the invariants the runs check: until the
machine has been up long enough the patch scan is in the startup sequence's
list, where the reconciler leaves it alone. `NoScanForgotten` needs
`PlanInForce`, because the reconciler decides by the plan it saw last.
`AtMostOneYoung` rests on `YoungHoldsFlag`: a young run has its pipeline's flag up
and the flag is as young as the run, which a zombie that returns would break.

`JobsProofs` proves, for every set of jobs and every assignment of kinds:

* `TypeCorrect`, `JobsExclude`, `LocksGivenUp`, `SuccessIsTrue`, `MemoryIsTrue`,
  `ProgressShown`.

Three layers, each inductive relative to the ones before. `Locks` is `CrossLocks`
and `LocksHaveOwners` with `KindsAt` (which kinds can be at which await): that two
holders exclude each other follows from the flags only because each flag has its
owner, so neither part is inductive alone; a lock that an install which could not
be opened left behind has none, and then no install holds it (`LeakIsAlone`).
`Took` adds to `DoneTookEffect` that the remembered job, and any install that was
told success, has its patches on the device. `Memory` is `NotInstalledAgain` and
`ProgressIsReal`; a new success may replace the remembered one because only one
install runs (`Locks`).

`UpdateProofs` proves, for every number of releases, jobs and waiting installers:

* `TypeCorrect`;
* `NeverDowngradedByAccident`, an action property.

`Sound` says that a fast path's version was carried by a job (`OrdersKnown`) and,
on Linux, that every image on its way is ordered or not older than the agent
(`ImagesBacked`), of which at most one waits or installs (`OneInstaller`, dpkg's
lock): an installer cannot make another one's image old. On Windows the property
is the MSI's own refusal, and macOS is exempt.

`RemoteProofs` proves, for every set of sessions, finite set of peers, and number
of offers and prompts:

* `TypeCorrect`, `ConsentComesFirst`, `HelperCounts`.

`ConsentFirst` is inductive with `granted` a subset of what the person said yes
to. `HelperFollowsScreens` needs that `liveScreenSessions` *is* the number of
peers whose screen session is on, and that no `screen.end` is on its way while one
is shown (`Counted`): it is called at zero only, and the lane keeps the next
session's captures behind it. The count in turn needs that the map's entries
are peers of their own session (`MapIsTrue`) and that a peer shows nothing before
its channel opens (`NewIsIdle`).

Only model-checked: all liveness (`StableLinkDrains`, `RecoveredByReconnects`,
`NeverShutOff`, `StartupEnds`, `LinkReturns`, `EveryJobSettles`, `OfferSettles`,
`UpdateArrives`), since fairness and ENABLED are out of the prover's reach; and the
violated properties, which hold in no form worth proving but those named above
(`YoungRunsAlone`, `AttemptsAreSingle`, `BaselineMirrorsServer`). The type
invariants of `Delivery`, `CdpDelivery`, `Update` and `RemoteSession` are proved and
in no run.

## 7. Not modelled

Collectors and parsers (data, no shared state), downloads and signatures, WebRTC
media and terminals, native trays, packaging. The control plane, and PrivSvc but
for its bridge in `Reconnect` and its installers in `Jobs` and `Update`, are
environment: they may lose, delay, repeat, accept or reject. `agent_state`,
payload compression and the hash itself have no behaviour of their own: two
payloads are equal or not. Much of the repository is of these kinds, most of all
platform code with one command and one parser per fact; `PROJECT.json` names
every component with the reason it is left out. Of those with behaviour, the send
gates, the policy store, enrolment and the renewal loop are not modelled; section
2 says which of them would add most.
