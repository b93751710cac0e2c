# A TLA+ model of the mobile device farm

The repository is a farm of Android and iOS phones. A *provider* process runs
where the phones are plugged in; a *coordinator* process keeps the inventory in
Postgres, lets users book devices over HTTP and forwards work to providers over
gRPC. This directory models both processes, checks the models with TLC on small
instances, and proves some of the properties with TLAPS for all instances.

Contents: [inventory](#1-inventory), [modules and their
code](#2-modules-and-the-code-they-model), [runs](#3-what-the-runs-check),
[bounds](#4-bounds), [fairness](#5-fairness), [proofs](#6-proofs),
[findings](#7-where-code-and-words-disagree), [properties the code does not
have](#8-properties-the-code-does-not-have), [what is left
out](#9-what-is-left-out), [plan](#10-plan).

To repeat a run: `tlc -workers 2 -config MCBooking.cfg MCBooking`; a proof:
`tlapm BookingProofs.tla`. `PROJECT.json` maps every definition to the lines it
models and lists, per property, a mutation of the model that violates it.

## 1. Inventory

### Provider

| component | state | operations | hard because |
|---|---|---|---|
| Android tracker, `internal/adb/tracker.go` | last snapshot of serials and states | diff a pushed snapshot, evict all on a lost connection, reconnect | events are *dropped* when the shared channel is full; properties may not be fetched |
| iOS tracker, `internal/goios/tracker.go` | map of connected devices | attach, detach, evict, reconnect | events *block* on the same channel |
| application, `internal/app` and registry | registry of devices | event loop, admin `reset`, shutdown; calls to the coordinator from goroutines | the admin goroutine works on the devices concurrently with the loop; the calls are unordered |
| supervisor, `internal/supervisor` | serial → `DeviceSupervisor`; per device a state machine idle/claimed/busy/releasing, session, port | connect, disconnect, claim, activate, release, teardown, `StopAll` | several goroutines per device, two levels of mutexes, pointers used after the device is gone |
| port allocator | port → serial and serial → port | `Allocate`, `Free` | two maps; services listen on ports *derived* from the allocated one |
| stream manager, `internal/stream`: captures | table of captures; per capture a scrcpy server, a port forwarding, a listener, clients, a cache of frames | start in four steps, stop, die; add clients, fan out frames | each step of the start may fail; `StopCapture` waits for a goroutine; clients join while frames arrive and may be slow |
| stream manager: control input | the control connection under `controlMu`, a queue per WebSocket | read, parse, queue, write; POST | several writers of one connection that may stall |
| stream manager: touches of iOS | one start point per capture, size of the window | down, move, up; a goroutine per gesture | the goroutine runs after the next touch has begun |
| device agent, `internal/agent` | active WebSocket, table of pending commands, channel of state updates | deploy, connect, read, send command, stop | responses race timeouts; connections replace each other; channel is closed on stop |
| iOS worker, `supervisor/ios_worker.go` | tunnel, WDA, two port forwards | restart loops, give up, poll `/status`, stop | dependent processes, a failure counter, cancellation in all of them |
| WDA client, `internal/wda` | session id under an RW mutex | ensure, delete, request | the WDA agent keeps one session for several clients; a 404 clears the id |
| coordinator client, `internal/coordinator` | list of serials, heartbeat stream | register, release, heartbeat with reconnection | snapshot of the list is sent later; streams overlap |
| inbound gRPC server, `internal/grpc` | – | claim, release, run a script, control | handlers use supervisors concurrently with the event loop |
| automation runner and drivers, `internal/automation` | step, retries, launched packages, report | all step handlers, clean-up | polling, fallbacks, cancellation, failing driver calls |
| recorder and compiler | a session of raw events per device | start, stop, record; compile to a script | every gesture is recorded by a goroutine of its own |

### Coordinator

| component | state | operations | hard because |
|---|---|---|---|
| database, `internal/db` | tables devices, sessions, providers (and users, groups, keys) | one transaction per operation | nothing orders the transactions of different handlers |
| HTTP API, `internal/coordinator_server/http.go` | – | claim, release, run a script, list | a request is several transactions with an RPC in between that may time out |
| gRPC service, `grpc.go` | `activeHBs` | register, release, heartbeat with its clean-up | clean-up of an old stream races the new one |
| scheduler, `automation/scheduler.go` | busy devices | `RunParallel` | batches share the map |
| authentication and groups, `internal/auth`, `admin_handlers.go` | users, groups, memberships, tokens, API keys | register, create and delete, join and leave, restart with `migrate` | a handler is several statements, others run between them |
| WebSocket manager, `ws_manager.go`, `http.go` | table of clients under a mutex | add, first list, broadcast of lists and events, remove | the mutex is held over blocking writes; the first list is written without it |

### Interactions

Trackers → channel → event loop → registry and supervisor → port allocator,
agent or iOS worker, stream manager. Event loop → (goroutines) → coordinator
client → coordinator gRPC service → database. User → HTTP API → database, then
RPC → inbound gRPC server → supervisor → stream manager. User → HTTP API →
scheduler → RPC → runner → driver → agent or WDA client. Browser → WebSocket of
the stream manager → driver and recorder.

### What makes the components correct

* Ports: a device owns at most one port, a port belongs to at most one device,
  derived ports do not overlap, nothing leaks over plugging and shutdown.
* Supervision: one supervisor per serial, present exactly when registered; a
  claim has a session and a capture; nobody waits for ever.
* Booking: the user who was told "claimed" has the device, at the coordinator
  and at the provider; a claimed row has a session; all requests are answered.
* Presence: a device the provider has becomes available whatever happens to
  streams and calls.
* Trackers: the registry follows the cables.
* Agent: every response reaches its command, no entry leaks, shutdown ends.
* iOS: no session created twice, nothing left running.
* Automation: one task per device, a faithful report, launched applications
  stopped.
* Recording: nothing lost, and the script does what was recorded.
* Streams: a viewer can decode what it gets, a capture leaves nothing behind,
  stopping it ends everything that serves it; input reaches the device whole and
  in order.
* Groups: administrators are in the groups, memberships refer to rows.
* Device lists: a connected client is told of every change a handler announces.

`PROJECT.json` lists the hazards behind these, each at its line, with the
properties that cover them.

## 2. Modules and the code they model

A process of a model is a goroutine of the program (or an HTTP handler of the
coordinator). One step of it reaches to the next point where the code takes or
gives up a mutex, blocks, ends a transaction or ends one side of an RPC.

| module | uses | models |
|---|---|---|
| `PortAllocator` | | `port_allocator.go`: both maps, `Allocate` (known, fresh, exhausted), `Free`; the offsets of derived ports |
| `Supervisor` | extends `PortAllocator` | `app.go` (event loop, admin socket, shutdown), `supervisor.go`, `device_supervisor.go`, the capture table of `stream.go` |
| `CoordinatorDB` | | the tables devices and sessions of `db.go`; each action is one transaction |
| `Booking` | extends `CoordinatorDB` | `http.go` claim and release, the RPCs with timeouts and late execution, the provider reduced to who holds a device, notifications and heartbeats |
| `Presence` | | the provider's calls and heartbeat loop, `grpc.go` with its clean-up |
| `Scheduler` | | `scheduler.go` |
| `Runner` | | `runner.go`, `runner_handlers.go`, `runner_helpers.go` and the outcomes of driver calls |
| `Automation` | extends `Scheduler`, `Runner` | `handleRunScript`, `ExecuteScript`, cancellation and lost connections |
| `Trackers` | | both trackers, the bounded channel, the event loop's use of the registry |
| `DevicePath` | extends `Trackers`, instantiates `Presence` | the way of a device from the cable to the coordinator's table; the two meet in the event loop of `app.go` |
| `Feed` | | what the stream manager promises its viewers; an abstract specification |
| `StreamHub` | instantiates `Feed` | `stream.go`, `handlers.go` and the video side of `ws.go`: captures with all their resources, the cache, the fan-out, the handlers of viewers |
| `ControlPath` | | the control side of `ws.go` and `handlers.go` for Android |
| `IosTouch` | | the touch handling of `ws.go` for iOS |
| `Groups` | | users, groups, memberships, keys and `migrate` of `db.go`; `auth`; `admin_handlers.go` |
| `DeviceLists` | | `ws_manager.go`, `handleWS` and the broadcasts of `http.go` and `grpc.go` |
| `IosSession` | | `ios_worker.go` and the session handling of package `wda` |
| `Agent` | | `agent.go`, `agent_deploy.go`, the supervisor's use of them |
| `Recording` | | `recorder.go`, `compiler.go`, the recording part of `stream/ws.go` |
| `SupervisorProofs`, `BookingProofs`, `AutomationProofs`, `IosSessionProofs` | extend the module they name | theorems |
| `AgentProofs` | extends `Agent`, `Recording` | theorems about the agent and the recorder |
| `StreamProofs` | extends `StreamHub`, `ControlPath`, `IosTouch` | theorems about video and input |
| `AccessProofs` | extends `Groups`, `DeviceLists` | theorems about groups and device lists |
| `TrackersProofs` | extends `DevicePath` | theorems about the trackers and the path of a device |
| `MC…` | the module they name | constants of the TLC instances |

Correspondence of state, where the name does not say it:

* `Supervisor`: `ctl` is where the event loop or an admin goroutine is
  (`OnDeviceDisconnected` has removed the entry, waits in `Stop`, ...), `run`
  where `DeviceSupervisor.Run` is, `call` where a gRPC handler is. `allocated`
  is Run's local `port`, which teardown uses to decide whether to free.
  `devices` maps a serial to the number of its supervisor, so that a handler
  can keep the pointer of an old one (`callDs`). `wasReset` is a history variable:
  the serials an admin connection has ever reset. `Unit` is the distance of the
  derived ports, 1000 in the code.
* `Booking`: `claim[r]`/`release[q]` are the handlers; `claimRPC`/`releaseRPC`
  say how far the provider is, independently of whether the handler still
  waits. `device` is the provider's own state. `faulty` is chosen at the start:
  without faults the strong property `GrantBacked` is checked, with them the
  robust ones. A handler that is `"telling"` is in the `Broadcast` it ends with,
  which writes to WebSockets without a deadline.
* `Presence`: `calls` are goroutines whose call the coordinator has not executed
  yet, `replies` those that were executed and whose answer the client has still to
  take (only then `addSerial` or `removeSerial` runs), `expired` those the client
  has given up and the coordinator may execute all the same. `ping[i]` are the
  snapshots of the serial list on stream `i`.
* `Trackers`: `previous` and `connected` are the trackers' maps; `adbEmit`,
  `iosEmit` what is left to be sent of a diff; `lost` and `skipped` are history
  variables that record which removals the code drops and which connections
  came without properties. `handling` is the event the event loop is in: the
  registry changes when it begins, and how long the rest of the handler takes,
  adb calls and `Stop` included, is open.
* `IosSession`: `proc` has a restart loop per process; `mu` is the writer of
  `Client.mu`; `active` is the session the WDA agent on the phone keeps.
* `Runner`: `todo` is the rest of the steps of an attempt with nested blocks,
  `at` the handler and its phase, `apps` which run launched what on the phone.
* `Agent`: `mu` is held over a step only while a command is written, the one
  place where the code keeps `a.mu` over a blocking call. `sent` and `replies`
  are the wire: a message is on it before the write has returned. `held` is a
  response whose channel was taken out of the table and not yet sent on.
* `Recording`: `rec[g]` is the goroutine of gesture `g`, `holds[g]` the session
  pointer it looked up. A text is named by its gesture, so `text` of an input
  step is the sequence of gestures joined into it.
* `DevicePath`: `plugged` of `Presence` is `announced`: the devices the handlers of
  the event loop have come to notify the coordinator about. `mishap` is a history
  variable for devices with a notification that timed out or was refused, or whose
  answers the client took out of order; the code repeats none of them.
* `StreamHub`: `table` is `m.streams[serial]`, `phase[g]` the goroutine of
  capture `g`. `view[v]` is all a viewer was given: the first `base[v]` frames
  from the copied cache, the rest through its channel; `sent[v]` of them have
  been written, so the channel holds what is beyond both. `forward` is `Left` when
  adb has refused to remove the forwarding; the code ignores that error. The frame
  and the fan-out are one step because the code does both under `clientsMu`.
* `ControlPath`: `inHand[c]` is what the writing goroutine of a WebSocket has
  taken from its `queue[c]`; `holder` has `controlMu`. Part `i` of
  event `e` is `<<e, i>>`: a key press is two messages, other events are one.
* `Groups`: `at[r]` is the next SQL statement of handler `r`. `excused` is a
  history variable: pairs of administrator and group that somebody took apart,
  or that the code never brings together (an existing user made administrator, a
  public group made anew by `RegisterDevice`, the administrator seeded after
  `migrate` has handled the groups).
* `DeviceLists`: a handler stands for the change it makes, a list for the set of
  changes made when it was read. `silent` are changes nobody announces
  (heartbeats, claims that fail and their rollback, state updates whose row could
  not be read back); `missed[c]` is a history variable: the changes client `c` was
  skipped for because its query failed.

## 3. What the runs check

All runs have `CHECK_DEADLOCK FALSE`: requests are made once, bounds are used
up, and the provider really stops at shutdown. That nobody is stuck is stated by
the liveness properties instead. Every module states its types (`…TypeOK`); they
are part of the inductive invariants of section 6 and are otherwise left to the
reader who changes a module and wants a first check.

**supervisor** (`MCSupervisor.cfg`, 3.26 million states). Three devices, plugging,
unplugging, duplicate and lost events, an admin connection that resets devices,
and shutdown, on a range twenty wide with derived ports twenty apart: the case the
comment in `ios_worker.go` forgets. `DerivedPortsApart`: ports of two devices do
not meet as long as their base ports are nearer than two services of one device.
`PortOwned`: from `Allocate` to its own `Free` a supervisor has its port, and no
port leaks; `RegistryAgrees`: registry and map agree between two events;
`ShutdownFreesPorts`. The last three except the serials an admin connection has
reset (the leak does not): section 8 shows what a reset does to them.

**supervisor_calls** (`MCSupervisorCalls.cfg`, 526 000). One device, one gRPC
handler, one admin reset, shutdown. A session exists exactly in the claimed states
(`SessionMatchesState`), a claimed device has a capture entry (unless an
earlier supervisor of its serial stops it late; an entry whose goroutine has died
counts), teardown completes although `Release` holds `ds.mu` while it waits for a
capture, and shutdown frees the ports in the middle of claims and releases.

**booking** (`MCBooking.cfg`, 1.4 million). Two users and a stranger. `GrantBacked`:
without faults a user told "claimed" has the only active session, the provider
and the stored port. `ClaimedHasActiveSession` and `HandlersReturn` hold with
timeouts, late executions, unplugging, lost calls and lost heartbeats;
`HandlersReturn` follows a handler to the `Broadcast` at its end, which a client
that does not read may block (`HandlersAnswer`, section 8).

**device_path** (`MCDevicePath.cfg`, 848 000). `AttachedAvailable`: a device that
stays attached is available at the coordinator in the end, over lost connections
to adb and usbmuxd, a full event channel, calls executed late or in the wrong
order, broken and overlapping heartbeat streams, late clean-ups and a restart of
the coordinator. The exceptions are named: its properties could not be fetched, a
notification about it timed out, was refused or answered out of order, or the
event loop stays in one event for ever. `ListFollowsRegistry`: once the handler and
the calls about a device are over, the list every heartbeat carries names it
exactly if the registry has it, in whatever order the coordinator has executed the
calls, with the same exceptions for the notifications.

**trackers** (`MCTrackers.cfg`, 127 000). `NoGhost`: a registered device is known
to its tracker once its events are handled, unless the code dropped its removal.
`AttachedRegistered`: a device that stays attached is registered, which needs
every restart of the daemons; the exceptions are missing properties and an event
loop that never ends an event (theorem `StopHangs`, or an adb call without a time
limit).

**ios_session** (`MCIosSession.cfg`, 927 000). `CreationExclusive`: a session a
client knows is forgotten before another takes its place. `NothingLeftRunning`,
`WorkerStops`: a stopped or given-up worker ends every process.

**agent** (`MCAgent.cfg`, 777 000). `PendingAccounted`: a waiting call has
its entry or its response, at the handler or in its channel, and entries belong to
calls under way. `ActiveConnKept`: only a connection's own handler takes it off.
`CommandsReturn` and `StopReturns`: commands and `Stop`, waiting for `a.mu` or for
`Run`, get through unless a write stays stuck with `a.mu` held or the adb call of
the teardown does not end.

**automation** (`MCAutomation.cfg`, 406 000). Two tasks on one device, seven
scripts that between them use every kind of step. `BatchesSafe`: one task per
device, a busy device has a task, a batch that has returned has all its results.
`ReportFaithful`: all steps passed, or the last reported step is the only one
that failed and none was tried after it. `LaunchedAppsStopped`: nothing a launch
step started is left running by a run that failed or was cancelled, unless a
driver call failed. `OverlapOnlyAbandoned` (two runners
meet on a device only after the coordinator has given one up) and
`CancelledRunReturns`.

**recording** (`MCRecording.cfg`, 3.95 million). `GesturesRecorded`: a gesture
whose goroutine has ended is in its recording exactly once. `ScriptFaithful`:
what the compiled script does are the recorded gestures in recorded order, less
clicks that repeat the click kept before them. The reference is a relation, not
a second compiler: `StandsFor` says which touch or text of the script stands for
which event, and takes from the compiler only how a single click is compiled and
when two clicks are equal.

**stream** (`MCStream.cfg`, 419 000). The three sides of the stream manager.
Video: `ImplementsFeed` (the cache and the channel together give a viewer the
frames from the last key frame on, and a frame is missed only when the channel is
full) and `ViewsDecodable`; `ResourcesOwned`: the server, the forwarding and the
port belong to a capture that will release them, whichever step of a start
fails, unless adb refuses to remove a forwarding; `StopEndsAll`: stopping ends the goroutine, the HTTP handlers and the
writers of WebSockets. Control: `InputOrdered` (what one client sends reaches the
device in order, and the two messages of an event of a POST stay together),
`ControlWritersEnd`. Touches: `GesturesFaithful`, a goroutine acts on
the values of the touch it was started for.

**access** (`MCAccess.cfg`, 325 000). `AdminsJoined`: new administrators and new
groups find each other however the statements of the handlers interleave and
wherever the coordinator restarts, `excused` pairs apart. `ListsFresh`: a connected client has
been told of every change a handler announces once that handler is through, unless
the query for this client failed. `ChangePushed`: the handlers get
through, as long as every client reads or closes.

**ios_ensure** ends in a violation; see section 7.

## 4. Bounds

| run | instance | why it is enough |
|---|---|---|
| supervisor | 3 serials, 3 ports, the outer two as far apart as derived ports, 1 admin connection, 3 supervisors; serials symmetric | two devices whose derived ports collide and one between them; freeing and reuse; a reset that overlaps the event loop and shutdown. A full pool is not reached; the theorems cover it |
| supervisor_calls | 1 serial, 1 caller, 1 admin, 2 supervisors | the stale pointer, the reset and the teardown of the first while the second starts |
| booking | 1 device, 2 sessions, 1 stranger | every race is about one row; two claimants and a release between them |
| device_path | 1 device that is used, Android or iOS, channel of 1, 2 changes of the cable, 1 lost daemon, 4 events, 2 streams, 1 outage | a device unplugged and back; the second stream overlaps the first, and is opened before its clean-up |
| trackers | 1 device each, channel of 1, 4 changes, 2 losses | both trackers fight for the last place in the channel |
| ios_session | 2 clients, 2 users, 2 failures, 1 poll, 2 exits, 2 sessions, 1 call each | both wirings (shared and separate clients); giving up after a restart |
| agent | 2 commands, begun in order, 2 connections, a bounded number of replies | reconnection under a command, a response over the other connection, one that comes twice |
| automation | 2 tasks, 1 device, 7 scripts, 2 retries, 1 scroll, 1 failing call, 1 change of screen | 2 retries as in the code; a failure and a change hit each poll of each handler |
| stream | 2 captures, 3 frames in all, 1 viewer of either kind, channels of 1; 1 WebSocket and 1 POST with 3 events, queue of 2; 2 clients, 2 gestures | the next capture starts while the last one closes; a viewer joins before, between and after key frames and has its channel full; viewers do not interact; a queue holds two messages that could be swapped |
| access | 3 users, 4 groups, 1 device, 2 handlers, 3 calls; 2 clients, 2 changes | a race is between two handlers, and the third call is a deletion or a restart between their statements |
| recording | 3 spots, 3 gestures, 2 recordings | near is not transitive, so chains of three clicks are the first interesting case |

Constants that stand for numbers of the code (retries, failure limit, capacity)
are smaller where the code's number only repeats a case. Every `Max…` constant
is such a bound and is tested in a guard.

## 5. Fairness

* `DeviceFairness`: goroutines of supervisors, gRPC handlers and captures are
  scheduled, and a cancelled capture ends (the code kills its process).
  `ControllerFairness` adds the event loop and admin goroutines. Nothing is
  assumed about cables or callers. The agent and the iOS worker a teardown stops
  are taken to stop; when they do is checked in `Agent` and `IosSession`.
* `BookingFairness`: handlers go on; an RPC need not be answered, its deadline
  ends it. A broadcast need not end.
* `PresenceFairness`: the heartbeat loop reconnects and sends, goroutines of
  calls go on (answered or given up at their deadline), handlers of streams notice
  broken transports, an outage ends.
* `HubFairness`: a cancelled context ends dialling and reading (the code kills the
  server, whose stream then breaks), deferred calls are made, a write to a closed
  connection fails and one to a WebSocket has a deadline. A viewer need not read.
* `CtlFairness`: goroutines go on, strongly for `controlMu`; a write ends once the
  connection is closed, not before: a device may stall.
* `ListFairness`: handlers go on, strongly for the mutex, which Go keeps from
  starving anybody. Clients may do nothing (`stuck`).
* `TrackFairness`: weak for the event loop when it takes an event, none for the
  handler's getting through it, which may wait in `Stop` for ever; strong for the trackers, since they
  compete for room in the channel and Go's channels serve waiting senders in
  order.
* `WorkerFairness`: restart loops, the poll and `Stop` go on. `UserFairness` is
  strong because `sync.RWMutex` serves waiting writers.
* Runner steps are weakly fair: polls and the driver calls of steps have time
  limits. `Terminate(context.Background())` in the clean-up (`runner.go:71`) and
  `EnsureSession` have none; the device is taken to answer them.
* `AgentFairness`: `Run`, `Stop` and commands go on when they can. A write to a
  closed connection ends; one to an open connection ends only if the application
  takes the message, which nothing guarantees, and "adb reverse --remove" need not
  end either.

## 6. Proofs

Checked by TLAPS for all values of the constants that satisfy the modules'
named assumptions. These say little more than that numbers are numbers and
tables have their domains, that the sets of names of different things are
disjoint, that "nothing" is none of them, that scripts have a length and that
finitely many iPhones exist; TLC evaluates them in the runs. The inductive
invariants of the components were checked by TLC before they were proved.

* `SupervisorProofs`.
  * The allocator by itself: `PortSafety`, `MapsStayInverse`. The invariant
    `PortInv` is the types and the inverse maps (both directions; with one
    direction only, `Free` could remove somebody else's entry).
    `SupervisedPortsApart` and `SupervisedPortsNeverOverlap` rest on the lemma that
    what `Supervisor` does to the two maps is a behaviour of the allocator, since
    only a `Run` touches them, with an `Allocate` or a `Free` of its serial. The
    first says for every range that ports collide only between devices whose base
    ports are `Unit - 1` or more apart; the second, that they never do if
    `MaxPort - MinPort < Unit - 1` (999 in the code). The configuration does not
    check the width.
  * With any number of admin connections, handlers and devices:
    `SupervisorTypes`, `SessionsMatchStates`, `ClaimsHaveCaptures`. `SupInv` says
    that a supervisor in the map is of its serial and not cancelled (`Mapped`),
    that a supervisor which is being stopped has left the map (`Controls`), that
    teardown follows a cancel (`Lives`), and that a handler waiting in `Release`
    for a capture has `ds.mu` alone (`Handles`): so nobody moves the state
    between the two halves of `Release`.
  * `StoppedByOne`: whoever takes a supervisor out of the map is the only one to
    stop it (`Moves` says what one step may do to the controllers). From it follows
    `StopHangs`, the reason why `StopFinishes` (section 7) fails in every instance:
    a `Stop` that came before `Run` had stored `ds.cancel` has cancelled nothing, and
    once `Run` has its port nobody will, so the event loop never gets back.
  * `PortsOwned`, `RegistryAgreesWithMap` and `ShutdownIsComplete` hold with any
    number of admin connections, for the serials none of them has reset; for the
    others they are false (section 8). `AdminsReset` says that an admin connection
    only works on a serial in `wasReset`, so that the event loop is alone with all
    the others. `SoloInv` says what its being alone gives:
    a supervisor that has not ended is in the map or is the one the loop waits
    for (`Awaited`), registry and map differ only in the serial of the event at
    hand (`Agrees`), and the serials left for `StopAll` are those that still have
    a supervisor (`Drains`).
* `BookingProofs`. `DBSafety`: on its own the database layer keeps
  `ClaimedHasActiveSession`. Every step of a handler, the
  provider or a heartbeat is a transaction of `CoordinatorDB` or leaves the
  tables alone (a lemma). For that the invariant needs `TargetSet`: a handler past its
  first step has a device, so the transactions it makes later are about a row
  of the table. `BookingTypes` and `BookingClaimed` follow. `GrantsBacked` is
  about runs without faults, which is the hypothesis of `GrantBacked` itself;
  `BackedInv` says that no call outlives the handler that makes it (`InStep`),
  that nothing goes offline (`Healthy`), and of a device nobody without a session
  has released that the one request which has it (`Live`) owns its row, its only
  active session and, between claim and release, the provider (`Orderly`).
* `AutomationProofs`. `SchedulerSafety`: the invariant adds that a task that
  holds its device has it in `activeRuns` (this makes the check in `Acquire`
  enough), that done tasks have results, and that tasks of a batch not called
  are not spawned.
  `OverlapSafety` uses `SchedInv` and `CallInv`: a runner at work has an open
  call, whose task holds the device, or an abandoned one. `ReportsFaithful` and
  `LaunchedStopped` rest on `RunnersInv`: the report has one passed entry for each
  step before the one at hand (`Reported`), and the packages of passed launch
  steps are in the list of the clean-up (`Recorded`). `StepPassed`, `StepGoesOn`
  and `AppsOf` sum up what all the handlers of steps do, so that retries,
  fallbacks and polls are looked at once.
* `AgentProofs`. `PendingSafety` and `ActiveConnSafety`. `PendingAccounted` is
  not inductive: a response to a command nobody has begun to write would go to a channel
  nobody reads. `WrittenFirst` excludes it (what is on the wire was written),
  `EntryFirst` says the entry precedes the write, and `WriterHolds` that the
  writer has `a.mu`, hence a connection. `AgentMutexInUse`: `a.mu` is locked
  exactly while a command is being written. `PanicOnlyAfterStop`: the panic of
  section 8 is confined to handlers that outlive both `Run` and `Stop`.
  `GesturesKept`, of the recorder, needs
  that the recording under way is the last one started, that a goroutine has
  looked up the session of its gesture or a later one, never an earlier one
  (`GestureInv`), and that no gesture is in a session twice (`OnceInv`).
  `ScriptsFaithful` is about recordings of any length. The two loops of the
  compiler are the recursive functions `Turns` and `StepsOf`; `TurnsDef` and
  `StepsOfDef` justify their definitions from the well-foundedness of the
  naturals, and `CompileFaithful` argues with the least turn at which the steps
  so far do not stand for the events so far (`Least`): a turn that appends
  (`OwnStep`), joins a text (`Joined`), drops a repeated click (`LeftOut`) or adds
  something silent (`SilentTurn`) extends `StandsFor` by one event.
* `StreamProofs`.
  * `HubImplementsFeed` and `HubViewsDecodable`. The invariant says what the cache
    is (`CacheKept`: the frames from the last key frame on; the last key frame is
    carried along as a witness, so that no induction over sequences is needed),
    that no capture has frames before its parameters, that a viewer is given
    nothing before it joins and that one with an empty view watches a capture
    without frames; the last is why the first frame it gets is a key frame.
    `RestartedIsGop` connects the cache with `Feed`'s definition.
  * `HubResourcesOwned`: `Owned` follows the order of the deferred calls, server
    and port before the forwarding, and accounts for what `StartCapture` has set
    up while it has no capture goroutine yet.
  * `CtlTypes`, `ControlInputOrdered`: `Line` says that the messages of a client
    are in ascending order from the wire over the hands of its goroutine and its
    queue to what the reader still holds; `PostLine` that a POST between its two
    messages has `controlMu` and its first message is the last on the wire.
    `ControlMutexInUse`: the lock is with a goroutine that is writing or a POST not
    yet answered; no error path keeps it.
  * `TouchesFaithful`: a goroutine works on its own copy of the gesture and acts
    once (`CarriedOut`), with a size (`Sized`).
* `AccessProofs`. `GroupsSafety` and `GroupsTypes`. `AdminsJoined` is not
  inductive; `JoinedOrJoining` says that an administrator who is not in a group is
  about to join it by the second statement of one of the two handlers, and
  `IdsGenerated` that ids of deleted rows do not come back, but for the one
  `migrate` uses. `ListTypes`: no client is shown a change that was never made.
  `ListsSafety`: `Told` says of every announced change and client that
  the client knows it, or its first list has it, or the handler still owes it, or
  a query for the client failed;
  `Broadcasting` that the mutex belongs to the one handler in the middle of a
  broadcast, so nobody joins between the copying of the table and the last write.
* `IosSessionProofs`. `IosTypes`, `StopLeavesNothing`, `SessionsNotReplaced`.
  `Waits` says that the dependent goroutines exist only between the two waits of
  the goroutine that awaits the tunnel, hence none is started after `Stop` has
  returned; `AgentHolds` that the agent's session dies with it; `Locked` that who
  is between `Lock` and `Unlock` has the mutex and who is about to create a
  session has seen, under it, that there is none. `ClientMutexInUse` is the
  converse: only somebody inside has the mutex, so no failing request leaves it
  locked. `HungForEver` explains run `ios_ensure` for every instance: once a user
  of a client was refused with the mutex held, every other one that needs the
  mutex waits for ever.
* `TrackersProofs`. `TrackTypes`, `NoGhosts`. `NoGhost` speaks of a device without
  events under way, so the invariant has to say what the events will do:
  `Accounted` states of every serial that its tracker knows it, its removal was
  lost, its tracker has still to announce the removal, or the channel holds a
  Disconnected event with no Connected event behind it (or the registry does not
  have it and no Connected event will add it); `AdbAgrees` and `IosAgrees` that
  what a tracker is about to emit fits its snapshot. `PathImplementsPresence`: with the
  devices the event loop has announced for what is plugged in, the path is a
  behaviour of `Presence`; that it is one of `Trackers` is a lemma, from which
  `PathNoGhosts` follows. `PathRowsBacked`: a heartbeat speaks only of
  devices that have a row, and rows exist only under a provider that has one (the
  list is extended after the row was written, and rows are never deleted).
  `PathListFollows`: `ListFollowsRegistry` says nothing while calls are under way,
  so `Follows` adds that the last of them, whose number is the highest (`Numbered`:
  an event makes one call), is a register exactly if the device is announced; a
  call whose answer is taken after that of a later one is a `mishap`.
  `PathListNoGhosts` joins it with `NoGhost`, from the cable to the heartbeat.

Only model-checked are the properties under fairness (`AttachedAvailable`,
`AttachedRegistered`, `CancelledRunReturns`, `ChangePushed`, `CommandsReturn`,
`ControlWritersEnd`, `EnsureReturns`, `HandlersReturn`, `StopEndsAll`,
`StopReturns`, `TeardownCompletes`, `WorkerStops`), since the prover has no
`ENABLED`. Every safety property of the runs is proved.

## 7. Where code and words disagree

* `ios_ensure`: `EnsureSession` "is thread-safe" (`wda/session.go:68`), but on a
  404 `Request` locks the mutex its caller holds, and the goroutine waits for
  itself. Run `ios_ensure` shows it.
* `StopFinishes` of `Supervisor`: `DeviceSupervisor.Stop` "waits for it to finish"
  (`device_supervisor.go:154`), but `ds.cancel` is stored only when the `Run`
  goroutine starts. A disconnect before that cancels nothing and the event loop
  waits for ever.
* `OneActiveSession` of `Booking`: a claim is "exclusive"
  (`docs/openapi.yaml:273`), but a row that went offline while claimed can be
  claimed again with the first session still active.
* `DerivedPortsDisjoint` of `PortAllocator`: the derived ports "will never overlap"
  (`ios_worker.go:58`), but in a range a thousand wide they do, and the
  configuration accepts it.

The last three are refuted like the properties of section 8: `StopFinishes` under
`FairSupSpec` with one device, no callers and no admin, `OneActiveSession` with
`MCBooking.cfg`, `DerivedPortsDisjoint` with `MCSupervisor.cfg`.

## 8. Properties the code does not have

These are stated in the modules; add one to the named `.cfg` in place of its
properties to see the trace.

| property | cfg | what happens |
|---|---|---|
| `TornDownInert` | `MCSupervisorCalls` | a handler with an old pointer moves the state machine of a supervisor that is torn down |
| `CaptureHasPort` | `MCSupervisorCalls` | a claim overtakes `Run`: the capture starts with port 0 |
| `PortAlwaysOwned` | `MCSupervisor` | after an admin reset, teardown of the old supervisor frees the port of the new one (it frees by serial) |
| `RegistryAlwaysAgrees` | `MCSupervisor` | a reset works on registry and map in steps of its own: between two events the device may be out of one and still, or again, in the other |
| `ShutdownFreesAllPorts` | `MCSupervisor` | a reset has taken a supervisor out of the map: `StopAll` neither stops it nor waits for it, and its port is still taken when the event loop has exited |
| `PortZeroUnlessClaimed` | `MCBooking` | a device that goes offline keeps its port ("0 if not claimed" says `openapi.yaml`), and a late port may be stored after a release |
| `ReleaseReachesProvider` | `MCBooking` | the release RPC is lost and nobody retries it |
| `HandlersAnswer` | `MCBooking` | claim and release end with a broadcast to WebSockets without a deadline; the response leaves after it |
| `PlugAppears`, `UnplugDisappears` | `Presence` (below) | register and release overtake each other; a ping with an old list revives a device that has left |
| `ProviderRegistered` | `Presence` (below) | a provider that starts during an outage opens its heartbeat stream without ever getting a row |
| `StaleStreamHarmless` | `Presence` (below) | the end of a stream that a newer one has replaced changes devices (`grpc.go:130`) |
| `NoGhostAtAll` | `MCTrackers` | a dropped removal (`tracker.go:353`) or an eviction while offline (`tracker.go:305`) leaves a device registered |
| `AttachedAlwaysRegistered` | `MCTrackers` | the event loop hangs in the `Stop` of a device (theorem `StopHangs`) or in an adb call, and no later event is handled |
| `AllAppsStopped` | `MCAutomation` | an application launched in a block of an `if`, or by a launch that reported a failure, is not among those the clean-up stops |
| `OneRunPerDevice` | `MCAutomation` | `RunParallel` promises "only one task runs per device serial at a time" (`scheduler.go:41`), but a cancelled request frees the device while the provider's runner is still at work |
| `NoPublishAfterStop` | `MCAgent` | a handler outlives `Run` and sends on the closed `StateUpdates`, which panics |
| `StopAlwaysReturns` | `MCAgent` | an application that does not read holds up a write that has no deadline; `a.mu` stays locked, and `Run` needs it to close the connection (`agent.go:119, 299, 440`) |
| `TunnelRemoved` | `MCAgent` | a slow deployment sets up the tunnel after it was removed |
| `RecordedInOrder` | `MCRecording` | a click waits for its dump, a later text does not |
| `NoForeignGesture` | `MCRecording` | a slow goroutine records its gesture in the next recording |
| `ForwardHeld` | `MCStream` | a stopped capture removes the port forwarding (by serial and port) that the next one has set up |
| `SocketsEnd` | `MCStream` | the handler of a WebSocket waits in `ReadMessage`, which the end of the capture does not end |
| `NoSilentGap` | `MCStream` | a viewer whose channel was full gets a delta without its predecessor, and no key frame is asked for |
| `KeysReleased` | `MCStream` | the queue takes the press of a key and drops its release |
| `GestureOwn` | `MCStream` | two clients share the start point of a capture: a gesture begins where the other went down |
| `GesturesInOrder` | `MCStream` | the goroutines of two gestures overtake each other |
| `SizeCurrent` | `MCStream` | the size of the window is asked for once; after a rotation touches are scaled by the old one |
| `AdminsInAll` | `MCAccess` | the pairs of `excused`: see section 2 |
| `DevicesPlaced` | `MCAccess` | a public group is deleted, or made by two handlers at once: a registered device is in no group until a restart |
| `NeverLockedOut` | `MCAccess` | the last administrator may be deleted, or registered again as a user, while users exist |
| `PushAlways` | `MCAccess` | a client that neither reads nor closes blocks a write that has no deadline, and with it all broadcasts |
| `EveryChangeTold` | `MCAccess` | heartbeats (`grpc.go:179`), claims that fail and their rollback (`http.go:221-250`) change the table and announce nothing |
| `ShownIsSeen` | `MCAccess` | the first list, read before a change, is written after the broadcast about it and hides the change |
| `OneWriter` | `MCAccess` | the first list and a broadcast are written at the same time, which the library forbids |

Those of `Presence` are refuted under `FairPresenceSpec`, one
serial, `MaxEvent = 4`, `MaxStream = 3` and `MaxOutage = 1`.

Smaller observations: the handlers that change memberships send no list to the
clients, which see the change with the next broadcast; asserts nested in an `if` block *are* retried
(`runner.go:52`); `handleClickWithTarget` skips its five-second limit while
`DumpUI` fails (`runner_handlers.go:57`); a wait for "hidden" with a target
passes when the dump fails; a 404 to a request with an old session id clears the
id of a newer session (`wda/client.go:83`); the handler of a stream's WebSocket and
its `DUMP_UI` goroutine call `WriteJSON` while the frame writer may be writing to
the same connection, and the library allows one writer at a time; `readAndMux`
takes `controlMu` to store the dimensions it finds in a key frame
(`stream.go:414`), so a stalled control write also stops the video.

## 9. What is left out

* Inside modelled components: telemetry and the supervisor's bounded event
  channel, the WDA clean-up goroutines of the supervisor, the exit of the
  provider on a tracker error, shutdown of the trackers. `ClaimDevice`'s second
  look at the port is in `Booking` only. Two equal notifications under way count
  as one. Polling turns that decide nothing are not steps. All elements a script
  looks for are one element, taps have no effect, and element matching is the
  locators' matter. The three messages of a touch are one gesture, and a device
  has one recording client. The agent's events are either state events or
  nothing; the automatic launch of an installed package is left out.
* In the stream manager: the lock of `controlMu` in `readAndMux` and the `WriteJSON`
  answers on a WebSocket (both in section 8), the byte formats of frames and control messages,
  `upload.go`, and the recorder's hooks in `ws.go` (they are in `Recording`). In
  `Groups`: signatures, OIDC keys, the development bypass, and
  `UpdateUserRole`, which nothing calls. Scripts and reports, each stored by single
  statements nothing else depends on, are left out of the database.
* Not modelled: configuration, logging, platform set-up, generated protocol code,
  the web frontend (a copy of what the API returns), the locators' scoring, and
  the parsing of device properties (`adb/properties.go`): pure code or pure I/O
  whose results the models take as found or not found.

## 10. Plan

The order was: ports and supervision, booking with its database, presence,
automation on the scheduler, trackers, iOS, agent, recording, then streams,
groups and device lists, and the path of a device that joins trackers and
presence. Each was first checked, then proved where section 6 says so. All
safety properties of the runs are proved, and two refutations that are about
waiting for ever (`StopFinishes`, `EnsureReturns`) are explained by theorems. Next
are the types of `Recording` and of the rest of the runner's state, and the
remaining safety steps on which the liveness arguments rest (a teardown under way
stays under way until it ends, a handler never goes back).
