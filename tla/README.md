# Lab Station: verification project

TLA+ models, TLC runs and TLAPS proofs for Lab Station: the software of one
remote laboratory PC. This file is the inventory of the system, the plan of the
project, and the explanation of what is modelled, checked and proved.

Paths are relative to the repository root. `engine.py`, `main.py` and
`fmu_storage.py` are in `fmu-executor/app/`; `CommandQueue.ahk` and its
neighbours in `labstation/service/`.

## 1. The system

A lab PC runs three programs that share files and processes:

* the **FMU executor** (`fmu-executor/`, Python, FastAPI): a sidecar that runs
  FMU simulations one-shot, streamed, or in real time over a websocket;
* the **Lab Station service** (`labstation/`, AutoHotkey): one thread that
  executes queued commands, supervises the sidecar and publishes a heartbeat;
* the **controller** (`remote-app/`, AutoHotkey): runs in the RemoteApp session,
  starts the lab application and closes it when the session ends.

### 1.1 Inventory

| component | source | state it keeps | operations | what is hard |
|---|---|---|---|---|
| session registry | `engine.py`, `main.py` | `_sessions`; of each session `_terminated`, `_attached`, `_attach_deadline`, `expires_at`, `_attachment_owner`; of each websocket its session and tasks | create, attach, terminate, detach, expire, sweep, reserve and release a slot | every handler awaits; a second connection may attach before the loss of the first is noticed; deadlines race cleanups |
| realtime simulation | `engine.py`, `main.py` | `_slave`, `_initialised`, `_state`, `_time`; one runner task per connection | initialize, start, pause, resume, step, runUntil, reset | two runners on one session; commands that wait for a runner; failures half-way |
| output subscription | `engine.py`, `main.py` | `subscription`, `_pending_samples`, `seq`; one emitter task per connection | subscribe, unsubscribe, sample, emit | two emitters on one subscription; two bounds that drop; a slow client |
| process runner | `process_runner.py`, `backends.py` | worker process, result queue, deadline | run, stream, kill | exit of the worker against its result; time-out against a late answer |
| FMU storage | `fmu_storage.py` | files, quarantine directory, reason files, index in memory | look up, quarantine, release | no transaction over three places; process death; failing moves |
| command queue | `CommandQueue.ahk` | inbox, results and processed directories | poll, parse, dispatch, answer, archive | crash between two steps; a command that shuts the host down |
| supervisor | `FmuExecutor.ahk` | of each process: `_pid`, `_consecutiveFailures`, `_lastHealthCheck` | start, stop, restart, health check, tick | each process knows its own child only; pid reuse, a kill that fails; checks that others consume |
| service loop | `LabStation.ahk` | last heartbeat | poll, supervise, publish | one thread for everything |
| session life cycle | `SessionManager.ahk`, `SessionGuard.ahk` | Windows sessions, working directories | prepare, release, guard | users who come back during the grace period |
| close handshake | `SessionManager.ahk`, `remote-app/lib/CloseRequest.ahk` | presence, request and result files | ask to close, answer | two processes and three files without locks |
| controller | `remote-app/` | windows and processes of the lab application | start, place, watch, close | events of the Windows session during a close |
| recovery, state, telemetry | `Recovery.ahk`, `ServiceState.ahk`, `Telemetry.ahk` | `service-state.ini` and published JSON | record, recover, publish | state written key by key |
| status, energy audit | `Status.ahk`, `EnergyAudit.ahk` | none | collect, judge | long decision rules |
| host configuration | `labstation/system/` | the host's own | power, wake, accounts, WinRM, registry, tasks | partial configuration |
| user interface, setup, connectors | `labstation/ui`, `setup`, `connectors` | none that outlives a dialog | | |

### 1.2 How they interact

* Gateway to service: command files in the inbox, result files back
  (`docs/command-queue.md`); service to host: `shutdown.exe`, scheduled tasks.
* Gateway to executor: HTTP requests and a websocket per client connection. All
  of them run in one asyncio thread; workers run in processes of their own, a
  streamed response's generator runs in a thread pool.
* Service to executor: process start and kill, `GET /health`. A health request
  is not read-only: it sweeps the session registry.
* Service to controller: the files of the close handshake.

`PROJECT.json` lists what can go wrong and a test would hardly reach
("hazards"), each at its line with the properties that cover it.

## 2. Modules

| module | what it is |
|---|---|
| `FmuRegistry` | the session registry and the connections that hold its sessions |
| `SessionLease` | what the registry promises: an abstract lease |
| `FmuRegistryProofs` | inductive invariant of the registry, its step properties and the refinement |
| `FmuRealtime` | `FmuRegistry` composed with the simulation and the runner tasks |
| `FmuRealtimeProofs` | refinement of the registry, and inductive invariant of the simulation |
| `FmuStorage` | quarantine and release, one file operation at a time |
| `FmuStorageProofs` | inductive invariant of the storage and its consequences |
| `CommandQueue` | one command file at a time, on disk and in the service |
| `CommandQueueProofs` | inductive invariant of the queue and its consequences |
| `FmuOutput` | the output subscription of a session and its emitter tasks |
| `FmuOutputProofs` | inductive invariant of the subscription and its consequences |
| `FmuSupervisor` | the sidecar, the service loop and the command lines that start and stop it |
| `FmuSupervisorProofs` | inductive invariant of the sidecars and their agents |
| `CloseHandshake` | the file handshake between the service and the controllers |
| `CloseHandshakeProofs` | inductive invariant of the handshake and its step properties |
| `ProcessRunner` | one one-shot or streamed run in its worker process |
| `ProcessRunnerProofs` | inductive invariants of a run and their consequences |
| `MC...` | model values and symmetry for TLC, where a run needs them |

Operators marked "Faulty variant" are not part of a specification. Each is a
plausible mistake in the operator that follows it, kept to show that a property
can fail (`PROJECT.json`, "mutants").

### 2.1 FmuRegistry

A step is what the event loop runs between two awaits. `ws_sessions` is the
record `conns[c]`: `state` says at which await the coroutine is, `session` is
its local variable, `expiry` the session its expiry task sleeps for. A session
object stays in `sess` when it leaves `registry`, because connections go on
referring to it: this is how `Revive` (`initialize()` clears `_terminated`) and
`Collect` (`__del__`) come about.

Deadlines are counted down: `ttl` and `grace` hold the time that is left,
`Tick` lowers both, 0 is "passed" and -1 is "none". `expires_at <= now` becomes
`ttl = 0`. The same handler may run before or after any tick, so every order of
a deadline and a handler is there.

One-shot and streamed runs take a *slot*: a registry entry that is no session.
`work` is what the run itself does, whatever became of the slot.

A gateway context that does not match is a request that changes nothing, and is
not an action.

### 2.2 SessionLease

A session is opened once, held by one connection, taken over by live
connections, dropped into its grace period only when the holder's link is down,
and gone for good. `FmuRegistry!ImplementsLease` is the refinement: `LeaseOf`
maps registry, `_attached` and `_attach_deadline` to the lease, `_attachment_owner`
to the holder, and "open or terminating" to a live link.

### 2.3 FmuRealtime

Extends `FmuRegistry` with the FMU instance (`_slave`: none, left half-way by a
failing `initialize`, or ready), `_state`, `_initialised`, the time in steps,
the await of each runner task and the command that waits for a cancelled runner.
The registry's own actions are reused, with `AfterEnds` for what `terminate()`
does to the instance. The property `ImplementsRegistry` states that the
composition is a refinement of `FmuRegistry`: what is proved about the registry
holds for the composition.

A runner is asleep or not yet begun (`due`), in the send after a step (`sent`), or in
the send that reports its end (`stopping`, `failing`). A report of the stop that
raises makes the session's state `error`, as a step that raises does.

`held` is a history variable: the session was paused, and has not been resumed, reset,
initialized or stepped by hand since. The code has no such thing, only `_state`, which
the runner of another connection may change meanwhile: its send returns at the stop
time, or raises, and the session is `stopped` or in `error`. From there, and not from
`paused`, a `sim.step` may move it. `PauseIsKept` says that, a reset or a new
`initialize` apart, nothing else moves the time of a held session.

`EndTerminate`, the continuation of `session.terminate` after its runner, may
come later here than in the code when there is no runner to wait for. That adds
behaviours and removes none.

### 2.4 FmuStorage

No handler of the storage awaits, so the process runs one at a time, but it may
die between any two file operations (`Restart`), and the operator provisions
files between any two (`Provision`). A file operation that fails ends its handler. A
move that fails may have copied the file (`shutil.move` across volumes, or a file in
use), a reason file that cannot be written may have been created (`NoteFails`), and
one that cannot be deleted stays after its FMU is back (`RemoveNoteFails`). Reading whether the target
exists and the move that follows are one step. A key stands for one file or a
directory with one FMU; two spellings of one path are not modelled.

### 2.5 CommandQueue

`stage` is how far `HandleFile` has come with the file in hand: `parsed`,
`running` (the command acts on the station), `ran`, `answered`. `Crash` may come
at each; so may `HostDown` once a power command has scheduled the shutdown.
Failures of file operations: the file cannot be read and counts as an empty one
(`read`), the result cannot be written, the file cannot be moved or deleted.
`IdOf` and `NameOf` are the sanitized ids by content and by file name.
The gateway is assumed to drop complete files, as `docs/command-queue.md:14` asks.
`faults`, `downs`, `runs`, `submitted` and `unread` are history variables.

### 2.6 CloseHandshake

`SessionManager.ahk` and the controller share a directory with three files:
`presence` names the controller that runs, `request` the call that wants it
closed, `result` the answer. No file is locked, and both ends delete the other's.

A *call* is one run of `CloseControllerProcesses`. Two can overlap, because a
command line started over WinRM runs beside the service loop. A call's `pc` names
what it does next, one file operation or look at a process each; deletions in a
row are one step. Its token is the call itself (a tick, the time and a random
number in the code), and `tick` the part of it that the controller compares.
The time-out is a choice: closing an application may take longer than the call
waits.

A *controller* is one `AppControl` process: it takes its start tick, writes the
marker, brings the application up, and then polls for a request. `token` stands
for `CONTROLLER_CLOSE_REQUEST_LAST_TOKEN` and for
`CONTROLLER_CLOSE_REQUEST_HANDLED`, which is set with it and never reset: a
controller answers one request in its life. The end of the Windows session
interrupts what it does and does not return, so that closing what can be closed is
one step with the decision to exit (`SessionEnds`).

To exit, a controller reads the marker and, if it finds its own token (`ReadsOwn`),
deletes the file by name (`CloseRequest.ahk:28-30`): two file operations. It is
`clearing` between them, when the next controller may register and the delete takes
the marker of that one (`DeleteMarker`). The read is one step with what comes before
it, which only closes the controller's own window or deletes its request, and the
delete is one with the end of the process. `saw` is the token that was read.

`Reboot` ends every process, keeps the files and restarts `A_TickCount`. `Fault`
is a file operation that fails, a process that is killed or a reboot. `boot`, `shared`,
`known`, `here` and `faults` are history variables.

Four things the model leaves out, or takes as the code means them:

* Process ids are never used twice, so a marker is stale when its process is gone.
* In dual mode the answer is that of the container's own window
  (`WindowClosing.ahk:156`); the applications embedded in it are not modelled.
* `ControllerWriteAtomic` and `WriteControllerHandshake` delete a temporary file
  before they write it. `FileDelete` may raise when there is no such file, and
  each would then report a failure; the model follows the intent and treats
  failing to write as a fault.
* The polling of session events, which replaces notifications when Windows
  refuses them, is `SessionEnds` like the notifications.

### 2.7 ProcessRunner

One call of `process_runner.run` or `stream`, from `main.py` and back; `mode`
says which. Runs share nothing but the slots of the registry, so that one run
is enough. The slot itself is in `FmuRegistry`: the sweep may take it while the run
goes on, and this module says nothing of it.

The *worker* (`_execute_worker`) is `loading`, `running`, `cleaning` (its
`finally`), `exiting` or `dead`. It may raise at any step, crash at any time, or
hang: nothing makes it go on. A message it puts is in `buffer` until the queue's
feeder thread has sent it to the `pipe`; `maxsize` bounds both together, a process
exits only when its buffer is empty, and a crash or `terminate()` loses the
buffer and keeps the pipe.

The *caller* is the thread that runs `run()` or the stream's generator. `get`
with a time-out, the look at `is_alive()` and the look at the deadline are three
steps (`reading`, `checking`, `loop`). At a `yield` the generator is suspended
until the client wants more (`Resume`) or its response is dropped (`Drop`). How
long anything takes is left open: the deadline may pass at any time.

`get` that finds the queue empty and `is_alive()` that finds the process gone are
two steps of the code, so a worker can answer and exit between them. The call
then reports an exit without a result for a run that had one. The window is that of
one statement. `run()` marks the report as retryable, `stream()` does not
(`process_runner.py:179-183`). `AnswersAreTrue` says of that report only that the
worker is gone, which holds; that there was no result is not claimed.

The in-process mode, "diagnostics" in the README of the executor, is not modelled.

### 2.8 FmuOutput

One realtime session, its `subscription` and the emitter task of each connection.
Only numbers of samples matter: `samples` is the length of `_pending_samples`, `sub`
holds `max_batch_size`, `rate_dropped` and whether `min_interval` is still running
(`quiet`). `_pending_queue_drops` is never written but to reset it, and is left out.
`seq` starts at 1 where the code starts at 0, so that `told[c] = 0` can mean "none
yet". A number is given and its message handed to the websocket in one step of the
event loop, so that `told` is in the order of the messages.

`Sample` and `Emit` are the two ends of `sample_subscription`. After an event the
emitter awaits its send (`sending`), and a client that does not read keeps it there
while the other connection's emitter goes on sampling. `Initialize` stands for
`initialize()` and `reset()`, which may fail and leave the subscription alone. The
expiry of the session, its removal by the sweep and its termination are all
`SessionEnds`: how a session ends is the registry's business, and the wait for the
runner before it ends is that of `FmuRealtime`. A new subscription sends its first
sample at once because `last_emit_monotonic` is 0, unless the host has been up for
less than the interval: `Subscribe` leaves it open.

What the properties show of the numbers in an event, and what its reader may not
expect, as both bounds count:

* A sample that the rate limit withholds counts as dropped even when the batch
  delivers it: 3 samples per interval and a batch of 64 give `batchSize` 3,
  `dropped` 2 from an event that lost nothing.
* A withheld sample that the batch cannot hold counts twice: a period of 1000 ms
  (101 samples, polled every 10 ms) with a batch of 64 reports 137 dropped, of 101.
* Samples pending when a client subscribes anew are part of the next batch
  although the new subscription may want other variables (`kept`).

`tests/test_executor.py:979` asks for a "correct 'dropped' count" and nothing says
which one that is, so that the model records what the code counts.

`EmitterFails` ends the task of one connection silently: a send that raises, or a list
of names that cannot be made a set (`engine.py:260`). A variable that cannot be read
is only left out of the sample (`engine.py:404-413`). Only the next `session.create` or `session.attach`
starts it again, so a subscription that is acknowledged meanwhile sends nothing.
No document promises delivery, and there is no liveness property.

### 2.9 FmuSupervisor

Every Lab Station process has an `LS_FmuExecutor` of its own. An *agent* is such a
process: the service, which runs the loop of `LS_ServiceLoop`, or another one, a
command line or the connectors panel, which begins, starts, stops or restarts a
sidecar, and ends. `pid[a]` is what agent `a` knows of the sidecars, the child it
has launched itself, and it goes with the process. `proc[p]` is what runs under a
process id: a sidecar that is `starting`, `up` (it has the port) or `hung` (it has
it and does not answer), or some `other` program that was given the id of a dead
one. The health check asks whoever has the port, and the look at the process
(`Running`) whoever has the id.

The service's `pc` follows the loop: the status once a minute (`collect`), the
queue (`queue`), the tick (`tick`). `Restart` stops, sleeps a second and starts, so
it is two steps (`queuePause`, `tickPause`). `_lastHealthCheck` is the flag `due`: a
health interval has passed since, or there was none. The summary that the status
takes (`GetHealthSummary`) does the check that is due, and so do commands that
collect the status (`QueueStatus`); only `TickChecks` acts on the count.

Faults are what goes wrong outside: a launch that is refused, a `taskkill` that
fails, a look at a process that fails, a check that fails although the port is
served, a foreign process that gets a known id, and an agent that ends with its
child alive. `orphaned` counts those that leave a sidecar behind that no agent
knows. Hanging and dying are no faults and have no bound.

What follows from the code and is no property of a run:

* `fmu-executor stop` and `restart` on a command line find `_pid = 0`. `Stop`
  returns success and does nothing (`FmuExecutor.ahk:110`), while `README.md:113`
  says that the command controls the sidecar; `restart` adds a second sidecar, which
  ends when it cannot bind the port. For the same reason a `prepare-session` or
  `release-session` on a command line ends no FMU session and reports success.
* `LS_FmuExecutor.Stop()` after the loop (`LabStation.ahk:586`) is not an action:
  the process leaves through `OnExit`, which sets the flag of the loop and lets the
  process end. `Ends` leaves the sidecar alive, or, for a scheduled task that is
  ended with its children, takes it along.
* An orphan that hangs keeps the port for good. Each tick finds a dead child and
  launches another, and the check never comes to a kill.

## 3. Runs

| run | what it checks | bounds | states |
|---|---|---|---|
| `fmu_registry` | capacity, ownership, why sessions go, the lease; detached and expired sessions are reclaimed | 2 sessions, 1 slot, 2 connections, grace 1, lifetime 2 | 43,000 |
| `fmu_registry_capacity` | *violated*: concurrent executions within capacity | 2 sessions, 1 slot | |
| `fmu_realtime` | instance, state, clock, runners, pauses; refinement of the registry | 1 session, 2 connections, stop at 2, time to 3 | 74,000 |
| `fmu_realtime_release` | *violated*: instances are freed | as above | |
| `fmu_storage` | quarantine holds, no copy lost, what is restored is available | 2 keys, 3 copies, 2 faults | 20,000 |
| `fmu_storage_release` | *violated*: a release is effective | 1 fault | |
| `command_queue` | nothing lost, repeats explained, results earned, progress | 3 files, 2 result names, 1 fault and 1 shutdown per file | 86,000 |
| `close_handshake` | a reported close is earned and means the application is gone; which requests and markers count | 2 calls, 2 controllers, 1 tick, 1 fault or reboot | 2,554,000 |
| `process_runner` | what the client is told, that a call ends, and not before its worker is told to | 3 steps, a queue of 2 | 5,000 |
| `process_runner_deadline` | *violated*: the deadline ends the worker | as above, no reading client assumed | |
| `fmu_output` | one order of sequence numbers; what an event leaves out | 2 connections, batches of 1 or 3, 3 events, 3 samples between two | 1,303,000 |
| `fmu_supervisor` | when the tick kills, what leaves orphans, the port is served | 3 process ids, 1 other agent, 3 failures, 2 faults | 113,000 |

Why the bounds are enough to be of use:

* Registry: two sessions over one slot let one be removed while the slot is
  reused and an old connection still refers to it; two connections are what a
  take-over needs. A lifetime of two ticks and a grace of one let an expiry and a
  grace period end in either order. The properties speak of one session and of
  the connections that refer to it, and the proofs cover every size. There is no
  symmetry reduction, which TLC's liveness check excludes.
* Realtime: one session with two connections gives two runners on one
  simulation; stop time 2 with a bound of 3 lets commands run past the stop.
* Storage: two keys show that keys do not disturb each other, three copies
  give a quarantined file, a new one under its key and one elsewhere; two faults
  let a failing move and a death of the process meet.
* Queue: two files with the same result name, one of them malformed, one power
  command; one fault per file at every step of its handling.
* Handshake: two calls and two controllers are what it takes for an answer to
  meet the wrong call, a request the wrong controller, or a marker the wrong
  owner. One tick separates a request from a later launch, and one reboot sets
  the tick back. A reboot counts as a fault here, and one fault is every single failure
  or reboot at every step. The proofs cover several.
* Process runner: three steps and a queue of two let the worker wait for room
  with messages in the buffer, in the pipe and with the client at once. One-shot
  runs use the queue of one that the code gives them.
* Output: two connections give two emitters and every hand-over between them;
  three samples between two events overflow a batch of 1 by two and fill one of 3;
  three numbers give an order to two connections and a new subscription.
* Supervisor: three ids give the service's sidecar, another agent's and an orphan at
  a time, or one of them and a foreign process; `MaxFailures` is the code's own 3.
  Two faults let a failing kill meet a failing look or a reused id. With a fourth
  id the run has 320,000 states and passes too.

Deadlock is checked in every run but those of the handshake, where each call is
made once and each controller launched once, and of the process runner, which is
one call: there everything ends; and of the output subscription, where the session
may end and every connection be lost.

### 3.1 Fairness

* Registry: weak fairness of the sweep, of the clock and of the continuations
  of handlers (expiry task, cleanup, termination). The event loop runs every
  task that is due, and the sweep is due every second. Connecting, attaching,
  disconnecting and ending runs is left to the clients: the liveness properties
  hold without their help.
* Process runner: weak fairness of the call's thread and of the clock (`Spec`).
  The worker owes nothing: it may hang at every step. `FairSpec` adds a client
  that goes on reading or leaves, which is what `CallEnds` needs;
  `process_runner_deadline` leaves it out.
* Output: none; its properties are about safety.
* Supervisor: weak fairness of the service's own step, for the loop never stops.
  Strong fairness of `QueueDone`: an inbox that is filled again and again is emptied
  now and then. Strong fairness of `Boot(p)`: of the sidecars that are launched again
  and again under an id, one gets as far as its port before it is killed. Strong
  fairness of an interval that ends just before the tick: the status takes the due
  check once a minute and the interval is 30 seconds, so that every other one is left
  for the tick, as long as no `status-json` comes in each of them. That is assumed, not shown, and `PortIsServed`
  fails without this last one, which is what it shows of a station that is polled
  too eagerly: its hung sidecar is never restarted. Launches that are refused (no token,
  no firewall rule) are faults, of which there are finitely many: a station that may
  never launch a sidecar serves no port.
* Handshake: none. A call ends by its own deadline, which says little more than
  that the code has one; its properties are about safety.
* Queue: weak fairness of the service's own step while the process lives, and
  dispatched commands return. Nobody owes a start, a command or the absence of
  faults; `CommandsAreHandled` therefore promises that a command leaves the
  inbox or the service goes down.

### 3.2 What the violated runs show

* `ExecutionsWithinCapacity`: `cleanup_expired_sessions` removes entries that are
  not attached and not attachable. A slot of a one-shot run is such an entry from
  its creation on, so the next sweep frees it while the run goes on, and more FMUs
  run than `FMU_MAX_SESSIONS`, "Effective max concurrent FMU executions".
* `InstancesAreFreed`: `initialize()` stores the instance before it is set up. When
  the set-up raises, the next attempt overwrites it; when the session is already
  terminated, nothing releases it.
* `ReleaseIsEffective`: a quarantine whose reason file was created and not written, or
  whose move failed, leaves a reason file without its FMU, and so does a release that
  could not delete it; a release that finds no FMU in the quarantine directory leaves
  it there, and the next look-up reads it again.
* `DeadlineHolds`: `stream()` compares the time with the deadline between two
  messages, and is suspended at a `yield` in between. A client that stops reading
  without leaving keeps the worker beyond the deadline. The property holds under `FairSpec`, with a client that reads on.

Known, and no run of its own; the models have each of these:

* Queue: a result that cannot be written is only logged and its command archived all
  the same (`CommandQueue.ahk:221`), so that the "source of truth" of
  `docs/command-queue.md:87` may be missing; and a shutdown that comes before its own
  command is archived runs again at the next boot, which `RepeatsAreExplained` counts
  (`downs`).
* Realtime: a reset cancels the runner of its own connection only. The runner of
  another one, asleep, finds the session `running` again after a single `sim.step`
  (`engine.py:162`) and goes on stepping it, which nobody asked for since
  (`fmu-executor/README.md:206-207`). And a start whose connection still has a runner
  in its last send starts no other (`_start_runner`): the session is `running` and
  nobody steps it.
* Handshake: a controller that exits, or a call that judged the marker of a dead one,
  may delete the marker that the next controller has registered in between. That one
  runs on without a marker, and a call that looks for it fails.
* Process runner: a worker that answers and exits between the look at the queue and
  the look at the process is reported as one that exited without a result.

## 4. Proofs

For every set of sessions and connections and every capacity, from
`RegistryAssumption` alone (finite sessions; the null values are no members):

* `RegistryInvariant`: the inductive invariant `RegistryInv` of
  `FmuRegistryProofs`. `RegistryWithinCapacity` and `AttachedHasLiveOwner` are
  not inductive by themselves. What is added: only realtime sessions are ever
  attached or have an owner, an owner refers back to its session and its
  coroutine has not ended, a terminated session is detached, an unborn one is
  not registered, and the registry is finite.
* `TypeCorrect`, `CapacityRespected`, `AttachmentsAreOwned` follow from it.
* `OnlyTheOwnerDetaches`, `NoSessionIsLost`: action properties, by the *fate*
  of each session in a step: `SessionFate` says that a step leaves a session
  alone, opens it, gives it to a connection, drops it, or closes it, and why.
  Each action is shown to give each session one of these fates once; both
  theorems and the refinement read them off.
* `ImplementsTheLease`: `Spec => Lease!Spec`, the registry refines `SessionLease`.

For any stop time and clock limit as well, from `RealtimeAssumption` and
`RegistryAssumption` (`FmuRealtimeProofs`):

* `ImplementsTheRegistry`: `RealtimeSpec => Spec`. Most actions are the
  registry's own; what the proof has to show is that an `initialize` which goes
  on after its session has ended is a `Revive` of a session that some connection
  still has, or that the registry does not see it. `PendingInv` says so of each
  command that waits for a runner: it has its connection, and its session unless
  the expiry task has taken it away.
* `RealtimeKeepsTheLease` combines it with `ImplementsTheLease`.
* `RealtimeTypeCorrect`, `InstanceIsUsable`, `StopsAtStopTime`, `RunnersAreHeld`:
  `RealtimeInv` joins the registry's invariant, what is true of one simulation
  (`SimInv`), of its runners and of the commands that wait. None of the parts is
  inductive without the others: an ended session has no instance because the
  registry's `terminated` is set with its release, and a stop is at the stop time
  although the runner decides on it after its send.
* What a step does to a simulation is said once for each action (`StepOutcome`), as
  one of five fates: `Kept`, `Lost`, `Fresh`, `Altered`, `Moved`.
* `PausesAreKept` reads `PauseIsKept` off these fates. `Quiet`, a part of `SimInv`, says
  that a held session is `paused`, `stopped` or in `error`, so that no runner wants it.

For any files, result names and number of disturbances, from the assumption of
`CommandQueue` alone (`CommandQueueProofs`):

* `QueueTypeCorrect`, `CommandsAreNotLost`, `RepeatsHaveACause`, `ResultsAreTrue`.
  The invariant `QueueInv` says how far the file in hand has come and what must
  be true by then (`HandInv`, `ProgressInv`). `RepeatsAreExplained` alone is not
  inductive: a run raises the left side long before a crash or a failed archive
  raises the right one. `BudgetInv` adds that a file which waits in the inbox is
  one run short of its budget, so that it can be dispatched once more.

For any keys and copies, from the assumption of `FmuStorage` alone
(`FmuStorageProofs`):

* `StorageTypeCorrect`, `QuarantineIsKept`, `FilesAreKept`, `RestoringWorks`. The
  invariant `StorageInv` ties what was acknowledged to a reason file on disk or to the
  index in memory, also while a release is under way (`RecordInv`), and says
  what a release that has moved its file has still to do (`ReleaseInv`).

For any calls, controllers, ticks, reboots and number of faults, from
`HandshakeAssumption` alone (`CloseHandshakeProofs`):

* `SuccessHasCause`: an answer is read long after it was written, over files that
  every call and controller may delete or replace. `EarnedInv` says of an answer
  in the file, in the hands of a call, and reported, that a controller took that
  request and has closed its window for good.
* `SuccessIsComplete`: the call looks at one marker while controllers come and go.
  `SharedInv` says that two controllers that run at a time have shared the
  marker, and that a request is taken by a controller the call found, or by
  one that shared with it.
* `OldRequestsAreLeft`: the controller compares ticks only. `ClockInv` says that
  within one boot a controller the call did not know was launched at its tick or
  later.
* `MarkerStays`: nobody who looks after a controller has registered deletes its
  marker. `EarnedInv` says of a controller that is about to delete the file that it
  has read its own token there. A read before the replacement, or one that failed, is
  thus the only way to lose the marker of a controller that runs on (section 3.2).
* `HandshakeTypeCorrect`, from the same invariant `HandshakeInv`.

For any number of steps and any maxsize, from `RunnerAssumption` alone
(`ProcessRunnerProofs`):

* `RunnerTypeCorrect`, `AnswersCorrect`, `CallsOutliveWorkers`. What the client is
  told was true when the worker put it, long before it is read: `MessagesInv`
  says so of every message in buffer and pipe. `StoppedInv` says where the call
  can be while its worker may still compute.
* `StreamsAreInOrder`. `OrderInv` says that what was told, the pipe and the
  buffer, one after the other, are a prefix of the run, and that the end of the
  run, wherever it is, is the last message of all. It only speaks while the
  client may still be told more (`Reading`): a killed worker leaves a gap behind
  the last message.

For any connections, batch limits (with a largest one) and bounds, from
`OutputAssumption` alone (`FmuOutputProofs`):

* `OutputTypeCorrect`, `NumbersGrow`, `SamplesAreAccountedFor`. `NumberInv` says
  that every number told so far has been handed out. `AccountInv` says between
  two events what the properties only say at an event: how many samples wait,
  given how many were kept and taken, and that each other one is in the count of
  the dropped. Before the first sample the kept ones may exceed a new, smaller
  limit.

For any process ids, agents, failure limit and number of faults, from
`SupervisorAssumption` alone (`FmuSupervisorProofs`):

* `SupervisorTypeCorrect`, `KillsAreEarned`, `OrphansAreExplained`. `ProcInv` is
  kept by each way to start, stop and check, and cited by every action that does
  one of these: the service may have forgotten failures of its child but counts
  no others, and no step leaves a second orphan. `PlaceInv` says that an agent
  that pauses in a restart knows no child.

Three more theorems are about violated runs (section 3.2). Each says that the cause
named there is the only one:

* `OnlySweptRunsExceed`: as long as no sweep gives up the slot of a run under way,
  `ExecutionsWithinCapacity` holds. Each run under way then has its slot, so
  that the capacity of the registry bounds the runs.
* `OnlyFailedSetUpsLeak`: as long as no set-up fails, `InstancesAreFreed` holds.
* `ReleasesWorkWithoutFaults`: as long as no move and no operation on a reason file
  fails and the process does not die, `ReleaseIsEffective` holds. `NotesInv` says that
  a reason file then has its FMU beside it or its handler under way.

The first two restrict the steps of a behaviour (`NoRunSwept`, `NoSetUpFails`), the
last its states (`faults = 0`). The model has both kinds: `fmu_registry` has runs
whose slot is not swept before they end, and set-ups and moves may succeed.

Only model-checked is liveness, as fairness and ENABLED are outside what the prover
handles: `DetachedIsReclaimed`, `ExpiredIsReclaimed`, `CommandsAreHandled`,
`CallEnds`, `PortIsServed` and, violated, `DeadlineHolds`. Every other property that
a passing run checks is a theorem.

## 5. Not modelled, and plan

Not modelled are the components with status `not_modelled` in `PROJECT.json`, with
the reason. Inside the modelled ones:

* Session life cycle: the guard that warns and signs out other users, the logging
  off of the lab user and the cleaning of directories are sequences of Windows
  tools without state of their own. Session ids are read before the grace period
  and used after it (`SessionGuard.ahk:51`); whether Windows gives an id to another
  session meanwhile is not in the code.
* `service-state.ini` is written key by key and never cleared (`ServiceState.ahk:56`):
  keys of an earlier record stay when a later one has none, such as
  `rebootRequested`. Nothing decides by it.
* Controller: a controller that failed to close once answers no other request
  (`CloseRequest.ahk:47`); in dual mode an embedded application that survives its own
  close is reported closed (`WindowClosing.ahk:156`); the polling that replaces
  notifications starts from record 0, so that an earlier session's event ends it
  (`RdpMonitoring.ahk:256`).
* Realtime: a session left `running` by a lost websocket has no runner, and the next
  connection has to pause it first (`main.py:671`).
* Storage: one key per FMU. A directory and the file in it are two keys of one FMU;
  a quarantine by one creates the directory that the other would move to.
* Heartbeat: the loop's one thread publishes it between commands, so that a guard that
  sleeps delays it (`LabStation.ahk:566`); the models have no clock for that.

The order of the work:

1. `FmuRegistry`, `SessionLease` and their proofs: done.
2. `CommandQueue` and its proofs: done.
3. `FmuStorage` and its proofs: done.
4. `FmuOutput`, `FmuRealtime` and their proofs: done.
5. `CloseHandshake` and its proofs: done.
6. `FmuSupervisor` with the service loop, and its proofs: done.
7. `ProcessRunner` and its proofs: done.
