# Models and proofs of the WPEFramework runtime

The repository is training and porting material around WPEFramework, the plugin
server that later became Thunder. It holds several copies of that framework, with
patches, documents and build recipes. The complete copy is
`src/projects/WPEFramework/ocdm02/WPEFramework/Source`; every path below is
relative to it, except those of the plugins (`OpenCDMi/`, `TraceControl/`), which are
in `src/projects/WPEFramework/ocdm02/WPEFrameworkPlugins`. This directory models its
concurrent core: what threads, queues, pools, timers and calls between processes do to each other.

## 1. Inventory

### The parts, their state and their operations

| Part | State | Operations | Works with |
|---|---|---|---|
| State trigger `core/StateTrigger.h` | value, `m_InterestCount`, event, lock | `SetState`, `WaitState`, `WaitStateClear` | Event and CriticalSection of `core/Sync.cpp`; used by Queue and Thread |
| Queue `core/Queue.h` | list, published level, lock | `Insert`, `Post`, `Extract`, `Remove`, `Flush`, `Enable`, `Disable` | its level is a state trigger |
| Thread `core/Thread.cpp` | state (seven values), `m_sigExit`, lock | `Init`, `Run`, `Block`, `Stop`, `Terminate`, `Wait`, the loop around `Worker()` | its state is a state trigger |
| Thread pool `core/Thread.h` | queue, units (thread, running job, event) | `Submit`, `Revoke`, `Block`, `Run`, `Wait`, destructor | Queue, Thread |
| Timer `core/Timer.h` | sorted list, next trigger, thread | `Schedule`, `Trigger`, `Revoke`, `Process`, destructor | Thread |
| Watch dog `core/Timer.h` | time armed, thread | `Arm`, `Reset`, `Worker` | Thread |
| Worker pool `plugins/Service.h` | thread pool and timer | `Submit`, `Schedule`, `Revoke`, `Block`, `Wait` | both; used by the whole server |
| Processor `core/Processor.h` | queue, one thread | `Submit`, `Enable`, `Disable` | Queue, Thread |
| Event, semaphores, locks `core/Sync.cpp` | condition variables | lock, unlock, set, reset, pulse | everything |
| IPC channel `core/IPCConnector.h` | outbound and inbound call, callback, queue of the link, lock of the calls | `Execute` with and without a time, announcement, `ReceivedMessage`, `ReportResponse`, `Flush`, close | thread of the resource monitor, workers, the other process |
| Remote processes `com/Communicator.*` | map of processes, state and references of each, observers, timer of what is to be killed | create, announce, `Process`, terminate, register, unregister, loss of a connection | IPC channel, timer; plugins such as `OpenCDMi/OCDM.cpp` |
| Cyclic buffer `core/CyclicBuffer.*` | head, tail with a round counter, reservation, in shared memory | reserve, write, read, flush (lock, alert: unused) | `tracing/TraceUnit.cpp` writes, `TraceControl/TraceControl.h` reads |
| Shared buffer `core/SharedBuffer.*` | two semaphores, length | request/done, for producer and consumer | `ocdm/` |
| Plugin server `WPEFramework/PluginServer.*` | state of each service, subsystems, conditions, service map | activate, deactivate, evaluate conditions, put a request, destroy | worker pool, remote processes |
| Controller `WPEFramework/Controller.*` | none of its own | requests on the service map | plugin server |
| Sockets, web server, JSON, tracing, cryptography, content decryption | | | not modelled, see section 8 |

Parts interact through blocking calls with and without a time, through callbacks
(`Worker()`, `Dispatch()`, `Timed()`, `Expired()`) made without the caller's lock,
and through shared counters and events. A client of the server hands a job to the
worker pool; its timer or its queue holds it; a unit, which is a thread that sleeps
in the queue's state trigger, takes it.

### What is hard, and what makes each part correct

* **State trigger.** The count of waiters is changed under a lock by `++` and
  without it by an interlocked decrement. Correct: no `SetState` overlooks a waiter,
  nobody sleeps on a state it accepts, the event reaches only those it is for, and
  `SetState` returns.
* **Queue.** The lock is released before the wait, and the code trusts the published
  level instead of the list. Correct: no entry lost or out of turn, no read of an
  empty list, no lost wake-up, the limit holds, a shutdown releases everybody.
* **Thread.** Two sides move one state machine, one of them partly without the lock.
  Correct: a request takes effect, a blocked thread does no work, a stop is final,
  who waits for the thread returns.
* **Thread pool.** `Revoke` looks at the queue and then at each unit, and waits for a
  pulse. Correct: a revoked job is neither queued nor running, `Revoke` returns,
  queued jobs run.
* **Timer and watch dog.** The callback runs without the lock between taking an entry
  out and putting it back; the thread computes its sleep while clients change the
  list. Correct: it wakes in time, serves in order, and what is revoked stays away.
* **Worker pool.** A job passes through two structures with two locks. Correct: a unit
  whose end the owner has waited for does nothing more, what is scheduled runs, what is
  revoked is out.
* **IPC channel.** One call is outbound at a time; an answer is recognised by the label
  of its message; timeouts, answers, calls from the other side and the end of the
  connection meet in one record of what is outbound. Correct: a callback belongs to a
  call that is still under way, an answer goes to who asked, every call returns, and
  a call from the other side is answered while one of ours is out.
* **Plugin server.** The lock of a service is released around the plugin's own code and
  between the evaluation of a condition and what follows from it; several threads of
  the pool do this at once, and the server stops under them. Correct: a plugin is
  called in turn and never after it has gone, who waits for preconditions is started
  when they are met, nothing stays loaded.
* **Remote processes.** The launching plugin, the process, the thread of the monitor, the
  timer and the observers each hold references and see a part of the state. Correct: a
  reference is counted, observers see what is true, a process nobody waits for is
  killed and reaped, a lost process deactivates its plugin.
* **Cyclic buffer.** Two processes, no common lock; the writer overwrites what the reader
  copies. Correct: only whole traces come out, in order.

`PROJECT.json` lists every hazard at its line, with the properties that cover it or
the reason why none does yet.

## 2. Modules

| Module | Models | Composes |
|---|---|---|
| `StateTrigger` | the state trigger, down to the two halves of `++` | |
| `BoundedBuffer` | abstract: a first-in first-out buffer with a limit that can be closed | |
| `Queue` | the queue, one step per section under `m_Admin` | uses the state trigger by its promise; implements `BoundedBuffer` |
| `Thread` | thread and controllers, one step per section under `m_syncAdmin` | |
| `JobPool` | abstract: what `Submit` and `Revoke` promise | |
| `ThreadPool` | units, clients and owner of a pool | the queue by the promise of `BoundedBuffer`, the loop of `Thread`; implements `JobPool` |
| `Timer` | the timer and its thread | the loop of `Thread` |
| `WatchDog` | the watch dog and its thread | the loop of `Thread` |
| `WorkerPool` | the pool of the server | extends `ThreadPool` with the timer by its promise |
| `IPCChannel` | callers, the monitor's thread, the administration of a channel, the other side | |
| `PluginService` | one service (the shell of a plugin), the subsystems, jobs, units of the pool, the owner of the server | the worker pool by its promise |
| `RemoteProcess` | the map of remote processes, a plugin that uses one, tracers, the processes, the timer | the channel and the timer by their promise |
| `CyclicBuffer` | a writer of traces and a reader, in two processes | |
| `Queue_proofs`, `IPCChannel_proofs`, `PluginService_proofs`, `RemoteProcess_proofs`, `CyclicBuffer_proofs` | theorems about the module of that name | |
| `StateTrigger_proofs` | theorems about `StateTrigger`, and about `Thread`, which waits with one | |
| `Timer_proofs` | theorems about `Timer` and `WatchDog`, the two classes of `core/Timer.h` | |
| `WorkerPool_proofs` | theorems about `ThreadPool`, and about `WorkerPool`, which extends it | |
| `MC*` | instances for TLC | |

A mutant operator, marked as such, stands before some definitions: it is the
definition with a plausible bug, and shows that a property can fail.

### How state and actions correspond to the code

Each variable is commented with the member it stands for, and `PROJECT.json` maps
every definition to its lines. The grain is that of the locks: a section under a
critical section is one action; a place where a lock is released, a thread sleeps or
foreign code is called is a value of `pc`.

* `StateTrigger`. `m_InterestCount++` is not atomic, so it is `InterestLoad` and
  `InterestStore`; the decrement is the interlocked one. The spin in `SetState` is
  the location `"spin"`, left by `SetStateDone` when the count is zero. `Wake` is
  not taken at once: a waiter runs when it is scheduled, and `Expire` may come
  first although the event is set.
* `Queue`. A blocking call is `Insert` or `Extract` on entry, `WaitTest` (the test
  in `WaitState`), `Wake` or `Expire`, and `Retry` or `GiveUp`. `Publish` is
  `SetState`: it leaves the caller in `"spin"`, holding `m_Admin`, while `Interest` is
  there: somebody sleeps, or the count was `miscounted`. `LoseDecrement` is a wait that
  runs out of time while another caller is inside the `++` of the count: its decrement is
  overwritten, the count is above zero from then on, and the next `SetState` never ends
  (divergence 1). `Flush` tests the state before it locks, as its `ASSERT` does. `Enable`
  does not empty the list, as in the code.
* `Thread`. A controller enters `m_syncAdmin` (`Check`), may wait in it, and stores
  (`Set`); the thread's own steps are the lines of its loop. `Allowed` is the switch
  of `Thread::State`. `ExitCheck` and `ExitSet` are the same two halves without the
  lock. A wait with a finite delay may end at any time; a wait sees the state only
  when it looks. `SetState` is one step (`Change`) as long as the count of its trigger is
  exact, for its spin then ends. `LoseDecrement` is the race of divergence 1 here: a wait
  of the thread that runs out of time while a controller in `Wait` (which is without a
  time) registers. From then on `trigger` is `"miscounted"`, and the next `SetState` stores its
  value, wakes who waits and never ends: `"held"`, with the locks of its caller
  (`ChangeThen`), so that nobody enters `m_syncAdmin` again.
* `ThreadPool`. A unit is at `extract`, `dispatch`, `pulse`, `reset` or `wait`;
  `Pulse` and `PulseReset` are the two ends of `PulseEvent`. A client in `Revoke`
  walks the units one by one (`scan`), and waits for the event of one of them
  (`signal`). The owner's `Block` goes unit by unit and then disables the queue. Its
  plan is what it does: `"Block"`, `"Run"`, `"Stop"` (`Block`, then `Wait` for the units,
  as `~Server` does, `PluginServer.cpp:622-631`) and `"Destroy"`.
* `Timer`. `Process` goes to the first `Timed()`, `TimedReturns` from there to the
  next or to the end, where the delay is computed (`Settle`); `Settled` is what the
  loop of the thread does with it. `Position` is the loop of `ScheduleEntry`.
  Undone entries, equal times and a list emptied meanwhile are all reachable.
* `WatchDog`. `TakeOver` is the branch of `Worker()` that copies the time, `Expired`
  and `ExpiredArms` the one that calls the handler, which may arm the dog again.
* `WorkerPool`. The timer's entries are counted per job; `Fire` takes one out and
  calls `Timed()`, `Expire` is its submit. `Revoke` is two steps.
* `IPCChannel`. `Execute` is `Enter` (takes `_serialize`, asks whether the link is
  open), `SetOutbound`, `Submit`, `Trigger` when its message is the first of the
  queue, and `Woken`, or `Expire` and `Abort`. The thread of the monitor reports the
  opening (`Opened`, and `Announce` with `m_syncAdmin` held), writes the whole queue,
  and reads a message in two steps, header (which call is it for?) and body (is that
  call still there?): a timeout fits between them. `Fail` is an error, which reports
  a change of state at once, `Closed` the end, which reports another. `Ask`
  and `Answer` are the other side: it may call back before it answers, then waits for
  our reply. The client is used in one of three ways: without an announcement
  (`"none"`), waiting for it (`"awaited"`, `WPEProcess/Process.cpp:325`), or not waiting
  (`"racing"`, `ocdm/open_cdm.cpp:66`). Handlers of inbound calls are registered
  before the channel opens, and it opens once.
* `PluginService`. An actor is a unit or the thread of the server; `at` says in which call
  it is. `Activate` and `Deactivate` are cut where the code calls `Unlock()`: `Activate`
  to `Initialized` or `InitializeFails`, `Deactivate` to `Deinitialized`; `...Refused`
  are the early returns. `Evaluate` is `EvaluateStart` (which goes to `Activate` and then
  goes on with what it has read before, `EvaluateStale`) or `EvaluateEnd`. `users` are
  the holders of a plugin object, so that a deletion under a user can be seen. `Drop`
  is the last release of the service, `Destroy`, `Release` and `Wait` are `~Server`.
* `RemoteProcess`. A section under `_adminLock` is one step, but for the announcement
  (`Offer`, `Activate`), which the waiting plugin sees half done. An object is a pair of a
  pid and how it was made, by a launch or by the announcement of a pid that is
  not in the map. `Close` is `Destroy()` with all it does: state, observers, kill, timer,
  references. `Instantiate` is split at each look of the plugin (`Woken`, `StillActive`,
  `Query`). `Connect` and `End` are the processes themselves. Observers are told in the
  section that changes the state, as the code does.
* `CyclicBuffer`. A cell is a run of bytes; the length of a trace is read from its first
  cell, and from any other cell as any value of `Junk`. Reserve, room (`Assure`), each
  chunk, the move of the head and the doorbell are steps of the writer; the look at tail,
  head and length, each cell copied, the compare and exchange, the check and the output
  are steps of the reader. The tail counts its rounds.

## 3. Runs

| Run | Question | Instance | Result |
|---|---|---|---|
| `state_trigger` | Does the race on the count ever hide a waiter, or lose a wake-up? Does `SetState` return? | 3 threads, 2 with a time, 3 states | holds |
| `queue` | Is the published level safe to trust, is a wake-up lost? Are callers served and released, as long as no decrement is lost? | 2 producers (one also posts and removes), 2 consumers, an owner that disables, flushes and enables, 2 slots, 2 entries | holds |
| `queue_plain` | Is the queue a bounded FIFO buffer when shutdown is final, and (as long as no decrement is lost) are consumers served? | the same without post, remove and enable | holds |
| `thread` | Is a blocked thread idle, a stop final? Does a `Block` take effect and `Terminate` return, as long as no decrement is lost? | 2 controllers with every sequence of up to 2 calls, then `Wait`, `Terminate` or nothing; `Worker()` calls its own thread | holds |
| `thread_pool` | Does the pool keep the promise of `JobPool`, do queued jobs leave? | 2 units, 2 clients (one revokes with a time), 2 jobs, an owner that runs and destroys | holds |
| `worker_pool` | Is a unit that was waited for idle for good, does what is scheduled run? | 1 unit, timer, 1 client, 2 jobs, one schedules itself, `Block`, `Run`, `Block` and `Wait` | holds |
| `timer` | Is the list sorted, does the thread wake for its head, is everything served, does only `Timed()` revive an entry? | 2 contents, 4 calls, times 0..2, a destructor | holds |
| `watch_dog` | Does it never bark early, or after a reset, and does it bark? | delays up to 3, 4 calls | holds |
| `ipc_channel` | Is a callback live, an answer given to its call, every call and the announcement ended, a call from the other side answered? | 3 callers, 2 with the same message, 1 with a time, 2 calls each, the announcement, 1 inbound call, errors and close | holds |
| `plugin_service` | Is a plugin called in turn and never when it has gone, is nothing left loaded, does a waiting plugin start? | 2 units and the owner, 2 subsystems (one is needed, one ends the plugin), 2 changes, 3 jobs, plugins that fail, a stop at any time | holds |
| `remote_process` | Are references counted, do observers and plugin see what is true, is no process left, does a loss deactivate the plugin? | 2 launches, 1 tracer, processes that are late, die or lose their connection at any time, a stop | holds |
| `cyclic_buffer` | Does the reader put out only whole traces in order, is what stands in the buffer whole? | 7 cells, 5 traces of 2, 3 or 8 (clipped to 6) cells | holds |

Why the bounds are enough. The races of `StateTrigger` need one thread between load
and store, one that times out and one that sets the state. `Queue` needs a full and
an empty queue with somebody waiting on each side (2 slots, 2 and 2 threads) and one
who acts while both wait; `MaxLength` is one above the limit so that `Post` passes
it. One producer and one consumer wait with a time, so that a decrement can be lost on
either side. `Thread` needs a request between any two steps of the thread and a second
controller between check and store. `ThreadPool` needs a revoked job that moves
between the queue and a unit the client has or has not looked at: two units, two
jobs, and two clients that wait for the same event. `Timer` needs two entries with
equal and different times and one being served; the clock stops at `MaxTime`, which
stands for every later time, and sleeps still end. `WatchDog` needs an `Arm` for
longer and for shorter while a sleep is on. `IPCChannel` needs an answer that comes
after its caller has given up, a later call with the same message that it could be
given to, and a third call whose answer must stay its own: two callers with one label,
one of them with a time, a third with another label, and two calls each, so that a
call follows one that failed. One inbound call is enough to overlap with each of
them. `PluginService` needs two units that are in the service at once while the owner
destroys it, a subsystem for each condition, and a third job that comes after two that
overlap; two objects, for one may still have a user when the next is made.
`RemoteProcess` needs a second launch, so that a failure of the first process can
meet the plugin's next life, and one observer that registers between any two steps;
the same properties hold with one launch and one process that somebody else launched
(`Children = {c1}`, `Strangers = {s1}`). `CyclicBuffer` needs traces that wrap,
overwrite more than they need, and come round to the place where the reader is: five
traces over seven cells are up to four rounds. Size 5 with lengths 2 and 3 holds, too.
No run checks a type invariant: each is proved (section 6). Deadlock is
not checked: all calls are voluntary, and a program whose threads make no more calls
has stopped.

## 4. Fairness

A thread that can go on does (weak fairness of its steps after a call). No thread
has to make a call, and nothing orders those who compete for a lock, so no liveness
property depends on winning a lock that others take again and again. A wait with a
time is not forced to time out, nor is a callback assumed to return in any order; it
does return. In `Timer` and `WatchDog` time passes. In `WorkerPool` the steps of the
timer are strongly fair, for two reasons: the bound `MaxQueue` can hold `Expire` up
where the code's queue would not, and an entry waits while the timer serves others,
which is what `EntryLeaves` of `Timer` says ends. In `IPCChannel` the thread of the
monitor serves the socket and the other side answers what it has received; nobody
has to call, call back, close or fail. In `PluginService` a unit that is idle takes up
what is queued, an actor inside a call goes on, and the plugin returns from its
calls; no subsystem has to change. In `RemoteProcess` a process that has been killed ends,
the monitor reads announcements and sees that a connection has gone, a wait with a time
ends, the timer fires; no process has to connect or to end by itself. `CyclicBuffer` has
no liveness property: the writer never waits, and the reader can be left asleep
(divergence 22).

## 5. Divergences

Where the code does not do what a comment, an assertion or its own logic says. Each is
stated as a property in the module named and has no run of its own; TLC shows it
violated when it is added to the instance named, or else to that of the run.

1. `SetStateReturns` in `StateTrigger`. A timeout's decrement between the two
   halves of `++` is lost; the count stays above zero, and the next `SetState` spins
   for ever with the lock held (`StateTrigger.h:95`, `:101`; "Wait till the interest count
   reaches 0 again..", `:153`). `UntimedSetStateReturns` shows that only timeouts
   do this. `InterestCovers` shows the count is never too low. What uses the trigger
   inherits it: `PublishReturns` in `Queue` (`m_Admin` is held for ever, so that a consumer
   can wait in front of entries) and `RequestReturns` in `Thread` (a `Block` or `Terminate`
   never returns, and keeps `m_syncAdmin`). The liveness properties of these two modules
   therefore speak of behaviours in which no decrement is lost.
2. `RevokeReturns` in `ThreadPool` (1 unit, 1 client, 1 job). The pulse can be over before
   the client waits (`Thread.h:444`, "Yield the processor, just to make sure that the
   gap, between the comparison of the Executing(.....) ended up in the lock, before we
   pulse it", `:466`).
3. `SuccessIsAnswered` in `IPCChannel` (1 caller, 1 call). An error flushes twice, once when
   it happens and once when the socket is closed; the second flush releases what the
   caller would have told the failure from (`IPCConnector.h:902`). If it wakes after both,
   it reports success, and "Oops something failed on the communication. Report it."
   (`com/IUnknown.h:109`) reports nothing.
4. `BlockCompletes` in `Thread` (`Run Block Wait`, 1 controller). A `Block` that lands
   before the thread is back in `Worker()` leaves `DEACTIVATE`, which nothing turns
   into `BLOCKED`; `BlockDuringWork` shows that a `Block` during `Worker()` does. In a pool
   `WaitReturns` fails for the same reason (in `ThreadPool`, and in the instance of
   `worker_pool` as it is): "Wait till all threads have reached completion"
   (`Thread.h:517`) waits for ever for a unit that was between two calls.
5. `StoppedIsTheEnd` in `Thread`: `State(STOPPED)` runs without the lock
   (`Thread.cpp:171`), and a request checked before it overwrites it (`Run Stop
   Terminate`, 1 controller). `Terminate` still returns: `TerminateReturns`.
6. `RevokeWaits` in `ThreadPool`, with `Resubmit` and `N = 1`: a job that is submitted
   again while it runs is revoked from the queue only (`Thread.h:555-562`).
7. `BlockedStays` in `ThreadPool`, with `Plans = {"Block"}`: `Worker()` of a unit
   returns 0 (`Thread.h:471`), so a unit that has just been blocked runs itself
   again and spins on the disabled queue. `CompletedIsIdle` shows that it does no more
   than that once the owner has waited for it. `RunAccepts` (instance of `worker_pool`): "If the method
   returns, the workers are accepting and handling work" (`Service.h:109`), but `Run` goes
   to the threads only and never enables the queue that `Block` has disabled
   (`Thread.h:592-598`).
8. `RevokedIsOut` in `WorkerPool`, with one job: `Revoke` misses a job on its way from
   the timer to the pool (`Service.h:82-84`, `:135`).
9. `RevokedIsGone` in `Timer` (2 contents, 3 calls). `Revoke` during the content's own
   `Timed()` finds nothing, and the entry is put back; `RevivedByTimedOnly` shows
   that this is the only way.
10. `ForceKill` in `Timer`, with `MayDestroy`: the destructor clears the list while
    `Timed()` runs, and the entry is put back (`Timer.h:134`, `:239-243`).
11. `HighWaterMark` in `Queue` when somebody uses `Remove`: it publishes `ENTRIES` on a
    queue that is still full (`Queue.h:89`).
12. `ConsumersProgress` in `Queue` when `Enable` follows `Disable` without `Flush`: the
    level is `EMPTY` over entries, and a consumer waits in front of them.
13. `CloseReleases` in `IPCChannel` (2 callers, nobody with a time): the channel closes
    between the look at the link and `SetOutbound` (`IPCConnector.h:1392-1397`). The
    message is dropped in silence and the last flush has been: the caller waits for
    ever, and keeps `_serialize`. `CallReturns` therefore asks for an open channel.
14. `CallReturns` and `AnnounceEnds` in `IPCChannel` with `Announcement = "racing"`: the
    monitor's thread announces with `m_syncAdmin` held and waits for `_serialize`, which
    a caller holds that waits for `m_syncAdmin` in `Trigger` (both stop for ever); or
    the caller replaces the announcement under way, whose event is then never set.
    `ocdm/open_cdm.cpp:68-69` sleeps 100 ms instead ("Seems the announce is still
    progressing"); the run waits for the announcement, as `Process.cpp:325` does.
15. `OwnAnswer` in `IPCChannel` without its last disjunct, the exception for callers with
    a time: an answer that comes late goes to the next call with the same label, and the
    `ASSERT(false)` at `IPCConnector.h:941` is reached when a caller gives up between
    header and body.
16. `ConditionsAreCurrent` in `PluginService`: "Active or not, update the condition state
    !!!!" (`PluginServer.h:761`), but an evaluation that activates goes on, after it, with
    the subsystems it read before: when a second unit has evaluated newer ones meanwhile,
    the conditions go back to the old ones, and nothing evaluates them again. 22 states.
17. `StartsOnlyWaiting` in `PluginService`: between `Unlock()` and `Activate` (`:765-767`) the
    plugin can be deactivated by somebody else, and is then started although nobody asked.
18. In `PluginService` a termination condition that becomes true while the plugin is not
    active is consumed, and does not end it when it is active later; a job left in the
    queue of the blocked pool holds the service, so that it outlives `~Server` (`CleanStop`
    asks for an empty queue); a request may still run in a plugin that has been
    deinitialized; the `NOT_` subsystems of a condition are cut to eight bits and become
    positive conditions (`PluginServer.h:398`); `DESTROYED` is never entered.
19. `DeathDeactivates` in `RemoteProcess`: the process dies while the plugin is still in
    `Initialize`; the job is refused because the service is in `ACTIVATION`
    (`PluginServer.cpp:373`), and the plugin stays active without its process. The comment
    "The Remote process might die before we get a change to "register" the sink for these
    events !!! So do it ahead of instantiation." (`OCDM.cpp:85-86`) means to exclude this.
20. `OwnFailure` in `RemoteProcess`: the job that a failure submits names no process
    (`OCDM.cpp:250-252`); run late it deactivates the next, healthy life of the plugin.
21. `AllDestroyed` and `NoInterfaceLost` in `RemoteProcess`: a process that announces itself
    after the list of pids was made (`PluginServer.cpp:166`) is still in the map at "All
    process must be terminated if we end up here :-)" (`Communicator.cpp:70`); an
    announcement that comes after a time-out is never handed out nor released. The grace
    of "Check again in 3S..." (`Communicator.h:380`) never is: the temporary `ClosingInfo`
    is destructed, and kills the process, at once.
22. `SleepsOnNothing` in `CyclicBuffer`: the doorbell is rung only when the buffer was empty
    before the last chunk, and the reader may empty it after that look; it then sleeps in
    front of a trace until another one makes the buffer non-empty from empty ("Before we
    start we reset the flag, if new info is coming in, we will get a retrigger flag.",
    `TraceControl.h:689`).
23. `FullIsNotEmpty` in `CyclicBuffer`: "Maximum write size is _maxSize-1, to differentiate
    from empty situation." (`CyclicBuffer.cpp:348`), but several traces together can fill the
    buffer to the last byte; head and tail are then equal, and all of them are lost or
    read as garbage. The properties of the run hold until this happens.
24. Not visible in the models: a chunk of length zero after the last reserved byte (a trace
    with an empty text) takes the two-pass branch of `Write` with a second length of minus
    something (`CyclicBuffer.cpp:277-282`); a failed `fork` leaves a pid of -1, which `Kill`
    would take for every process; `Set` of a tracer calls a process without a time with
    its lock held, which the monitor's thread may be waiting for
    (`TraceControl.h:624`); a pid that is used again meets the observers' assertion
    (`TraceControl.h:600`), so a pid is used once in the model; `Lock`, `Alert` and
    `Reevaluate` of the cyclic buffer, whose spin would wait for agents that need the
    same mutex, are called by nobody.

## 6. Proofs

Every theorem is proved for all values of the constants that satisfy the assumptions
its paragraph names. An assumption is stated beside the constant, and TLC evaluates it in the
run of the module. Each proof has the same outline: the invariant holds initially,
every action preserves it (one step per action), it implies the property. Most
properties are not inductive; what had to be added is the explanation of why the code
is right, and is given below.

`StateTrigger_proofs`, for any finite set of threads and any states, from
`ThreadsAssumption` and the assumption on the bound alone: `TypeCorrect`,
`CountCovers`, `WakeupsKept`, `StableWhileSpinning`. `InterestCovers` is not
inductive: between load and store the thread will write a number it has read
earlier. `IInv` adds `StoreKnows` (that thread holds the lock, has read a number not
below the waiters registered now, for meanwhile waiters can only have left, and the
state is still one it does not accept), and `SpinHolds` and `EventIsGuarded` (the
event is only set while a spinning thread holds the lock). The counting steps use the
cardinality theorems of finite sets.

`Queue_proofs`, for any threads, entries, calls and limit. With `OneOwner` (the
threads that flush and enable are one): `TypeCorrect`, `ReadableQueueHasEntry`,
`WakeupsKept`. `OneOwner` is needed: the `ASSERT` of `Flush` is evaluated before the
lock, so a second owner could enable and fill the queue before it is emptied. The
invariant adds who holds `m_Admin` while the event is set, that a `Flush` past its
assertion still finds the queue disabled, and which locals a waiting call has.
With `PlainUse` (insert, extract, a final shutdown): `PlainQueueIsBuffer`, the
refinement of `BoundedBuffer` for every value of the constants, and
`PlainQueueIsBounded`. `PlainInv` adds that the published level is exact; it fails as
soon as `Post`, `Remove` or `Enable` is used, which is divergence 11 and 12.

`StateTrigger_proofs` also has, for any controllers and scripts (`ScriptsAssumption`,
`WorkerAssumption`, `NoOneAssumption`): `ThreadTypeCorrect`, `BlockedIsIdle` and
`NoWorkOnceStopped`. The lock is left between
the check of a change and its storing only as far as the thread itself is concerned,
which stores `STOPPED` without it. `ThreadInv` therefore adds `Chosen` (a change that was
checked is still allowed, unless the thread has just ended) and `StoppedEnds` (only the
end of the thread makes it `STOPPED`). That no work follows a stop is shown by `Out`,
which is stable once it holds.

`WorkerPool_proofs`, for any number of units, any jobs, clients and plans of the owner
(`CountAssumption`, `JobsAssumption`, `PlansAssumption`): `TypeCorrect`,
`SignalledIsDone`, and `PoolImplementsJobPool`, the refinement of `JobPool`, for a pool
in which no job is submitted twice (`~Resubmit`; otherwise it is wrong, divergence 6).
The refinement needs that a job is in the pool once, in the queue or with one unit
(`Once`), and what a client in `Revoke` already knows: its job is not in the queue and
with none of the units it has asked, and will not come back there (`Asked`).

For the pool with its timer, from `RepeatingAssumption` beside these: `WorkerTypeCorrect`,
`WorkerSignalledIsDone` and `WorkerCompletedStaysIdle` (of a pool without a timer:
`CompletedStaysIdle`). `CompletedIsIdle` is not inductive, and not because the unit stays `BLOCKED`, for it
makes itself `RUNNING` again (divergence 7). `Ended` adds why it is idle: the
queue is disabled before the owner begins to wait and stays so, and a unit is found
`BLOCKED` only out of `Worker()`. For the worker pool the invariant has beside it that a client which has taken a job
out of the timer is not inside another call.

`Timer_proofs`, for any contents, times and number of calls (`BoundsAssumption`,
`ContentsAssumption`):
`TypeCorrect`, `ListSorted`, `WakesInTime` and `OnlyTimedRevives`. The list is sorted
because `ScheduleEntry` puts an entry behind those that are not later (`Position`),
and `Revoke` leaves the others in their order (`Without`, a recursive function). The
invariant `IInv` ties the three together: only a sorted list has its earliest entry in
front, and the end of `Process` sets the next trigger for whatever stands there then.
Of `WatchDog`, for any times and number of calls (`DogAssumption`): `DogTypeCorrect` and
`NeverTooEarly`. `Patient` says
that a time the thread has not taken over is not below what is left of it, and that the
thread sleeps at least as long as is left of one it has.

`IPCChannel_proofs`, for any callers, labels, inbound calls and number of calls, however
the announcement is timed: `TypeCorrect`, `CallbackLive` and `AnswerIsOwn`. The sink of a
call lies on the stack of `Execute`, so a callback that outlived it would be a dangling
pointer. `CallbackIsLive` needs, to be inductive, that `_serialize` is held by the one
thread inside `Execute` (`Serialized`), that such a thread has made a call
(`HasCalled`), and for the types that the message being read is the one at the head of
the wire (`CurrentIsHead`). A caller that replaces the announcement, a late answer and
the two flushes of an error are all covered. `AnswerIsOwn` assumes that no caller uses
the label of the announcement (`com/Messages.h:290-292` gives it one of its own). Its
invariant `OwnInv` follows a request from the queue over the other side to the wire: when
nobody gives up on its label, a request on its way is the outbound one, its caller still
waits for it, and it is at one place only, so the answer that comes for the label is its
own.

`PluginService_proofs`, for any units, subsystems, conditions and plugin objects
(`MainAssumption`, `ConditionsAssumption`, `BoundsAssumption`): `TypeCorrect`,
`InsideIsLive`, `CalledInTurn` and `ServerStopsClean`. `HandlerInv` ties what has
become of the plugin object to the state of the service, `CallInv` says that one
actor at most is in `Initialize` or `Deinitialize`, and that the state keeps the
others out while the lock is released, and `RequestInv` that a request holds a reference of its own.
`CleanStop` needs `StopInv` beside it: an object that was deinitialized stays
for its users only, somebody is in the plugin while the state says so, a released
service has a holder, and who destructs it is alone on the way to its end.

`RemoteProcess_proofs`, for any processes and tracers (`PidsAssumption`,
`TracersAssumption`): `TypeCorrect`, `References`, `ObserversKnow` and
`InterfaceFound`. `References` says that a remote process is counted exactly for its
holders; the other parts of the invariant say what nobody can hold yet (`NotLaunched`,
`NotAnnounced`), that the map has an object under its own pid and never one that the timer
is to kill (`Keyed`), and that an announcement that holds the lock has left its
interface (`Halfway`), so that the plugin, which takes no lock, finds it (`Ready`).

`CyclicBuffer_proofs`, for a buffer of any size above 1, traces of any length, and whatever
number data gives when it is taken for a length (`SizeAssumption`, `LengthsAssumption`,
`JunkAssumption`, `BoundAssumption`): `TypeCorrect`, `WholeTracesRead`, `ContentIntact`
and `FlushesOnlyFilled`, the last three until a trace fills the buffer to the last cell
(divergence 23). Offsets come back, so the argument is made where they do not: `Line` lays all traces one behind
the other on a line without end, where trace `k` begins at `base[k]`. Until the buffer has
been filled the tail, with its rounds, is the beginning of one of them, the head is the
remainder of the place behind the last published one, less than a round further, and
every cell between holds what stands at that place (`Stands`). `Writes` says that the
tail the writer has read is one there was since it began: the tail moves forward only,
so the room found is there, and no chunk lands between tail and head. `Reads` says
that the tail the reader has read never comes back once it is gone, and that as long as
it has not gone the cells copied are those of the first trace: this is why a compare and
exchange is enough. `Junk` never counts, for the place where the writer looks for a
length is always the beginning of a trace (`WholeTraces`), and a reader that has found
junk fails to exchange, so that the recovery of `TraceControl.h:720-723`, which drops all that
stands in the buffer, is never reached.

Where something is shown for all elements of a list, all places of the line or all
arguments of a recursive function (that `OverwriteSize` and `Without` are defined at all,
that whole traces are overwritten, that the list stays sorted), the proof is by
`SetInduction`: the set of numbers where the claim holds contains 0 and successors, or
else the smallest number outside it, which the library's `WFMin` provides, is a
contradiction.

`PlainQueueIsBounded`, `StableWhileSpinning`, `WorkerSignalledIsDone`, `CompletedStaysIdle`, `FlushesOnlyFilled` and the type theorems
state what no run checks as a property; the other theorems state one of a run. Every
invariant, every action property and both refinements that a run checks are proved, the
refinement of `BoundedBuffer` and of `JobPool` as far as their safety goes.

Only model-checked: the liveness properties, for fairness and `ENABLED` are out of the
prover's reach. Not proved either, and true only of the instances: that the properties
named in section 5 fail.

## 7. Plan

Done: state trigger, queue, thread, pool, timer, watch dog, worker pool, IPC channel,
plugin service, remote processes, cyclic buffer, and the proofs of section 6, which
cover every property of the runs that is not liveness. Left, in
this order:

1. `SharedBuffer`: the handshake of producer and consumer over two semaphores, with a
   call out of turn and a time-out that is answered late.
2. The composition of `RemoteProcess` with `IPCChannel`: calls to a process, with the lock
   of a tracer held (divergence 24), and the release of its interfaces.
3. Several services on one set of subsystems, where the activation of one changes the
   conditions of another.
4. `Processor` and the semaphores of `core/Sync.cpp`, down to condition variables.
5. `IPCChannel`: handlers that register late, a client that opens again, and an
   abstract specification (one call, one outcome) with its refinement.
6. Proofs: what a divergence leaves of a promise, for every instance: that a `Revoke` of the
   worker pool misses a job only on its way from the timer (divergence 8), that a
   stopped thread changes its state only for a request checked before (divergence 5).

## 8. Not modelled

Sockets and the resource monitor are a shell around system calls; what a channel sees
of them, the order of opening, reads, writes, errors and close, is in `IPCChannel`. JSON,
the parsers, the stream classes, the web server, the web socket and cryptography convert
data and have no concurrent state. Of tracing, `CyclicBuffer` has the way of a trace
between the processes and `RemoteProcess` the observers; categories, their settings and
the text of a trace are left out, and so are `Lock`, `Alert` and the agents of the
cyclic buffer, which nobody calls. Content decryption, provisioning and virtual input are
thin layers over RPC and the shared buffer. The shared buffer and the processor are
planned (section 7). Of RPC, proxies and stubs are generated code, and the object
administration of `com/Administrator.h` is left out. The controller and the host process
of a plugin have no state of their own beside what they call. Thread priorities,
names, stack sizes, the Windows branches and memory management are left out of the
parts that are modelled; destruction is modelled up to the end of the destructors' own
bodies.

The models stand for a small share of the lines in the repository. Most of the others are
further copies of the same framework under `src/projects`, partial and different in
details, patches of it, vendored libraries, stubs, and the converters of data named above;
a model of a copy would repeat one that is here.
