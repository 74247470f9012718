# A verification of kclpp

kclpp is a C++ version of Amazon's Kinesis Client Library: workers that share a Kinesis stream by
means of leases in a DynamoDB table, on top of a small asynchronous runtime (an event loop with
timers, event channels and a thread pool). This directory holds TLA+ models of it, the TLC runs that
check them, and TLAPS proofs. Paths below are relative to `src/` of the repository unless they start
with `include/`.

    tlc -config MCFencing.cfg MCLeaseCoordinator.tla      # a run
    tlapm LeaseCoordinator_proofs.tla                     # the proofs of a module

## 1. The system

### Components, their state and their operations

| Component | State | Operations | Modelled in |
|---|---|---|---|
| `Lease`, `dynamo_helpers` | owner, counter, owner switches, stamp of the last increment | expiry, (de)serialization, expectation and values of conditional updates | `Lease` |
| the lease table (DynamoDB, external) | one item per shard | conditional update, put, delete, scan of one page | `LeaseTable`, `LeaseManager` |
| `LeaseManager` | none | create, get, list, renew, take, evict, update, delete a lease | `LeaseManager` |
| `LeaseRenewer` | `ownedLeases` | `initialize`, `renewLeases`, `addLeasesToRenew` | `LeaseRenewer` |
| `LeaseTaker` | `allLeases` with the stamp each version was first listed at | `takeLeases` | `LeaseTaker` |
| `LeaseCoordinator` | `running`, two timers | `start`, `stop`, `runRenewer`, `runTaker` | `LeaseCoordinator` |
| `AsyncGroup` | two atomics | `post`, `isDone`, `becomeLeaderCAS` | `AsyncGroup` |
| control channel (`MPSCEventChannel`) | ring, eventfd, spin lock | send from any thread, drain in the event loop | `EventChannel`, `ControlChannel` |
| data channel (`SPSCEventChannel`) | ring, eventfd, acknowledgement | send from one pool thread, bind and drain in the event loop | `EventChannel`, `DataChannel` |
| `ThreadPool`, `ThreadPoolWorker`, AWS clients | work queue, workers, a data channel per thread | `start`, `stopJoin`, `trySubmit`, `threadFunc` | `ThreadPool` |
| `ShardConsumer`, `ShardIterator` | state, iterator, shutdown callback | initialize, process, shut down | `ShardConsumer` |
| `LeaseCheckpointer` | none | `getCheckpoint`, `setCheckpoint` | `ShardConsumer`, `LeaseCoordinator` |
| `Worker` | `shutdown_`, `shutdownComplete_`, the coordinator | `run`, `shutdown`, `processUntilStopped` | `Worker` |
| `ThreadBaton` | `posted_`, mutex, condition | `post`, `wait` | `ThreadBaton`, `AwaitedGroup` |
| `HTimerWheel` | levels of slots with entries, a tick counter per level, a cached clock | `add`, `addRepeating`, `addOneShot`, a tick per level | `HTimerWheel` |
| `PThreadSpinLock` | the lock | `lock`, `unlock` | in `ControlChannel` |
| libevent wrappers, utilities | - | - | not modelled |

### How they interact

Everything but the pool's threads runs in callbacks of one event loop. A manager's call becomes a
call of the DynamoDB client: a lambda sent through the control channel, a task submitted to the pool,
blocking work on a pool thread, a result sent through that thread's data channel, a callback on the
event loop. `LeaseRenewer::initialize` and `LeaseTaker::takeLeases` start many such calls and use an
`AsyncGroup` to find the last answer. The coordinator's timers run renewer and taker, which share
nothing but `addLeasesToRenew`. `Worker::run` starts the coordinator and then keeps the event loop to
itself until some thread calls `shutdown`, which stops the coordinator. A thread outside the loop waits for
the leader of a group on a `ThreadBaton`. Workers of different processes share nothing but the table.

### What is hard about it

* A lease is read, decided upon and written at three different times, by several processes. Only the
  expectation of the update (same owner, same counter) stands between two holders.
* Answers arrive in any order, late or never; a timed-out or orphaned update may still be applied; a
  process dies and comes back under the same worker id.
* Expiry is judged by the taker's clock and by when it *listed* a version, never by when it was written.
* The timers do not wait for the work of their last firing.
* Signals and messages are two steps on the sender's side and two on the receiver's, in opposite order.
* One thread owns the event loop and the pool, and joins threads that wait for the event loop.
* A consumer's state is changed by callbacks and by its owner.
* `run` and `shutdown` of a worker are called by any threads, in any order and more than once, while the
  loop they need is inside one of them.
* A thread goes to sleep on a baton between its check and the post, and may be woken by nobody.
* A tick of the timer wheel empties slots, runs callbacks that may add timers, and turns the buckets only then.

### What makes each component correct

* Leases: at most one worker holds a current copy of a lease; no copy is ahead of the table; a take
  of an expired lease is never early; each write is counted; stale copies are noticed; every
  `initialize` and every round of takes ends.
* `LeaseManager`: an answer tells the truth about the owner and counter of the item it was read from or written to
  (a lease created without a counter comes back without one); an update
  hits the very version its caller had read; a call touches only its item.
* `AsyncGroup`: one and only one leader, after all have posted.
* Channels: nothing lost, doubled or reordered, no lost wakeup, everything that was sent is run.
* Pool: a task is run once and called back once, what was accepted is run, `stopJoin` ends and leaves
  no thread behind.
* Consumer: records in order, each once, from the checkpoint to the end of the shard; the state tells
  whether the loop goes on; a shutdown requested in the loop of batches completes and stays quiet.
* Worker: one call starts the shutdown; a clean use fails no assertion; no timer fires once `shutdown` has
  called back; every call calls back unless the process ends.
* `ThreadBaton`: nobody returns before the post, and the one who waits returns.
* Timers: none is lost or run twice on its way through the levels; none runs much before or after its time.

## 2. Modules and their correspondence to the code

`PROJECT.json` maps every definition to its lines.

* **`Lease`** holds the record and everything pure. `CASHolds` is `makeCASExpectation`; `RenewValues`,
  `TakeValues`, `EvictValues` are `makeUpdateValues`; `RenewResult`/`TakeResult` are what the manager
  hands back. `ToDynamoDict`/`FromDynamoDict` keep what the properties see, among it that a lease
  without an owner is written without the attribute and does not parse again, and that an unset counter or stamp is
  written as 0 (`NoCounter`, `NoTime`). The age is an unsigned
  difference (`Age`, modulo `ClockModulus`). Checkpoints and parents are left out.
* **`LeaseTable`** is the external table, the clock, and `orphans`: requests whose sender died or gave up.
* **`LeaseRenewer`** keeps per worker `owned`, and per lease up to `RenewSlots` renewals in flight, each
  `queued` (its lambda waits), `sent`, answered `ok`/`failed`, then called back (`RenewDone`).
  `Initialize`, `InitScanned`, `InitListed` are the three callbacks of `initialize`.
* **`LeaseTaker`** has `Round`s that may overlap. `RoundScanned` is the scan in the service; `RoundListed`
  is the callback with `updateAllLeases`, `getExpiredLeases`, `computeLeasesToTake`; `TakeDone` is the
  callback of each take, the last of which ends the round.
* **`LeaseCoordinator`** composes the two for any number of workers, with `Start`, `Stop` and its lambda,
  the timers, `Crash`, and the assertions that end the process (`StopAborts`, `TakerAborts`, and `SetCheckpoint`
  of a lease that is held). The constants `MayStart`, `MayStop`, `MayCrash`, `MayCheckpoint` say which workers do
  what in a run.
* **`LeaseFencing`** is the abstract promise: versions, at most one claim per version, at most one
  holder. `LeaseCoordinator!Fencing` is the refinement mapping: a holder is a worker with a current
  copy, a claim is a successful renewal whose answer has not been processed, the version of a lease is its
  counter, from one up (`VersionOf`).
* **`LeaseManager`** has clients that make any call with any copy they could have, and a table whose
  items may be deleted and created again. `PutApplied` writes what `toDynamoDict` makes of the caller's lease, with the
  counter he gave it or 0, and hands back that very lease (`LeaseToCreate`), not the item. `version` is a history:
  which incarnation of the item this is, the counter it was created with (`first`) and its writes since; `evicted` is one of
  the last write. Checkpoints and the switches a creator may set play no part.
* **`AsyncGroup`**: each atomic access is a step of a subtask; the subtasks run on different threads.
* **`ThreadBaton`** has every access to `posted_`, every lock, unlock and notification as a step, spurious
  wakeups and a relaxed load that finds the old value. **`AwaitedGroup`** composes the two: the group's leader
  posts the baton on which a thread waits, as the callers of `takeLeases` and `initialize` do.
* **`EventChannel`** is what both channels share (the vendored ring by its contract: an enqueue takes a
  slot, then publishes it; one producer, one consumer). `ControlChannel` adds the spin lock and the
  drain that empties the ring after one read of the eventfd; `DataChannel` adds binding and the drain
  that reads the eventfd before every message.
* **`ThreadPool`** models the clients' calls, `trySubmit`, the threads step by step (`pc`), the
  registration of their data channels, and the thread of the event loop, which stands still while it
  joins. A data channel appears as `DataChannel` has it: a signal gets one result run.
* **`ShardConsumer`**: `waiting` names the one callback that is outstanding; the shard grows and closes.
* **`Worker`**: `pc` is where each thread is in `run` or `shutdown`, `queue` the lambdas on their way to the
  event loop, `loop` what the event loop does. `processUntilStopped` calls itself (`ProcessAgain`) and has the
  loop, and the stack, until a shutdown is asked for; `FinalShutdown` unwinds it. Of `initialize` there is left
  that it answers, of the control channel that it is a queue. `setShutdown` is a load and a
  compare-and-swap. `early` is a history.
* **`HTimerWheel`**: the entries are sets per level and slot; a bucket is its `cursor`. The tick is one
  call in the code and a sequence of steps here (`agenda`: process and execute from the ticking level
  down, advance, execute, refile, execute), because the callbacks run between them may add timers. libevent
  fires a level's timer at its due time or up to `MaxLag` later (`PassTime`) and arms it again (`Fire`).
  A callback takes no time. `asked`, `nested` and `finished` are histories.

Assertions: glog's `DCHECK` is on unless the build defines `NDEBUG`, and the build files do not. Several
have side effects (`ThreadPoolWorker::getDataChannel` registers the channel inside one, `threadFunc`
runs the task inside one), so the code needs them. The models take a failed `CHECK` or `DCHECK` as the
end of the process.

## 3. Runs

| Run | Instance | Shows |
|---|---|---|
| `fencing` | 2 workers, 1 lease, full renewer and taker, clock to 1, `LeaseDuration` 0, counters to 2 | `TypeOK`, `CurrentHolderUnique`, `StampsSound`, `NoEarlyTake`, `WritesAreCounted`, and that `FencingInv`, the invariant of the proofs, holds |
| `lifecycle` | 2 workers, 1 lease, no taker; one worker crashes, restarts, stops or sets a checkpoint; one late request at a time; the clock may go back; states are told apart by `NoHistory` | the coordinators implement `LeaseFencing`; `LastAnswerPending` for `initialize` |
| `coordinator_live` | 1 worker, 2 leases, takes of 2, 2 renewals of a lease at a time, `setCheckpoint` at any time, counters to 1 | `RoundEnds`, `InitializeEnds`, `StaleCopyResolved` |
| `lease_manager` | 2 clients, 1 item created up to twice, with counter 1 or none given, 2 writes each | `CopiesTrue`, `CASHitsWhatWasRead`, `EvictedIsLost` for all operations |
| `group` | 4 subtasks, 1 waiting thread | `LeaderIsLast`, `ReturnsAfterAll`, `WaiterReturns` and the invariant `GroupInv`, of which `OneLeader` is a part |
| `control_channel` | 2 threads and the event thread itself, 2 sends each, 2 slots | `NothingLost`, `NoLostWakeup`, `DrainRunsAll`, `SentIsRun` |
| `data_channel` | 1 pool thread, 5 sends, 2 slots | `WakeFindsMessage`, `SignalRunsOne` |
| `thread_pool` | 3 calls, 4 threads in 2 starts, work queue and data channels of 1 | `TaskRunsOnce`, `JoinedThreadsGone`, `QueuedTaskRuns`, `StopJoinEnds`, `PoolInv` |
| `shard_consumer` | 5 records, batches of 2, every configuration | `DeliveredInOrder`, `StateShowsLoop`, `QuietAfterShutdown`, `ShutdownCompletes` |
| `timer_wheel` | 2 timers, delays 0, 7, 12, 25, levels of 3 slots of 4, 2 of 12, 2 of 24, clock to 60 | `EntryKept`, `NotTooEarly`, `NotTooLate` |
| `worker` | 2 threads that call `run`, 2 that call `shutdown`, a stack of 3 calls | `CleanUseSurvives`, `QuietAfterShutdown`, `ShutdownEnds`, `RunEnds` |
| `data_drain` | 1 thread, 3 sends | **violated**: a data channel's drain does not run all that was sent |

**Bounds.** Fencing is about two parties and one item: the update of an item involves no other item, so
one lease is enough, and two workers are enough for a holder, an overtaker and a late answer. Two
counter steps allow a take, a renewal of the taken lease, and a renewal that comes too late; the
theorems remove the bound on workers, leases and rounds in flight. Counters, clock and late requests
are cut off by guards (`MaxCounter`, `MaxTime`, `MaxLate`), `RenewSlots` and `Round` bound what overlaps.
In `lease_manager` an item starts at 0 or at 1 (`FirstCounter`), so the counters of two incarnations meet at the
same number of writes and at different ones, and a creator's own lease matches its item or does not.
With `LeaseDuration` 0 a lease has expired at the next tick and not before it, which is all the boundary
there is; `LeaseCoordinator_proofs` has every duration. The view `NoHistory` of `lifecycle` leaves out
`lastWrite`, a history variable that no guard reads and no property of that run mentions.
Two leases are needed where a round has several takes (`coordinator_live`); two renewals of one lease at a
time are needed for a copy to be overtaken by a write of its own worker, which is what `StaleCopyResolved` is
about. Four subtasks have more than one that is neither the first to post nor the last. Two threads on either
side of a worker give a second `run`, a second `shutdown` and the race of the compare-and-swap; a
stack of three calls is used up, and has room to be entered, kept and left.
Two ring slots and more sends than slots reach full and empty rings and every
reuse of a slot. In `thread_pool` two threads compete for tasks, a full queue and a full data channel
happen, and the second start shows the join of joined threads. Five records with batches of up to two
give empty, short and full batches before and after the shard closes.
In `timer_wheel` every level turns once or more before the clock stops, the delays reach every level, one
is an exact slot and one lies across two, and a timer asked for up to time 8 is due by 33, with time to be late.
An event loop that lags by one unit is enough to separate the cached clock, the due times and the tick;
with more than a slot ticks may be lost, and neither time bound is claimed.

**Deadlock** is checked for `lease_manager`. The other systems really stop (bounds reached, a process
that died, all subtasks finished, a consumer shut down) and say `CHECK_DEADLOCK FALSE`.

**Symmetry** is used for workers, clients in runs without liveness only.

**Fairness.** The event loop runs what is queued (`WF` of callbacks), persistent timers fire again, and
threads are scheduled. `coordinator_live` also assumes that every request is answered, if only by a
time-out of the AWS client. The code does not fully justify that: `data_drain` shows that a result may
stay in a data channel until the same thread sends another, the clients ignore a refused `trySubmit`,
and tasks in the queue are not called back after `stopJoin`. What `coordinator_live` shows is that the
coordinator itself adds no way to wait forever. A sender that loses the race for the spin lock is assumed
to win some day; the bound on sends makes that weak fairness. In `thread_pool` a thread that reads
`running_` relaxed sees at last that it was stopped (`SF` of `Exits`; every twentieth load is a full
one). In `group` a mutex is contended by one `post` and one waiter, who all release it, so each gets it again and
again: `SF`; nobody relies on a spurious wakeup. In `worker` the loop is given back to its channel between
timers (`WF`), and an answer of `initialize` is due again whenever the loop waits (`SF`).
In `shard_consumer` only the loop is fair: Kinesis and the record processor call back.

Every module states its type invariant. Those of `ShardConsumer` and `Worker` are proved (`ConsumerInv`, `WorkerInv`
contain them), `PoolInv`, `GroupInv` and `ManagerInv` contain theirs, and that of `HTimerWheel` is `TypeCorrect`; no run
spends time on those of `LeaseManager` and `HTimerWheel`.

`WaiterReturns` is for one waiter. With two it is false: `post` calls `notify_one`, so the other sleeps on
(unless a spurious wakeup helps).

`CleanUseSurvives` has two conditions, and is false without either: one `run` passes the check of `shutdown_`
(a second one fails the coordinator's assertion, or that of `setShutdownComplete`), and the first
`shutdown` comes after the timers are armed (an earlier one finds none to stop). `ShutdownEnds` and `RunEnds` allow
for the end of the process, which the overflow of the stack is the usual case of.

`StopJoinEnds` has a condition: no started thread still waits for the acknowledgement of its channel.
Without it the property is false, because the thread of the event loop joins while the pool thread spins
for an answer that only the event loop can give.

## 4. Findings

* `data_drain`: `SPSCEventChannel::tryRead` reads the eventfd, which resets it, before *each* message and
  reports failure when it is not ready; `EventContext::drainDataChannel` stops there. Of two results
  sent before the drain one is run. The control channel reads the eventfd once and does not have this
  (`DrainRunsAll` holds of it). Results that stay also fill the channel, and a full one ends the process
  in `threadFunc`'s assertion (`SendAborts`).

Other divergences that the models have as behaviours but no run is spent on:

* `LeaseRenewer::initialize` renews the leases of every owner and keeps the copies, so that
  `getCurrentlyHeldLease` reports leases of others. Fencing holds all the same.
* `takeLease` hands back the lease as it was before the take; the coordinator files it to be renewed,
  and its first renewal fails its expectation and drops it (`TakesReached` in the invariant).
* `stop()` before `initialize` has called back finds no timers and fails its assertion (`StopAborts`);
  after a failed `initialize` it always does.
* `createLeaseIfNotExists` hands back the caller's own lease (`LeaseManager.cpp:275-278`). If its counter was unset, the
  table has 0 (`Lease.cpp:175-184`), the expectation built from it is that the attribute is absent
  (`dynamo_helpers.cpp:59-63`), and every conditional call with it fails until the lease is read again: the exception
  `Uncounted` in `CopiesTrue`.
* `getLease` of a missing or evicted lease fails a `CHECK` (`GetAborts`); `isLeaseTableEmpty` ignores
  leases without an owner.
* At the end of a closed shard the iterator has no `nextID`; `processBatches` asks for one batch more, and
  the assertion of `processNextBatchInner` ends the process.
* `HTimerWheel::initLevels` never increments its `idx`, so that every bucket takes itself for the bottom
  one. A delay that is a multiple of a level's slot runs up to a slot late (a timer of one second after
  almost two), and one that a callback asks for (`runSoon`) may be filed into the slot just emptied
  and wait a whole turn of the level; the bounds of `NotTooLate` say so.
* `LeaseTaker` limits a worker's target by `maxLeasesToStealAtOnce` (default 1) where it should be
  `maxLeasesForWorker`, which nothing reads (`src/kclpp/leases/LeaseTaker.cpp:236`): unless there are more workers
  than leases, a worker never goes beyond that many leases, expired ones included, and `README.md:59` promises
  that ownership is balanced.
* `setCheckpoint` of a held lease asserts a concurrency token that no lease is ever given, and ends the process
  (`LeaseRenewer.cpp:248`); the request of `updateLease` behind it names no table (`LeaseManager.cpp:217`).
* `Worker::processUntilStopped` calls itself without returning to the event loop, so no renewal runs while a
  worker works, and the stack overflows unless a shutdown comes first (`Worker.h:72`). A renewal queued before the
  lambda of `stop` is still run after `shutdown` has called back.
* `ThreadBaton::post` notifies one thread where `ThreadBaton.h:12` speaks of one or more. It also touches the
  mutex and the condition after a waiter may have returned by the fast path; where the baton lives on the
  waiter's stack (`main.cpp:192`) it may be gone. The model has the steps, but no memory to lose.
* A shutdown requested while the checkpoint, the iterator or the record processor's `initialize` is awaited is
  overwritten by the next state, and batches are read after it (`RequestShutdown`, then `ProcessorReady`).
  `QuietAfterShutdown` of `ShardConsumer` and `ShutdownCompletes` are about a request made while the loop of batches runs.
* `startInitializing` asserts against its own retry (`RetryAborts`); `getCheckpoint` calls back with an
  error and then fails an assertion (`CheckpointFailed`).
* A pool that is started again joins its old threads again at the next stop, which terminates the
  process (`JoinAborts`).

## 5. Proofs

All for every value of the constants; the assumptions are the named `ASSUME`s of the modules (sentinels
are outside the data, bounds are numbers), which TLC evaluates in every run.

**`LeaseCoordinator_proofs`**, for any workers, leases, rounds and renewals in flight, with crashes and requests
applied later, in five parts:

1. `TypeCorrect`, by one lemma per component and action.
2. `FencingInvariant`, and from it `CurrentHolderIsUnique`, `CopiesAreNeverAhead`, and `CoordinatorsImplementFencing`.
   `CurrentHolderUnique` is not inductive: the copy that becomes current is made from an answer, the answer
   from a request, the request from an older copy, a page or a take. `FencingInv` therefore says of *every*
   copy anywhere (owned, listed, seen, in a request, in an answer, on the wire) that the table has reached
   its counter, of a take's result that the table has left it behind, and of a successful renewal that waits
   to be processed that it is the only claim to its version. Since an update needs the item's counter and
   moves it by one, a version has one writer.
   `CoordinatorsImplementFencing` is the refinement `FencingHolds`. `FencingInv` makes the mapping a function: the
   holders of a lease, and its claims, are at most one (`OneOfEach`). A step is then a write that the wire
   carries (the version moves and the holder loses it; a successful renewal is a claim: `WriteMaps`), an answer
   processed (the claim becomes the holder, if the version has not moved on: `AnswerMaps`), a loss of copies or
   claims (crash, a failed renewal, a stop: `LossMaps`), or it leaves table, copies and claims alone (`Untouched`).
3. `StampsAreSound`, `NoTakeIsEarly`, on two assumptions they state: the clock is never set back, and the lease
   duration does not exceed the largest age. A stamp lies between the version's last write and now, so a lease
   that looked expired to the taker is older than the duration, and if it was written since, the take's
   expectation fails (which is where `FencingInv` is used).
4. `EveryWriteIsCounted`. That the counter moves by one is read off the write. That the number of switches agrees
   is not: the request writes what its *copy* says, plus one, and the copy is old. `SwitchesCounted` says of every
   copy anywhere, as `FencingInv` does, that if its counter is the item's, so is its number of switches
   (`Counted`); a request that the table accepts has the item's counter, and so the item's switches.
5. `AnswersAreOwed`. `LastAnswerPending` is inductive as it stands, with the types. The one callback that ends `initialize` is the last of its forced renewals, and a step that
   takes one away either ends the phase or leaves another; each of the renewer's and the taker's steps is looked at
   for the calls it may remove.

**`LeaseManager_proofs`**, for any clients, items, and numbers of writes and new creations: `ManagerInvariant`, and
from it `CopiesAreTrue`, `AcceptedCallsReadWhatTheyHit`, `EvictedLeasesStayLost`. `ManagerInv` dates everything by
incarnation and number of writes: the counter of an item is the one it was created with plus its writes (`ItemsTrue`), that
of a copy the same of the version it names, which is never ahead of the item's, and a copy that names the item's version
shows its owner, of an item that is not evicted (`CopyTrue`); the same holds of the copies in every call and answer
(`CallsTrue`). The one copy without a counter is the lease that its creator made without one (`Uncounted`): it is of the
version with no writes, and no expectation built from it is accepted (`AcceptedIsCounted`). A copy that a take hands back
names the version before the take. An accepted expectation therefore names the version, unless the item was created anew
and the counters repeat.

**`AsyncGroup_proofs`**: `GroupInvariant`, `AtMostOneLeader`, `LeaderAfterAll`, `GroupIsLed`, for any
finite set of subtasks; `OneLeader` and `SomebodyLeads` follow from the invariant and have no run of
their own. `NobodyReturnsEarly` is about the group and the baton together, for any waiting threads: `BatonInv`
says that only the leader is in `post()`, that the baton is posted only when all subtasks have posted, and that who
has returned has found it posted.

**`ControlChannel_proofs`**: `ChannelInvariant`, `MessagesAreKept`, `WakeupsAreNotLost`, `DrainsRunAll`, for any number
of senders and any capacity. The lock invariant says that only the sender with the lock is between
enqueue and publish. A drain ends with an empty queue, and what was accepted before it is in the log.
`WakesFindMessages` is about `DataChannel`, under the assumption that it has one sender: in `SignalsCounted` the
messages that the eventfd counts, the one about to be signalled and the one the loop was woken for lie in the queue.

**`ThreadPool_proofs`**: `PoolInvariant`, `JoinLeavesNothing`, `TasksRunOnce`, for any number of threads, tasks and
starts. For the last, every task is in exactly one place (with a client, dropped, in the queue, with a
thread, at one index of one data channel, or called back), and each step moves at most one task (`PlaceMoved`); a drain
shifts the rest of its channel by one. Its work was run unless it is in a place before that (`TasksFit`).

**`ShardConsumer_proofs`**: `ConsumerInvariant`, `RecordsInOrder`, `ProcessingGoesOn`, `ShutdownIsQuiet`, for
shards and batches of any size. The invariant ties the iterator to the number of records delivered.
`ShutdownIsQuiet` is about a shutdown requested while the loop of batches runs, of which no continuation loses sight; a
request made earlier is overwritten (section 4).

**`Worker_proofs`**: `WorkerInvariant`, `ShutdownStartsOnce`, `CleanUseIsSafe`, `NothingFiresAfterShutdown`, for any
number of threads and any stack. The invariant says in whose hands each call is (`HandsInv`), what the flags tell
of the threads (`FlagsInv`), and that the loop leaves a worker only with the shutdown completed (`CompleteInv`):
a clean use completes it once.

**`HTimerWheel_proofs`**, for any timers, delays, levels and slots: `TypeCorrect`, `EntriesAreKept`, `NothingRunsEarly`,
`NothingRunsLate`. `KeptInv` says that
a timer has at most one entry, over the slots and the lists a tick works on (`OneEntry`); that it has one
while it is asked for and has not finished, and only then (`AskedIsPresent`); and that no entry comes from the future,
so that the top level can hold it (`EntriesPast`). The delicate steps are those of a tick: what `Process` takes out of
a slot is run or filed further down before the tick ends, and a callback that adds a timer never adds one that has an
entry.

The last two are about time, and have a hypothesis: `KeepsUp`, the loop lags by no more than a slot of the lowest level.
It speaks of the machine and not of the code. Without it libevent arms a timer again from the present (`Fire`), that
level loses a tick and falls out of step with the others; whether the bounds survive that is neither proved nor
refuted (a run with more lag found no violation as far as it got). Under `KeepsUp` the argument has three parts.

* `ClockInv`, the ticks. Each level's timer fires at multiples of its resolution and its counter tells where in the
  slot of the level above it is (`InStep`), so a level skips exactly the ticks that the next one has (`SkipIs`). Hence
  no two levels tick at once (`TickDuesDiffer`), the next tick after one is a slot of the lowest level away, and each
  level is turned, by its own tick or by one above it, within one of its slots (`TickTurns`, `Paced`).
* `EarlyInv`: an entry in a slot of the lowest level, so many slots from the current one, is not due long before they
  have passed (`EarlySlots`). It starts with `getSlotIdx`, which rounds down by less than two slots (`GetSlotIdxIs`), and
  is kept because a tick takes away one slot and at least the time of one. The clock that an entry was filed by
  is at most one slot and the lag old (`AskedSoon`).
* `LateInv`: an entry on any level is turned out of its slot in time (`OnTime`), by as many ticks as its
  slot has to wait (`Waits`). There are three moments: before a tick, in a tick that will still empty the slot
  (`Emptying`), and in a tick that has already done so, after which a callback may put an entry into it, to wait for
  the whole level. What an upper level hands down keeps its due time (`SubsDue`) and never rises (`LevelForRises`), so that no
  induction over the cascade is needed.

Only model-checked: all liveness properties; fairness and `ENABLED` are outside the prover's reach. Every safety property
of the passing runs is also proved.

## 6. Not modelled

* The process loop of `Worker` (`runProcessLoop`) is empty in the repository; nothing connects consumers with the
  coordinator yet.
* `HTimerWheel::stop`, `LeaseRenewer::clearHeldLeases`: nobody calls them. The other models take a timer as a
  callback that may run.
* `createTableIfNotExists`, `waitUntilLeaseTableExists`: they pass on a request.
* The libevent wrappers (`EventLoop`, `BaseEvent`, `FdEvent`, `TimerEvent`) own C objects; what they do, a
  handler that runs when a descriptor is readable or a timer is due, is in the models of their users.
  Memory, and so what is used after it was freed, is in no model.
* The utilities (`Function`, `Outcome`, `Try`, `Unit`, `Buffer`, clocks, macros) hold values and keep no state of
  their own; the test support and the examples are not the program's.
* libevent, pthread, the vendored ring, the AWS SDK, glog: external, modelled by their use.
* `triggerStop` without a join, invalid tasks, a control channel that is full when a thread registers,
  `Synchronized`, the move of a baton.
* The balance of leases between workers that steal from each other is in `LeaseTaker` and may be checked with
  two workers and two leases; no run does.

## 7. Plan

Done: the lease family, its proofs and its refinement, the manager, the group with its baton, the channels,
the pool, the consumer, the timer wheel, the worker.
Next, in this order:

1. The balance of `computeLeasesToTake` against a reference definition over all small tables, with a page
   limit below the number of leases.
2. Consumers under a worker, once the repository's process loop starts them: a consumer reads only while its lease
   is held.
3. Proofs: what `LeaseTaker` may take (its leases are expired and not its own, as many as it aims at), for any table;
   the bounds of the wheel without `KeepsUp`, or a run that refutes them.
