# PingPong_SO in TLA+

A specification of PingPong_SO (`src/`): a user-level operating system whose
kernel is a library (`libppos_static.a`, a binary), with a task scheduler and a
disk manager written over it. The modules model the code's control; TLC checks
them on small instances, TLAPS proves part of what they say for every instance.

## 1. Inventory

| component | state | operations | interacts with |
|---|---|---|---|
| disk manager, `ppos_disk.c` | the request list, `disk.iCurrBlock`, `disk.init`, two semaphores, two mutexes, statistics | `disk_mgr_init`, `disk_block_read/write`, `diskTaskBody`, `diskScheduler`, `memActionFinished` (SIGUSR1), `finishDiskTask` | simulated disk (`disk_cmd`, SIGUSR1), kernel primitives, `after_task_exit` of main |
| scheduling algorithms, `ppos_disk.c` | none | `fcfsSched`, `sstfSched`, `cscanSched` | called by `diskScheduler` |
| request list, `ppos_disk.c` | nodes with `prev`/`next`, `firstNode`, `lastNode`, `iSize` | `createList`, `addNode`, `addNodeInFront`, `addNodeInBack`, `removeNode`, `isEmpty` | `queueMutex` in `addNodeInFront` only |
| simulated disk, `disk.c` | `status`, `buffer`, `prev_block`, `next_block`, the file, a timer | `disk_cmd`, `disk_sighandle` (SIGIO) | raises SIGUSR1 |
| task scheduler, `ppos-core-aux.c` | `iStaticPrio`, `iDinamPrio` of each task | `scheduler`, `getHighestPrioTaks`, `task_setprio`, `task_getprio` | called by the library's dispatcher |
| tick and metrics, `ppos-core-aux.c` | `systemTime`, the quantum counter, counters of each task | `tickHandler` (SIGALRM), `metricsHandler`, `printTaskInfo` | `task_yield`; `finishDiskTask` when main exits |
| kernel, `libppos_static.a` | ready and sleep queues, `taskExec`, semaphores, mutexes, barriers, message queues | declared in `ppos.h` | everything |
| test programs, `pingpong-*.c` | their own | clients of the above | – |
| `signal.c`, `timer.c` | – | stand-alone samples | nothing |

What is hard here, and what makes each part correct:

* **Disk manager.** A call is inserted in the list under `queueMutex`, then
  signalled under `mRequest`; the disk task picks by arm position, not by
  signaller; the end of a transfer is a signal handler that can run at any
  step. Correct means: one wake-up per request, none lost, none extra; the disk
  is idle when a transfer is started (otherwise the request is silently lost);
  each request is transferred exactly once; each call returns, and returns
  after *its* transfer; the task ends when asked to.
* **Algorithms.** Each loop must pick what its name says for every order of
  the list, ties and an empty front included.
* **Task scheduler.** Aging must exclude starvation although priorities
  differ and change, and must not drive the dynamic priority away.
* **Tick and metrics.** The tick yields wherever it strikes, without looking at
  `preemption`; one counter is the quantum of every task; the metrics read
  `systemTime` twice in a switch that a tick may interrupt. Correct means: no
  task gets more than a quantum, and a tick is charged to the task it struck,
  once; during a switch it is known where it goes instead.
* **Request list.** `removeNode` is not under the mutex that `addNodeInFront`
  takes. Correct means: forward and backward pointers and `iSize` agree, and no
  freed node is followed, whatever interrupts what.
* **Test programs.** They synchronise tasks that may be preempted anywhere.
  Correct means: the buffer of the producers is a FIFO, a sum loses nothing, one
  turn goes round, `task_join` gives the exit code, and every program ends,
  although two of them destroy semaphores and queues in use.

`PROJECT.json` lists the hazards one by one, with the line where each bites
and the properties that cover it, or why none does.

## 2. Modules

| module | models | built from |
|---|---|---|
| `PPOSSync` | semaphores and mutexes of the kernel, as used (external: a binary) | – |
| `DiskDevice` | `disk.c`: `disk_cmd`, `disk_sighandle`, and the delay of `disk_settimer` | – |
| `Selection` | "first of the cheapest", what every strict-minimum loop returns | – |
| `DiskSched` | the three algorithms as folds, and what they are for | `Selection` |
| `SeekOrder` | abstract: a queue of blocks and a head under one algorithm | `DiskSched` |
| `RequestList` | the list on its nodes and pointers, a step per assignment; implements `SeekOrder` | `DiskSched`, `SeekOrder` |
| `DiskTests` | `pingpong-disco1.c`, `pingpong-disco2.c` as client programs of `DiskManager` | – |
| `DiskManager` | clients, disk task, signal and exit of main | `PPOSSync`, `DiskDevice`, `DiskSched` |
| `BlockDevice` | abstract: a call is an atomic transfer | – |
| `DiskService` | abstract: requests are treated once each, in some order; as many callers return | – |
| `TaskScheduler` | `scheduler`, `task_setprio`, dispatcher as seen by them | `Selection` |
| `MCDiskManager`, `MCTaskScheduler` | values of the constants for TLC | |
| `MCSchedulerTest` | `pingpong-scheduler.c` over `TaskScheduler` | |
| `TickMetrics` | `tickHandler`, `metricsHandler`, the hooks that keep times | – |
| `PPOSKernel` | tasks, join, sleep, semaphores that can be destroyed (external) | `PPOSSync` |
| `TestPrograms` | nine `pingpong-*.c` as sequences of statements | – |
| `PingPongTests` | those programs running on the kernel; implements `BoundedFIFO` | `PPOSKernel`, `TestPrograms` |
| `BoundedFIFO` | abstract: a queue of at most so many items | – |
| `ListLemmas` | facts on `Append`, `Tail`, `RemoveAt`; induction over indices and what a fold computes | |
| `TaskSchedulerProofs`, `DiskManagerProofs`, `TickMetricsProofs` | theorems | |
| `DiskSchedProofs` | theorems: what the loops of `DiskSched` return | `ListLemmas` |
| `RequestListProofs` | theorems: the list at pointer level, and its refinement of `SeekOrder` | `DiskSchedProofs` |
| `PingPongTestsProofs` | theorems: what the test programs promise for any number of tasks and rounds | `PingPongTests`, `ListLemmas` |
| `DiskServiceProofs` | theorems: `DiskManager` serves every request and implements `DiskService` and, for one client, `BlockDevice` | `DiskManagerProofs` |

### DiskManager and the code

A step is the code between two kernel primitives, the later one included, so
any other task may run between two steps. `pc[c]` is a client's place in
`disk_block_read`/`disk_block_write`, `diskPC` the disk task's in
`diskTaskBody`.

| action | code |
|---|---|
| `LockQueue`, `Insert`, `UnlockQueue` | `addNodeInFront`: `mutex_lock`; `createNode` and the links; `mutex_unlock` |
| `LockRequest`, `SignalNew`, `AwaitTreated`, `UnlockRequest` | the rest of `disk_block_read`/`write`, one kernel call each |
| `TestInit`, `DownNew` | `diskTaskBody`: `while (disk.init == 1)`, `sem_down(&disk.newReqsSem)` |
| `Schedule` | `diskScheduler` up to `removeNode` included |
| `IssueBusy`, `Issue`, `IssueRefused` | `diskScheduler` from the status query on: disk busy; `disk_cmd` accepts; `disk_cmd` refuses |
| `Complete` | `disk_sighandle` and the `memActionFinished` it raises, in one handler run |
| `MainExit` | `task_exit` of main: `after_task_exit`, `printTaskInfo`, `finishDiskTask` |
| `DispatcherIdles` | the dispatcher polling once every user task is gone |

`diskScheduler` is cut in two because `removeNode` frees the node and the rest
of the function still reads it. `ReuseFreed` says whether `malloc` may give
that node to another caller's `createNode` in between; `picked` then names the
new request. Everything is checked or proved for `ReuseFreed = TRUE` except
what is false for it (`AllServed`, `ImplementsDiskService`).

`MainJoins` says whether main joins its clients before it exits, as both
test programs do (in `pingpong-disco1.c` main is itself the client). Without
it, main may exit at any step. With it `finishDiskTask` always finds the list empty,
and then it does nothing: the disk task is never ended (`disk_manager_finish`).

`inService` and `served` are history variables: they change with the state
and no guard reads them.

A request is `[task, ip]`, its caller and the number of the call; block,
buffer and kind are looked up in `Program`. Blocks hold values of `Data`.

A tick *inside* a step is not in this module: `RequestList` has it for
`addNodeInFront` and `removeNode`, and for a kernel primitive see section 6.

### RequestList and the code

A step is one assignment, `iSize++` and `iSize--` two: a read and a write. At
most one caller inserts at a time (`queueMutex`); the disk task removes, and
takes no mutex; each may be interrupted by the other after any step. `node` is
the heap, `Forward` and `Backward` are what the pointers lead through.
`createNode` is one step with the test of `firstNode` before it, because the new
node is nobody else's yet. `lastNode = firstNode` is two steps, `LoadFirst` and `SetLast`.

A loop of `sstfSched` or `cscanSched` is one step, at its read of `iSize`. It looks at
`iSize` nodes, `Visited`, and its candidates start from the first node in any case. A
node that `addNodeInFront` has linked and not counted yet is therefore not looked at
unless it is alone; `SSTFIsNearest`, `CSCANRestarts` and `CSCANSweeps` are about the
node that `diskScheduler` takes, among the requests whose insertion is complete.
One step is enough because nothing is removed during a loop, and what an insertion
links meanwhile is behind the nodes visited.

Some interleavings do damage the list, and `Torn` names them:

* `Tearing`: `removeNode` has found that its node is the last one, and before it
  stores `lastNode`, `addNodeInFront` links a new node behind that node (or
  the other way round). The new request is lost, or `firstNode` and `lastNode`
  disagree. One case does no harm and is not part of `Tearing`: the node just put into an
  empty list is being removed, and `LoadFirst` reads `firstNode` when it is NULL again,
  so that `SetLast` stores NULL. Had it read the node, `SetLast` would leave `lastNode`
  dangling; that is `Tearing`.
* `Miscounting`: both have read `iSize` and neither has stored it. One update is
  lost; `finishDiskTask` and the algorithms' loops then trust a wrong count.
* main exits, and `finishDiskTask` frees every node, in the middle of an
  operation.

The model stops there. What the run shows is that these are *all*: any other
interleaving of the two operations leaves a well-linked list, follows no freed
node and implements the atomic queue of `SeekOrder`, with an insertion taking
effect at the store of `firstNode` or `next`, counting (`SeekOrder!Count`) when `iSize`
is stored, and a removal when its node is picked. `DiskManager`'s sequence is sound
exactly as far as that: its `Insert` stands for the moment at which the node is counted,
or is picked before that because it is alone.

### TickMetrics and the code

Ticks are masked in `tickHandler`, hence in the `task_switch` a tick leads to, but not in
a switch that the task or the dispatcher makes itself. That one is four steps:

| action | code | a tick before the next step is charged to |
|---|---|---|
| `GiveWay`, `Dispatch` (`BeginSwitch`) | `metricsHandler`: the leaving task's `uiProcessorTicks` | nobody |
| `RestartClock` | `metricsHandler`: `uiTaskStartingTick` | the task switched to |
| `AssignTask` | `task_switch` of the library sets `taskExec`, after `before_task_switch` (`ppos.h`:37) | the task switched to, which now is `taskExec` |
| `EndSwitch` | `swapcontext` | the task that runs |

`ProcessorTimeIsRun` is the exact account: `ran` counts the ticks that struck while a
task was `taskExec`, `missed` those of them inside a switch away from it, `taken` those
it gets from before it was `taskExec`. A tick that would yield inside a switch would
enter `task_switch` a second time (`interfered`); the model stops there. `TickCounts`
and `TickYields` are `tickHandler` without and with its `task_yield`. `EnterPrimitive`
and `LeavePrimitive` are the assignments to `preemption` that the library makes. An exit
is two steps: `Exit` computes `uiExecTicks`, `printTaskInfo` prints. A tick between the
two may make the task yield (`delayed`), is charged then, and may make the processor
time printed exceed the execution time; `PrintedTimesAgree` is about all other exits.
Which task is dispatched is open: the scheduler has its own module. `slice`, `ran`,
`missed`, `taken`, `printed` and `delayed` are history variables.

### PPOSKernel, TestPrograms and PingPongTests

`TestPrograms` has one sequence of statements per task body, in the order of the
code; counted loops are written out, endless bodies start again. `PingPongTests`
executes them: an action per kind of statement, any runnable task next, so a
tick may preempt between any two statements. A call that suspends sets
`called[t]`; `Return` is the task coming back out of it with its result, which is
-1 if the semaphore was destroyed meanwhile. `x += n` is a load and a store.
`bufferRetrieve` is three statements, its shift loop being one. Message queues
are kernel code: a test of the queue, two `sem_down`s, the copy, two `sem_up`s, and
-1 as soon as one of them fails; `mqueue_destroy` deactivates the queue and
destroys its semaphores one by one. How many messages a queue holds is kept,
their contents are not.

### Kernel primitives

The library has no source. `PPOSSync` states what its header and its use imply
and what its object code does: a semaphore's counter is decremented first and a
negative one suspends the caller in FIFO order; `sem_up` resumes the oldest; a
mutex is handed to its oldest waiter. `PPOSKernel` adds that a destroyed
semaphore releases its waiters, and that calls on it return -1.

### TaskScheduler and the code

`Dispatch` is `scheduler`, with the aging loop as one function update, and
the dispatcher's removal of the task from the ready queue. A dynamic priority
of a task that is not ready stays. `Yield` is a call of `task_yield` or the
tick's; `Suspend` any suspension or exit; `Resume` any creation or wake-up.
`waits` is a history variable.

## 3. Runs

| run | bounds | shows |
|---|---|---|
| `disk_manager` | 3 clients, 4 calls, 4 blocks, one call refused, main exits at any step | types, the one token of the handshake, the balance of the list, idle disk at each start, a delay for its timer that fires; every call returns unless `finishDiskTask` clears `disk.init`, and then the disk task ends (with or without the `sem_up` of `finishDiskTask`: a list that is not empty has a wake-up on its way, see `ListBalance`) |
| `disk_manager_service` | 3 clients, 5 valid calls, no reuse | every request is transferred; refinement of `DiskService`; each pick is nearest to the real arm |
| `disk_manager_alone` | 1 client: the reads and writes of `disco1` on 4 blocks, and 9 calls of which 3 are refused | refinement of `BlockDevice`; the caller's own transfer is done when it returns |
| `request_list` | 3 nodes, 3 blocks, all three algorithms | links and size agree, no dangling pointer, refinement of `SeekOrder`; of the requests completely inserted, `sstfSched` picks the oldest of the nearest, `cscanSched` restarts from the lowest and sweeps as long as the first node is not behind the head |
| `task_scheduler` | 3 tasks, priorities -1..2 and two arguments out of range | aging and waiting are bounded, no starvation |
| `test_programs` | nine programs; 2 producers, 1 consumer and 2 slots, 1 sender and 1 receiver beside the adder, 3 equal tasks, 2 rounds | refinement of `BoundedFIFO`, the sum, the turn, the exit codes; every program but the endless one ends, and in that one nobody waits for ever |
| `tick_metrics` | 2 tasks and the dispatcher, a quantum of 2, 5 ticks | the quantum is kept, every tick is accounted for, the printed times agree |

Why these bounds are enough. Three clients are one in flight, one waiting for
`mRequest` and one still inserting, which is every relation two callers can
have; a second call of a client brings it back while others are served. Four
blocks give distances that differ, tie, and lie on both sides of the head. A
wait of the scheduler involves the waiting task, one that is always better and
one whose priority is raised meanwhile. What does not depend on data is proved
for all sizes (section 5). Three nodes are one removed, one before and one
behind it, which is every shape `removeNode` tells apart, with an insertion
under way beside them in each. Two slots let the buffer be empty, full and in
between, and two items show an exchange of their order. Two rounds bring every
task back to its semaphores after others had them, and in
`pingpong-semaphore.c` the first task ends while the others still have turns to
take. Five ticks are more than two quanta of 2, so that a counter that is
inherited, renewed and inherited again is among the cases.

Deadlock is checked in every passing run but `disk_manager`: there an early exit of main
frees the requests of callers, which then wait for ever.

The runs that TLC refutes each state what a document or a test says:

| run | document | what the code does |
|---|---|---|
| `disk_manager_woken` | `disk.h`:31-32, SIGUSR1 wakes the task that asked | a caller returns at another's transfer. In `pingpong-disco2.c` a mover may then write a buffer that has not been read yet, and `disk.dat` need not become `disk-final.dat` |
| `disk_manager_finish` | `ppos_disk.h`:178, `finishDiskTask` "frees the entire list and ends the disk task" | if main has joined its clients the list is empty, `disk.init` stays set and the disk task waits in `sem_down` for ever |
| `disk_manager_reuse` | `ppos_disk.h`:106, a read is from the disk into the buffer; `README.md`:33-34, a release for each finished request | the freed node is read again: one request twice, another never |
| `scheduler_test` | `pingpong-scheduler.txt`:2-9 | the first round is in creation order |
| `tick_in_primitive` | `ppos-core-globals.h`:13-15, `preemption` says whether there can be preemption | the tick yields while a primitive has it cleared |

`cscanSched` (`ppos_disk.h`:34, circular scan) does *not* sweep when the first
node of the list is behind the head: its negative distance is then the least
one. `CSCANSweeps` says so by its precondition. `diskScheduler` always selects
SSTF, so this concerns compiled code that is not selected today. Another
difference of words and code: the comment of `ppos-core-aux.c`:44 says 20 ticks,
`DEFAULT_TASK_TICKS` is 40. And the delay of a transfer, which `disk.c`:74 puts in the
interval from 30 to 300 ms, reaches 324 on a disk of 256 blocks, since the random term
comes on top; `TimerFires` states the bound that does hold.

## 4. Fairness

* `WF(Client(c))` and `WF(DiskBody)`: a ready task runs again. The dispatcher
  loops and `scheduler` ages what it passes over; `TaskScheduler` checks
  `NoStarvation` and `WaitBounded` proves the bound, under the tick's
  preemption of tasks that do not yield.
* `WF(Complete)`: a transfer that was started has an armed one-shot timer,
  and `disk_sighandle` runs when it fires. `TimerFires` is why it does: the delay is
  neither 0, which disarms a timer, nor one that `timer_settime` refuses.
* Nothing is assumed of `MainExit`: main may have more to do than its clients.
  `EveryCallReturns` exempts callers whose requests `finishDiskTask` has freed; with
  `MainJoins`, `FinishIsSkipped` shows that there are none.
* `WF(Step(t) \/ TimePasses(t))` for each task of the test programs: for the same
  reason a task that can run gets its next step, and a sleeper has no step but
  the end of its sleep, for which the dispatcher looks at every turn. Nothing
  more is assumed of semaphores: that nobody starves on one is their FIFO order.
* `WF(Dispatch)`, `WF(Yield \/ Suspend)`: the dispatcher polls; the tick
  yields in the place of a task that does not. Nothing is assumed of `Resume`
  and `task_setprio`.

## 5. Proofs

`TaskSchedulerProofs`, for any finite set of tasks and any range of
priorities: `TypeCorrect`, `AgingBounded`, `WaitBounded`. The two bounds rest
on one inductive invariant: a task that is not ready is not below the static
range and has no waits; a task's dynamic priority plus its waits is at most the
greatest static priority; and at most N - k of the N tasks are k or more below
the static range, for every k. The bounds are not inductive alone: one dispatch
lowers every ready task but one, and only the count says how many can be how
low. It holds because the task that is picked is a lowest one: if any task is
as low as that, the picked one is, and leaves.

`DiskManagerProofs`, for any finite set of clients, any programs and any disk,
whether or not main joins and whether or not freed nodes are reused:
`TypeCorrect`, `TimersFire`, `TokenIsUnique`, `ListIsBalanced`, `NeverBusy` and
`FinishIsSkipped`. `TimersFire` is the arithmetic of `disk_settimer` on the types: the
quotient stays below the range, so the delay is between 30 and 325 ms. None of the
invariants of the handshake is inductive: a `sem_up` whose queue ought to hold a
waiter, a disk task that sleeps at "schedule", a second caller past `mRequest` are only
excluded by what the others say. The invariant `IInv` is

* `QueuesOK`: who may wait where, and what the counter then is. Only the disk
  task waits on `newReqsSem`, only at "schedule", and the counter is then -1; at
  most one caller waits on `treatedReqSem`, at "unlock"; the mutexes' waiters are
  at the statement after their `mutex_lock`.
* `RequestMutexOK`: at most one caller holds `mRequest`, none if it is free.
* `TokenOK`: while `init` holds, the token is in one of the two counters, with
  the disk task or with the disk exactly if a caller is in flight. This is
  `OneTokenInFlight` with `Blocked` replaced by what the queues hold.
* `BalanceOK`: `ListBalance` in the same form.

A step moves the token from one place to the next; only the holder of `mRequest`
makes or takes one, which is why the exclusion is part of the invariant; and
`BalanceOK` is what shows that the disk task, once woken, finds a request,
so that the token does not vanish in the empty branch of `diskScheduler`.
`NeverBusy` follows: a request in hand is one token, a busy disk another.
`FinishIsSkipped` adds that if main joins its clients then `init` holds and the disk task
has not exited (`NeverEnded`): with all callers through, nobody is in flight and nobody
is unsent, so the list is empty. This is the other side of `disk_manager_finish`: the
disk task is then never ended, for any clients and programs.

`DiskServiceProofs`, for any clients, programs and disks, as long as main joins
its clients:

* `EveryRequestServed` and `ManagerImplementsService`, if `NodeKept`: a freed node
  is not reused, or there is only one client, which then waits and inserts nothing
  (otherwise `disk_manager_reuse` shows a request lost);
* `AloneWokenServed` and `ManagerImplementsDevice`, if there is only one client
  (otherwise `disk_manager_woken` refutes the first);
* `SeekIsShortestWhenJoined`, if every request is valid.

`SInv` follows each request:

* `PendingOK`: a pending request is in the list, in the disk task's hands or on
  the device, in one of them only, and its caller has inserted it. Without "in one
  only", the end of a transfer would not take a request out of what is pending;
  without "has inserted it", an insertion could repeat one.
* `TransferOK`: the device's three fields are the parameters of the request on it,
  so that what `disk_sighandle` moves is what the caller asked for.
* `ServedOK`: a valid request that was made is either pending or served, no other
  one is served, and a caller that is through has made all of its requests.

`init` is part of it, from `FinishIsSkipped`: `IssueBusy` would lose a request and
`NeverBusy` excludes it. `EveryRequestServed` follows, as nothing is pending once
nobody is in flight. For the refinement each action of `DiskManager` is shown to be
a step of `DiskService` or a stutter: `Insert` submits, `IssueRefused` and `Complete`
treat, `UnlockRequest` returns. The credit of `DiskService` is the counter of
`treatedReqSem` and the callers it let out; that a `sem_up` adds one and a `sem_down`
none, whether or not somebody waits, is `UpCredit` and `AwaitCredit`. For the seek
order, `HeadOK` relates `disk.iCurrBlock` to the arm, which moves later. For one
client, `NothingPending` says that a caller outside of its calls, or just let out,
has nothing pending; so what is pending is the current call's (`CurrentOnly`), and
`Complete` is the instant of the call that `BlockDevice` asks for.

`TickMetricsProofs`, for any tasks, any quantum and any number of ticks:
`TypeCorrect`, `QuantumKept`, `ProcessorTimeExact`, `PrintedConsistent`. The
invariant adds two facts to the properties:

* `QuantumLeft`: the ticks of the current slice and what is left of the shared
  counter are together at most one quantum. A switch sets the slice back and
  not the counter, so a task may get less than a quantum and never more.
* `RunsWhileCreated`: a task that executes or is switched to has been created,
  and has run at most for the time since. This is what `printTaskInfo`'s two
  numbers rest on.

`ProcessorTimeIsRun` is part of the invariant too: each of the four steps of a switch
moves what is uncharged (`Uncharged`) from the leaving task to its `uiProcessorTicks`, then
to nobody, then to the task switched to. `ExitTimesAgree` is `PrintedTimesAgree` with the
exits under way.

`DiskSchedProofs`, for lists of any length, any blocks and any head:
`SSTFPicksNearest` and `CSCANPicks`. A loop is a fold, and a fold is a recursive
function over the prefixes of the list: `FoldExists` shows that there is one,
`IndexInduction` (from the library's least-element theorem, applied to the *set* of
the indices where the claim holds) that a loop invariant carries from the first node
to the last. The invariant of `cscanSched`, `CSCANInv`, says what each of its five
variables is after k nodes; `shortestFront` is the least distance in front only if
the first node is in front, which is the precondition of `CSCANSweeps`.

`RequestListProofs`, for any number of nodes and blocks: `Invariance`, `TypeCorrect`,
`NoDanglingPointer`, `ListIsWellLinked`, `ListImplementsSeekOrder`, and
`SSTFAlwaysNearest`, `CSCANAlwaysRestarts`, `CSCANAlwaysSweeps`. None of these
properties is inductive: they speak of the moments at which nobody is inside an
operation, or of a pointer that some earlier statement has set. `IInv` says that there
is a sequence q of nodes the pointers stand for (`Listed`):

* `Chain`: the `next` pointers lead from `firstNode` through q, whose nodes are
  allocated and distinct. This holds even while the list is being torn.
* `Prevs` and `LastIs`: the `prev` pointers and `lastNode` agree with q but for the one
  that the second statement of `removeNode`'s case, or the last store of
  `addNodeInFront`, is about to set.
* `Allocated`: the heap holds q, a node that `addNodeInFront` has not linked yet
  (`Fresh`), one that `removeNode` has unlinked and not freed (`Detached`), and no more.
* `Counted`: `iSize` is the length of q, but for what each side has not stored yet.
* `Inserting`, `Chosen`, `Removing`: where in q the two sides are, and that the shape
  `removeNode` has read is still its node's. This is why `Tearing` is what it is: the
  proof that `LinkFirst`, `LinkNext` and `SetLast` keep these parts needs just that
  condition to be false, and no other part of it.

q is the witness that changes: by `LinkFirst` and `LinkNext` at its end, by `Unlink` or
`Relink` in one place, to nothing by `finishDiskTask`, by no other step (one lemma per
action). `Forward` is q by induction along the pointers (`WalkIs`). For the refinement,
the queue is q without the node under removal (`Without`); the step that unlinks a node
leaves it alone, since the node was taken out when it was picked. Where the queue gets
a new node, `FreshIsNew` shows that it cannot be the one that `removeNode` works on,
although freed nodes are used again. What the loops look at is the queue without the
request being inserted, if it is not alone: while nothing is removed, `iSize` is the
length of that (`CandidatesVisited`), and `HeadAtBlock` and `PicksChoice` tie the node taken to it.
The three theorems about the algorithms are action properties: they apply `DiskSchedProofs`
to the nodes visited, in a step in which `diskScheduler` takes one.

`PingPongTestsProofs`, for any number of equal tasks, of producers, consumers and slots,
and of rounds, and for any interleaving: `TasksAreWhereTheyMayBe`, `MainIsTheLast`,
`JoinGivesMax`, `OneTurnGoesRound`, `SumIsNumTasksTimesRounds`, `PermitsAreKept`,
`TypeCorrect` and `BufferIsFIFO`. The programs' lengths depend on the
constants, so the first half of the module shows what a statement at an index is:
counted loops are looked up (`RepeatIs`), mains and bodies are put together, and each
test turns out `WellFormed`, with a main that creates its tasks first and joins what it
joins before it ends. The rest uses nothing else about the programs.

* `Base` is the inductive invariant behind all of them. It says of every task where it may
  be (`Positions`, `Lifetimes`, `Suspended`), of every queue that its entries are
  suspended in the call that put them there (`Queues`), of a negative counter that it
  counts its queue (`Counted`), and of main that whom it has joined has exited and that
  it cannot be in a `task_join` that nobody will end (`Joined`). One lemma per action
  shows that its step is a `Frame`: one task moves on, is suspended or ends, all others
  stay, and queues get no entry but that task.
* `MainIsTheLast` is then a matter of main's program: in all tests but two there is a
  join of every task before its end. `JoinGivesMax` adds `Codes`: in
  `pingpong-join.c` a task that has exited left its `max` as exit code, and what a
  `task_join` has just given to main is the `max` of the task it joined.
* `OneTurnGoesRound` and `SumIsNumTasksTimesRounds` are not inductive for two reasons: a
  counter may be 1 although a task has passed its `sem_down`, and a resumed task may not
  have returned yet. `Token` says what is: at most one task holds the token, among
  those at a statement between `sem_down` and `sem_up` and those still inside a
  `sem_down` whose queue they have left; no counter exceeds 1; and a counter of 1
  excludes a holder and any other counter of 1. This holds in every program that is a
  `Cycle`. It ends when main destroys the semaphores, which in `pingpong-racecond.c` is
  after the last task has exited, and in `pingpong-semaphore.c` may be earlier: hence
  the precondition of `OneTurn`.
* The sum: whoever is at a store has loaded the current `soma`, and `soma` is the
  number of stores passed (`Added`), because the token lets nobody else store in
  between. When main reports, every task has exited, so all of them have been passed.
* `PermitsAreKept` counts what the semaphores `sVaga`, `sItem` and `sBuffer`, and those
  that a message queue has for its slots and messages, have issued. What a task holds
  follows from its program: a `Ledger` gives the permits before each statement
  (`sem_down` gains one, `sem_up` spends one, and counting an item in or out trades a
  permit for a slot against one for an item or back), starts and ends empty, and stays true where
  a failed call skips to the end of `mqueue_send` or `mqueue_recv`. Every task main
  creates has one (`TasksBalanced`). `Issued(s)` is then the semaphore's value plus the
  tasks that hold a permit or wait in its queue, and no step raises it but a trade
  (`IssuedStep`): a `sem_down` moves a permit from the value to a task, a `sem_up` back
  or to the oldest waiter, and a destroyed semaphore keeps only its holders. Why the
  invariant says `<=` and not `=`: `mqueue_destroy` loses the permits that the value still
  had. `Accounts` is what this buys: `Issued(sVaga)` plus the items is at most
  `TAM_BUFFER`, `Issued(sItem)` is at most the items. `NoRepeat` (nobody waits twice) is
  needed because holders are counted as a set and waiters as a queue.
* `TypeCorrect` needs those bounds for `i` and `queued`: nothing in the programs looks at
  `i` before it is used as an index. Who is about to count an item in holds a permit for a slot.
* `BufferIsFIFO`: whoever is at a statement of the buffer holds `sBuffer`, of which one
  permit exists, so it is alone there, with a slot or an item for it (`Exclusive`). What
  has been written is therefore still at `array[i]` when it is counted (`Placed`, inductive
  with `Permitted`), and the rest is a step lemma per statement: `advance` is `Place`,
  `first` is `Retrieve`, `random` is `Choose`, and `write`, `shift` and `retreat` change
  the array but not the queue it shows (`Shows`).

Assumptions used: `SchedulerAssumption`, `DeviceAssumption`, `DelayAssumption` (an `int` holds the number
of blocks times 270, as `disk_settimer` multiplies), `ManagerAssumption`,
`TickAssumption`, `ListAssumption`, `TestAssumption`, `TasksAssumption` (the kernel has
a descriptor for each task of each program) and `ItemsAssumption` (an item of
`pingpong-prodcons.c` is `random() % 100`, so not negative). TLC evaluates them in the runs of their
modules.

Checked by TLC only: every liveness property, and with it the fairness of the
specifications, which is out of the prover's reach. Every invariant of the passing runs,
every action property and every refinement is stated by a theorem.

## 6. Not modelled, and the plan

Not modelled:

* **The inside of kernel primitives.** They are in a binary; each is one step.
  A tick or a SIGIO in the middle of one (`tick_in_primitive` shows that it can
  happen) works on half-updated data, and what then follows is not in the model.
  Nor is the buffer that `mqueue_destroy` frees while a task that has passed its
  `sem_down`s copies into it.
* **After the damage.** `RequestList` stops once the list is torn, `TickMetrics`
  once `task_switch` has been entered twice.
* **Timing.** The delay that `disk_settimer` computes is bounded, but no clock runs
  it down: a transfer ends at any moment. `execTime` and `totalBlockAccess` are
  statistics that are printed and decide nothing.
  `systemTime` is a number that does not wrap (49 days of milliseconds).
* `addNode` and `addNodeInBack`, which nothing calls (`addNode` would not link
  its node), `mqueue_msgs` and barriers, which no program uses, `uiActivations`.
* The joins of `pingpong-scheduler.c` (main joins Ping twice and Pong never, so
  the process may end before Pong does).
* Printing, the empty hooks, `signal.c` and `timer.c`, which are not linked with
  the system.

Left of the plan:

1. `DiskTiming`: `execTime` against the transfers' times, with a tick inside
   `memActionFinished`.
2. `DiskManager` over `RequestList` instead of its sequence, for what a torn
   list does to the callers.
