# Gendo: a verification development

Gendo is a VPN service: an authentication server in C (`Server/gas` over the
library `Server/Lib`), a web site in PHP that sells plans (`Web/gweb`) and a
Windows client (`Client`). The repository has no tests. The modules here model
the parts in which several threads, processes or outside parties meet, check
them with TLC on small instances and prove what can be proved with TLAPS.

Everything is translated from the source. `PROJECT.json` gives for each
definition the lines it stands for, for each property the seeded fault that
breaks it, and the hazards the properties are for.

## Inventory

| Component | State | Operations | Talks to | Hard behaviour | Correct when |
|---|---|---|---|---|---|
| thread pool, `lib-thread.c` | `threads_lock`, counters, idle list; per thread a lock, a condition, a state bit, a job | `thread_dispatch_with_tp`, `thread_wrapper`, `thread_pool_finl` | its callers, by condition variables | two locks taken in both orders, waits without predicate | jobs run once, no cycle of locks, no lost signal |
| message pools and consumer, `lib-msgpool.c`, `lib-msg-consumer.c` | two lists with `type`, `count`, `limit` under a mutex each | `msg_pool_init/get/put/producer/consumer`, `mc_producer_run`, `mc_consumer_run_with_tp` | event loop, thread pool | start-up beside the event loop, signal only at count 1, items reused | items conserved, messages handled once and in order |
| database handles, `lib-db.c` | semaphore, list of handles | `db_get_handle`, `db_put_handle`, `db_pool_init/finl` | handlers of gas, MySQL | semaphore and list in separate steps | a handle is used by one thread, NULL never comes from an open pool |
| server, `gas-main.c`, `gas-user-msg.c`, `gas-user.c` | connections, requests under way | receive, login, server list | all of the above, table `user` | clients leave early, descriptors are reused, rows vanish | who asked gets the answer |
| event loop, `lib-libevt.c` | events by descriptor | accept, `libevt_clean` | gas | errors after accept | no connection served after it is closed |
| payment, `alipay_*_url.php`, `order_mdl.php`, `service.php`, `user_mdl.php` | tables `order` and `user` | `checkout`, `order_transaction` | Alipay, the buyer's browser | reports overlap, repeat, come late, processes die | an order that was paid is credited once |
| accounts, `register.php`, `login.php`, `user.php`, `user_mdl.php` | a table of `openvpn`, three of `radius`, sessions | `add_user`, `validate_user`, `mod_user_password`, `update_ref` | payment, gas, VPN servers | four inserts without a transaction, no unique name, processes that end | who was told OK can log in, the databases agree |
| client DLL interface and queue, `RopAsyncDll.cpp`, `RopQueue.cpp` | two ring buffers, three events, the shutdown flag | `Send`, `NotifyMsg`, `OnReceive`, the send thread, `CheckAndDoShutdown` | client threads, threads of the DLL, `RopExecuter` | tests and reads outside the critical section, an event reset after a test, a shutdown that waits for nobody | nothing lost, popped twice or slept over |
| client session, `RopAsyncSession.cpp` | byte buffer, socket | connect, extract | client threads | partial reads | messages cut at their length |
| client VPN, `RopOpenVpn.cpp`, `RopL2TP.cpp`, `RopPPTP.cpp` | connection state | dial, hang up, callbacks | Windows RAS, OpenVPN | callbacks after a cancel | state follows the last command |

The rest (library helpers, timers, index cache, Django administration, other
pages, download manager, updater, vendored DuiLib, OpenSSL and CodeIgniter) is
listed in `PROJECT.json` with the reason it is left out.

## Modules

    WorkerPool      what a thread pool promises            (abstract)
    FifoBuffer      what a consumer pool promises          (abstract)
    ThreadPool      lib-thread.c          implements WorkerPool
    MsgConsumer     lib-msgpool.c, lib-msg-consumer.c
                    uses WorkerPool, implements FifoBuffer
    DbPool          lib-db.c
    GasServer       gas and lib-libevt.c
                    uses FifoBuffer, WorkerPool and MaxHandles of DbPool
    Orders          the payment of an order on the web site
    Accounts        registration, login and passwords on the web site
    AsyncDll        RopAsyncDll.cpp and RopQueue.cpp of the client

    DbPoolProofs, ThreadPoolProofs, MsgConsumerProofs, GasServerProofs,
    OrdersProofs, AccountsProofs, AsyncDllProofs
                    theorems of those modules
    ThreadPoolRefines
                    theorem: ThreadPool implements WorkerPool
    MC*             instances for TLC

The stack is checked layer by layer: each layer is shown to implement the
abstract module, and the layer above is built on that one.

**ThreadPool.** A step is the code between two points where the thread can
block or be seen by another. A section under one mutex that takes no second is
one step; a section that takes a second mutex is split there, and
`threads_lock` then names its owner. `wpc`, `dpc` and `cpc` are the places in
`thread_wrapper`, `thread_dispatch_with_tp` and `free_thread_pool`. A wait on a
condition variable releases its mutex in the step that begins it; a signal
finds a waiter or is lost. `fate` is history. `thread_get_idle` may return any
idle thread, which the order of the list would fix.

**MsgConsumer.** `cache` and `queue` are the two `msg_pool_t`; `evpc` and `cpc`
are the event loop and the high priority thread, `running`, `returned` and
`served` the jobs in the thread pool. `count` is a `UInt32` that wraps at
`UIntMax`. An empty list has its own head as first element, so taking from it
yields an item that is none: `corrupt` marks that. The four `Boot` steps are
`msg_pool_init` as another thread sees it.

**DbPool.** `sem`, `listed`, `state` as in the source; a client is between
`sem_wait` and the search (`scan`), has a handle (`using`), has put it back and
not yet posted (`post`), or got NULL (`null`).

**GasServer.** A connection has a descriptor, a request remembers in `peer` the
descriptor it came on and (history) in `asker` the connection. `Auth`,
`GetHandle`, `QueryUser`, `UpdateLastLogin`, `Answer` and `Done` are the steps
of `gas_user_login`, one for each query or call another thread can come
between. `TableChange` is the table `user` changed by the web site or an
administrator. `Check` is the handler's own test of the message: one that is too
long, or of a type it does not know, is refused without an answer. `Answer` finds
the connection by its descriptor and writes to it, which may fail. `mute` (history)
are the requests that were refused or whose answer could not be written, `gotOn`
is the connection an answer was written to.

**Orders.** Every web request is a process of its own and every SQL statement
one step. The read of `refered` and the update of the bonus are one step, since
`refered` is written once, when the account is made. `Advance` and `Close` are
Alipay (external): it reports every status a trade has been through, as late
and as often as it likes. The return page is only visited by buyers who have
paid, as its own comment says.

**Accounts.** A registration inserts at most one row into each of the four
tables, so the request is the id of its rows: `ovpn[q]` and `radcheck[q]` are
the passwords in them, `userinfo` and `radusergroup` only whether there is one.
Each insert, update, delete and test for the name is a step. `db_debug` decides
whether a failing query ends the process (`Die`) or returns an error
(`StatementFails`), and `AfterFailure` is what `add_user()` and
`mod_user_password()` do then. `overlapped`, `failed` and `ended` are history. A
session is a set of names; its end is not modelled, since a session that ended
permits nothing that one nobody uses does not. Nickname and address are
abstracted.

**AsyncDll.** `ring` is the two `RopQueue`s, `size` an `unsigned long` that
wraps at `ULongMax`. `Push` and `Pop` are split where the source is: the test
of the size before the critical section, the section, and for `Pop` the read of
the slot after it. The place of the send thread (`DllSendThdProc`, `OnSend`) and
of the executer (`EventLoop`, `OnReceive`, `Receive`, `CheckAndDoShutdown`) is
`tpc`. The DLL is external: its threads push whenever they like until
`Finalize()` returns, and the client sends nothing once it has called `Shutdown()`
(`MayCall`, an assumption: `Send()` does not test `m_ShutdownIndicated`).
The shutdown takes three things from the send thread, one after the other: the
library (`Finalize_`), the queues (place "emptied") and, in `HaveValidHandles()`, the
object itself with its events (`DeleteObject`). `UseGone` is the thread
at a statement that uses one of them too late; that includes the wait, whose
handles, tick count and name are the object's, also when it times out or is woken by
`m_StopEvent` (`SendStop`). The queue `msg` is emptied in one step at the shutdown,
when nobody else uses it. `overrun`, `late`, `raced` and `touched` are history:
`touched` is the place where the send thread first used what was gone.

Operators with the comment "Seeded fault" are wrong on purpose. No
specification uses them; each stands for a plausible bug, and putting it in the
place of the definition after it breaks the properties `PROJECT.json` names.

## Runs

| Run | Instance | Shows |
|---|---|---|
| `thread_pool` | 2 slots, 2 dispatchers, 3 jobs, shutdown; 15 816 states | below |
| `db_pool` | 2 handles, 3 borrowers, `db_pool_finl` at any time; 336 states | below |
| `msg_consumer` | 4 messages, 2 cached items, limit 3, 2 pool threads; 288 919 states | below |
| `msg_startup` | the same, clients before `mc_start` | **violated** `CountsExact` |
| `gas_server` | 3 connections, 2 descriptors, 2 requests, 2 threads, 1 handle; 831 952 states | below |
| `gas_fd_reuse` | the same, fixed table | **violated** `ReplyGoesToAsker` |
| `gas_row` | the same, changing table | **violated** `RowFound` |
| `orders` | 2 orders of one buyer, 3 reports, statuses 0, 1, 2 and 5; 266 724 states up to symmetry | below |
| `orders_overlap` | the same | **violated** `CreditedOnce` |
| `orders_unpaid` | the same | **violated** `PlanIsPaid` |
| `accounts` | 3 requests, 2 names, 2 passwords; 728 167 states up to symmetry | below |
| `async_dll` | 2 threads that send, 1 of the DLL, queues of 2, 3 and 2 messages, shutdown at any time; 357 085 states | below |

*thread_pool.* `CountersExact`: the two counters agree with the threads.
`NoCircularWait`: `threads_lock` and a `thread_lock`, which are taken in both
orders at three places, are never waited for in a circle. `AssignedIsAsleep`
and `NoLostIdleSignal`: no signal on `thread_cond` or `mIdleCond` is lost.
`NoJobTwice`, `JobRuns`: an accepted job runs once, unless no thread can be
created or the pool is shut down. `ImplementsWorkerPool`: the refinement. Two
slots and three jobs suffice for a dispatcher that waits, one that reuses an
idle thread and one that creates a thread; two dispatchers for a race for the
idle thread.

*db_pool.* `SemCountsIdle`, `NeverNull`, `HandleExclusive`, `NeverJams`. Three
borrowers of two handles make one block. These hold for every number of
handles and threads, see below.

*msg_consumer.* `CountsExact` and `ItemsConserved` account for every item;
`NeverTakesListHead`, `NoLostWakeup`, `JobKeepsItsMessage` are
the hazards of the two lists and of items that are reused;
`AcceptedIsHandled` is liveness and `ImplementsFifo` the refinement. Three items
for four messages exhaust the cache, reach `limit` and reuse an item.

*gas_server.* `ResourcesMatch`: a handle is held exactly during a query, on the
error paths too. `OpenAskerIsAnswered`: whatever others do, a client that
stays connected has its answer written to it, unless the message was refused or
`lib_send_msg()` failed. `QueuedIsServed` is liveness. One handle for two threads makes a
request wait for another's; three connections over two descriptors make a
descriptor be reused.

*orders.* `CreditedOnceInTurn`, `Settled`, `PlanIsRecorded`, `NeverUnpaid`:
what holds when reports of an order come one after the other, also late,
repeatedly and with a process dying over one of them, and what holds even when
they overlap. `Settled` is said of each user: what happens to the orders of others
does not matter. Three reports are two that race and one late; one order is worth
more than a bonus allows. `MaxBonus` is 45 yuan in the source and scaled with
the prices here.

*accounts.* As long as no two requests about a name overlap, `LogsIn`: who was
told OK has the only row of the name, for good; `NameGivenBack`: a
registration that fails leaves the name free, unless a process ended;
`BothDatabases`: the two databases have the same accounts and passwords, unless
something failed over the name; `ReferralsCounted`: a referral is counted once
for each registration that succeeded. Three requests are a registration that
fails, one of the same name after it, and one that was brought by the first or
changes its password. Both values of `db_debug` are initial states.

*async_dll.* `FifoUnlessOverrun`: the queues deliver in order, without loss or
repetition, although sizes are tested and slots read outside the critical
section, unless two producers pass the test for the last slot or one fills the
slot that is being read. `NoLostWakeup`: nobody waits over a message, but for
one race (below). `StopSparesQueues`: if the shutdown finds the send thread
waiting, the thread enters neither the unloaded library nor a deleted queue; that it
may still use the deleted object is said below. `TypeOK` includes that without a race
no queue's size leaves `0 .. Capacity`. `PushedIsPopped` is liveness. Queues of two and three messages make a
queue full, empty and wrapped; `ULongMax` is above every size that is reached
without underflow, and the wrap itself is reached when two threads empty `SendQ`.
Two senders make the race for the last slot.

### What the violations show

* `msg_startup`. The high priority thread initialises the pools while the event
  loop is already running (`gas-main.c:295`, `357`). `type` is stored at
  `lib-msgpool.c:62`, `count` after it and without the lock; `count` was preset
  at `gas-main.c:205`. A message received between the two lines makes `count`
  one too high for good.
* `gas_fd_reuse`. An answer is sent to a number. A client that leaves while its
  login runs frees the number, and the next client that connects gets it.
* `gas_row`. `assert(row != NULL)` relies on a query made earlier on another
  connection.
* `orders_overlap`. Two reports that both read state 0 both credit the buyer.
* `orders_unpaid`. A trade that is closed unpaid is reported as status 5, and
  any status but 0 grants the plan.

### Seen in the models, contradicted by no document

* `SpuriousWakeup = TRUE` breaks `ThreadPool` (`NoCircularWait` first, then
  `NoJobTwice`) and `MsgConsumer` (`CountsExact`): both waits are followed by no
  test. POSIX allows such returns, and the runs assume there are none.
* A pool that ever had a thread is never destroyed: `WaitEmpty` waits for a
  signal that `Exit` only sends when `threads_num` is 0, and nothing decreases
  it. gas shuts its pool down only when it failed to start.
* An order whose process dies between the record and the grant is never granted.
* `db_debug` is TRUE for both databases (`config/database.php`), so a failing
  query ends the process and the rollback written in `add_user()`
  (`user_mdl.php:148`) is never reached: a registration whose `radius` inserts fail
  keeps the name, for an account no VPN server knows.
* Two registrations of one name that overlap both succeed, and `validate_user()`,
  which wants exactly one row, then refuses both users.
* `mod_user()` changes the password of `openvpn` only; no form posts to it.
* `OnSend()` tests `Count()` and then calls `ResetEvent()`
  (`RopAsyncDll.cpp:204`). A `Send()` that pushes and signals between the two is not
  noticed before the next one. `NoLostWakeup` and `PushedIsPopped` name the
  race (`late`) and hold but for it.
* `CheckAndDoShutdown()` sets `m_StopEvent` and goes on ("howto wait it to end??",
  `RopAsyncDll.cpp:266`). A send thread that is not waiting then may call into the
  unloaded library or pop from the deleted queue (`raced`).
* The object goes too: `HaveValidHandles()` deletes it once its event handle is null
  (`RopExecuter.cpp:127`), and `~RopAsyncDll` closes the events
  (`RopAsyncDll.cpp:45-46`). A send thread that *was* waiting, and is on its way
  out, then reads `OldTickCount` or calls `GetName()` of it (72, 75, 88). In
  `AsyncDll` that is `touched = "wait"` or `"stopping"` with `raced` false, which TLC
  reaches; `StopSparesQueues` promises nothing about the object.
* `Send()` returns the length of a message that found the queue full and was
  freed.

## Bounds

`UIntMax` is the wrap of `count`; `LastStatus` the last status of a trade that
is modelled as paid (4 in the source, 2 here: the statuses above 0 are treated
alike); `MaxThreads`, `MaxHandles`, `MaxCount`, `CacheCount` are parameters of
the source. Messages, jobs, connections and requests are used once each, which
bounds the runs without a guard, but in `AsyncDll`, where the messages of a queue
are numbered up to `MaxMsg`. `Capacity` and `ULongMax` of `AsyncDll` are
`MAX_QUEUE_ITEM` and the largest `unsigned long`. `Orders` and `Accounts` use
symmetry, in their requests and (`Accounts`) names and passwords, which are only
compared; neither checks liveness.

## Fairness

`ThreadPool`: every dispatcher, thread and shutdown that can go on does; jobs
return (handlers make a bounded number of queries and one send). `MsgConsumer`:
the three threads run on; clients owe nothing. `DbPool`: a borrower that has
passed `sem_wait` gives back; `sem_wait` itself is not fair, and no client is
promised its turn. `GasServer`: dispatch and handlers run on. There
`WF(Handler(r))` also covers the wait for a handle; it suffices since requests
are finitely many. With an endless supply of others `sem_wait` might starve one,
which neither the code nor the model excludes.
`AsyncDll`: a call of `Send()` or `NotifyMsg()` that has begun comes to its
`SetEvent`, the send thread and the executer run on; nobody has to send, to call
back or to shut down. Every step of theirs is code between two waits on events,
and an event stays set until its only waiter resets it, so weak fairness suffices.
`Orders` and `Accounts` have no fairness: requests may die.

## Proofs

`DbPoolProofs` proves for every finite set of handles and of clients:

* `DbTypeOK`, `DbSemCountsIdle`, `DbNeverNull`, `DbHandleExclusive`:
  `Spec => []P` for the four safety properties of the run `db_pool`;
* `DbAtMostHandles`: never more users than handles, nor, in an open pool, more
  threads past `sem_wait`. This is what `GasServer` assumes of the pool.

They assume `DbAssumption` only. None is inductive alone. `NeverNull` needs
that a client between `sem_wait` and the search finds an idle handle, which is
`SemCountsIdle`; that one counts, so that a step must move exactly one client
and one handle, for which a handle that is put back must be listed and busy:
`HandleExclusive`; and exclusivity needs that nobody but the user holds a
handle, `HeldInUse`. The conjunction `Inv` of these with `TypeOK` is inductive.
`OneMore` and `OneLess` are the counting lemmas; then there is one lemma per
action. `DbAtMostHandles` follows from `Inv`: `held` is an injection of the users into
the busy handles, and who is about to search is counted among the idle ones.

`ThreadPoolProofs` proves for every `MaxThreads` and every finite set of
dispatchers, with a caller of `thread_pool_finl()`:

* `PoolTypeOK`, `PoolCountersExact`, `PoolNoCircularWait`,
  `PoolAssignedIsAsleep`, `PoolNoLostIdleSignal`, `PoolNoJobTwice`:
  `Spec => []P` for the six safety properties of the run `thread_pool`.

They assume `PoolAssumption` and `SpuriousWakeup = FALSE`: a wait that returns
unsignalled breaks the pool, since `thread_wrapper()` tests nothing after it.
The inductive invariant is `Inv`:

* `ThreadInv` ties the four things a thread is known by (its state, its place,
  its lock, the shutdown flag): an idle thread *rests*, that is, it is on its way
  to sleep, asleep, or woken by the shutdown only.
* `LockInv` says who holds `threads_lock` across a step; from it follows that at
  most one dispatcher has picked a thread.
* `PickInv`: that thread is busy and rests. With `ThreadInv` and a free
  `thread_lock` it must be asleep (`AssignedIsAsleep`), and it is never the one in
  `reclaim_thread()` (`NoCircularWait`).
* `CountersExact` makes `thread_get_idle()` succeed, leaves room for the thread
  that is reclaimed (`RoomForIdle`), and turns the shutdown's test of two counters
  into "no thread works" (`AllIdle`), which is what `CloseInv` needs.
* `SignalsCover` strengthens `NoLostIdleSignal` to a count: while a dispatcher
  waits, the idle threads are at most as many as the signals owed and the
  dispatchers about to test. Without the count, one dispatcher that takes a
  thread would have to be told from one that takes the last one.

`JobInv`, preserved under `Inv`, gives each job that has not run one owner at most, a
dispatcher inside its call or a thread that will run it; `NoJobTwice` follows.
`PoolNoJobLost` says that there is one: until a job has run or its thread could not be
created, somebody has it, unless the pool is shut down. It is the safety half of
`JobRuns`. The step that needs an argument is `Assign`: the signal must find the thread
asleep, which `PickInv` gives.

`ThreadPoolRefines` proves `PoolImplementsWorkerPool`: under the same
assumptions `Spec => ImplementsWorkerPool`. `OwnInv` extends the one owner of a job
to the moment its slot is given back, so that the jobs of the working threads are
distinct. Four small relations (`Kept`, `Starts`, `ReturnsAt`, `Finishes`) say how a
step changes the set of working threads; each action is one of them, and each of
them is one abstract step, or none. A free slot for `Starts` is counted: a
thread that does not work yet leaves fewer than `MaxThreads` jobs running.

`MsgConsumerProofs` proves, for any messages and items and any `CacheCount`,
`MaxCount` and number of threads: `ConsumerTypeOK`, `ConsumerCountsExact`,
`ConsumerNeverTakesListHead`, `ConsumerNoLostWakeup`, `ConsumerJobKeepsItsMessage`
and the refinement `ConsumerImplementsFifo`. They assume `ConsumerAssumption`,
`EarlyClients = FALSE` and `SpuriousWakeup = FALSE`, without which they are false.
`Apart` and `Held` say that an item is in one place; `Messages` and `Queued`, that a
message is. They need each other: an item that leaves the cache may be written
only because nobody holds it, and the message of a job stays what it was because
nobody else writes its item. `Wakeup` is inductive with `Counts` since the signal
is sent when the *count* becomes 1, the consumer sleeps when the *count* is 0, and
takes from the *list*. That no count wraps (`ConsumerTypeOK`) is the pigeonhole
principle: a list without repetitions is no longer than the items there are.

`ConsumerItemsConserved` counts. That an item is in one place at most is `Apart` and
`Held`. That as many are lost as messages were dropped is a second invariant,
`Conserved`: `limit` is the number of items, and the items in no list and no hand
(`Lost`) are as many as the messages `Dropped`. After the setup every step but
`DispatchFails` moves one item from one place to another and leaves both sets alone
(`PassOn`), and `DispatchFails` adds one element to each.

`ConsumerNoMessageLost` is the safety half of `AcceptedIsHandled`: an accepted message
that is neither handled nor dropped waits in the pool, is in the consumer's item, or
has a job that is not through. `ConsumerUsesWorkerPool` is about the layer below:
the thread pool is called as `WorkerPool` permits, and the guard with which that
module refuses a job that runs already never holds the consumer back
(`thread_dispatch_with_tp()` has no such test, so that a guard which could be false
would hide behaviour).

`GasServerProofs` proves, for any clients, descriptors, requests and users, with
`GasAssumption`: `GasTypeOK`, `GasResourcesMatch`, `GasOpenAskerIsAnswered`. `Stage` is
what a request holds at each place; `Peers` the argument for the answers: while the
connection a request came on is open, `peer` is its descriptor, which by `Conns` no
other connection has, and a connection that was closed never opens again.
`GasUsesLayers` is the same about the two layers below as
`ConsumerUsesWorkerPool`. Two theorems say what it takes to break the two
promises of the source the runs `gas_fd_reuse` and `gas_row` refute.
`GasStrayOnlyAfterClose`: an answer reaches another client only after the one that asked
was closed. `GasRowFound`: the assertion holds under `[][rows \subseteq rows']_rows`,
that is, if no row is removed, however requests interleave.

`OrdersProofs` proves, for any orders, reports and users, with `OrderAssumption`:
`OrdersTypeOK`, `OrdersPlanIsRecorded`, `OrdersNeverUnpaid`, `OrdersPlanIsPaidOrClosed`.
These are the properties that hold also when reports overlap and processes die.
`Reporting` (a report at work says another status than 0) keeps a processed order from
becoming unpaid, and `Recorded` (the record says so before the user is credited) gives
the plan. The last says that the case the run `orders_unpaid` finds is the only one:
a plan nobody paid for is that of a closed trade (`Reached`: a report says what
its trade has been through).

`OrdersCreditedOnceInTurn` and `OrdersSettled` are about sums. `Orders` sums with
`MapThenSumSet`, a fold over a set, of which the first lemmas prove what is needed:
`Sums` characterises a function that gives every subset of a finite set its
sum, `SumsExist` that there is one, `FoldIsSum` that the fold is it, and `SumsAdd`,
`SumGrows`, `ValueFacts`, `BonusFacts` how it changes with an element. The claims about all
subsets go by `SmallestSubset`: the strict subsets of a finite set are well founded,
so that a claim that fails for some subset fails for a smallest one. The invariant
is `Due`. `InTurn`: orders of which no two reports overlapped have one report at work
at most, and `FirstIsNew`: an order that is about to be credited is still unpaid on
record. `Funded` and `Rewarded` are the processed orders less those a report is about to
credit to the fund and to the bonus, and `FundIsDue` and `BonusIsDue` say that fund and
bonus are at most what these are worth, and just that if no process died over one.
When the reports are through, every processed order is among them, which is `Settled`.

`AccountsProofs` proves, for any requests, names and passwords, with
`AccountsAssumption`: `AccountsTypeOK`, `AccountsLogsIn`, `AccountsNameGivenBack`,
`AccountsBothDatabases`. `Alone` says that a name over which no requests overlapped
has at most one request at work; from it, what was read about the name is still
true when it is used: `Free` up to the first insert, `OnlyRow` after it, for good.
`RowInv` adds what the radius database has of each row at each statement
(`Follow`), and which password is in which table while it is changed (`Changing`).
`AccountsReferralsCounted` needs a count of its own, `CountInv`: `bonus_cnt` of a
referrer lies between the requests past `update_ref()` without a fault (`Faultless`)
and all that are past it (`Counted`), and a step moves one request into these sets or
none. From the insert of the referrer's row on, `update_ref()` meets that row and no
other, if no registrations of the name overlapped (`HasOnlyRow`).

`AsyncDllProofs` proves, for any capacity and any numbers of threads, with
`DllAssumption`: `DllTypeOK`, `DllNoLostWakeup`, `DllStopSparesQueues`,
`DllFifoUnlessOverrun`. `Inv` has `Places`, how far the shutdown is, and
`SendEventSet`: `m_SendEvent` is set from the wakeup of the send thread to its reset,
and what is in the queue at the reset has a `SetEvent` ahead or had it too
early. `Fifo(q)` strengthens the order of the messages by the slot that is being
read: it is the one before `base`, and the queue has room, so that only a `Push()`
that fills the queue can write there, which is `overrun`. It also bounds the sizes:
`SizesInRange`, a part of `TypeOK`, is no matter of types, since a size that is taken
below zero wraps to one that is a type-correct `unsigned long`; that takes two threads
that pop, which is `raced`, and a size above `Capacity` takes an `overrun`.
`DllStopSparesQueues` goes by the places the thread can be at when the shutdown found it
waiting (`Halting`): it wakes on `m_StopEvent`, since that comes first in `hTable`.

Every safety property and every refinement that a run confirms is also a theorem.
Only model-checked: liveness under fairness (`NeverJams`, `JobRuns`,
`AcceptedIsHandled`, `QueuedIsServed`, `PushedIsPopped`), which is beyond TLAPS. What can
be said of them without fairness is proved: that nothing on the way is forgotten
(`PoolNoJobLost`, `ConsumerNoMessageLost`, `GasResourcesMatch`, `DllFifoUnlessOverrun`) and
that nobody sleeps over it (`PoolNoLostIdleSignal`, `ConsumerNoLostWakeup`,
`DbSemCountsIdle`, `DllNoLostWakeup`).

## Not modelled

* Deleting an account: the site has no page for it, and `GasServer` treats it as a
  change of its table by others.
* The bridge for other operators: `vpnadduser.php` and `vpnuser_mdl.php` use the
  default database, which as configured is `openvpn` (`config/database.php:68`) and
  lacks the tables they name; `hwcoasvr.php` answers every question with constants.
* `RopQueue::Extract()` and `RopIoQueue` have no callers in the paths modelled.
* `RopAsyncSession` and its sockets: bytes in, messages out, on one thread.
* In `AsyncDll`: a timeout of a wait while the object exists, after which nothing is
  done but the tick count; the log calls after the shutdown; what a thread does after it
  has used something gone; a second `Open()` of the same object.
* The VPN back ends are glue over Windows RAS and an OpenVPN process, whose
  callbacks and timing are not in the repository.
* The windows of the client run on the message loop of DuiLib (vendored).
* `lib-index-cache`, `lib-ticket`, `lib-handle-pool`: no code of the gas server calls
  them.
* Shutdown of the message pools (`mc_stop`, `msg_pool_finl`): gas never calls it
  while it serves. Start-up of gas beyond the pools, its signals and debug thread.

## Plan

1. Done: the modules above and the proofs of all their safety properties and
   refinements.
2. The list of servers in `GendoWnd`, rebuilt from another thread than the user
   interface's, against its comment (`GendoWnd.cpp:1120`), if what DuiLib does with
   such calls can be stated.
3. Answers sent in pieces (`lib_sendn`) and two handlers that answer on one
   descriptor.
