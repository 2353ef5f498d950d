----------------------------- MODULE ThreadPool -----------------------------
(***************************************************************************)
(* The thread pool of Server/Lib/lib-thread.c.                             *)
(*                                                                         *)
(* Threads of three kinds share one thread_pool_t: callers of              *)
(* _thread_dispatch()/thread_dispatch_with_tp(), the pool's own threads    *)
(* (thread_wrapper) and the caller of thread_pool_finl().  A step is the   *)
(* code between two points where the thread can block or be seen by        *)
(* another: a section under a mutex that takes no second mutex is one      *)
(* step; a section that takes a second one is split there.  A wait on a    *)
(* condition variable releases its mutex in the step that begins it, and   *)
(* a waiter that was signalled must take the mutex again.                  *)
(***************************************************************************)
EXTENDS Integers, FiniteSets

CONSTANTS Thread,          \* thread_item_t structures, one per slot
          Dispatcher,      \* callers of thread_dispatch_with_tp()
          Closer,          \* the caller of thread_pool_finl()
          Job,             \* the (pfunc, arg1, arg2) triples
          Nobody,          \* no lock owner, no job, no target
          MaxThreads,      \* max_threads
          SpuriousWakeup   \* may pthread_cond_wait return unsignalled?

ASSUME PoolAssumption ==
  /\ IsFiniteSet(Thread) /\ IsFiniteSet(Dispatcher)
  /\ MaxThreads \in Nat \ {0}
  /\ Cardinality(Thread) = MaxThreads
  /\ Nobody \notin Thread \cup Dispatcher \cup Job \cup {Closer}
  /\ Closer \notin Dispatcher
  /\ SpuriousWakeup \in BOOLEAN

VARIABLES
  threads_lock,   \* owner of thread_pool_t.threads_lock across a step
  threads_num,    \* thread_pool_t.threads_num
  idle_threads,   \* thread_pool_t.idle_threads
  is_shutdown,    \* thread_pool_t.is_shutdown
  thread_lock,    \* [Thread -> owner of thread_item_t.thread_lock]
  state,          \* "none" before creation, then "busy" or "idle"
  job,            \* [Thread -> pfunc and its arguments]
  wpc,            \* where each thread of the pool is
  dpc,            \* where each dispatcher is
  djob,           \* the job a dispatcher was called with
  target,         \* the idle thread a dispatcher picked
  cpc,            \* where thread_pool_finl() is
  toSignal,       \* idle_list entries thread_pool_finl() has still to signal
  fate            \* history: what became of each job

poolVars   == <<threads_lock, threads_num, idle_threads, is_shutdown>>
threadVars == <<thread_lock, state, job, wpc>>
callVars   == <<dpc, djob, target>>
closeVars  == <<cpc, toSignal>>
vars       == <<poolVars, threadVars, callVars, closeVars, fate>>

WorkerPc == {"none", "check", "run", "lockSelf", "reclaim", "signalIdle",
             "toSleep", "sleep", "signalled", "exiting", "exited"}
CallPc   == {"ready", "lock", "waitIdle", "assign"}
ClosePc  == {"off", "waitFull", "fullSignalled", "signalAll", "waitEmpty",
             "emptySignalled", "closed"}
Fate     == {"new", "called", "ran", "ranAgain", "dropped"}

-----------------------------------------------------------------------------
(* thread_pool_init()/thread_pool_new(): an empty pool, no thread yet. *)
Init ==
  /\ threads_lock = Nobody
  /\ threads_num  = 0
  /\ idle_threads = 0
  /\ is_shutdown  = FALSE
  /\ thread_lock  = [t \in Thread |-> Nobody]
  /\ state        = [t \in Thread |-> "none"]
  /\ job          = [t \in Thread |-> Nobody]
  /\ wpc          = [t \in Thread |-> "none"]
  /\ dpc          = [d \in Dispatcher |-> "ready"]
  /\ djob         = [d \in Dispatcher |-> Nobody]
  /\ target       = [d \in Dispatcher |-> Nobody]
  /\ cpc          = "off"
  /\ toSignal     = {}
  /\ fate         = [j \in Job |-> "new"]

(* threads_lock can be taken; it is destroyed once the pool is closed. *)
PoolLockFree == threads_lock = Nobody /\ cpc # "closed"

(* IS_NO_IDLE_AND_EXCEED_LIMIT, IS_NO_IDLE_AND_BELOW_LIMIT and IS_IDLE. *)
NoIdleAndExceedLimit == idle_threads <= 0 /\ threads_num >= MaxThreads
NoIdleAndBelowLimit  == idle_threads <= 0 /\ threads_num < MaxThreads
IsIdle               == idle_threads > 0

IdleThreads == {t \in Thread : state[t] = "idle"}

(* Where a thread is when its wait on a condition variable may return.     *)
MayReturn(signalled, waiting) ==
  {signalled} \cup (IF SpuriousWakeup THEN {waiting} ELSE {})

-----------------------------------------------------------------------------
(* The dispatcher. *)

(* The call itself; each job is handed over once. *)
Call(d, j) ==
  /\ dpc[d] = "ready" /\ fate[j] = "new"
  /\ dpc'  = [dpc EXCEPT ![d] = "lock"]
  /\ djob' = [djob EXCEPT ![d] = j]
  /\ fate' = [fate EXCEPT ![j] = "called"]
  /\ UNCHANGED <<poolVars, threadVars, target, closeVars>>

(* The call returns, and the dispatcher may be called again. *)
Return(d) ==
  /\ dpc'    = [dpc EXCEPT ![d] = "ready"]
  /\ djob'   = [djob EXCEPT ![d] = Nobody]
  /\ target' = [target EXCEPT ![d] = Nobody]

(* Every thread is busy and the pool is at its limit: wait on mIdleCond. *)
WaitIdle(d) ==
  /\ dpc[d] = "lock" /\ PoolLockFree
  /\ NoIdleAndExceedLimit
  /\ dpc' = [dpc EXCEPT ![d] = "waitIdle"]
  /\ UNCHANGED <<poolVars, threadVars, djob, target, closeVars, fate>>

(* Below the limit: a new thread starts with the job. *)
CreateThread(d, t) ==
  /\ dpc[d] = "lock" /\ PoolLockFree
  /\ NoIdleAndBelowLimit
  /\ state[t] = "none"
  /\ state'       = [state EXCEPT ![t] = "busy"]
  /\ threads_num' = threads_num + 1
  /\ job'         = [job EXCEPT ![t] = djob[d]]
  /\ wpc'         = [wpc EXCEPT ![t] = "check"]
  /\ Return(d)
  /\ UNCHANGED <<threads_lock, idle_threads, is_shutdown, thread_lock,
                 closeVars, fate>>

(* pthread_create or the stack size attribute fails: the job is dropped.   *)
(* mc_consumer_run_with_tp() does not look at the value returned.          *)
CreateFails(d) ==
  /\ dpc[d] = "lock" /\ PoolLockFree
  /\ NoIdleAndBelowLimit
  /\ fate' = [fate EXCEPT ![djob[d]] = "dropped"]
  /\ Return(d)
  /\ UNCHANGED <<poolVars, threadVars, closeVars>>

(* Seeded fault: any thread of idle_list is taken for an idle one. *)
PickAny(d) ==
  /\ dpc[d] = "lock" /\ PoolLockFree
  /\ IsIdle
  /\ \E t \in Thread :
       /\ state[t] # "none"
       /\ state'  = [state EXCEPT ![t] = "busy"]
       /\ target' = [target EXCEPT ![d] = t]
  /\ idle_threads' = idle_threads - 1
  /\ threads_lock' = d
  /\ dpc' = [dpc EXCEPT ![d] = "assign"]
  /\ UNCHANGED <<threads_num, is_shutdown, djob, fate, thread_lock, job, wpc,
                 closeVars>>

(* thread_get_idle(): an idle thread becomes busy; threads_lock stays held *)
(* until the job is assigned.  Which idle thread of idle_list is left open.*)
PickIdle(d) ==
  /\ dpc[d] = "lock" /\ PoolLockFree
  /\ IsIdle
  /\ IF IdleThreads = {}
     THEN /\ fate' = [fate EXCEPT ![djob[d]] = "dropped"]
          /\ Return(d)
          /\ UNCHANGED <<poolVars, state>>
     ELSE /\ \E t \in IdleThreads :
               /\ state'  = [state EXCEPT ![t] = "busy"]
               /\ target' = [target EXCEPT ![d] = t]
          /\ idle_threads' = idle_threads - 1
          /\ threads_lock' = d
          /\ dpc' = [dpc EXCEPT ![d] = "assign"]
          /\ UNCHANGED <<threads_num, is_shutdown, djob, fate>>
  /\ UNCHANGED <<thread_lock, job, wpc, closeVars>>

(* A signal on thread_cond of t: lost unless t is in pthread_cond_wait. *)
Signalled(t) == IF wpc[t] = "sleep" THEN "signalled" ELSE wpc[t]

(* Seeded fault: the job is written without thread_lock. *)
AssignUnlocked(d) ==
  /\ dpc[d] = "assign"
  /\ job' = [job EXCEPT ![target[d]] = djob[d]]
  /\ wpc' = [wpc EXCEPT ![target[d]] = Signalled(target[d])]
  /\ threads_lock' = Nobody
  /\ Return(d)
  /\ UNCHANGED <<threads_num, idle_threads, is_shutdown, thread_lock, state,
                 closeVars, fate>>

(* Under thread_lock the job is written; thread_cond is signalled. *)
Assign(d) ==
  /\ dpc[d] = "assign"
  /\ thread_lock[target[d]] = Nobody
  /\ job' = [job EXCEPT ![target[d]] = djob[d]]
  /\ wpc' = [wpc EXCEPT ![target[d]] = Signalled(target[d])]
  /\ threads_lock' = Nobody
  /\ Return(d)
  /\ UNCHANGED <<threads_num, idle_threads, is_shutdown, thread_lock, state,
                 closeVars, fate>>

-----------------------------------------------------------------------------
(* A thread of the pool: thread_wrapper(). *)

Goto(t, pc) == wpc' = [wpc EXCEPT ![t] = pc]

(* while (!pool->is_shutdown), read without a lock. *)
Check(t) ==
  /\ wpc[t] = "check"
  /\ Goto(t, IF is_shutdown THEN "exiting" ELSE "run")
  /\ UNCHANGED <<poolVars, thread_lock, state, job, callVars, closeVars, fate>>

(* thread->pfunc(thread->arg1, thread->arg2) returns. *)
Run(t) ==
  /\ wpc[t] = "run"
  /\ fate' = [fate EXCEPT ![job[t]] = IF @ = "called" THEN "ran" ELSE "ranAgain"]
  /\ Goto(t, "lockSelf")
  /\ UNCHANGED <<poolVars, thread_lock, state, job, callVars, closeVars>>

(* Seeded fault: the thread enters reclaim_thread() without its own lock. *)
LockSelfForgotten(t) ==
  /\ wpc[t] = "lockSelf"
  /\ Goto(t, "reclaim")
  /\ UNCHANGED <<poolVars, thread_lock, state, job, callVars, closeVars, fate>>

(* The thread takes its own lock, and keeps it into pthread_cond_wait. *)
LockSelf(t) ==
  /\ wpc[t] = "lockSelf"
  /\ thread_lock[t] = Nobody
  /\ thread_lock' = [thread_lock EXCEPT ![t] = t]
  /\ Goto(t, "reclaim")
  /\ UNCHANGED <<poolVars, state, job, callVars, closeVars, fate>>

(* thread_put_idle(), and mFullCond when no thread works any more. *)
PutIdle(t, n) ==
  /\ state' = [state EXCEPT ![t] = "idle"]
  /\ idle_threads' = idle_threads + n
  /\ cpc' = IF cpc = "waitFull" /\ idle_threads + n >= threads_num
            THEN "fullSignalled" ELSE cpc
  /\ Goto(t, "signalIdle")
  /\ UNCHANGED <<threads_num, thread_lock>>

(* Seeded fault: the thread is counted idle twice. *)
ReclaimCountedTwice(t) ==
  /\ wpc[t] = "reclaim" /\ PoolLockFree
  /\ PutIdle(t, 2)
  /\ UNCHANGED <<threads_lock, is_shutdown, job, callVars, toSignal, fate>>

(* reclaim_thread() under threads_lock.  Were the pool already full of     *)
(* idle threads, the thread would be removed from it and freed.            *)
Reclaim(t) ==
  /\ wpc[t] = "reclaim" /\ PoolLockFree
  /\ IF idle_threads < MaxThreads
     THEN PutIdle(t, 1)
     ELSE /\ state'       = [state EXCEPT ![t] = "none"]
          /\ threads_num' = threads_num - 1
          /\ thread_lock' = [thread_lock EXCEPT ![t] = Nobody]
          /\ Goto(t, "exited")
          /\ UNCHANGED <<idle_threads, cpc>>
  /\ UNCHANGED <<threads_lock, is_shutdown, job, callVars, toSignal, fate>>

(* Seeded fault: mIdleCond is not signalled. *)
SignalIdleForgotten(t) ==
  /\ wpc[t] = "signalIdle"
  /\ Goto(t, "toSleep")
  /\ UNCHANGED <<poolVars, thread_lock, state, job, callVars, closeVars, fate>>

(* After the unlock of threads_lock, mIdleCond is signalled: one waiting   *)
(* dispatcher, if there is one, returns to its test.                       *)
SignalIdle(t) ==
  /\ wpc[t] = "signalIdle"
  /\ LET waiting == {d \in Dispatcher : dpc[d] = "waitIdle"}
     IN  IF waiting = {} THEN UNCHANGED dpc
         ELSE \E d \in waiting : dpc' = [dpc EXCEPT ![d] = "lock"]
  /\ Goto(t, "toSleep")
  /\ UNCHANGED <<poolVars, thread_lock, state, job, djob, target, closeVars, fate>>

(* pthread_cond_wait on thread_cond releases thread_lock. *)
Sleep(t) ==
  /\ wpc[t] = "toSleep"
  /\ thread_lock' = [thread_lock EXCEPT ![t] = Nobody]
  /\ Goto(t, "sleep")
  /\ UNCHANGED <<poolVars, state, job, callVars, closeVars, fate>>

(* Seeded fault: the wait may return unsignalled. *)
WakeUnsignalled(t) ==
  /\ wpc[t] \in {"signalled", "sleep"}
  /\ thread_lock[t] = Nobody
  /\ Goto(t, "check")
  /\ UNCHANGED <<poolVars, thread_lock, state, job, callVars, closeVars, fate>>

(* The wait returns: thread_lock is taken and released again.  No test     *)
(* follows, so an unsignalled return is taken for a new job.               *)
Wake(t) ==
  /\ wpc[t] \in MayReturn("signalled", "sleep")
  /\ thread_lock[t] = Nobody
  /\ Goto(t, "check")
  /\ UNCHANGED <<poolVars, thread_lock, state, job, callVars, closeVars, fate>>

(* The thread ends.  threads_num was never decreased for it, so mEmptyCond *)
(* is signalled only if the pool had no thread at all.                     *)
Exit(t) ==
  /\ wpc[t] = "exiting"
  /\ thread_lock[t] = Nobody
  /\ cpc' = IF cpc = "waitEmpty" /\ threads_num <= 0 THEN "emptySignalled" ELSE cpc
  /\ Goto(t, "exited")
  /\ UNCHANGED <<poolVars, thread_lock, state, job, callVars, toSignal, fate>>

-----------------------------------------------------------------------------
(* thread_pool_finl(): free_thread_pool(). *)

StartSignalling ==
  /\ threads_lock' = Closer
  /\ toSignal' = {t \in Thread : state[t] # "none"}
  /\ cpc' = "signalAll"

(* Seeded fault: the idle threads are signalled whoever is still working. *)
ShutdownAtOnce ==
  /\ cpc = "off" /\ PoolLockFree
  /\ is_shutdown' = TRUE
  /\ StartSignalling
  /\ UNCHANGED <<threads_num, idle_threads, threadVars, callVars, fate>>

(* is_shutdown is set; if some thread works, wait once on mFullCond. *)
Shutdown ==
  /\ cpc = "off" /\ PoolLockFree
  /\ is_shutdown' = TRUE
  /\ IF idle_threads < threads_num
     THEN cpc' = "waitFull" /\ UNCHANGED <<threads_lock, toSignal>>
     ELSE StartSignalling
  /\ UNCHANGED <<threads_num, idle_threads, threadVars, callVars, fate>>

FullWoken ==
  /\ cpc \in MayReturn("fullSignalled", "waitFull") /\ PoolLockFree
  /\ StartSignalling
  /\ UNCHANGED <<threads_num, idle_threads, is_shutdown, threadVars, callVars, fate>>

(* One entry of idle_list: its lock is taken while threads_lock is held. *)
SignalThread(t) ==
  /\ cpc = "signalAll" /\ t \in toSignal
  /\ thread_lock[t] = Nobody
  /\ wpc' = [wpc EXCEPT ![t] = Signalled(t)]
  /\ toSignal' = toSignal \ {t}
  /\ UNCHANGED <<poolVars, thread_lock, state, job, callVars, cpc, fate>>

WaitEmpty ==
  /\ cpc = "signalAll" /\ toSignal = {} /\ threads_num > 0
  /\ cpc' = "waitEmpty"
  /\ threads_lock' = Nobody
  /\ UNCHANGED <<threads_num, idle_threads, is_shutdown, threadVars, callVars,
                 toSignal, fate>>

(* The items and the locks are destroyed. *)
Destroy ==
  /\ \/ cpc = "signalAll" /\ toSignal = {} /\ threads_num = 0
     \/ cpc \in MayReturn("emptySignalled", "waitEmpty") /\ threads_lock = Nobody
  /\ cpc' = "closed"
  /\ threads_lock' = Nobody
  /\ idle_threads' = 0
  /\ UNCHANGED <<threads_num, is_shutdown, threadVars, callVars, toSignal, fate>>

-----------------------------------------------------------------------------
DispatchStep(d) ==
  \/ WaitIdle(d)
  \/ \E t \in Thread : CreateThread(d, t)
  \/ CreateFails(d)
  \/ PickIdle(d)
  \/ Assign(d)

ThreadStep(t) ==
  \/ Check(t)
  \/ Run(t)
  \/ LockSelf(t)
  \/ Reclaim(t)
  \/ SignalIdle(t)
  \/ Sleep(t)
  \/ Wake(t)
  \/ Exit(t)

CloseStep ==
  \/ FullWoken
  \/ \E t \in Thread : SignalThread(t)
  \/ WaitEmpty
  \/ Destroy

Next ==
  \/ \E d \in Dispatcher, j \in Job : Call(d, j)
  \/ \E d \in Dispatcher : DispatchStep(d)
  \/ \E t \in Thread : ThreadStep(t)
  \/ Shutdown
  \/ CloseStep

(* A thread that can go on does, and a job returns: the handlers of gas do *)
(* bounded work.  Nobody is obliged to call, or to shut the pool down.     *)
Fairness ==
  /\ \A d \in Dispatcher : WF_vars(DispatchStep(d))
  /\ \A t \in Thread : WF_vars(ThreadStep(t))
  /\ WF_vars(CloseStep)

Spec == Init /\ [][Next]_vars

FairSpec == Spec /\ Fairness

-----------------------------------------------------------------------------
(* Properties. *)

TypeOK ==
  /\ threads_lock \in Dispatcher \cup {Closer, Nobody}
  /\ threads_num \in 0..MaxThreads
  /\ idle_threads \in 0..MaxThreads
  /\ is_shutdown \in BOOLEAN
  /\ thread_lock \in [Thread -> Thread \cup {Nobody}]
  /\ state \in [Thread -> {"none", "busy", "idle"}]
  /\ job \in [Thread -> Job \cup {Nobody}]
  /\ wpc \in [Thread -> WorkerPc]
  /\ dpc \in [Dispatcher -> CallPc]
  /\ djob \in [Dispatcher -> Job \cup {Nobody}]
  /\ target \in [Dispatcher -> Thread \cup {Nobody}]
  /\ cpc \in ClosePc
  /\ toSignal \subseteq Thread
  /\ fate \in [Job -> Fate]

(* The two counters the tests of the pool are made of agree with the       *)
(* threads: thread_get_idle() therefore finds a thread whenever            *)
(* idle_threads says there is one (lib-thread.c:356-360), and the pool     *)
(* never exceeds max_threads.                                              *)
CountersExact ==
  /\ idle_threads = Cardinality(IdleThreads)
  /\ threads_num  = Cardinality({t \in Thread : state[t] # "none"})

(* threads_lock and thread_lock are taken in both orders (lib-thread.c:135 *)
(* under 159, 362 under 297, 450 under 432).  No thread that holds its own *)
(* lock waits for threads_lock while the holder of threads_lock waits for  *)
(* that thread's lock.                                                     *)
NoCircularWait ==
  \A t \in Thread : wpc[t] = "reclaim" =>
    /\ \A d \in Dispatcher : dpc[d] = "assign" => target[d] # t
    /\ ~(cpc = "signalAll" /\ t \in toSignal)

(* thread_cond is signalled once, and a signal nobody waits for is lost:   *)
(* when a dispatcher has got thread_lock of the thread it picked, that     *)
(* thread is inside pthread_cond_wait, unless the pool is shutting down.   *)
AssignedIsAsleep ==
  \A d \in Dispatcher :
    dpc[d] = "assign" /\ thread_lock[target[d]] = Nobody /\ ~is_shutdown
      => wpc[target[d]] = "sleep"

(* A dispatcher is not left waiting on mIdleCond while a thread is idle:   *)
(* a signal or another dispatcher's test is still to come.                 *)
NoLostIdleSignal ==
  (\E d \in Dispatcher : dpc[d] = "waitIdle") /\ idle_threads > 0
    => \/ \E t \in Thread : wpc[t] = "signalIdle"
       \/ \E d \in Dispatcher : dpc[d] = "lock"

(* thread_wrapper() runs pfunc at every return of the wait without looking *)
(* whether a job was assigned; still no job runs twice.                    *)
NoJobTwice == \A j \in Job : fate[j] # "ranAgain"

(* A job accepted by the pool runs, unless its thread could not be created *)
(* or the pool is shut down meanwhile.                                     *)
JobRuns ==
  \A j \in Job : (fate[j] = "called") ~> (fate[j] # "called" \/ is_shutdown)

(* Threads that have their job: busy and not merely picked. *)
Working == {t \in Thread : /\ state[t] = "busy"
                           /\ \A d \in Dispatcher : dpc[d] = "assign" => target[d] # t}

WP == INSTANCE WorkerPool
        WITH running  <- {job[t] : t \in Working},
             returned <- {job[t] : t \in {u \in Working : wpc[u] \in {"lockSelf", "reclaim"}}}

(* The pool gives its callers what WorkerPool states: at most MaxThreads   *)
(* jobs at once, and a slot is given back only by a job that returned.     *)
ImplementsWorkerPool == WP!PoolSpec
=============================================================================
