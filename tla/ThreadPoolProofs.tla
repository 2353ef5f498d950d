-------------------------- MODULE ThreadPoolProofs --------------------------
(***************************************************************************)
(* Proofs about ThreadPool, for any max_threads and any finite set of      *)
(* dispatchers, as long as no wait returns unsignalled: the counters agree *)
(* with the threads, the locks are never waited for in a circle, no signal *)
(* is lost and no job runs twice.                                          *)
(***************************************************************************)
EXTENDS ThreadPool, FiniteSetTheorems, TLAPS

(* A thread that waits for a signal, or is about to.  Once the pool shuts  *)
(* down it may also have got the signal of the shutdown.                   *)
Resting(t) ==
  \/ wpc[t] \in {"signalIdle", "toSleep", "sleep"}
  \/ is_shutdown /\ wpc[t] \in {"signalled", "check", "exiting", "exited"}

(* A thread holds its own lock while it is reclaimed and until it sleeps.  *)
(* It is busy until it has been put among the idle, which rest.            *)
ThreadInv ==
  \A t \in Thread :
    /\ state[t] = "none" <=> wpc[t] = "none"
    /\ wpc[t] \in {"reclaim", "signalIdle", "toSleep"} <=> thread_lock[t] # Nobody
    /\ wpc[t] \in {"run", "lockSelf", "reclaim"} => state[t] = "busy"
    /\ state[t] = "idle" => Resting(t)

(* Who holds threads_lock across a step: the dispatcher that has picked a  *)
(* thread, or the shutdown while it signals.                               *)
LockInv ==
  /\ \A d \in Dispatcher : threads_lock = d <=> dpc[d] = "assign"
  /\ threads_lock = Closer <=> cpc = "signalAll"

(* A thread that was picked is busy, and still rests.                      *)
PickInv ==
  \A d \in Dispatcher : dpc[d] = "assign" =>
    target[d] \in Thread /\ state[target[d]] = "busy" /\ Resting(target[d])

(* The shutdown signals the threads when the last one is through with its  *)
(* job; it never gets past the wait for mEmptyCond.                        *)
CloseInv ==
  /\ is_shutdown <=> cpc # "off"
  /\ cpc \in {"fullSignalled", "signalAll", "waitEmpty", "closed"} =>
       \A t \in Thread : wpc[t] \notin {"run", "lockSelf", "reclaim"}
  /\ cpc # "emptySignalled"
  /\ cpc = "waitEmpty" => threads_num > 0

CallAt(p)   == {d \in Dispatcher : dpc[d] = p}
ThreadAt(p) == {t \in Thread : wpc[t] = p}
Live        == {t \in Thread : state[t] # "none"}

(* While a dispatcher waits, every idle thread has its signal still to     *)
(* send, or has sent it to a dispatcher that will test again.              *)
SignalsCover ==
  CallAt("waitIdle") # {} =>
    idle_threads <= Cardinality(ThreadAt("signalIdle")) + Cardinality(CallAt("lock"))

Inv == /\ TypeOK /\ CountersExact /\ SignalsCover
       /\ ThreadInv /\ LockInv /\ PickInv /\ CloseInv

(* The sets that are counted are finite. *)
LEMMA CountedFinite ==
  /\ IsFiniteSet(IdleThreads) /\ Cardinality(IdleThreads) \in Nat
  /\ IsFiniteSet(Live) /\ Cardinality(Live) \in Nat
  /\ \A p : IsFiniteSet(CallAt(p)) /\ Cardinality(CallAt(p)) \in Nat
  /\ \A p : IsFiniteSet(ThreadAt(p)) /\ Cardinality(ThreadAt(p)) \in Nat
<1>1. IsFiniteSet(Thread) /\ IsFiniteSet(Dispatcher)
  BY PoolAssumption DEF PoolAssumption
<1>2. IdleThreads \in SUBSET Thread /\ Live \in SUBSET Thread
  BY DEF IdleThreads, Live
<1>3. \A p : CallAt(p) \in SUBSET Dispatcher /\ ThreadAt(p) \in SUBSET Thread
  BY DEF CallAt, ThreadAt
<1> QED
  BY <1>1, <1>2, <1>3, FS_Subset, FS_CardinalityType

(* Counting one member more, and one less. *)
LEMMA OneMore ==
  ASSUME NEW S, IsFiniteSet(S), NEW x, x \notin S
  PROVE  Cardinality(S \cup {x}) = Cardinality(S) + 1
BY FS_AddElement

LEMMA OneLess ==
  ASSUME NEW S, IsFiniteSet(S), NEW x, x \in S
  PROVE  Cardinality(S \ {x}) = Cardinality(S) - 1 /\ Cardinality(S) \in Nat \ {0}
BY FS_RemoveElement, FS_CardinalityType, FS_EmptySet

(* A thread that is not idle leaves room among the idle ones: reclaim_thread() *)
(* never finds the pool full of idle threads.                              *)
LEMMA RoomForIdle ==
  ASSUME CountersExact, NEW t \in Thread, t \notin IdleThreads
  PROVE  idle_threads < MaxThreads
<1>1. IdleThreads \cup {t} \in SUBSET Thread
  BY DEF IdleThreads
<1>2. Cardinality(IdleThreads \cup {t}) = Cardinality(IdleThreads) + 1
  BY CountedFinite, OneMore
<1>3. Cardinality(IdleThreads \cup {t}) <= MaxThreads
  BY <1>1, PoolAssumption, FS_Subset DEF PoolAssumption
<1> QED
  BY <1>2, <1>3, CountedFinite, PoolAssumption DEF CountersExact, PoolAssumption

(* threads_num counts the live threads, idle_threads the idle ones of them. *)
LEMMA Counters ==
  CountersExact <=> idle_threads = Cardinality(IdleThreads) /\ threads_num = Cardinality(Live)
BY DEF CountersExact, Live

(* Steps that change neither a thread's state nor a counter.               *)
LEMMA CountersKept ==
  ASSUME CountersExact, UNCHANGED <<idle_threads, threads_num, state>>
  PROVE  CountersExact'
BY DEF CountersExact, IdleThreads

(* Steps that move nobody who waits, tests or signals.                     *)
LEMMA SignalsKept ==
  ASSUME SignalsCover, UNCHANGED idle_threads,
         CallAt("waitIdle")' = CallAt("waitIdle"),
         CallAt("lock")' = CallAt("lock"),
         ThreadAt("signalIdle")' = ThreadAt("signalIdle")
  PROVE  SignalsCover'
BY DEF SignalsCover

(* The same in the state after a step. *)
LEMMA CountedNext ==
  /\ IsFiniteSet(CallAt("lock")') /\ Cardinality(CallAt("lock")') \in Nat
  /\ IsFiniteSet(ThreadAt("signalIdle")') /\ Cardinality(ThreadAt("signalIdle")') \in Nat
<1>1. IsFiniteSet(Thread) /\ IsFiniteSet(Dispatcher)
  BY PoolAssumption DEF PoolAssumption
<1>2. CallAt("lock")' \in SUBSET Dispatcher /\ ThreadAt("signalIdle")' \in SUBSET Thread
  BY DEF CallAt, ThreadAt
<1> QED
  BY <1>1, <1>2, FS_Subset, FS_CardinalityType

(* No idle thread, no signal owed. *)
LEMMA NoneIdle ==
  ASSUME idle_threads' <= 0, idle_threads' \in Int
  PROVE  SignalsCover'
BY CountedNext DEF SignalsCover

(* Nobody is inside a section of threads_lock that another one can see.    *)
LEMMA NobodyHolds ==
  ASSUME LockInv, PoolLockFree
  PROVE  (\A d \in Dispatcher : dpc[d] # "assign") /\ cpc # "signalAll"
BY PoolAssumption DEF LockInv, PoolLockFree, PoolAssumption

(* When as many threads are idle as there are, none is busy.               *)
LEMMA AllIdle ==
  ASSUME NEW f \in [Thread -> {"none", "busy", "idle"}],
         Cardinality({t \in Thread : f[t] # "none"})
           <= Cardinality({t \in Thread : f[t] = "idle"})
  PROVE  \A t \in Thread : f[t] # "busy"
<1> DEFINE L == {t \in Thread : f[t] # "none"}
           I == {t \in Thread : f[t] = "idle"}
<1>1. IsFiniteSet(L) /\ Cardinality(L) \in Nat
  <2>1. IsFiniteSet(Thread) /\ L \in SUBSET Thread
    BY PoolAssumption DEF PoolAssumption
  <2> QED
    BY <2>1, FS_Subset, FS_CardinalityType
<1>2. I \in SUBSET L
  OBVIOUS
<1>3. Cardinality(I) \in Nat /\ Cardinality(I) <= Cardinality(L)
  BY <1>1, <1>2, FS_Subset, FS_CardinalityType
<1>4. I = L
  <2>1. Cardinality(I) = Cardinality(L)
    BY <1>1, <1>3
  <2> HIDE DEF I, L
  <2> QED
    BY <1>1, <1>2, <2>1, FS_Subset
<1> QED
  BY <1>4

LEMMA InitInv == Init => Inv
<1> SUFFICES ASSUME Init PROVE Inv
  OBVIOUS
<1>1. TypeOK
  <2>1. MaxThreads \in Nat
    BY PoolAssumption DEF PoolAssumption
  <2>2. /\ threads_num \in 0..MaxThreads /\ idle_threads \in 0..MaxThreads
        /\ threads_lock \in Dispatcher \cup {Closer, Nobody}
    BY <2>1 DEF Init
  <2>3. /\ is_shutdown \in BOOLEAN /\ cpc \in ClosePc /\ toSignal \subseteq Thread
        /\ fate \in [Job -> Fate]
    BY DEF Init, ClosePc, Fate
  <2>4. /\ thread_lock \in [Thread -> Thread \cup {Nobody}]
        /\ state \in [Thread -> {"none", "busy", "idle"}]
        /\ job \in [Thread -> Job \cup {Nobody}]
        /\ wpc \in [Thread -> WorkerPc]
    BY DEF Init, WorkerPc
  <2>5. /\ dpc \in [Dispatcher -> CallPc]
        /\ djob \in [Dispatcher -> Job \cup {Nobody}]
        /\ target \in [Dispatcher -> Thread \cup {Nobody}]
    BY DEF Init, CallPc
  <2> QED
    BY <2>2, <2>3, <2>4, <2>5 DEF TypeOK
<1> USE PoolAssumption DEF PoolAssumption
<1>2. IdleThreads = {} /\ Live = {} /\ CallAt("waitIdle") = {}
  BY DEF Init, IdleThreads, Live, CallAt
<1>3. CountersExact /\ SignalsCover
  BY <1>2, Counters, FS_EmptySet DEF Init, SignalsCover
<1>4. ThreadInv /\ PickInv
  BY DEF Init, ThreadInv, PickInv
<1>5. LockInv /\ CloseInv
  BY DEF Init, LockInv, CloseInv
<1> QED
  BY <1>1, <1>3, <1>4, <1>5 DEF Inv

-----------------------------------------------------------------------------
(* The dispatcher. *)

(* One dispatcher more will test. *)
LEMMA CallInv ==
  ASSUME Inv, NEW d \in Dispatcher, NEW j \in Job, Call(d, j)
  PROVE  Inv'
<1> USE DEF Inv, Call, poolVars, threadVars, closeVars
<1>1. TypeOK'
  BY DEF TypeOK, CallPc, Fate
<1>2. CountersExact'
  BY CountersKept
<1>3. SignalsCover'
  <2>1. /\ CallAt("waitIdle")' = CallAt("waitIdle")
        /\ CallAt("lock")' = CallAt("lock") \cup {d} /\ d \notin CallAt("lock")
        /\ ThreadAt("signalIdle")' = ThreadAt("signalIdle")
    BY DEF TypeOK, CallAt, ThreadAt
  <2>2. Cardinality(CallAt("lock")') = Cardinality(CallAt("lock")) + 1
    BY <2>1, CountedFinite, OneMore
  <2>3. idle_threads' = idle_threads /\ idle_threads \in Nat
    BY CountedFinite, Counters
  <2> QED
    BY <2>1, <2>2, <2>3, CountedFinite DEF SignalsCover
<1>4. ThreadInv' /\ CloseInv'
  BY DEF ThreadInv, CloseInv, Resting
<1>5. LockInv' /\ PickInv'
  BY DEF TypeOK, LockInv, PickInv, Resting
<1> QED
  BY <1>1, <1>2, <1>3, <1>4, <1>5

(* Who begins to wait has seen that no thread is idle. *)
LEMMA WaitIdleInv ==
  ASSUME Inv, NEW d \in Dispatcher, WaitIdle(d)
  PROVE  Inv'
<1> USE DEF Inv, WaitIdle, poolVars, threadVars, closeVars
<1>1. TypeOK'
  BY DEF TypeOK, CallPc
<1>2. CountersExact'
  BY CountersKept
<1>3. SignalsCover'
  <2>1. idle_threads' <= 0
    BY DEF NoIdleAndExceedLimit
  <2>2. /\ IsFiniteSet(CallAt("lock")') /\ ThreadAt("signalIdle")' = ThreadAt("signalIdle")
        /\ CallAt("lock")' = CallAt("lock") \ {d} /\ d \in CallAt("lock")
    <3>1. /\ ThreadAt("signalIdle")' = ThreadAt("signalIdle")
          /\ CallAt("lock")' = CallAt("lock") \ {d} /\ d \in CallAt("lock")
      BY DEF TypeOK, CallAt, ThreadAt
    <3> QED
      BY <3>1, CountedFinite, FS_RemoveElement
  <2>3. Cardinality(CallAt("lock")') \in Nat /\ Cardinality(ThreadAt("signalIdle")') \in Nat
    BY <2>2, CountedFinite, FS_CardinalityType
  <2>4. idle_threads' \in Int
    BY DEF TypeOK
  <2> QED
    BY <2>1, <2>3, <2>4 DEF SignalsCover
<1>4. ThreadInv' /\ CloseInv'
  BY DEF ThreadInv, CloseInv, Resting
<1>5. LockInv' /\ PickInv'
  BY DEF TypeOK, LockInv, PickInv, Resting
<1> QED
  BY <1>1, <1>2, <1>3, <1>4, <1>5

(* A thread more, and it is busy. *)
LEMMA CreateThreadInv ==
  ASSUME Inv, NEW d \in Dispatcher, NEW t \in Thread, CreateThread(d, t)
  PROVE  Inv'
<1> USE DEF Inv, CreateThread, Return, closeVars
<1>1. TypeOK'
  <2>1. threads_num' \in 0..MaxThreads
    BY PoolAssumption DEF TypeOK, NoIdleAndBelowLimit, PoolAssumption
  <2> QED
    BY <2>1 DEF TypeOK, CallPc, WorkerPc
<1>2. CountersExact'
  <2>1. IdleThreads' = IdleThreads /\ Live' = Live \cup {t} /\ t \notin Live
    BY DEF TypeOK, IdleThreads, Live
  <2>2. Cardinality(Live') = Cardinality(Live) + 1
    BY <2>1, CountedFinite, OneMore
  <2> QED
    BY <2>1, <2>2 DEF CountersExact, Live
<1>3. SignalsCover'
  BY NoneIdle DEF TypeOK, NoIdleAndBelowLimit
<1>4. ThreadInv' /\ CloseInv'
  <2>1. wpc[t] = "none" /\ thread_lock[t] = Nobody
    BY DEF ThreadInv
  <2>2. ThreadInv'
    BY <2>1 DEF TypeOK, ThreadInv, Resting
  <2>3. CloseInv'
    BY DEF TypeOK, CloseInv
  <2> QED
    BY <2>2, <2>3
<1>5. LockInv' /\ PickInv'
  BY NobodyHolds DEF TypeOK, LockInv, PickInv
<1> QED
  BY <1>1, <1>2, <1>3, <1>4, <1>5

(* The dispatcher leaves; no thread was idle. *)
LEMMA CreateFailsInv ==
  ASSUME Inv, NEW d \in Dispatcher, CreateFails(d)
  PROVE  Inv'
<1> USE DEF Inv, CreateFails, Return, poolVars, threadVars, closeVars
<1>1. TypeOK'
  BY DEF TypeOK, CallPc, Fate
<1>2. CountersExact'
  BY CountersKept
<1>3. SignalsCover'
  BY NoneIdle DEF TypeOK, NoIdleAndBelowLimit
<1>4. ThreadInv' /\ CloseInv'
  BY DEF ThreadInv, CloseInv, Resting
<1>5. LockInv' /\ PickInv'
  BY NobodyHolds DEF TypeOK, LockInv, PickInv
<1> QED
  BY <1>1, <1>2, <1>3, <1>4, <1>5

(* One idle thread less, and one dispatcher less that will test: the idle  *)
(* threads that are left still have their signals.                         *)
LEMMA PickIdleInv ==
  ASSUME Inv, NEW d \in Dispatcher, PickIdle(d)
  PROVE  Inv'
<1> USE DEF Inv
<1>1. IdleThreads # {}
  BY CountedFinite, FS_EmptySet DEF PickIdle, IsIdle, CountersExact
<1>2. PICK t \in IdleThreads : /\ state'  = [state EXCEPT ![t] = "busy"]
                              /\ target' = [target EXCEPT ![d] = t]
  BY <1>1 DEF PickIdle
<1>3. /\ dpc[d] = "lock" /\ PoolLockFree /\ idle_threads > 0
      /\ idle_threads' = idle_threads - 1
      /\ threads_lock' = d
      /\ dpc' = [dpc EXCEPT ![d] = "assign"]
      /\ UNCHANGED <<threads_num, is_shutdown, djob, fate, thread_lock, job, wpc, closeVars>>
  BY <1>1 DEF PickIdle, IsIdle
<1> USE DEF closeVars
<1>4. t \in Thread /\ state[t] = "idle"
  BY DEF IdleThreads
<1>5. TypeOK'
  <2>1. idle_threads' \in 0..MaxThreads
    BY <1>3, PoolAssumption DEF TypeOK, PoolAssumption
  <2> QED
    BY <2>1, <1>2, <1>3, <1>4 DEF TypeOK, CallPc
<1>6. CountersExact'
  <2>1. IdleThreads' = IdleThreads \ {t} /\ Live' = Live
    BY <1>2, <1>4 DEF TypeOK, IdleThreads, Live
  <2>2. Cardinality(IdleThreads') = Cardinality(IdleThreads) - 1
    BY <2>1, CountedFinite, OneLess
  <2> QED
    BY <2>1, <2>2, <1>3 DEF CountersExact, Live
<1>7. SignalsCover'
  <2>1. /\ CallAt("waitIdle")' = CallAt("waitIdle")
        /\ CallAt("lock")' = CallAt("lock") \ {d} /\ d \in CallAt("lock")
        /\ ThreadAt("signalIdle")' = ThreadAt("signalIdle")
    BY <1>3 DEF TypeOK, CallAt, ThreadAt
  <2>2. Cardinality(CallAt("lock")') = Cardinality(CallAt("lock")) - 1
    BY <2>1, CountedFinite, OneLess
  <2>3. idle_threads \in Int
    BY DEF TypeOK
  <2> QED
    BY <2>1, <2>2, <2>3, <1>3, CountedFinite DEF SignalsCover
<1>8. ThreadInv' /\ CloseInv'
  BY <1>2, <1>3, <1>4 DEF TypeOK, ThreadInv, CloseInv, Resting
<1>9. LockInv'
  BY <1>3, NobodyHolds, PoolAssumption DEF TypeOK, LockInv, PoolAssumption
<1>10. PickInv'
  <2>1. Resting(t)
    BY <1>4 DEF ThreadInv
  <2> QED
    BY <2>1, <1>2, <1>3, <1>4, NobodyHolds DEF TypeOK, PickInv, Resting
<1> QED
  BY <1>5, <1>6, <1>7, <1>8, <1>9, <1>10

(* The thread was picked, so it rests; its lock is free, so it sleeps or   *)
(* has the signal of the shutdown.                                         *)
LEMMA AssignInv ==
  ASSUME Inv, NEW d \in Dispatcher, Assign(d)
  PROVE  Inv'
<1> USE DEF Inv, Assign, Return, closeVars
<1>1. PICK t \in Thread : t = target[d]
  BY DEF PickInv
<1>2. /\ threads_lock = d /\ state[t] = "busy" /\ thread_lock[t] = Nobody
      /\ wpc' = [wpc EXCEPT ![t] = Signalled(t)]
      /\ \/ wpc[t] = "sleep"
         \/ is_shutdown /\ wpc[t] \in {"signalled", "check", "exiting", "exited"}
  <2>1. state[t] = "busy" /\ Resting(t) /\ thread_lock[t] = Nobody
    BY <1>1 DEF PickInv
  <2>2. wpc[t] \notin {"reclaim", "signalIdle", "toSleep"}
    BY <2>1 DEF ThreadInv
  <2>3. threads_lock = d
    BY DEF LockInv
  <2>4. \/ wpc[t] = "sleep"
        \/ is_shutdown /\ wpc[t] \in {"signalled", "check", "exiting", "exited"}
    BY <2>1, <2>2 DEF TypeOK, Resting
  <2>5. wpc' = [wpc EXCEPT ![t] = Signalled(t)]
    BY <1>1
  <2> QED
    BY <2>1, <2>3, <2>4, <2>5
<1>3. wpc'[t] \in {"signalled", "check", "exiting", "exited"}
  BY <1>2 DEF TypeOK, Signalled
<1>4. (\A e \in Dispatcher : dpc'[e] # "assign") /\ cpc # "signalAll"
  BY <1>2, PoolAssumption DEF TypeOK, LockInv, PoolAssumption
<1>5. TypeOK'
  <2>1. wpc' \in [Thread -> WorkerPc]
    BY <1>2, <1>3 DEF TypeOK, WorkerPc
  <2>2. job' \in [Thread -> Job \cup {Nobody}]
    BY DEF TypeOK
  <2> QED
    BY <2>1, <2>2 DEF TypeOK, CallPc
<1>6. CountersExact'
  BY CountersKept
<1>7. SignalsCover'
  <2>1. /\ CallAt("waitIdle")' = CallAt("waitIdle")
        /\ CallAt("lock")' = CallAt("lock")
    BY DEF TypeOK, CallAt
  <2>2. ThreadAt("signalIdle")' = ThreadAt("signalIdle")
    BY <1>2, <1>3 DEF TypeOK, ThreadAt
  <2> QED
    BY <2>1, <2>2, SignalsKept
<1>8. ThreadInv'
  BY <1>2, <1>3 DEF TypeOK, ThreadInv, Resting
<1>9. CloseInv'
  BY <1>2, <1>3 DEF TypeOK, CloseInv
<1>10. LockInv' /\ PickInv'
  BY <1>4, PoolAssumption DEF LockInv, PickInv, PoolAssumption
<1> QED
  BY <1>5, <1>6, <1>7, <1>8, <1>9, <1>10

-----------------------------------------------------------------------------
(* A thread of the pool. *)

(* A thread that goes on to its job is busy: were it idle, the signal that *)
(* woke it would be that of the shutdown, and it would end.                *)
LEMMA CheckInv ==
  ASSUME Inv, NEW t \in Thread, Check(t)
  PROVE  Inv'
<1> USE DEF Inv, Check, Goto, poolVars, callVars, closeVars
<1>1. TypeOK'
  BY DEF TypeOK, WorkerPc
<1>2. CountersExact'
  BY CountersKept
<1>3. SignalsCover'
  <2>1. /\ CallAt("waitIdle")' = CallAt("waitIdle")
        /\ CallAt("lock")' = CallAt("lock")
        /\ ThreadAt("signalIdle")' = ThreadAt("signalIdle")
    BY DEF TypeOK, CallAt, ThreadAt
  <2> QED
    BY <2>1, SignalsKept
<1>4. ThreadInv' /\ CloseInv'
  BY DEF TypeOK, ThreadInv, CloseInv, Resting
<1>5. LockInv' /\ PickInv'
  BY DEF TypeOK, LockInv, PickInv, Resting
<1> QED
  BY <1>1, <1>2, <1>3, <1>4, <1>5

(* A thread that runs a job keeps the shutdown waiting. *)
LEMMA RunInv ==
  ASSUME Inv, NEW t \in Thread, Run(t)
  PROVE  Inv'
<1> USE DEF Inv, Run, Goto, poolVars, callVars, closeVars
<1>1. TypeOK'
  BY DEF TypeOK, WorkerPc, Fate
<1>2. CountersExact'
  BY CountersKept
<1>3. SignalsCover'
  <2>1. /\ CallAt("waitIdle")' = CallAt("waitIdle")
        /\ CallAt("lock")' = CallAt("lock")
        /\ ThreadAt("signalIdle")' = ThreadAt("signalIdle")
    BY DEF TypeOK, CallAt, ThreadAt
  <2> QED
    BY <2>1, SignalsKept
<1>4. ThreadInv' /\ CloseInv'
  BY DEF TypeOK, ThreadInv, CloseInv, Resting
<1>5. LockInv' /\ PickInv'
  BY DEF TypeOK, LockInv, PickInv, Resting
<1> QED
  BY <1>1, <1>2, <1>3, <1>4, <1>5

(* From here the thread holds its own lock. *)
LEMMA LockSelfInv ==
  ASSUME Inv, NEW t \in Thread, LockSelf(t)
  PROVE  Inv'
<1> USE DEF Inv, LockSelf, Goto, poolVars, callVars, closeVars
<1>1. TypeOK'
  BY PoolAssumption DEF TypeOK, WorkerPc, PoolAssumption
<1>2. CountersExact'
  BY CountersKept
<1>3. SignalsCover'
  <2>1. /\ CallAt("waitIdle")' = CallAt("waitIdle")
        /\ CallAt("lock")' = CallAt("lock")
        /\ ThreadAt("signalIdle")' = ThreadAt("signalIdle")
    BY DEF TypeOK, CallAt, ThreadAt
  <2> QED
    BY <2>1, SignalsKept
<1>4. ThreadInv' /\ CloseInv'
  BY PoolAssumption DEF TypeOK, ThreadInv, CloseInv, Resting
<1>5. LockInv' /\ PickInv'
  BY PoolAssumption DEF TypeOK, LockInv, PickInv, Resting
<1> QED
  BY <1>1, <1>2, <1>3, <1>4, <1>5

(* One idle thread more, that owes one signal more.  When it is the last   *)
(* one, no thread has a job any longer.                                    *)
LEMMA ReclaimInv ==
  ASSUME Inv, NEW t \in Thread, Reclaim(t)
  PROVE  Inv'
<1> USE DEF Inv, Reclaim, Goto, PutIdle, callVars
<1> wpc[t] = "reclaim" /\ state[t] = "busy" /\ thread_lock[t] # Nobody
  BY DEF ThreadInv
<1> idle_threads < MaxThreads
  <2>1. t \notin IdleThreads
    BY DEF IdleThreads
  <2> QED
    BY <2>1, RoomForIdle
<1> USE NobodyHolds
<1>1. TypeOK'
  <2>1. idle_threads' \in 0..MaxThreads
    BY PoolAssumption DEF TypeOK, PoolAssumption
  <2> QED
    BY <2>1 DEF TypeOK, WorkerPc, ClosePc
<1>2. CountersExact'
  <2>1. IdleThreads' = IdleThreads \cup {t} /\ t \notin IdleThreads /\ Live' = Live
    BY DEF TypeOK, IdleThreads, Live
  <2>2. Cardinality(IdleThreads') = Cardinality(IdleThreads) + 1
    BY <2>1, CountedFinite, OneMore
  <2> QED
    BY <2>1, <2>2 DEF CountersExact, Live
<1>3. SignalsCover'
  <2>1. /\ CallAt("waitIdle")' = CallAt("waitIdle")
        /\ CallAt("lock")' = CallAt("lock")
        /\ ThreadAt("signalIdle")' = ThreadAt("signalIdle") \cup {t}
        /\ t \notin ThreadAt("signalIdle")
    BY DEF TypeOK, CallAt, ThreadAt
  <2>2. Cardinality(ThreadAt("signalIdle")') = Cardinality(ThreadAt("signalIdle")) + 1
    BY <2>1, CountedFinite, OneMore
  <2>3. idle_threads \in Int
    BY DEF TypeOK
  <2> QED
    BY <2>1, <2>2, <2>3, CountedFinite DEF SignalsCover
<1>4. ThreadInv' /\ CloseInv'
  <2>1. ThreadInv'
    BY DEF TypeOK, ThreadInv, Resting
  <2>2. CASE cpc' = cpc
    BY <2>1, <2>2 DEF TypeOK, CloseInv
  <2>3. CASE cpc = "waitFull" /\ idle_threads + 1 >= threads_num /\ cpc' = "fullSignalled"
    <3>1. \A u \in Thread : state'[u] # "busy"
      <4>1. idle_threads' >= threads_num' /\ idle_threads' \in Int /\ threads_num' \in Int
        BY <2>3, <1>1 DEF TypeOK
      <4> QED
        BY <4>1, <1>1, <1>2, AllIdle DEF TypeOK, CountersExact, IdleThreads
    <3>2. \A u \in Thread : wpc'[u] \notin {"run", "lockSelf", "reclaim"}
      BY <2>1, <3>1 DEF ThreadInv
    <3> QED
      BY <2>1, <2>3, <3>2 DEF CloseInv
  <2> QED
    BY <2>1, <2>2, <2>3
<1>5. LockInv' /\ PickInv'
  BY DEF TypeOK, LockInv, PickInv, ClosePc
<1> QED
  BY <1>1, <1>2, <1>3, <1>4, <1>5

(* The signal that was owed is sent: a dispatcher will test again, if one  *)
(* waits.                                                                  *)
LEMMA SignalIdleInv ==
  ASSUME Inv, NEW t \in Thread, SignalIdle(t)
  PROVE  Inv'
<1> USE DEF Inv, SignalIdle, Goto, poolVars, closeVars
<1>1. TypeOK'
  BY DEF TypeOK, WorkerPc, CallPc
<1>2. CountersExact'
  BY CountersKept
<1>3. SignalsCover'
  <2> DEFINE waiting == CallAt("waitIdle")
  <2>1. CASE waiting = {}
    <3>1. CallAt("waitIdle")' = {}
      BY <2>1 DEF CallAt
    <3> QED
      BY <3>1 DEF SignalsCover
  <2>2. CASE waiting # {}
    <3>1. PICK d \in waiting : dpc' = [dpc EXCEPT ![d] = "lock"]
      BY <2>2 DEF CallAt
    <3>2. /\ CallAt("lock")' = CallAt("lock") \cup {d} /\ d \notin CallAt("lock")
          /\ ThreadAt("signalIdle")' = ThreadAt("signalIdle") \ {t}
          /\ t \in ThreadAt("signalIdle")
      BY <3>1 DEF TypeOK, CallAt, ThreadAt
    <3>3. Cardinality(CallAt("lock")') = Cardinality(CallAt("lock")) + 1
      BY <3>2, CountedFinite, OneMore
    <3>4. Cardinality(ThreadAt("signalIdle")') = Cardinality(ThreadAt("signalIdle")) - 1
      BY <3>2, CountedFinite, OneLess
    <3>5. idle_threads \in Int /\ idle_threads' = idle_threads
      BY DEF TypeOK
    <3> QED
      BY <2>2, <3>3, <3>4, <3>5, CountedFinite DEF SignalsCover
  <2> QED
    BY <2>1, <2>2
<1>4. ThreadInv' /\ CloseInv'
  BY DEF TypeOK, ThreadInv, CloseInv, Resting
<1>5. LockInv' /\ PickInv'
  <2>1. \A d \in Dispatcher : dpc'[d] = "assign" <=> dpc[d] = "assign"
    BY DEF TypeOK
  <2> QED
    BY <2>1 DEF TypeOK, LockInv, PickInv, Resting
<1> QED
  BY <1>1, <1>2, <1>3, <1>4, <1>5

(* The thread gives up its own lock as it begins to wait. *)
LEMMA SleepInv ==
  ASSUME Inv, NEW t \in Thread, Sleep(t)
  PROVE  Inv'
<1> USE DEF Inv, Sleep, Goto, poolVars, callVars, closeVars
<1>1. TypeOK'
  BY DEF TypeOK, WorkerPc
<1>2. CountersExact'
  BY CountersKept
<1>3. SignalsCover'
  <2>1. /\ CallAt("waitIdle")' = CallAt("waitIdle")
        /\ CallAt("lock")' = CallAt("lock")
        /\ ThreadAt("signalIdle")' = ThreadAt("signalIdle")
    BY DEF TypeOK, CallAt, ThreadAt
  <2> QED
    BY <2>1, SignalsKept
<1>4. ThreadInv' /\ CloseInv'
  BY DEF TypeOK, ThreadInv, CloseInv, Resting
<1>5. LockInv' /\ PickInv'
  BY DEF TypeOK, LockInv, PickInv, Resting
<1> QED
  BY <1>1, <1>2, <1>3, <1>4, <1>5

(* A thread woken with no job is woken by the shutdown. *)
LEMMA WakeInv ==
  ASSUME Inv, SpuriousWakeup = FALSE, NEW t \in Thread, Wake(t)
  PROVE  Inv'
<1> USE DEF Inv, Wake, MayReturn, Goto, poolVars, callVars, closeVars
<1>1. TypeOK'
  BY DEF TypeOK, WorkerPc
<1>2. CountersExact'
  BY CountersKept
<1>3. SignalsCover'
  <2>1. /\ CallAt("waitIdle")' = CallAt("waitIdle")
        /\ CallAt("lock")' = CallAt("lock")
        /\ ThreadAt("signalIdle")' = ThreadAt("signalIdle")
    BY DEF TypeOK, CallAt, ThreadAt
  <2> QED
    BY <2>1, SignalsKept
<1>4. ThreadInv' /\ CloseInv'
  BY DEF TypeOK, ThreadInv, CloseInv, Resting
<1>5. LockInv' /\ PickInv'
  BY DEF TypeOK, LockInv, PickInv, Resting
<1> QED
  BY <1>1, <1>2, <1>3, <1>4, <1>5

(* A thread that ends stays counted: it never signals mEmptyCond. *)
LEMMA ExitInv ==
  ASSUME Inv, NEW t \in Thread, Exit(t)
  PROVE  Inv'
<1> USE DEF Inv, Exit, Goto, poolVars, callVars, closeVars
<1>1. TypeOK'
  BY DEF TypeOK, WorkerPc, CloseInv
<1>2. CountersExact'
  BY CountersKept
<1>3. SignalsCover'
  <2>1. /\ CallAt("waitIdle")' = CallAt("waitIdle")
        /\ CallAt("lock")' = CallAt("lock")
        /\ ThreadAt("signalIdle")' = ThreadAt("signalIdle")
    BY DEF TypeOK, CallAt, ThreadAt
  <2> QED
    BY <2>1, SignalsKept
<1>4. ThreadInv' /\ CloseInv'
  BY DEF TypeOK, ThreadInv, CloseInv, Resting
<1>5. LockInv' /\ PickInv'
  BY DEF TypeOK, LockInv, PickInv, Resting, CloseInv
<1> QED
  BY <1>1, <1>2, <1>3, <1>4, <1>5

-----------------------------------------------------------------------------
(* thread_pool_finl(). *)

(* The shutdown begins to signal when every thread is idle. *)
LEMMA ShutdownInv ==
  ASSUME Inv, Shutdown
  PROVE  Inv'
<1> USE DEF Inv, Shutdown, StartSignalling, threadVars, callVars
<1> USE NobodyHolds
<1>1. TypeOK'
  BY DEF TypeOK, ClosePc
<1>2. CountersExact'
  BY CountersKept
<1>3. SignalsCover'
  <2>1. /\ CallAt("waitIdle")' = CallAt("waitIdle")
        /\ CallAt("lock")' = CallAt("lock")
        /\ ThreadAt("signalIdle")' = ThreadAt("signalIdle")
    BY DEF CallAt, ThreadAt
  <2> QED
    BY <2>1, SignalsKept
<1>4. ThreadInv' /\ CloseInv'
  <2>1. ThreadInv'
    BY DEF ThreadInv, Resting
  <2>2. CASE idle_threads < threads_num
    BY <2>1, <2>2 DEF CloseInv
  <2>3. CASE ~(idle_threads < threads_num)
    <3>1. threads_num <= idle_threads
      BY <2>3 DEF TypeOK
    <3>2. \A t \in Thread : state[t] # "busy"
      BY <3>1, AllIdle DEF TypeOK, CountersExact, IdleThreads
    <3>3. \A t \in Thread : wpc[t] \notin {"run", "lockSelf", "reclaim"}
      BY <3>2 DEF ThreadInv
    <3> QED
      BY <2>1, <2>3, <3>3 DEF CloseInv
  <2> QED
    BY <2>1, <2>2, <2>3
<1>5. LockInv' /\ PickInv'
  BY PoolAssumption DEF LockInv, PickInv, PoolAssumption
<1> QED
  BY <1>1, <1>2, <1>3, <1>4, <1>5

(* The wait for mFullCond returns because the last thread signalled it. *)
LEMMA FullWokenInv ==
  ASSUME Inv, SpuriousWakeup = FALSE, FullWoken
  PROVE  Inv'
<1> USE DEF Inv, FullWoken, MayReturn, StartSignalling, threadVars, callVars
<1> USE NobodyHolds
<1>1. TypeOK'
  BY DEF TypeOK, ClosePc, WorkerPc
<1>2. CountersExact'
  BY CountersKept
<1>3. SignalsCover'
  <2>1. /\ CallAt("waitIdle")' = CallAt("waitIdle")
        /\ CallAt("lock")' = CallAt("lock")
        /\ ThreadAt("signalIdle")' = ThreadAt("signalIdle")
    BY DEF TypeOK, CallAt, ThreadAt
  <2> QED
    BY <2>1, SignalsKept
<1>4. ThreadInv' /\ CloseInv'
  BY DEF TypeOK, ThreadInv, CloseInv, Resting
<1>5. LockInv' /\ PickInv'
  BY PoolAssumption DEF TypeOK, LockInv, PickInv, Resting, PoolAssumption
<1> QED
  BY <1>1, <1>2, <1>3, <1>4, <1>5

(* The shutdown wakes a thread that sleeps, and none that works. *)
LEMMA SignalThreadInv ==
  ASSUME Inv, NEW t \in Thread, SignalThread(t)
  PROVE  Inv'
<1> USE DEF Inv, SignalThread, Signalled, poolVars, callVars
<1> USE NobodyHolds
<1>1. TypeOK'
  BY DEF TypeOK, ClosePc, WorkerPc
<1>2. CountersExact'
  BY CountersKept
<1>3. SignalsCover'
  <2>1. /\ CallAt("waitIdle")' = CallAt("waitIdle")
        /\ CallAt("lock")' = CallAt("lock")
        /\ ThreadAt("signalIdle")' = ThreadAt("signalIdle")
    BY DEF TypeOK, CallAt, ThreadAt
  <2> QED
    BY <2>1, SignalsKept
<1>4. ThreadInv' /\ CloseInv'
  BY DEF TypeOK, ThreadInv, CloseInv, Resting
<1>5. LockInv' /\ PickInv'
  BY PoolAssumption DEF TypeOK, LockInv, PickInv, Resting, PoolAssumption
<1> QED
  BY <1>1, <1>2, <1>3, <1>4, <1>5

(* The shutdown waits for threads that end, with some still counted. *)
LEMMA WaitEmptyInv ==
  ASSUME Inv, WaitEmpty
  PROVE  Inv'
<1> USE DEF Inv, WaitEmpty, threadVars, callVars
<1> USE NobodyHolds
<1>1. TypeOK'
  BY DEF TypeOK, ClosePc, WorkerPc
<1>2. CountersExact'
  BY CountersKept
<1>3. SignalsCover'
  <2>1. /\ CallAt("waitIdle")' = CallAt("waitIdle")
        /\ CallAt("lock")' = CallAt("lock")
        /\ ThreadAt("signalIdle")' = ThreadAt("signalIdle")
    BY DEF TypeOK, CallAt, ThreadAt
  <2> QED
    BY <2>1, SignalsKept
<1>4. ThreadInv' /\ CloseInv'
  BY DEF TypeOK, ThreadInv, CloseInv, Resting
<1>5. LockInv' /\ PickInv'
  BY PoolAssumption DEF TypeOK, LockInv, PickInv, Resting, PoolAssumption
<1> QED
  BY <1>1, <1>2, <1>3, <1>4, <1>5

(* The pool is destroyed only when it has no thread. *)
LEMMA DestroyInv ==
  ASSUME Inv, SpuriousWakeup = FALSE, Destroy
  PROVE  Inv'
<1> USE DEF Inv, Destroy, MayReturn, threadVars, callVars
<1> cpc = "signalAll" /\ threads_num = 0
  BY DEF CloseInv, ClosePc, TypeOK
<1>1. TypeOK'
  BY PoolAssumption DEF TypeOK, ClosePc, PoolAssumption
<1>2. CountersExact'
  <2>1. Live = {}
    BY CountedFinite, FS_EmptySet DEF CountersExact, Live
  <2>2. IdleThreads' = {} /\ Live' = {}
    BY <2>1 DEF IdleThreads, Live
  <2> QED
    BY <2>2, FS_EmptySet DEF CountersExact, Live
<1>3. SignalsCover'
  BY NoneIdle
<1>4. ThreadInv' /\ CloseInv'
  BY DEF ThreadInv, CloseInv, Resting
<1>5. LockInv' /\ PickInv'
  BY PoolAssumption DEF LockInv, PickInv, PoolAssumption
<1> QED
  BY <1>1, <1>2, <1>3, <1>4, <1>5

-----------------------------------------------------------------------------
(* Every step keeps the invariant. *)
LEMMA NextInv ==
  ASSUME Inv, SpuriousWakeup = FALSE, [Next]_vars
  PROVE  Inv'
<1>1. CASE UNCHANGED vars
  <2> USE <1>1 DEF Inv, vars, poolVars, threadVars, callVars, closeVars
  <2>1. TypeOK'
    BY DEF TypeOK
  <2>2. CountersExact'
    BY CountersKept
  <2>3. SignalsCover'
    BY SignalsKept DEF CallAt, ThreadAt
  <2>4. ThreadInv' /\ LockInv' /\ PickInv' /\ CloseInv'
    BY DEF ThreadInv, LockInv, PickInv, CloseInv, Resting
  <2> QED
    BY <2>1, <2>2, <2>3, <2>4
<1>2. CASE \E d \in Dispatcher, j \in Job : Call(d, j)
  BY <1>2, CallInv
<1>3. ASSUME NEW d \in Dispatcher, DispatchStep(d) PROVE Inv'
  BY <1>3, WaitIdleInv, CreateThreadInv, CreateFailsInv, PickIdleInv, AssignInv
     DEF DispatchStep
<1>4. ASSUME NEW t \in Thread, ThreadStep(t) PROVE Inv'
  BY <1>4, CheckInv, RunInv, LockSelfInv, ReclaimInv, SignalIdleInv, SleepInv,
     WakeInv, ExitInv
     DEF ThreadStep
<1>5. CASE Shutdown
  BY <1>5, ShutdownInv
<1>6. CASE CloseStep
  BY <1>6, FullWokenInv, SignalThreadInv, WaitEmptyInv, DestroyInv DEF CloseStep
<1> QED
  BY <1>1, <1>2, <1>3, <1>4, <1>5, <1>6 DEF Next

(* The invariant holds whatever the threads, the dispatchers and the       *)
(* shutdown do.                                                            *)
THEOREM SpecInv ==
  ASSUME SpuriousWakeup = FALSE
  PROVE  Spec => []Inv
<1>1. Init => Inv
  BY InitInv
<1>2. Inv /\ [Next]_vars => Inv'
  BY NextInv
<1> QED
  BY <1>1, <1>2, PTL DEF Spec

-----------------------------------------------------------------------------
(* The types, among them that threads_num never exceeds max_threads        *)
(* (lib-thread.c:18-19).                                                    *)
THEOREM PoolTypeOK ==
  ASSUME SpuriousWakeup = FALSE
  PROVE  Spec => []TypeOK
<1>1. Inv => TypeOK
  BY DEF Inv
<1> QED
  BY <1>1, SpecInv, PTL

(* idle_threads and threads_num are the numbers of the idle and of the     *)
(* live threads: thread_get_idle() never fails under IS_IDLE.              *)
THEOREM PoolCountersExact ==
  ASSUME SpuriousWakeup = FALSE
  PROVE  Spec => []CountersExact
<1>1. Inv => CountersExact
  BY DEF Inv
<1> QED
  BY <1>1, SpecInv, PTL

(* threads_lock and thread_lock, taken in both orders, are never waited    *)
(* for in a circle: who holds threads_lock waits for the lock of a thread  *)
(* that rests, and one that is being reclaimed does not.                   *)
THEOREM PoolNoCircularWait ==
  ASSUME SpuriousWakeup = FALSE
  PROVE  Spec => []NoCircularWait
<1>1. Inv => NoCircularWait
  BY DEF Inv, PickInv, CloseInv, Resting, NoCircularWait
<1> QED
  BY <1>1, SpecInv, PTL

(* The signal of a job finds the picked thread inside pthread_cond_wait.   *)
THEOREM PoolAssignedIsAsleep ==
  ASSUME SpuriousWakeup = FALSE
  PROVE  Spec => []AssignedIsAsleep
<1>1. Inv => AssignedIsAsleep
  BY DEF Inv, PickInv, ThreadInv, Resting, AssignedIsAsleep
<1> QED
  BY <1>1, SpecInv, PTL

(* No dispatcher waits for an idle thread that nobody will tell it of.     *)
THEOREM PoolNoLostIdleSignal ==
  ASSUME SpuriousWakeup = FALSE
  PROVE  Spec => []NoLostIdleSignal
<1>1. Inv => NoLostIdleSignal
  <2> SUFFICES ASSUME Inv, idle_threads > 0,
                      NEW w \in Dispatcher, dpc[w] = "waitIdle"
               PROVE  ThreadAt("signalIdle") # {} \/ CallAt("lock") # {}
    BY DEF NoLostIdleSignal, ThreadAt, CallAt
  <2>1. idle_threads <= Cardinality(ThreadAt("signalIdle")) + Cardinality(CallAt("lock"))
    BY DEF Inv, SignalsCover, CallAt
  <2>2. idle_threads \in Int
    BY DEF Inv, TypeOK
  <2> QED
    BY <2>1, <2>2, FS_EmptySet
<1> QED
  BY <1>1, SpecInv, PTL

-----------------------------------------------------------------------------
(* Who has a job still to be run: a dispatcher inside its call, and a      *)
(* thread that will run it.                                                *)
Calling(d) == dpc[d] \in {"lock", "waitIdle", "assign"}
Holds(t)   == \/ wpc[t] = "run"
              \/ wpc[t] \in {"signalled", "check"} /\ ~is_shutdown

(* A job that was called for and has not run has one owner at most.        *)
JobInv ==
  /\ \A j \in Job : fate[j] # "ranAgain"
  /\ \A d \in Dispatcher : Calling(d) => djob[d] \in Job /\ fate[djob[d]] = "called"
  /\ \A t \in Thread : Holds(t) => job[t] \in Job /\ fate[job[t]] = "called"
  /\ \A d, e \in Dispatcher : Calling(d) /\ Calling(e) /\ djob[d] = djob[e] => d = e
  /\ \A t, u \in Thread : Holds(t) /\ Holds(u) /\ job[t] = job[u] => t = u
  /\ \A d \in Dispatcher, t \in Thread : Calling(d) /\ Holds(t) => djob[d] # job[t]

(* The owner of a job changes with the steps that hand it over.            *)
LEMMA JobNext ==
  ASSUME Inv, JobInv, SpuriousWakeup = FALSE, [Next]_vars
  PROVE  JobInv'
<1> USE DEF JobInv, Calling, Holds
<1> TypeOK
  BY DEF Inv
<1>1. CASE UNCHANGED vars
  BY <1>1 DEF vars, poolVars, threadVars, callVars, closeVars
<1>2. ASSUME NEW d \in Dispatcher, NEW j \in Job, Call(d, j) PROVE JobInv'
  BY <1>2 DEF Call, TypeOK, poolVars, threadVars, closeVars
<1>3. ASSUME NEW d \in Dispatcher, WaitIdle(d) PROVE JobInv'
  BY <1>3 DEF WaitIdle, TypeOK, poolVars, threadVars, closeVars
<1>4. ASSUME NEW d \in Dispatcher, NEW t \in Thread, CreateThread(d, t) PROVE JobInv'
  <2>1. wpc[t] = "none"
    BY <1>4 DEF CreateThread, Inv, ThreadInv
  <2> QED
    BY <1>4, <2>1 DEF CreateThread, Return, TypeOK, closeVars
<1>5. ASSUME NEW d \in Dispatcher, CreateFails(d) PROVE JobInv'
  BY <1>5 DEF CreateFails, Return, TypeOK, poolVars, threadVars, closeVars
<1>6. ASSUME NEW d \in Dispatcher, PickIdle(d) PROVE JobInv'
  BY <1>6 DEF PickIdle, Return, TypeOK, poolVars, closeVars
<1>7. ASSUME NEW d \in Dispatcher, Assign(d) PROVE JobInv'
  <2>1. target[d] \in Thread /\ (wpc[target[d]] = "sleep" \/ is_shutdown) /\ wpc[target[d]] # "run"
    BY <1>7 DEF Assign, Inv, PickInv, ThreadInv, Resting
  <2> QED
    BY <1>7, <2>1 DEF Assign, Return, Signalled, TypeOK, closeVars
<1>8. ASSUME NEW t \in Thread, ThreadStep(t) PROVE JobInv'
  <2> USE DEF Goto, TypeOK, callVars, poolVars, closeVars
  <2>1. CASE Check(t)
    BY <2>1 DEF Check
  <2>2. CASE Run(t)
    BY <2>2 DEF Run
  <2>3. CASE LockSelf(t)
    BY <2>3 DEF LockSelf
  <2>4. CASE Reclaim(t)
    BY <2>4 DEF Reclaim, PutIdle
  <2>5. CASE SignalIdle(t)
    BY <2>5 DEF SignalIdle
  <2>6. CASE Sleep(t)
    BY <2>6 DEF Sleep
  <2>7. CASE Wake(t)
    BY <2>7 DEF Wake, MayReturn
  <2>8. CASE Exit(t)
    BY <2>8 DEF Exit
  <2> QED
    BY <1>8, <2>1, <2>2, <2>3, <2>4, <2>5, <2>6, <2>7, <2>8 DEF ThreadStep
<1>9. CASE Shutdown \/ CloseStep
  <2> USE DEF TypeOK, threadVars, callVars, poolVars
  <2>1. CASE Shutdown
    BY <2>1 DEF Shutdown, StartSignalling
  <2>2. CASE FullWoken
    BY <2>2 DEF FullWoken, StartSignalling
  <2>3. ASSUME NEW t \in Thread, SignalThread(t) PROVE JobInv'
    <3>1. is_shutdown
      BY <2>3 DEF SignalThread, Inv, CloseInv
    <3> QED
      BY <2>3, <3>1 DEF SignalThread, Signalled
  <2>4. CASE WaitEmpty
    BY <2>4 DEF WaitEmpty
  <2>5. CASE Destroy
    BY <2>5 DEF Destroy
  <2> QED
    BY <1>9, <2>1, <2>2, <2>3, <2>4, <2>5 DEF CloseStep
<1> QED
  BY <1>1, <1>2, <1>3, <1>4, <1>5, <1>6, <1>7, <1>8, <1>9 DEF Next, DispatchStep

(* No job runs twice, although thread_wrapper() does not test, after its   *)
(* wait, whether a job was assigned (lib-thread.c:152-165).                *)
THEOREM PoolNoJobTwice ==
  ASSUME SpuriousWakeup = FALSE
  PROVE  Spec => []NoJobTwice
<1>1. Init => JobInv
  BY DEF Init, JobInv, Calling, Holds
<1>2. Inv /\ JobInv /\ [Next]_vars => JobInv'
  BY JobNext
<1>3. JobInv => NoJobTwice
  BY DEF JobInv, NoJobTwice
<1> QED
  BY <1>1, <1>2, <1>3, SpecInv, PTL DEF Spec
-----------------------------------------------------------------------------
(* A job that was called for has an owner until it runs, unless the pool   *)
(* is shut down: nothing on the way from the call to the thread forgets it.*)
Owned(j) == \/ \E d \in Dispatcher : Calling(d) /\ djob[d] = j
            \/ \E t \in Thread : Holds(t) /\ job[t] = j

NoJobLost == ~is_shutdown => \A j \in Job : fate[j] = "called" => Owned(j)

(* A step after which every owner is one still, or has passed the job on.  *)
LEMMA OwnedNext ==
  ASSUME Inv, JobInv, NoJobLost, SpuriousWakeup = FALSE, [Next]_vars
  PROVE  NoJobLost'
<1> SUFFICES ASSUME ~is_shutdown', NEW j \in Job, fate'[j] = "called"
             PROVE  Owned(j)'
  BY DEF NoJobLost
<1> TypeOK
  BY DEF Inv
<1> USE DEF Owned, Calling, Holds, TypeOK
<1>0. ~is_shutdown /\ fate[j] = "called" => Owned(j)
  BY DEF NoJobLost
<1>1. CASE UNCHANGED vars
  BY <1>0, <1>1 DEF vars, poolVars, threadVars, callVars, closeVars
<1>2. ASSUME NEW d \in Dispatcher, NEW i \in Job, Call(d, i) PROVE Owned(j)'
  BY <1>0, <1>2 DEF Call, poolVars, threadVars, closeVars
<1>3. ASSUME NEW d \in Dispatcher, WaitIdle(d) PROVE Owned(j)'
  BY <1>0, <1>3 DEF WaitIdle, poolVars, threadVars, closeVars
<1>4. ASSUME NEW d \in Dispatcher, NEW t \in Thread, CreateThread(d, t) PROVE Owned(j)'
  <2>1. wpc[t] = "none"
    BY <1>4 DEF CreateThread, Inv, ThreadInv
  <2> QED
    BY <1>0, <1>4, <2>1 DEF CreateThread, Return, closeVars
<1>5. ASSUME NEW d \in Dispatcher, CreateFails(d) PROVE Owned(j)'
  BY <1>0, <1>5 DEF CreateFails, Return, poolVars, threadVars, closeVars
<1>6. ASSUME NEW d \in Dispatcher, PickIdle(d) PROVE Owned(j)'
  BY <1>0, <1>6 DEF PickIdle, Return, poolVars, closeVars
<1>7. ASSUME NEW d \in Dispatcher, Assign(d) PROVE Owned(j)'
  <2>1. target[d] \in Thread /\ wpc[target[d]] = "sleep" /\ ~is_shutdown
    BY <1>7 DEF Assign, Inv, PickInv, ThreadInv, Resting
  <2>2. ~Holds(target[d])
    BY <2>1
  <2> QED
    BY <1>0, <1>7, <2>1, <2>2 DEF Assign, Return, Signalled, closeVars
<1>8. ASSUME NEW t \in Thread, ThreadStep(t) PROVE Owned(j)'
  <2> USE DEF Goto, callVars, poolVars, closeVars
  <2>1. CASE Check(t)
    BY <1>0, <2>1 DEF Check
  <2>2. CASE Run(t)
    <3>1. fate[job[t]] = "called" /\ job[t] \in Job
      BY <2>2 DEF Run, JobInv
    <3>2. job[t] # j /\ fate[j] = "called"
      BY <2>2, <3>1 DEF Run
    <3> QED
      BY <1>0, <2>2, <3>2 DEF Run
  <2>3. CASE LockSelf(t)
    BY <1>0, <2>3 DEF LockSelf
  <2>4. CASE Reclaim(t)
    BY <1>0, <2>4 DEF Reclaim, PutIdle
  <2>5. CASE SignalIdle(t)
    BY <1>0, <2>5 DEF SignalIdle
  <2>6. CASE Sleep(t)
    BY <1>0, <2>6 DEF Sleep
  <2>7. CASE Wake(t)
    BY <1>0, <2>7 DEF Wake, MayReturn
  <2>8. CASE Exit(t)
    BY <1>0, <2>8 DEF Exit
  <2> QED
    BY <1>8, <2>1, <2>2, <2>3, <2>4, <2>5, <2>6, <2>7, <2>8 DEF ThreadStep
<1>9. CASE Shutdown \/ CloseStep
  <2>1. is_shutdown'
    BY <1>9 DEF Shutdown, CloseStep, FullWoken, SignalThread, WaitEmpty, Destroy, Inv, CloseInv,
                StartSignalling, MayReturn, poolVars
  <2> QED
    BY <2>1
<1> QED
  BY <1>1, <1>2, <1>3, <1>4, <1>5, <1>6, <1>7, <1>8, <1>9 DEF Next, DispatchStep

(* A job that was called for is never forgotten: until it has run or its   *)
(* thread could not be created, a dispatcher inside its call or a thread   *)
(* on the way to run it has it, as long as the pool is not shut down.      *)
THEOREM PoolNoJobLost ==
  ASSUME SpuriousWakeup = FALSE
  PROVE  Spec => []NoJobLost
<1>1. Init => JobInv /\ NoJobLost
  BY DEF Init, JobInv, NoJobLost, Calling, Holds
<1>2. Inv /\ JobInv /\ NoJobLost /\ [Next]_vars => JobInv' /\ NoJobLost'
  BY JobNext, OwnedNext
<1> QED
  BY <1>1, <1>2, SpecInv, PTL DEF Spec
=============================================================================
