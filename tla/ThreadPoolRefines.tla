------------------------- MODULE ThreadPoolRefines --------------------------
(***************************************************************************)
(* The pool of lib-thread.c implements WorkerPool, for any max_threads and *)
(* any finite set of dispatchers, as long as no wait returns unsignalled.  *)
(***************************************************************************)
EXTENDS ThreadPoolProofs

Running  == {job[t] : t \in Working}
AtReturn == {t \in Working : wpc[t] \in {"lockSelf", "reclaim"}}
Returned == {job[t] : t \in AtReturn}

(* A job has one owner until its slot is given back: a dispatcher inside   *)
(* its call, or a thread that works.                                       *)
OwnInv ==
  /\ \A d \in Dispatcher : Calling(d) => djob[d] \in Job /\ fate[djob[d]] = "called"
  /\ \A d, e \in Dispatcher : Calling(d) /\ Calling(e) /\ djob[d] = djob[e] => d = e
  /\ \A t \in Working : job[t] \in Job /\ fate[job[t]] # "new"
  /\ \A t, u \in Working : job[t] = job[u] => t = u
  /\ \A d \in Dispatcher, t \in Working : Calling(d) => djob[d] # job[t]

(* How a step of the pool changes the threads that work.                   *)
Kept       == Working' = Working /\ AtReturn' = AtReturn /\ UNCHANGED job
Starts(t, j) == /\ t \in Thread \ Working
                /\ Working' = Working \cup {t} /\ AtReturn' = AtReturn
                /\ job' = [job EXCEPT ![t] = j]
ReturnsAt(t) == /\ t \in Working \ AtReturn
                /\ Working' = Working /\ AtReturn' = AtReturn \cup {t}
                /\ UNCHANGED job
Finishes(t) == /\ t \in AtReturn
               /\ Working' = Working \ {t} /\ AtReturn' = AtReturn \ {t}
               /\ UNCHANGED job

(* A thread that runs a job or has returned from it works: it is busy and  *)
(* was not picked.                                                         *)
LEMMA RunnerWorks ==
  ASSUME Inv, NEW t \in Thread, wpc[t] \in {"run", "lockSelf", "reclaim"}
  PROVE  t \in Working
BY DEF Inv, ThreadInv, PickInv, Resting, Working

(* A dispatcher's step leaves the working threads alone, but for the two   *)
(* ways to start a job.                                                    *)
LEMMA DispatchWorks ==
  ASSUME Inv, NEW d \in Dispatcher, DispatchStep(d)
  PROVE  \/ Kept
         \/ \E t \in Thread : Starts(t, djob[d]) /\ dpc'[d] = "ready"
<1> USE DEF Inv
<1>1. CASE WaitIdle(d) \/ CreateFails(d)
  BY <1>1 DEF WaitIdle, CreateFails, Return, TypeOK, Kept, Working, AtReturn,
     poolVars, threadVars, closeVars
<1>2. ASSUME NEW t \in Thread, CreateThread(d, t)
      PROVE  Starts(t, djob[d]) /\ dpc'[d] = "ready"
  BY <1>2, NobodyHolds
     DEF CreateThread, Return, TypeOK, Starts, Working, AtReturn, closeVars
<1>3. CASE PickIdle(d)
  <2>1. IdleThreads # {}
    BY <1>3, CountedFinite, FS_EmptySet DEF PickIdle, IsIdle, CountersExact
  <2>2. PICK t \in IdleThreads : /\ state'  = [state EXCEPT ![t] = "busy"]
                                /\ target' = [target EXCEPT ![d] = t]
    BY <1>3, <2>1 DEF PickIdle
  <2>3. t \in Thread /\ state[t] = "idle" /\ \A e \in Dispatcher : dpc[e] # "assign"
    BY <1>3, NobodyHolds DEF IdleThreads, PickIdle
  <2>4. dpc' = [dpc EXCEPT ![d] = "assign"] /\ UNCHANGED <<job, wpc>>
    BY <1>3, <2>1 DEF PickIdle
  <2>5. Working' = Working
    BY <2>2, <2>3, <2>4 DEF TypeOK, Working
  <2> QED
    BY <2>4, <2>5 DEF Kept, AtReturn
<1>4. CASE Assign(d)
  <2>1. PICK t \in Thread : t = target[d] /\ state[t] = "busy" /\ Resting(t)
    BY <1>4 DEF Assign, PickInv
  <2>2. threads_lock = d /\ \A e \in Dispatcher : dpc[e] = "assign" => e = d
    BY <1>4 DEF Assign, LockInv
  <2>3. t \notin Working /\ Working' = Working \cup {t}
    BY <1>4, <2>1, <2>2 DEF Assign, Return, TypeOK, Working
  <2>4. wpc[t] \notin {"lockSelf", "reclaim"} /\ Signalled(t) \notin {"lockSelf", "reclaim"}
    BY <2>1 DEF Resting, Signalled
  <2>5. wpc' = [wpc EXCEPT ![t] = Signalled(t)] /\ job' = [job EXCEPT ![t] = djob[d]]
        /\ dpc'[d] = "ready"
    BY <1>4, <2>1 DEF Assign, Return, TypeOK
  <2>6. AtReturn' = AtReturn
    BY <2>3, <2>4, <2>5 DEF TypeOK, AtReturn, Working
  <2> QED
    BY <2>3, <2>5, <2>6 DEF Starts
<1> QED
  BY <1>1, <1>2, <1>3, <1>4 DEF DispatchStep

(* A step of a thread returns from a job, gives its slot back, or neither. *)
LEMMA ThreadWorks ==
  ASSUME Inv, SpuriousWakeup = FALSE, NEW t \in Thread, ThreadStep(t)
  PROVE  Kept \/ ReturnsAt(t) \/ Finishes(t)
<1> USE DEF Inv, TypeOK, Goto, Working, AtReturn, callVars, poolVars, closeVars
<1>1. CASE Check(t)
  BY <1>1 DEF Check, Kept
<1>2. CASE Run(t)
  <2>1. t \in Working
    BY <1>2, RunnerWorks DEF Run
  <2> QED
    BY <1>2, <2>1 DEF Run, ReturnsAt
<1>3. CASE LockSelf(t)
  BY <1>3 DEF LockSelf, Kept
<1>4. CASE Reclaim(t)
  <2>1. t \in Working /\ t \notin IdleThreads
    BY <1>4, RunnerWorks DEF Reclaim, IdleThreads
  <2>2. idle_threads < MaxThreads
    BY <2>1, RoomForIdle
  <2> QED
    BY <1>4, <2>1, <2>2 DEF Reclaim, PutIdle, Finishes
<1>5. CASE SignalIdle(t)
  BY <1>5 DEF SignalIdle, Kept
<1>6. CASE Sleep(t)
  BY <1>6 DEF Sleep, Kept
<1>7. CASE Wake(t)
  BY <1>7 DEF Wake, MayReturn, Kept
<1>8. CASE Exit(t)
  BY <1>8 DEF Exit, Kept
<1> QED
  BY <1>1, <1>2, <1>3, <1>4, <1>5, <1>6, <1>7, <1>8 DEF ThreadStep

(* The shutdown touches no thread that works.                              *)
LEMMA CloseWorks ==
  ASSUME Inv, SpuriousWakeup = FALSE, Shutdown \/ CloseStep
  PROVE  Kept
<1> USE DEF TypeOK, Inv, Kept, Working, AtReturn, poolVars, threadVars, callVars
<1>1. CASE Shutdown
  BY <1>1 DEF Shutdown
<1>2. CASE FullWoken \/ WaitEmpty \/ Destroy
  BY <1>2 DEF FullWoken, WaitEmpty, Destroy
<1>3. ASSUME NEW t \in Thread, SignalThread(t) PROVE Kept
  BY <1>3 DEF SignalThread, Signalled
<1> QED
  BY <1>1, <1>2, <1>3 DEF CloseStep

-----------------------------------------------------------------------------
(* A step that only moves threads keeps the owners.                        *)
LEMMA OwnKept ==
  ASSUME TypeOK, OwnInv, Working' \subseteq Working, UNCHANGED <<job, djob>>,
         \A d \in Dispatcher : dpc'[d] \in {"lock", "waitIdle", "assign"} => Calling(d),
         \A j \in Job : fate[j] # "new" => fate'[j] # "new",
         \A d \in Dispatcher : Calling(d) => fate'[djob[d]] = fate[djob[d]]
  PROVE  OwnInv'
BY DEF OwnInv, Calling

(* The owner of a job changes with the steps that hand it over.            *)
LEMMA OwnNext ==
  ASSUME Inv, OwnInv, SpuriousWakeup = FALSE, [Next]_vars
  PROVE  OwnInv'
<1> TypeOK
  BY DEF Inv
<1>1. CASE UNCHANGED vars
  BY <1>1, OwnKept
     DEF vars, poolVars, threadVars, callVars, closeVars, Working, Calling
<1>2. ASSUME NEW d \in Dispatcher, NEW j \in Job, Call(d, j) PROVE OwnInv'
  <2>1. Working' = Working
    BY <1>2 DEF Call, Working, TypeOK, threadVars
  <2> QED
    BY <1>2, <2>1 DEF Call, TypeOK, OwnInv, Calling, threadVars
<1>3. ASSUME NEW d \in Dispatcher, DispatchStep(d) PROVE OwnInv'
  <2>1. /\ \A e \in Dispatcher \ {d} : dpc'[e] = dpc[e] /\ djob'[e] = djob[e]
        /\ Calling(d)
        /\ \/ UNCHANGED <<fate, djob>> /\ dpc'[d] \in {"waitIdle", "assign"}
           \/ dpc'[d] = "ready" /\ UNCHANGED fate
           \/ dpc'[d] = "ready" /\ fate' = [fate EXCEPT ![djob[d]] = "dropped"]
    BY <1>3 DEF DispatchStep, WaitIdle, CreateThread, CreateFails, PickIdle,
       Assign, Return, Calling, TypeOK, CallPc
  <2>2. CASE Kept
    BY <2>1, <2>2 DEF Kept, TypeOK, OwnInv, Calling
  <2>3. ASSUME NEW t \in Thread, Starts(t, djob[d]), dpc'[d] = "ready"
        PROVE  OwnInv'
    BY <1>3, <2>1, <2>3 DEF Starts, TypeOK, OwnInv, Calling
  <2> QED
    BY <1>3, <2>2, <2>3, DispatchWorks
<1>4. ASSUME NEW t \in Thread, ThreadStep(t) PROVE OwnInv'
  <2>1. Working' \subseteq Working /\ UNCHANGED job
    BY <1>4, ThreadWorks DEF Kept, ReturnsAt, Finishes
  <2>2. /\ UNCHANGED djob
        /\ \A d \in Dispatcher : dpc'[d] \in {"lock", "waitIdle", "assign"} => Calling(d)
    BY <1>4 DEF ThreadStep, Check, Run, LockSelf, Reclaim, SignalIdle, Sleep, Wake,
       Exit, callVars, Calling, TypeOK
  <2>3. CASE UNCHANGED fate
    BY <2>1, <2>2, <2>3, OwnKept
  <2>4. CASE Run(t)
    <3>1. t \in Working
      BY <2>4, RunnerWorks DEF Run
    <3>2. /\ \A j \in Job : fate[j] # "new" => fate'[j] # "new"
          /\ \A d \in Dispatcher : Calling(d) => fate'[djob[d]] = fate[djob[d]]
      BY <2>4, <3>1 DEF Run, OwnInv, TypeOK
    <3> QED
      BY <2>1, <2>2, <3>2, OwnKept
  <2> QED
    BY <1>4, <2>3, <2>4 DEF ThreadStep, Check, LockSelf, Reclaim, SignalIdle,
       Sleep, Wake, Exit
<1>5. CASE Shutdown \/ CloseStep
  <2>1. Working' = Working /\ UNCHANGED job
    BY <1>5, CloseWorks DEF Kept
  <2>2. UNCHANGED <<callVars, fate>>
    BY <1>5 DEF Shutdown, CloseStep, FullWoken, SignalThread, WaitEmpty, Destroy
  <2> QED
    BY <2>1, <2>2, OwnKept DEF callVars, Calling
<1> QED
  BY <1>1, <1>2, <1>3, <1>4, <1>5 DEF Next

-----------------------------------------------------------------------------
(* The working threads are live, so their jobs are no more than threads_num; *)
(* and one thread that does not work leaves a slot.                        *)
LEMMA SlotFree ==
  ASSUME Inv, NEW t \in Thread \ Working
  PROVE  Cardinality(Running) < MaxThreads
<1> DEFINE f == [u \in Working |-> job[u]]
<1>1. IsFiniteSet(Thread) /\ Working \in SUBSET Thread /\ Cardinality(Thread) = MaxThreads
  BY PoolAssumption DEF PoolAssumption, Working
<1>2. /\ IsFiniteSet(Working) /\ Cardinality(Working) \in Nat
      /\ Cardinality(Working) <= Cardinality(Thread)
      /\ Cardinality(Working) # Cardinality(Thread)
  <2>1. Working # Thread
    OBVIOUS
  <2> QED
    BY <1>1, <2>1, FS_Subset, FS_CardinalityType
<1>3. f \in Surjection(Working, Running)
  BY DEF Running, Surjection
<1>4. Cardinality(Running) <= Cardinality(Working) /\ Cardinality(Running) \in Nat
  BY <1>2, <1>3, FS_Surjection, FS_CardinalityType
<1>5. MaxThreads \in Nat
  BY PoolAssumption DEF PoolAssumption
<1> QED
  BY <1>1, <1>2, <1>4, <1>5

(* Nothing happens to the abstract pool. *)
LEMMA KeptStutters ==
  ASSUME Kept PROVE UNCHANGED <<Running, Returned>>
BY DEF Kept, Running, Returned

(* WorkerPool counts as this module does. *)
LEMMA SameCount ==
  ASSUME NEW S
  PROVE  WP!Cardinality(S) = Cardinality(S)
BY DEF WP!Cardinality, Cardinality

(* A thread that gets its job takes a slot. *)
LEMMA StartsStep ==
  ASSUME Inv, OwnInv, NEW d \in Dispatcher, Calling(d),
         NEW t \in Thread, Starts(t, djob[d])
  PROVE  \E j \in Job : WP!Start(j)
<1>1. djob[d] \in Job /\ djob[d] \notin Running
  BY DEF OwnInv, Running
<1>2. Cardinality(Running) < MaxThreads
  BY SlotFree DEF Starts
<1>3. job'[t] = djob[d] /\ \A u \in Thread \ {t} : job'[u] = job[u]
  BY DEF Starts, Inv, TypeOK
<1>4. Working \subseteq Thread /\ AtReturn \subseteq Working /\ t \notin Working
  BY DEF Working, AtReturn, Starts
<1>5. Running' = Running \cup {djob[d]}
  BY <1>3, <1>4 DEF Running, Starts
<1>6. Returned' = Returned
  BY <1>3, <1>4 DEF Returned, Starts
<1> QED
  BY <1>1, <1>2, <1>5, <1>6, SameCount DEF WP!Start, Running, Returned, AtReturn

(* A job that returns keeps its slot. *)
LEMMA ReturnsStep ==
  ASSUME OwnInv, NEW t \in Thread, ReturnsAt(t)
  PROVE  \E j \in Job : WP!Returns(j)
<1>1. job[t] \in Job /\ job[t] \in Running /\ job[t] \notin Returned
  BY DEF OwnInv, Running, Returned, AtReturn, ReturnsAt
<1>2. Running' = Running /\ Returned' = Returned \cup {job[t]}
  BY DEF Running, Returned, ReturnsAt
<1> QED
  BY <1>1, <1>2 DEF WP!Returns, Running, Returned, AtReturn

(* A slot is given back by the thread of a job that returned. *)
LEMMA FinishesStep ==
  ASSUME OwnInv, NEW t \in Thread, Finishes(t)
  PROVE  \E j \in Job : WP!Finish(j)
<1>1. t \in Working /\ AtReturn \subseteq Working
  BY DEF Finishes, AtReturn
<1>2. job[t] \in Job /\ job[t] \in Returned
  BY <1>1 DEF OwnInv, Returned, Finishes
<1>3. Running' = Running \ {job[t]} /\ Returned' = Returned \ {job[t]}
  BY <1>1 DEF OwnInv, Running, Returned, Finishes
<1> QED
  BY <1>2, <1>3 DEF WP!Finish, Running, Returned, AtReturn

(* Every step of the pool is a step of WorkerPool, or none.                *)
LEMMA PoolStep ==
  ASSUME Inv, OwnInv, SpuriousWakeup = FALSE, [Next]_vars
  PROVE  [WP!PoolNext]_<<Running, Returned>>
<1>1. CASE UNCHANGED vars
  <2>1. Kept
    BY <1>1 DEF Kept, Working, AtReturn, vars, threadVars, callVars
  <2> QED
    BY <2>1, KeptStutters
<1>2. ASSUME NEW d \in Dispatcher, NEW j \in Job, Call(d, j) PROVE Kept
  BY <1>2 DEF Call, Kept, Working, AtReturn, Inv, TypeOK, threadVars
<1>3. ASSUME NEW d \in Dispatcher, DispatchStep(d)
      PROVE  Kept \/ \E j \in Job : WP!Start(j)
  <2>1. Calling(d)
    BY <1>3 DEF DispatchStep, WaitIdle, CreateThread, CreateFails, PickIdle, Assign, Calling
  <2> QED
    BY <1>3, <2>1, DispatchWorks, StartsStep
<1>4. ASSUME NEW t \in Thread, ThreadStep(t)
      PROVE  Kept \/ \E j \in Job : WP!Returns(j) \/ WP!Finish(j)
  BY <1>4, ThreadWorks, ReturnsStep, FinishesStep
<1>5. CASE Shutdown \/ CloseStep
  BY <1>5, CloseWorks, KeptStutters
<1> QED
  BY <1>1, <1>2, <1>3, <1>4, <1>5, KeptStutters DEF Next, WP!PoolNext

(* A job handed to thread_dispatch_with_tp() takes one of max_threads      *)
(* slots and gives it back only when it has returned: the pool of threads, *)
(* locks and conditions is, to its callers, that of WorkerPool.            *)
THEOREM PoolImplementsWorkerPool ==
  ASSUME SpuriousWakeup = FALSE
  PROVE  Spec => ImplementsWorkerPool
<1>1. Init => OwnInv
  BY DEF Init, OwnInv, Calling, Working
<1>2. Inv /\ OwnInv /\ [Next]_vars => OwnInv'
  BY OwnNext
<1>3. Init => WP!PoolInit
  BY DEF Init, WP!PoolInit, Working
<1>4. Inv /\ OwnInv /\ [Next]_vars
        => [WP!PoolNext]_<<{job[t] : t \in Working},
                           {job[t] : t \in {u \in Working : wpc[u] \in {"lockSelf", "reclaim"}}}>>
  BY PoolStep DEF Running, Returned, AtReturn
<1> QED
  BY <1>1, <1>2, <1>3, <1>4, SpecInv, PTL DEF Spec, ImplementsWorkerPool, WP!PoolSpec
=============================================================================
