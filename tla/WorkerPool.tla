----------------------------- MODULE WorkerPool -----------------------------
(***************************************************************************)
(* What Server/Lib/lib-thread.c promises its callers: a job handed to      *)
(* thread_dispatch_with_tp() starts when one of at most MaxThreads slots   *)
(* is free, and keeps its slot until it has returned.  The module knows    *)
(* nothing of threads, locks or condition variables: ThreadPool is shown   *)
(* to implement it, and MsgConsumer is composed with it.                   *)
(***************************************************************************)
EXTENDS Naturals, FiniteSets

CONSTANTS Job,         \* the jobs (pfunc, arg1, arg2) a caller may hand over
          MaxThreads   \* max_threads of the pool

VARIABLES running,     \* the jobs that hold a slot
          returned     \* those among them whose function has returned

PoolInit == running = {} /\ returned = {}

(* A free slot takes the job. *)
Start(j) == /\ j \notin running
            /\ Cardinality(running) < MaxThreads
            /\ running' = running \cup {j}
            /\ UNCHANGED returned

(* The function of the job returns; the slot is not free yet. *)
Returns(j) == /\ j \in running \ returned
              /\ returned' = returned \cup {j}
              /\ UNCHANGED running

(* The slot is given back, which only a job that returned can do. *)
Finish(j) == /\ j \in returned
             /\ running'  = running \ {j}
             /\ returned' = returned \ {j}

PoolNext == \E j \in Job : Start(j) \/ Returns(j) \/ Finish(j)

PoolSpec == PoolInit /\ [][PoolNext]_<<running, returned>>
=============================================================================
