------------------------------- MODULE DbPool -------------------------------
(***************************************************************************)
(* The pool of MySQL handles of Server/Lib/lib-db.c: a counting semaphore  *)
(* in front of a list of handles under a mutex.  gas opens it before any   *)
(* thread exists (ras_init); every login borrows one handle                *)
(* (gas_db_user_info) and every server list one (gas_db_server_info).      *)
(***************************************************************************)
EXTENDS Integers, FiniteSets

CONSTANTS Client,      \* the threads that borrow handles
          Handle,      \* the db_handle_t that db_pool_init() opens
          Nil          \* no handle

ASSUME DbAssumption ==
  /\ IsFiniteSet(Handle) /\ Handle # {}
  /\ IsFiniteSet(Client)
  /\ Nil \notin Handle

VARIABLES
  sem,       \* db_pool.sem
  pool,      \* "open"; after db_pool_finl() "closed", or "broken" if it failed
  listed,    \* the handles of handle_list
  state,     \* [Handle -> "IDLE" or "BUSY"]
  pc,        \* where each client is
  held       \* the handle a client got from db_get_handle()

vars == <<sem, pool, listed, state, pc, held>>

ClientPc == {"out", "scan", "using", "post", "null"}

(* db_pool_init(): every handle idle, the semaphore counts them. *)
Init ==
  /\ sem    = Cardinality(Handle)
  /\ pool   = "open"
  /\ listed = Handle
  /\ state  = [h \in Handle |-> "IDLE"]
  /\ pc     = [c \in Client |-> "out"]
  /\ held   = [c \in Client |-> Nil]

Idle == {h \in listed : state[h] = "IDLE"}

-----------------------------------------------------------------------------
(* _db_get_handle() *)

(* Seeded fault: the semaphore is counted down and does not block. *)
EnterAnyway(c) ==
  /\ pc[c] = "out" /\ pool # "closed"
  /\ sem' = sem - 1
  /\ pc'  = [pc EXCEPT ![c] = "scan"]
  /\ UNCHANGED <<pool, listed, state, held>>

(* sem_wait: blocks while the semaphore is zero. *)
SemWait(c) ==
  /\ pc[c] = "out" /\ pool # "closed" /\ sem > 0
  /\ sem' = sem - 1
  /\ pc'  = [pc EXCEPT ![c] = "scan"]
  /\ UNCHANGED <<pool, listed, state, held>>

(* A pool without handles (count <= 0) answers NULL at once. *)
Refuse(c) ==
  /\ pc[c] = "out" /\ pool = "closed"
  /\ pc' = [pc EXCEPT ![c] = "null"]
  /\ UNCHANGED <<sem, pool, listed, state, held>>

(* Seeded fault: the handle found is not marked. *)
ScanUnmarked(c) ==
  /\ pc[c] = "scan"
  /\ \E h \in Idle : held' = [held EXCEPT ![c] = h]
  /\ pc' = [pc EXCEPT ![c] = "using"]
  /\ UNCHANGED <<sem, pool, listed, state>>

(* The list is searched under the lock for an idle handle; NULL if there   *)
(* is none.  Which idle handle comes first in the list is left open.       *)
Scan(c) ==
  /\ pc[c] = "scan"
  /\ IF Idle = {}
     THEN pc' = [pc EXCEPT ![c] = "null"] /\ UNCHANGED <<state, held>>
     ELSE \E h \in Idle :
            /\ state' = [state EXCEPT ![h] = "BUSY"]
            /\ held'  = [held EXCEPT ![c] = h]
            /\ pc'    = [pc EXCEPT ![c] = "using"]
  /\ UNCHANGED <<sem, pool, listed>>

(* A caller that got NULL returns, and puts nothing back. *)
GiveUp(c) ==
  /\ pc[c] = "null"
  /\ pc' = [pc EXCEPT ![c] = "out"]
  /\ UNCHANGED <<sem, pool, listed, state, held>>

-----------------------------------------------------------------------------
(* db_put_handle() *)

(* Under the lock: the handle is idle again. *)
PutIdle(c) ==
  /\ pc[c] = "using"
  /\ state' = [state EXCEPT ![held[c]] = "IDLE"]
  /\ held'  = [held EXCEPT ![c] = Nil]
  /\ pc'    = [pc EXCEPT ![c] = "post"]
  /\ UNCHANGED <<sem, pool, listed>>

(* Seeded fault: the semaphore is not given back. *)
PostForgotten(c) ==
  /\ pc[c] = "post"
  /\ pc' = [pc EXCEPT ![c] = "out"]
  /\ UNCHANGED <<sem, pool, listed, state, held>>

(* sem_post, after the lock was released. *)
SemPost(c) ==
  /\ pc[c] = "post"
  /\ sem' = sem + 1
  /\ pc'  = [pc EXCEPT ![c] = "out"]
  /\ UNCHANGED <<pool, listed, state, held>>

-----------------------------------------------------------------------------
(* db_pool_finl() *)

(* Every handle is idle: all are closed, and the pool with them. *)
Finl ==
  /\ pool # "closed" /\ Idle = listed
  /\ pool'   = "closed"
  /\ listed' = {}
  /\ UNCHANGED <<sem, state, pc, held>>

(* The handles before the first busy one of the list are closed before     *)
(* the walk meets it and gives up; the semaphore still counts them.        *)
FinlFails ==
  /\ pool # "closed" /\ Idle # listed
  /\ \E gone \in SUBSET Idle : listed' = listed \ gone
  /\ pool' = "broken"
  /\ UNCHANGED <<sem, state, pc, held>>

-----------------------------------------------------------------------------
ClientStep(c) ==
  SemWait(c) \/ Scan(c) \/ GiveUp(c) \/ PutIdle(c) \/ SemPost(c) \/ Refuse(c)

Next == (\E c \in Client : ClientStep(c)) \/ Finl \/ FinlFails

(* A client that has a handle gives it back: a query ends, and both        *)
(* callers reach db_put_handle() on every path.  sem_wait itself promises  *)
(* no client its turn.                                                     *)
Fairness == \A c \in Client : WF_vars(Scan(c) \/ GiveUp(c) \/ PutIdle(c) \/ SemPost(c))

Spec     == Init /\ [][Next]_vars
FairSpec == Spec /\ Fairness

-----------------------------------------------------------------------------
(* Properties. *)

TypeOK ==
  /\ sem \in Nat
  /\ pool \in {"open", "closed", "broken"}
  /\ listed \subseteq Handle
  /\ state \in [Handle -> {"IDLE", "BUSY"}]
  /\ pc \in [Client -> ClientPc]
  /\ held \in [Client -> Handle \cup {Nil}]

At(p) == {c \in Client : pc[c] = p}

(* An idle handle is counted by the semaphore, or is owed to a client      *)
(* between sem_wait and the search, or to the sem_post of one that has     *)
(* just put it back.                                                       *)
SemCountsIdle ==
  pool = "open" =>
    Cardinality(Idle) = sem + Cardinality(At("scan")) + Cardinality(At("post"))

(* "It will block client if no handle is idle" (lib-db.c:18-20): a caller  *)
(* that passed sem_wait finds a handle, and NULL, which both callers take  *)
(* for success, is never the answer of an open pool.                       *)
NeverNull == pool = "open" => At("null") = {}

(* A MYSQL connection is used by one thread at a time.                     *)
HandleExclusive ==
  \A c \in Client : pc[c] = "using" =>
    /\ held[c] \in listed /\ state[held[c]] = "BUSY"
    /\ \A d \in Client : held[d] = held[c] => d = c

(* The pool does not jam: an exhausted semaphore is posted again.          *)
NeverJams == (sem = 0) ~> (sem > 0 \/ pool # "open")
=============================================================================
